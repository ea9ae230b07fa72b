----------------------------- MODULE HistoryLog -----------------------------
(***************************************************************************)
(* What the evidence ledger promises whoever reads it: one history of      *)
(* entries that only grows, in which every entry of a key is the next      *)
(* version of it and cites only entries that came before.                  *)
(***************************************************************************)
EXTENDS Naturals, Sequences

CONSTANT None

VARIABLE history

(* Entry n is version v of its key when v - 1 entries before it have that  *)
(* type and key, the last of which it supersedes; entries without a key    *)
(* have no versions.                                                       *)
Earlier(h, n) == {m \in 1 .. n - 1 : h[m].type = h[n].type /\ h[m].key = h[n].key}

NextVersion(h, n) ==
  IF h[n].key = None \/ Earlier(h, n) = {}
    THEN h[n].version = 1 /\ h[n].supersedes = None
    ELSE \E m \in Earlier(h, n) :
           /\ \A k \in Earlier(h, n) : k <= m
           /\ h[n].version = h[m].version + 1
           /\ h[n].supersedes = m

WellFounded(h, n) == NextVersion(h, n) /\ \A m \in h[n].refs : m \in 1 .. n - 1

Init == history = <<>>

Next ==
  /\ Len(history') > Len(history)
  /\ SubSeq(history', 1, Len(history)) = history
  /\ \A n \in Len(history) + 1 .. Len(history') : WellFounded(history', n)

Spec == Init /\ [][Next]_history
=============================================================================
