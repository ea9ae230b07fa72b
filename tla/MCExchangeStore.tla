------------------------- MODULE MCExchangeStore -------------------------
(* Small instances of ExchangeStore. *)
EXTENDS ExchangeStore, TLC

Symmetry == Permutations(Employers)

(* What the next steps and the properties can see of a request: nothing of  *)
(* one that failed, and of an answered one who asked and its receipt.       *)
Seen(r) ==
  CASE worker[r].pc \in Answers \ {"ok"} -> <<>>
    [] worker[r].pc = "ok" -> <<worker[r].token, worker[r].receipt>>
    [] OTHER -> <<worker[r], work[r], lock = r>>

(* Two states are one when they have as many requests of every kind, which  *)
(* ones they are does not matter: requests are symmetric.                   *)
View ==
  <<up, crashes, disk, lock = None, probe,
    [seen \in {Seen(r) : r \in Requests} |-> Cardinality({r \in Requests : Seen(r) = seen})]>>

(* Bound: where the process dies, three requests are made in all, and four  *)
(* where it does not.                                                       *)
FewRequests == crashes = 0 \/ \E r \in Requests : worker[r].pc = "new"
=============================================================================
