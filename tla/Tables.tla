------------------------------- MODULE Tables -------------------------------
(***************************************************************************)
(* What the normalizers and the calculators do with a table, a function    *)
(* from keys to values: one put over another, and the sum of its values.   *)
(***************************************************************************)
EXTENDS Integers, Sequences, FiniteSets, SequencesExt, FiniteSetsExt, TLC

(* What is new hides what was there before (f @@ g, written out).          *)
Over(new, old) == [k \in DOMAIN new \cup DOMAIN old |-> IF k \in DOMAIN new THEN new[k] ELSE old[k]]

(* Layer upon layer: of what is there twice the last counts. *)
Layered(layers, known) == FoldLeft(LAMBDA below, layer : Over(layer, below), known, layers)

SumOf(table) == MapThenSumSet(LAMBDA k : table[k], DOMAIN table)
=============================================================================
