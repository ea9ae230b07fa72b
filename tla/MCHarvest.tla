----------------------------- MODULE MCHarvest -----------------------------
(* Small instances of Harvest.                                             *)
EXTENDS Harvest, TLC

CONSTANTS bls, qwi, garbled, key

(* A BLS request, and a QWI task of two quarters of which one may be       *)
(* answered with what the normalizer refuses.                              *)
TwoTasks == <<<<{bls}>>, <<{garbled}, {qwi}>>>>

(* Every content is about the same key.                                    *)
Reads == [c \in Contents |-> <<key>>]

Symmetry == Permutations(Sessions)
=============================================================================
