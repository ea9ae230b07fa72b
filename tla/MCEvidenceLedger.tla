------------------------- MODULE MCEvidenceLedger -------------------------
(* Small instances of EvidenceLedger. *)
EXTENDS EvidenceLedger, TLC

Symmetry == Permutations(Sessions \ Swallowers)
=============================================================================
