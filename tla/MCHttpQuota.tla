---------------------------- MODULE MCHttpQuota ----------------------------
(* A small instance of HttpQuota: a short window of three requests in a    *)
(* long one of four, which is as long as rows are kept.                    *)
EXTENDS HttpQuota, TLC

TwoLimits == {<<4, 3>>, <<5, 4>>}

Symmetry == Permutations(Clients)
=============================================================================
