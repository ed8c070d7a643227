-------------------------- MODULE MCProgressChannel --------------------------
(* Small instances of ProgressChannel for TLC. The buffer is scaled down so   *)
(* that a stream can fall behind it.                                          *)
EXTENDS ProgressChannel, TLC

CONSTANTS r1, r2

Transfers == [r \in Requests |-> "transfer"]
Mixed     == r1 :> "transfer" @@ r2 :> "apply"

Symmetry == Permutations(Requests)
=============================================================================
