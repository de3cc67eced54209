----------------------------- MODULE MCFileSync -----------------------------
(* FileSync with interchangeable calls. *)
EXTENDS FileSync, TLC

Ops == Permutations(Op)

=============================================================================
