-------------------------- MODULE MCOffsetManager --------------------------
(***************************************************************************)
(* TLC instance of OffsetManager: two channels, so that clearAll reaches   *)
(* past the channel of the other calls, and two positions.                 *)
(***************************************************************************)
EXTENDS OffsetManager, TLC

Symmetry == Permutations(Channel) \cup Permutations(Position)

=============================================================================
