---------------------------- MODULE MCMessageSync ----------------------------
(* MessageSync with interchangeable messages. *)
EXTENDS MessageSync, TLC

Messages == Permutations(Msg)

=============================================================================
