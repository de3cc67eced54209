--------------------------- MODULE MCRtcProcessor ---------------------------
(* RtcProcessor with interchangeable tabs. *)
EXTENDS RtcProcessor, TLC

Tabs == Permutations(Tab)

=============================================================================
