------------------------------ MODULE TopicLog ------------------------------
(***************************************************************************)
(* What a consumer of a numbered log promises: every entry is stored       *)
(* before the position that stands for it is committed, in two writes that *)
(* a crash may separate.  Entries may arrive in any order, more than once, *)
(* and ahead of the position; the position may only rest on a prefix that  *)
(* is stored, so that a consumer that starts again from it loses nothing.  *)
(* Nothing stored is ever withdrawn.                                       *)
(***************************************************************************)
EXTENDS Naturals

VARIABLES
    head,       \* length of the log
    stored,     \* entries the consumer has
    position    \* where it would start again

vars == <<head, stored, position>>

Init ==
    /\ head \in Nat
    /\ position \in 0..head
    /\ stored = 1..position

Extend == head' = head + 1 /\ UNCHANGED <<stored, position>>

Store ==
    /\ \E S \in SUBSET (1..head) : stored' = stored \cup S
    /\ UNCHANGED <<head, position>>

Commit ==
    /\ \E n \in 0..head : 1..n \subseteq stored /\ position' = n
    /\ UNCHANGED <<head, stored>>

Next == Extend \/ Store \/ Commit

Spec == Init /\ [][Next]_vars

=============================================================================
