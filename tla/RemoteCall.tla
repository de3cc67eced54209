----------------------------- MODULE RemoteCall -----------------------------
(***************************************************************************)
(* What the server may count on for a tool call it has pushed: the tool is *)
(* started at most once, the call gets one verdict - a refusal without a   *)
(* start, anything else only from a tool that was started - and however    *)
(* often the verdict is reported, it is the same one.  Where even that     *)
(* cannot be kept the call is lost, which is final and promises nothing.   *)
(***************************************************************************)
CONSTANTS
    Call,
    Verdict,
    Refusal     \* a member of Verdict

VARIABLES
    phase,      \* how far each call has come
    verdict,    \* its verdict, as a set of at most one
    told        \* what the server was told

vars == <<phase, verdict, told>>

Init ==
    /\ phase = [c \in Call |-> "unknown"]
    /\ verdict = [c \in Call |-> {}]
    /\ told = [c \in Call |-> {}]

At(c, p) == phase[c] = p
GoTo(c, p) == phase' = [phase EXCEPT ![c] = p]

Push(c) ==
    /\ At(c, "unknown")
    /\ GoTo(c, "pushed")
    /\ UNCHANGED <<verdict, told>>

Start(c) ==
    /\ At(c, "pushed")
    /\ GoTo(c, "started")
    /\ UNCHANGED <<verdict, told>>

Decide(c, v) ==
    /\ At(c, "started") \/ (At(c, "pushed") /\ v = Refusal)
    /\ GoTo(c, "decided")
    /\ verdict' = [verdict EXCEPT ![c] = {v}]
    /\ UNCHANGED told

Tell(c) ==
    /\ At(c, "decided")
    /\ told' = [told EXCEPT ![c] = verdict[c]]
    /\ UNCHANGED <<phase, verdict>>

Lose(c) ==
    /\ ~At(c, "unknown")
    /\ GoTo(c, "lost")
    /\ verdict' = [verdict EXCEPT ![c] = {}]
    /\ told' = [told EXCEPT ![c] = {}]

Next == \E c \in Call :
    Push(c) \/ Start(c) \/ (\E v \in Verdict : Decide(c, v)) \/ Tell(c) \/ Lose(c)

Spec == Init /\ [][Next]_vars

=============================================================================
