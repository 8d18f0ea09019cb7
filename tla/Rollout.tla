-------------------------------- MODULE Rollout --------------------------------
(* What a staged rollout promises: rings are taken one after the other and    *)
(* in order, the work of a ring is handed out at most once and only while the *)
(* rollout runs, and an abort is final.                                       *)
EXTENDS Naturals

CONSTANT Rings       \* how many rings there are

VARIABLES
    phase,           \* "draft", "running", "paused", "completed" or "aborted"
    at,              \* the ring the rollout has come to; 0 before the start
    handed           \* the rings whose work has been handed out

vars == <<phase, at, handed>>

Init == phase = "draft" /\ at = 0 /\ handed = {}

Start ==
    /\ phase = "draft" /\ Rings > 0
    /\ phase' = "running" /\ at' = 1
    /\ UNCHANGED handed

Advance ==
    /\ phase \in {"running", "paused"}
    /\ \/ at < Rings /\ at' = at + 1 /\ phase' = "running"
       \/ at = Rings /\ at' = at /\ phase' = "completed"
    /\ UNCHANGED handed

HandOut ==
    /\ phase = "running" /\ at \notin handed
    /\ handed' = handed \cup {at}
    /\ UNCHANGED <<phase, at>>

Pause == phase = "running" /\ phase' = "paused" /\ UNCHANGED <<at, handed>>
Abort == phase' = "aborted" /\ UNCHANGED <<at, handed>>

Next == Start \/ Advance \/ HandOut \/ Pause \/ Abort
Spec == Init /\ [][Next]_vars
=============================================================================
