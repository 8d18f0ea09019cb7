------------------------------ MODULE MCCompliance ------------------------------
(* Compliance, and Notify beside it, for TLC.  `part` says what a behaviour is     *)
(* about: rules that are remediated automatically, with a user beside the sweep; a *)
(* baseline that is, with the drift check beside it; or traps and the alerts and   *)
(* messages they lead to.                                                          *)
EXTENDS Compliance, FiniteSets, TLC

CONSTANTS Trap, Receiver, Hook, None, MaxAttempts, MaxMishaps

\* None stands for no answer, no attempt and no subscription.
ASSUME NotifyAssumption ==
    /\ Cardinality(Trap) \in Nat /\ Trap = 1..Cardinality(Trap)
    /\ Hook \in Receiver /\ MaxAttempts \in Nat \ {0}
    /\ None \notin {"asked", "on", "off", "known", "unknown"}
    /\ None \notin [tries : 0..MaxAttempts, state : {"trying", "ok", "gave up"}]

VARIABLES part,
          handling, came, says, device, quiet, open, resolved, sends, got, works, subscribed,
          subs, asking, cut, mixed, mishaps

\* r1 wants line a, r2 forbids line b.
Lines == [r \in Rule |-> IF r = "r1" THEN "a" ELSE "b"]

Drift == INSTANCE Compliance WITH
    MasterSwitch <- FALSE, BaselineAuto <- TRUE, RestoreOnFail <- TRUE

Traps == INSTANCE Notify WITH
    todo <- handling, window <- quiet, closed <- resolved, enabled <- subscribed

trapVars == <<handling, came, says, device, quiet, open, resolved, sends, got, works, subscribed,
              subs, asking, cut, mixed, mishaps>>
all == <<part, vars, trapVars>>

PartInit ==
    /\ part \in {"rules", "baseline", "traps"}
    /\ Init /\ Traps!Init
    /\ part # "traps" => subscribed = "on"
    \* two events: a baseline is set and lost again
    /\ live = IF part = "baseline" THEN Line ELSE {}

PartNext ==
    /\ UNCHANGED part
    /\ \/ part = "rules" /\ Next /\ Free("drift")' /\ UNCHANGED trapVars
       \/ part = "baseline" /\ Drift!Next /\ Free("user")' /\ UNCHANGED trapVars
       \/ part = "traps" /\ Traps!Next /\ UNCHANGED vars

PartSpec ==
    /\ PartInit /\ [][PartNext]_all
    /\ \A a \in Actor :
          WF_vars((part = "rules" /\ ActorStep(a)) \/ (part = "baseline" /\ Drift!ActorStep(a)))
    /\ SF_vars(part # "traps" /\ Sweep(TRUE)) /\ WF_vars(part = "baseline" /\ DriftCheck)
    /\ \A t \in Trap :
         /\ WF_trapVars(part = "traps" /\ (Traps!Handle(t) \/ Traps!ReadSubs(t) \/ Traps!HaveSubs(t)))
         /\ \A r \in Receiver : WF_trapVars(part = "traps" /\ Traps!Attempt(t, r, FALSE))
    /\ WF_trapVars(part = "traps" /\ Traps!CachesExpire)

\* The type invariant and the liveness of Compliance, each property in the behaviours it is
\* about: results settle on what the device runs, and automatic fixes and the baseline get there.
DevicesComply ==
    /\ []TypeOK
    /\ <>[]up => <>[](part # "traps" => Settled)
    /\ <>[](up /\ ~window) => <>[](part = "rules" => FailuresFixed)
    /\ <>[]up => <>[](part = "baseline" => BaselineLines)
\* The type invariant of Notify, and the alerts of traps handled one after the other.
AlertShowsLink == Traps!TypeOK /\ Traps!AlertShowsLink
\* The liveness of Notify.
AlertsGoOut == Traps!AlertsAreAnnounced /\ Traps!SubscriptionsFollow
=============================================================================
