------------------------------- MODULE MCLocks -------------------------------
(* The locks that replicas share, for TLC: the per-device lock with a healthy  *)
(* Redis and with one that comes and goes, and the scheduler's leadership.     *)
(* `part` says which of them a behaviour is about; the rest stands still.      *)
EXTENDS SshPool, TLC

CONSTANTS FlakyCall, Replica, Device, Limit, Silent, MaxSessions, MaxFaults

ASSUME SessionAssumption == MaxSessions \in Nat
ASSUME FlakyAssumption == None \notin FlakyCall

VARIABLES part,
          fpool, fsession, frecent, fchain, fcreated, fpc, fproc, fmine,
          fgranted, flock, freleasing, fredisUp,
          client, leader, asked, opened, alive, lost, holder, up, queue, busy, faults

flakyVars == <<fpool, fsession, frecent, fchain, fcreated, fpc, fproc, fmine,
               fgranted, flock, freleasing, fredisUp>>
leaderVars == <<client, leader, asked, opened, alive, lost, holder, up, queue, busy, faults>>

Flaky == INSTANCE SshPool WITH
    Redis <- "flaky", Call <- FlakyCall,
    pool <- fpool, session <- fsession, recent <- frecent, chain <- fchain,
    created <- fcreated, pc <- fpc, proc <- fproc, mine <- fmine, granted <- fgranted,
    lock <- flock, releasing <- freleasing, redisUp <- fredisUp
Election == INSTANCE LeaderElection

all == <<part, vars, flakyVars, leaderVars>>

LocksInit ==
    /\ part \in {"healthy", "flaky", "leader"}
    /\ Init /\ Flaky!Init /\ Election!Init

LocksNext ==
    /\ UNCHANGED part
    /\ \/ part = "healthy" /\ Next /\ UNCHANGED <<flakyVars, leaderVars>>
       \/ part = "flaky" /\ Flaky!Next /\ UNCHANGED <<vars, leaderVars>>
       \/ part = "leader" /\ Election!Next /\ UNCHANGED <<vars, flakyVars>>

\* SshPool's fairness, and of LeaderElection's what is enough: fairness of its steps
\* together, not of each.
LocksSpec ==
    /\ LocksInit /\ [][LocksNext]_all
    /\ WF_flakyVars(part = "flaky" /\ Flaky!LockExpires)
    /\ \A c \in FlakyCall :
         /\ WF_flakyVars(part = "flaky" /\ (Flaky!StartOver(c) \/ Flaky!Start(c)))
         /\ WF_flakyVars(part = "flaky" /\ (Flaky!LockGranted(c) \/ Flaky!LockForgone(c)))
         /\ WF_flakyVars(/\ part = "flaky"
                         /\ \/ Flaky!OpenSession(c) \/ Flaky!OperationFails(c)
                            \/ Flaky!OperationSucceeds(c))
         /\ WF_flakyVars(part = "flaky" /\ Flaky!ReleaseLock(c))
    /\ \A r \in Replica :
         /\ WF_leaderVars(/\ part = "leader"
                          /\ \/ Election!Connect(r) \/ Election!AskAgain(r) \/ Election!Answered(r)
                             \/ Election!Notice(r) \/ Election!Restart(r))
         /\ WF_leaderVars(/\ part = "leader"
                          /\ \/ Election!StartSweep(r) \/ Election!TakeDevice(r)
                             \/ Election!DoneWith(r))

-----------------------------------------------------------------------------
FlakyCallsSettle == Flaky!CallsSettle
\* The type invariants of both pools, and that only its owner or the TTL takes a lock away.
FlakyLockTakenBackByOwner == [](TypeOK /\ Flaky!TypeOK) /\ Flaky!LockTakenBackByOwner
\* The type invariant of LeaderElection, and that leading is backed by the lock.
LeaderHasLock == Election!TypeOK /\ Election!LeaderHasLock
\* Two leaders end, and every device is swept again and again.
OneSweepsAll ==
    Election!TwoLeadersEnd /\ \A d \in Device : []<>(part = "leader" => Election!Swept(d))
=============================================================================
