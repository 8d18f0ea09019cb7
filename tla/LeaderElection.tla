----------------------------- MODULE LeaderElection -----------------------------
(***************************************************************************)
(* Scheduler leadership (leader.ts) and the device sweeps it gates          *)
(* (scheduler.ts, util/concurrency.ts).                                     *)
(*                                                                         *)
(* A session is a database connection of a replica; Postgres gives the      *)
(* advisory lock to one session and takes it back when the session ends.    *)
(* When a connection breaks, everything waiting on it is rejected and the   *)
(* client emits 'error' in one turn of the event loop: that is one step.    *)
(***************************************************************************)
EXTENDS Naturals, FiniteSets

CONSTANTS
    Replica,
    Device,
    None,
    Limit,        \* CONCURRENCY of a sweep
    Silent,       \* TRUE: a connection may be lost without the replica being told
    MaxSessions,  \* bound: connections ever opened
    MaxFaults     \* bound: crashes, lost connections and failed statements

VARIABLES
    client,       \* client[r]: the session `client` stands for
    leader,       \* leader[r]: `leader`
    asked,        \* asked[r]: pg_try_advisory_lock() of client[r] is under way
    opened,       \* sessions opened so far
    alive,        \* the sessions the server has
    lost,         \* sessions the server has not, but whose replica was not told
    holder,       \* the session that has the advisory lock
    up,           \* up[r]: the process runs
    queue,        \* queue[r]: devices r's sweep has not begun with
    busy,         \* busy[r]: devices r's sweep is at
    faults

election == <<client, leader, asked, opened, alive, lost, holder>>
sweeps == <<queue, busy>>
vars == <<election, sweeps, up, faults>>

Session == 1..MaxSessions

Init ==
    /\ client = [r \in Replica |-> None]
    /\ leader = [r \in Replica |-> FALSE]
    /\ asked = [r \in Replica |-> FALSE]
    /\ opened = 0 /\ alive = {} /\ lost = {}
    /\ holder = None
    /\ up = [r \in Replica |-> TRUE]
    /\ queue = [r \in Replica |-> {}]
    /\ busy = [r \in Replica |-> {}]
    /\ faults = 0

Fault == faults < MaxFaults /\ faults' = faults + 1
Released(s) == IF holder = s THEN None ELSE holder

-----------------------------------------------------------------------------
(* ensureLeadership(), every RETRY_MS. *)

\* No client: a new one is connected, and asked at once unless `leader` says otherwise.
Connect(r) ==
    /\ up[r] /\ client[r] = None
    /\ opened < MaxSessions /\ opened' = opened + 1
    /\ client' = [client EXCEPT ![r] = opened']
    /\ alive' = alive \cup {opened'}
    /\ asked' = [asked EXCEPT ![r] = ~leader[r]]
    /\ UNCHANGED <<leader, lost, holder, sweeps, up, faults>>

\* The connection has been there: asked again, unless this replica leads.
AskAgain(r) ==
    /\ up[r] /\ client[r] # None
    /\ ~leader[r] /\ ~asked[r]
    /\ asked' = [asked EXCEPT ![r] = TRUE]
    /\ UNCHANGED <<client, leader, opened, alive, lost, holder, sweeps, up, faults>>

\* Mutant: the answer is not looked at.
AnsweredAny(r) ==
    /\ asked[r] /\ client[r] \in alive
    /\ holder' = IF holder = None THEN client[r] ELSE holder
    /\ leader' = [leader EXCEPT ![r] = TRUE]
    /\ asked' = [asked EXCEPT ![r] = FALSE]
    /\ UNCHANGED <<client, opened, alive, lost, sweeps, up, faults>>

\* pg_try_advisory_lock() and its answer.
Answered(r) ==
    /\ asked[r] /\ client[r] \in alive
    /\ LET ok == holder \in {None, client[r]}
       IN  /\ holder' = IF ok THEN client[r] ELSE holder
           /\ leader' = [leader EXCEPT ![r] = ok]
    /\ asked' = [asked EXCEPT ![r] = FALSE]
    /\ UNCHANGED <<client, opened, alive, lost, sweeps, up, faults>>

\* Mutant: the 'error' handler is missing.
DropUnheard(r) ==
    /\ client' = [client EXCEPT ![r] = None]
    /\ asked' = [asked EXCEPT ![r] = FALSE]
    /\ UNCHANGED leader

\* The client's 'error' event, and the catch block.
Drop(r) ==
    /\ leader' = [leader EXCEPT ![r] = FALSE]
    /\ client' = [client EXCEPT ![r] = None]
    /\ asked' = [asked EXCEPT ![r] = FALSE]

\* The statement fails and the connection stands: client.end().
AskFails(r) ==
    /\ Fault
    /\ asked[r] /\ client[r] \in alive
    /\ Drop(r)
    /\ alive' = alive \ {client[r]}
    /\ holder' = Released(client[r])
    /\ UNCHANGED <<opened, lost, sweeps, up>>

\* The server, or what lies in between, drops the connection; the replica finds out
\* later, if at all.
LoseSession(s) ==
    /\ Fault
    /\ s \in alive
    /\ alive' = alive \ {s} /\ lost' = lost \cup {s}
    /\ holder' = Released(s)
    /\ UNCHANGED <<client, leader, asked, opened, sweeps, up>>

\* Whoever waits for an answer is told in the end (TCP gives up); a leader asks nothing.
Notice(r) ==
    /\ up[r] /\ client[r] \in lost
    /\ Silent => asked[r]
    /\ Drop(r)
    /\ lost' = lost \ {client[r]}
    /\ UNCHANGED <<opened, alive, holder, sweeps, up, faults>>

\* The process dies; its session goes with it.
Crash(r) ==
    /\ Fault
    /\ up[r]
    /\ up' = [up EXCEPT ![r] = FALSE]
    /\ Drop(r)
    /\ alive' = alive \ {client[r]} /\ lost' = lost \ {client[r]}
    /\ holder' = Released(client[r])
    /\ queue' = [queue EXCEPT ![r] = {}]
    /\ busy' = [busy EXCEPT ![r] = {}]
    /\ UNCHANGED opened

Restart(r) ==
    /\ ~up[r]
    /\ up' = [up EXCEPT ![r] = TRUE]
    /\ UNCHANGED <<election, sweeps, faults>>

-----------------------------------------------------------------------------
(* eachDevice() and forEachLimit(). *)

\* A timer of the scheduler.
StartSweep(r) ==
    /\ up[r] /\ leader[r]
    /\ queue[r] = {} /\ busy[r] = {}
    /\ queue' = [queue EXCEPT ![r] = Device]
    /\ UNCHANGED <<election, busy, up, faults>>

\* A worker of forEachLimit() takes the next device.
TakeDevice(r) ==
    /\ Cardinality(busy[r]) < Limit
    /\ \E d \in queue[r] :
          /\ queue' = [queue EXCEPT ![r] = @ \ {d}]
          /\ busy' = [busy EXCEPT ![r] = @ \cup {d}]
    /\ UNCHANGED <<election, up, faults>>

\* Mutant: the first failure ends the worker with its queue.
DoneWithAborts(r) ==
    /\ \E d \in busy[r] : busy' = [busy EXCEPT ![r] = @ \ {d}]
    /\ queue' = [queue EXCEPT ![r] = {}]
    /\ UNCHANGED <<election, up, faults>>

\* fn(item) ends, or fails and is logged: the worker goes on either way.
DoneWith(r) ==
    /\ \E d \in busy[r] : busy' = [busy EXCEPT ![r] = @ \ {d}]
    /\ UNCHANGED <<queue, election, up, faults>>

Next ==
    \/ \E r \in Replica :
          \/ Connect(r) \/ AskAgain(r) \/ Answered(r) \/ AskFails(r) \/ Notice(r)
          \/ Crash(r) \/ Restart(r)
          \/ StartSweep(r) \/ TakeDevice(r) \/ DoneWith(r)
    \/ \E s \in Session : LoseSession(s)

Spec == Init /\ [][Next]_vars

\* The timers tick, statements are answered or rejected, a dead replica is restarted,
\* and what is done on a device ends.
Fairness ==
    \A r \in Replica :
       /\ WF_vars(Connect(r)) /\ WF_vars(AskAgain(r)) /\ WF_vars(Answered(r))
       /\ WF_vars(Notice(r)) /\ WF_vars(Restart(r))
       /\ WF_vars(StartSweep(r)) /\ WF_vars(TakeDevice(r)) /\ WF_vars(DoneWith(r))

FairSpec == Spec /\ Fairness

-----------------------------------------------------------------------------
TypeOK ==
    /\ client \in [Replica -> Session \cup {None}]
    /\ leader \in [Replica -> BOOLEAN] /\ asked \in [Replica -> BOOLEAN]
    /\ opened \in 0..MaxSessions
    /\ alive \subseteq 1..opened /\ lost \subseteq 1..opened
    /\ holder \in alive \cup {None}
    /\ queue \in [Replica -> SUBSET Device] /\ busy \in [Replica -> SUBSET Device]

\* Whoever says it leads has the lock, or has lost its connection and does not know:
\* no failed statement, crash or late answer leaves `leader` set without the session
\* that backs it.
LeaderHasLock ==
    \A r \in Replica : leader[r] =>
        client[r] # None /\ (holder = client[r] \/ client[r] \in lost)

\* "the cron sweeps must run on exactly ONE instance" (leader.ts:4): two replicas do not
\* both go on leading.
TwoLeadersEnd ==
    \A r, q \in Replica :
        r # q => []<>~(leader[r] /\ leader[q])

\* "another replica transparently takes over": whatever crashes or is lost, every
\* device is visited again and again.
Swept(d) == \E r \in Replica : d \in busy[r]
EveryDeviceIsSwept == \A d \in Device : []<>Swept(d)
=============================================================================
