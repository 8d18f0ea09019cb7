------------------------------- MODULE SshPool -------------------------------
(***************************************************************************)
(* The per-device SSH session pool of cisco/sshPool.ts, for one device key *)
(* and several replicas.  Calls of withDeviceSession() queue on a promise  *)
(* chain inside their process and take a Redis lock across processes.      *)
(*                                                                         *)
(* A step is the code between two awaits.  Entries of the pool map outlive *)
(* their eviction as long as a call still refers to them (`mine`), so they *)
(* are state of their own beside the map.                                  *)
(*                                                                         *)
(* Time is kept as what the code compares: whether an entry was last used  *)
(* more than IDLE_TTL_MS ago.  The wait loop of acquireClusterLock() is    *)
(* one waiting state; its retries that find the lock taken change nothing. *)
(***************************************************************************)
EXTENDS Naturals, FiniteSets, Sequences

CONSTANTS
    Proc,       \* API replicas
    Call,       \* calls of withDeviceSession(); also the tokens of their locks
    None,       \* no entry, no lock holder, no process
    MaxEntries, \* bound on pool entries ever created
    Redis,      \* "down"; "healthy": up, no wait for the lock reaches LOCK_WAIT_MS and
                \* no operation LOCK_TTL_MS; "flaky": anything may happen
    SlowOps,    \* TRUE: fn may run longer than IDLE_TTL_MS
    Evictions   \* TRUE: evictDevice() is called (reload, reachability probe)

ASSUME NoneAssumption == None \notin Proc /\ None \notin Call /\ None \notin Nat
ASSUME BoundAssumption == MaxEntries \in Nat
ASSUME ModeAssumption ==
    Redis \in {"healthy", "down", "flaky"} /\ SlowOps \in BOOLEAN /\ Evictions \in BOOLEAN

Entry == 1 .. MaxEntries

VARIABLES
    pool,       \* pool[p]: the entry under the device's key in process p's map
    session,    \* session[e]: the entry's DeviceSession
    recent,     \* recent[e]: lastUsed lies within IDLE_TTL_MS
    chain,      \* chain[e]: the calls whose promises make up the entry's chain
    created,    \* entries created so far
    pc,         \* pc[c]: where the call is
    proc,       \* proc[c]: the process it was made in
    mine,       \* mine[c]: the entry it queued on last
    granted,    \* calls whose SET NX returned OK: they release the lock when they end
    lock,       \* the token stored under the device's lock key
    releasing,  \* calls whose release (eval) is on its way to Redis
    redisUp     \* redis.status = 'ready'

vars == <<pool, session, recent, chain, created, pc, proc, mine, granted, lock, releasing, redisUp>>
entryVars == <<pool, session, recent, chain, created>>
callVars == <<pc, proc, mine>>
redisVars == <<granted, lock, releasing, redisUp>>

-----------------------------------------------------------------------------
Init ==
    /\ pool = [p \in Proc |-> None]
    /\ session = [e \in Entry |-> "none"]
    /\ recent = [e \in Entry |-> TRUE]
    /\ chain = [e \in Entry |-> << >>]
    /\ created = 0
    /\ pc = [c \in Call |-> "idle"]
    /\ proc = [c \in Call |-> None]
    /\ mine = [c \in Call |-> None]
    /\ granted = {}
    /\ lock = None
    /\ releasing = {}
    /\ redisUp = (Redis # "down")

\* The synchronous part of withDeviceSession(): find or create the entry, and join
\* the end of its chain.
Enqueue(c, p) ==
    LET fresh == pool[p] = None
        e     == IF fresh THEN created + 1 ELSE pool[p]
    IN  /\ fresh => created < MaxEntries
        /\ pool' = [pool EXCEPT ![p] = e]
        /\ created' = IF fresh THEN created + 1 ELSE created
        /\ chain' = [chain EXCEPT ![e] = Append(@, c)]
        /\ mine' = [mine EXCEPT ![c] = e]
        /\ pc' = [pc EXCEPT ![c] = "queued"]
        /\ UNCHANGED <<session, recent>>

WithDeviceSession(c, p) ==
    /\ pc[c] = "idle"
    /\ proc' = [proc EXCEPT ![c] = p]
    /\ Enqueue(c, p)
    /\ UNCHANGED redisVars

\* The call's turn: nothing in front of it on its entry's chain.
InFront(c, e) == chain[e] # << >> /\ Head(chain[e]) = c
HasTurn(c) == pc[c] = "queued" /\ InFront(c, mine[c])

\* Its entry was evicted while it waited: it starts over, and its old place in the
\* chain stays taken until the new attempt settles.
StartOver(c) ==
    /\ HasTurn(c)
    /\ pool[proc[c]] # mine[c]
    /\ Enqueue(c, proc[c])
    /\ UNCHANGED <<proc, redisVars>>

\* After acquireClusterLock(): open a session, or use the one the entry has.
Proceed(c) ==
    IF session[mine[c]] = "none"
      THEN pc' = [pc EXCEPT ![c] = "open"] /\ UNCHANGED recent
      ELSE pc' = [pc EXCEPT ![c] = "run"] /\ recent' = [recent EXCEPT ![mine[c]] = TRUE]

\* Mutant: the session is taken before the lock is asked for.
StartUnlocked(c) ==
    /\ HasTurn(c)
    /\ pool[proc[c]] = mine[c]
    /\ Proceed(c)
    /\ UNCHANGED <<pool, session, chain, created, proc, mine, redisVars>>

\* Its turn on a live entry: wait for the cluster lock, or go on without it when
\* Redis is not ready.
Start(c) ==
    /\ HasTurn(c)
    /\ pool[proc[c]] = mine[c]
    /\ IF redisUp THEN pc' = [pc EXCEPT ![c] = "lock"] /\ UNCHANGED recent
                  ELSE Proceed(c)
    /\ UNCHANGED <<pool, session, chain, created, proc, mine, redisVars>>

\* SET NX succeeds.
LockGranted(c) ==
    /\ pc[c] = "lock"
    /\ redisUp
    /\ lock = None
    /\ lock' = c
    /\ granted' = granted \cup {c}
    /\ Proceed(c)
    /\ UNCHANGED <<pool, session, chain, created, proc, mine, releasing, redisUp>>

\* The call goes on without the lock: SET fails (its effect may have been applied
\* before the reply was lost), or LOCK_WAIT_MS is over.
LockForgone(c) ==
    /\ Redis = "flaky"
    /\ pc[c] = "lock"
    /\ lock' \in IF lock = None THEN {None, c} ELSE {lock}
    /\ Proceed(c)
    /\ UNCHANGED <<pool, session, chain, created, proc, mine, granted, releasing, redisUp>>

\* Mutant: an entry that has no session yet is marked as well.
EvictMarks(p) ==
    /\ pool' = [pool EXCEPT ![p] = None]
    /\ session' = [e \in Entry |-> IF e = pool[p] THEN "evicted" ELSE session[e]]

\* evict(): the map's current entry goes, and its session is closed.
Evict(p) ==
    /\ pool' = [pool EXCEPT ![p] = None]
    /\ session' = [e \in Entry |->
         IF e = pool[p] /\ session[e] = "open" THEN "closed" ELSE session[e]]

\* Mutant: only the entry the call ran on moves on; its place in the chain of an
\* evicted entry is never given up.
SettleOneChain(c) ==
    /\ pc' = [pc EXCEPT ![c] = "done"]
    /\ releasing' = IF c \in granted THEN releasing \cup {c} ELSE releasing
    /\ recent' = [recent EXCEPT ![mine[c]] = TRUE]
    /\ chain' = [chain EXCEPT ![mine[c]] = Tail(@)]
    /\ UNCHANGED <<created, proc, mine, granted, lock, redisUp>>

\* The finally block and the settling of the promise: the lock's release is sent and
\* not awaited, and the call leaves every chain it stands in, where it is in front.
Settle(c) ==
    /\ pc' = [pc EXCEPT ![c] = "done"]
    /\ releasing' = IF c \in granted THEN releasing \cup {c} ELSE releasing
    /\ recent' = [recent EXCEPT ![mine[c]] = TRUE]
    /\ chain' = [e \in Entry |-> IF InFront(c, e) THEN Tail(chain[e]) ELSE chain[e]]
    /\ UNCHANGED <<created, proc, mine, granted, lock, redisUp>>

\* openSession() connects; the call goes on to run fn in the same step.
OpenSession(c) ==
    /\ pc[c] = "open"
    /\ session' = [session EXCEPT ![mine[c]] = "open"]
    /\ recent' = [recent EXCEPT ![mine[c]] = TRUE]
    /\ pc' = [pc EXCEPT ![c] = "run"]
    /\ UNCHANGED <<pool, chain, created, proc, mine, redisVars>>

\* Connecting fails, or fn throws: whatever entry is in the map now is evicted.  A
\* closed session lets fn do nothing else.
OperationFails(c) ==
    /\ pc[c] \in {"open", "run"}
    /\ Evict(proc[c])
    /\ Settle(c)

OperationSucceeds(c) ==
    /\ pc[c] = "run"
    /\ session[mine[c]] = "open"
    /\ Settle(c)
    /\ UNCHANGED <<pool, session>>

\* Mutant: the release deletes the key without comparing the token.
ReleaseAnyToken(c) ==
    /\ c \in releasing
    /\ redisUp
    /\ releasing' = releasing \ {c}
    /\ lock' = None
    /\ UNCHANGED <<entryVars, callVars, granted, redisUp>>

\* RELEASE_LUA reaches Redis: compare and delete.
ReleaseLock(c) ==
    /\ c \in releasing
    /\ redisUp
    /\ releasing' = releasing \ {c}
    /\ lock' = IF lock = c THEN None ELSE lock
    /\ UNCHANGED <<entryVars, callVars, granted, redisUp>>

\* The release gets lost; the TTL cleans up.
ReleaseLost(c) ==
    /\ Redis = "flaky"
    /\ c \in releasing
    /\ releasing' = releasing \ {c}
    /\ UNCHANGED <<entryVars, callVars, granted, lock, redisUp>>

\* The lock's PX runs out.  Its TTL exceeds the longest operation, so a healthy Redis
\* drops it only once its owner is gone.
LockExpires ==
    /\ lock # None
    /\ Redis = "flaky" \/ (pc[lock] \in {"done", "dead"} /\ lock \notin releasing)
    /\ lock' = None
    /\ UNCHANGED <<entryVars, callVars, granted, releasing, redisUp>>

RedisFlips ==
    /\ Redis = "flaky"
    /\ redisUp' = ~redisUp
    /\ UNCHANGED <<entryVars, callVars, granted, lock, releasing>>

\* Bound: evictions from outside stop while every call can still fail once.
RoomToEvict == created + Cardinality(Call) <= MaxEntries

\* evictDevice(): a reload was issued, or a probe wants a fresh handshake.
EvictDevice(p) ==
    /\ Evictions
    /\ RoomToEvict
    /\ pool[p] # None
    /\ Evict(p)
    /\ UNCHANGED <<recent, chain, created, callVars, redisVars>>

\* IDLE_TTL_MS passes since the entry's lastUsed.  A call whose turn it is starts at
\* once, and a fresh entry's lock wait and connect are shorter; a call that waits for
\* the lock on an entry already idle, or a slow fn, is overtaken by the timer.
EntryAges(e) ==
    /\ recent[e]
    /\ \E p \in Proc : pool[p] = e
    /\ \A c \in Call : mine[c] = e =>
         /\ ~HasTurn(c) /\ pc[c] # "open"
         /\ pc[c] = "lock" => session[e] # "none"
         /\ pc[c] = "run" => SlowOps
    /\ recent' = [recent EXCEPT ![e] = FALSE]
    /\ UNCHANGED <<pool, session, chain, created, callVars, redisVars>>

\* The interval timer of the module.
SweepIdle(p) ==
    /\ RoomToEvict
    /\ pool[p] # None
    /\ ~recent[pool[p]]
    /\ Evict(p)
    /\ UNCHANGED <<recent, chain, created, callVars, redisVars>>

\* A replica dies: its sessions close and its calls end, a lock it holds stays.
ProcDies(p) ==
    /\ \E c \in Call : proc[c] = p /\ pc[c] \notin {"done", "dead"}
    /\ pc' = [c \in Call |-> IF proc[c] = p /\ pc[c] # "done" THEN "dead" ELSE pc[c]]
    /\ pool' = [pool EXCEPT ![p] = None]
    /\ LET its == {mine[c] : c \in {d \in Call : proc[d] = p}}
       IN  /\ session' = [e \in Entry |->
                IF e \in its /\ session[e] = "open" THEN "closed" ELSE session[e]]
           /\ chain' = [e \in Entry |-> IF e \in its THEN << >> ELSE chain[e]]
    /\ releasing' = {c \in releasing : proc[c] # p}
    /\ UNCHANGED <<recent, created, proc, mine, granted, lock, redisUp>>

Next ==
    \/ \E c \in Call :
         \/ \E p \in Proc : WithDeviceSession(c, p)
         \/ StartOver(c)
         \/ Start(c)
         \/ LockGranted(c)
         \/ LockForgone(c)
         \/ OpenSession(c)
         \/ OperationFails(c)
         \/ OperationSucceeds(c)
         \/ ReleaseLock(c)
         \/ ReleaseLost(c)
    \/ LockExpires
    \/ RedisFlips
    \/ \E p \in Proc : EvictDevice(p) \/ SweepIdle(p) \/ ProcDies(p)
    \/ \E e \in Entry : EntryAges(e)

Spec == Init /\ [][Next]_vars

\* Promise callbacks run, commands and connects time out, and Redis expires keys.
Fairness ==
    /\ WF_vars(LockExpires)
    /\ \A c \in Call :
         /\ WF_vars(StartOver(c) \/ Start(c))
         /\ WF_vars(LockGranted(c) \/ LockForgone(c))
         /\ WF_vars(OpenSession(c) \/ OperationFails(c) \/ OperationSucceeds(c))
         /\ WF_vars(ReleaseLock(c))

FairSpec == Spec /\ Fairness

-----------------------------------------------------------------------------
PC == {"idle", "queued", "lock", "open", "run", "done", "dead"}

TypeOK ==
    /\ pool \in [Proc -> Entry \cup {None}]
    /\ session \in [Entry -> {"none", "open", "closed"}]
    /\ recent \in [Entry -> BOOLEAN]
    /\ chain \in [Entry -> Seq(Call)]
    /\ created \in 0 .. MaxEntries
    /\ pc \in [Call -> PC]
    /\ proc \in [Call -> Proc \cup {None}]
    /\ mine \in [Call -> Entry \cup {None}]
    /\ granted \in SUBSET Call
    /\ lock \in Call \cup {None}
    /\ releasing \in SUBSET Call
    /\ redisUp \in BOOLEAN

\* The call is talking to the device: connecting, or running fn on a live session.
Driving(c) == pc[c] = "open" \/ (pc[c] = "run" /\ session[mine[c]] = "open")

\* "A per-device Redis lock ... serializes device access across every replica": never
\* two calls at the device at once, in one process or in two.
OneDriver == \A c, d \in Call : Driving(c) /\ Driving(d) => c = d

\* "single-node correctness rests on the promise chain alone": never two calls of one
\* process at the device at once.
OneDriverPerProcess ==
    \A c, d \in Call : Driving(c) /\ Driving(d) /\ proc[c] = proc[d] => c = d

\* The compare-and-delete of RELEASE_LUA: only its own call and the TTL take a lock
\* away, never the release of an earlier owner.
LockTakenBackByOwner ==
    [][\A c \in Call : lock = c /\ lock' # c => ReleaseLock(c) \/ LockExpires]_vars

\* Every call comes to its turn and settles, whatever is evicted meanwhile.
CallsSettle == <>[](\A c \in Call : pc[c] \in {"idle", "done", "dead"})
=============================================================================
