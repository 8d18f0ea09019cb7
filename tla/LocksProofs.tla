----------------------------- MODULE LocksProofs -----------------------------
(***************************************************************************)
(* Theorems about the locks that replicas share, for any number of         *)
(* replicas, calls and sessions: the device lock of SshPool, with a        *)
(* healthy Redis and with any other, and the scheduler's leadership.       *)
(***************************************************************************)
EXTENDS MCLocks, TLAPS

-----------------------------------------------------------------------------
(* SshPool with a healthy Redis. *)

\* Who is past acquireClusterLock() owns the lock, and only calls that are over have a
\* release on its way.
LockInv ==
    /\ redisUp = TRUE
    /\ DOMAIN pc = Call /\ releasing \subseteq Call
    /\ \A c \in Call : pc[c] \in {"open", "run"} => lock = c
    /\ \A c \in releasing : pc[c] \in {"done", "dead"}

LEMMA LockInvInit == ASSUME Redis = "healthy" PROVE Init => LockInv
  BY DEF Init, LockInv

LEMMA LockInvStep ==
    ASSUME Redis = "healthy", LockInv, [Next]_vars
    PROVE  LockInv'
  <1> USE NoneAssumption DEF LockInv
  <1>1. ASSUME NEW c \in Call, NEW p \in Proc, WithDeviceSession(c, p) PROVE LockInv'
    BY <1>1 DEF WithDeviceSession, Enqueue, redisVars
  <1>2. ASSUME NEW c \in Call, StartOver(c) PROVE LockInv'
    BY <1>2 DEF StartOver, HasTurn, Enqueue, redisVars
  <1>3. ASSUME NEW c \in Call, Start(c) PROVE LockInv'
    <2>1. pc' = [pc EXCEPT ![c] = "lock"]
      BY <1>3 DEF Start
    <2>2. pc[c] = "queued" /\ UNCHANGED <<lock, releasing, redisUp>>
      BY <1>3 DEF Start, HasTurn, redisVars
    <2> QED BY <2>1, <2>2
  <1>4. ASSUME NEW c \in Call, LockGranted(c) PROVE LockInv'
    <2>1. pc[c] = "lock" /\ lock = None /\ lock' = c /\ UNCHANGED <<releasing, redisUp>>
      BY <1>4 DEF LockGranted
    <2>2. \E w \in {"open", "run"} : pc' = [pc EXCEPT ![c] = w]
      BY <1>4 DEF LockGranted, Proceed
    <2>3. \A d \in Call : pc[d] \notin {"open", "run"}
      BY <2>1
    <2>4. \A d \in Call : d # c => pc'[d] = pc[d]
      BY <2>2
    <2> QED BY <2>1, <2>2, <2>3, <2>4
  <1>5. ASSUME NEW c \in Call, OpenSession(c) PROVE LockInv'
    BY <1>5 DEF OpenSession, redisVars
  <1>6. ASSUME NEW c \in Call, OperationFails(c) \/ OperationSucceeds(c) PROVE LockInv'
    <2>1. pc[c] \in {"open", "run"} /\ pc' = [pc EXCEPT ![c] = "done"] /\ UNCHANGED <<lock, redisUp>>
      BY <1>6 DEF OperationFails, OperationSucceeds, Settle
    <2>2. releasing' \subseteq releasing \cup {c}
      BY <1>6 DEF OperationFails, OperationSucceeds, Settle
    <2> QED BY <2>1, <2>2
  <1>7. ASSUME NEW c \in Call, ReleaseLock(c) PROVE LockInv'
    BY <1>7 DEF ReleaseLock, callVars
  <1>8. CASE LockExpires
    BY <1>8 DEF LockExpires, callVars
  <1>9. ASSUME NEW p \in Proc, EvictDevice(p) \/ SweepIdle(p) PROVE LockInv'
    BY <1>9 DEF EvictDevice, SweepIdle, callVars, redisVars
  <1>10. ASSUME NEW p \in Proc, ProcDies(p) PROVE LockInv'
    <2>1. /\ pc' = [c \in Call |-> IF proc[c] = p /\ pc[c] # "done" THEN "dead" ELSE pc[c]]
          /\ releasing' \subseteq releasing
          /\ UNCHANGED <<lock, redisUp>>
      BY <1>10 DEF ProcDies
    <2> QED BY <2>1
  <1>11. ASSUME NEW e \in Entry, EntryAges(e) PROVE LockInv'
    BY <1>11 DEF EntryAges, callVars, redisVars
  <1>12. CASE UNCHANGED vars
    BY <1>12 DEF vars
  <1> QED
    BY <1>1, <1>2, <1>3, <1>4, <1>5, <1>6, <1>7, <1>8, <1>9, <1>10, <1>11, <1>12
    DEF Next, LockForgone, ReleaseLost, RedisFlips

\* The Redis lock serializes device access across every replica (sshPool.ts, header):
\* with a healthy Redis no two calls are at the device at once.
THEOREM DeviceAccessIsExclusive == ASSUME Redis = "healthy" PROVE Spec => []OneDriver
  <1>1. LockInv => OneDriver
    BY NoneAssumption DEF LockInv, OneDriver, Driving
  <1>2. LockInv /\ [Next]_vars => LockInv'
    BY LockInvStep
  <1> QED BY <1>1, <1>2, LockInvInit, PTL DEF Spec

-----------------------------------------------------------------------------
(* SshPool with any Redis. *)

\* Whatever fails or comes late: a lock goes only with its own call's compare-and-delete
\* (RELEASE_LUA) or its TTL, never with the release of an earlier owner.
THEOREM LocksAreTakenBackByOwners == Spec => LockTakenBackByOwner
  <1> DEFINE Kept == \A c \in Call : lock = c /\ lock' # c => ReleaseLock(c) \/ LockExpires
  <1>1. [Next]_vars => Kept
    <2> SUFFICES ASSUME [Next]_vars, NEW c \in Call, lock = c, lock' # c
                 PROVE  ReleaseLock(c) \/ LockExpires
      OBVIOUS
    <2> USE NoneAssumption
    <2>1. ASSUME NEW d \in Call, LockGranted(d) \/ LockForgone(d) PROVE FALSE
      BY <2>1 DEF LockGranted, LockForgone
    <2>2. ASSUME NEW d \in Call, ReleaseLock(d) PROVE ReleaseLock(c)
      <3>1. lock = d
        BY <2>2 DEF ReleaseLock
      <3> QED BY <2>2, <3>1
    <2>3. ASSUME NEW d \in Call, NEW p \in Proc, WithDeviceSession(d, p) PROVE FALSE
      BY <2>3 DEF WithDeviceSession, redisVars
    <2>4. ASSUME NEW d \in Call,
                 StartOver(d) \/ Start(d) \/ OpenSession(d) \/ OperationFails(d)
                   \/ OperationSucceeds(d) \/ ReleaseLost(d)
          PROVE  FALSE
      BY <2>4 DEF StartOver, Start, OpenSession, OperationFails, OperationSucceeds, ReleaseLost,
                  Settle, redisVars
    <2>5. ASSUME NEW p \in Proc, EvictDevice(p) \/ SweepIdle(p) \/ ProcDies(p) PROVE FALSE
      BY <2>5 DEF EvictDevice, SweepIdle, ProcDies, redisVars
    <2>6. ASSUME RedisFlips \/ (\E e \in Entry : EntryAges(e)) \/ UNCHANGED vars PROVE FALSE
      BY <2>6 DEF RedisFlips, EntryAges, redisVars, vars
    <2> QED BY <2>1, <2>2, <2>3, <2>4, <2>5, <2>6 DEF Next
  <1>2. [Next]_vars => [Kept]_vars
    BY <1>1
  <1> QED BY <1>2, PTL DEF Spec, LockTakenBackByOwner

-----------------------------------------------------------------------------
(* The types of SshPool, for the pool with a healthy Redis and for the other. *)

\* A call that has begun knows its process, where it will look for the entry.
PoolInv == TypeOK /\ \A c \in Call : pc[c] # "idle" => proc[c] \in Proc

\* An entry is found or made, and the call joins the end of its chain.
LEMMA EnqueueKeeps ==
    ASSUME PoolInv, NEW c \in Call, NEW p \in Proc, Enqueue(c, p),
           proc' = [proc EXCEPT ![c] = p], UNCHANGED <<granted, lock, releasing, redisUp>>
    PROVE  PoolInv'
  <1> USE NoneAssumption, BoundAssumption DEF Entry
  <1> DEFINE e == IF pool[p] = None THEN created + 1 ELSE pool[p]
  <1>0. TypeOK
    BY DEF PoolInv
  <1>1. e \in Entry
    BY <1>0 DEF Enqueue, TypeOK
  <1>2. /\ pool' = [pool EXCEPT ![p] = e] /\ created' \in {created, e}
        /\ chain' = [chain EXCEPT ![e] = Append(@, c)]
        /\ mine' = [mine EXCEPT ![c] = e] /\ pc' = [pc EXCEPT ![c] = "queued"]
        /\ UNCHANGED <<session, recent>>
    BY DEF Enqueue
  <1> HIDE DEF e
  <1>3. created' \in 0 .. MaxEntries
    BY <1>0, <1>1, <1>2 DEF TypeOK
  <1>4. Append(chain[e], c) \in Seq(Call)
    BY <1>0, <1>1 DEF TypeOK
  <1>5. chain' \in [Entry -> Seq(Call)]
    BY <1>0, <1>1, <1>2, <1>4 DEF TypeOK
  <1>6. pool' \in [Proc -> Entry \cup {None}] /\ mine' \in [Call -> Entry \cup {None}]
    BY <1>0, <1>1, <1>2 DEF TypeOK
  <1>7. pc' \in [Call -> PC] /\ proc' \in [Call -> Proc \cup {None}]
    BY <1>0, <1>2 DEF TypeOK, PC
  <1>8. \A d \in Call : pc'[d] # "idle" => proc'[d] \in Proc
    BY <1>0, <1>2 DEF PoolInv, TypeOK
  <1>9. UNCHANGED <<session, recent, granted, lock, releasing, redisUp>>
    BY <1>2
  <1> HIDE DEF Entry
  <1> QED BY <1>0, <1>3, <1>5, <1>6, <1>7, <1>8, <1>9 DEF PoolInv, TypeOK

\* The steps of a call past its turn, and of its end.
LEMMA CallKeeps ==
    ASSUME PoolInv, NEW c \in Call,
           \/ Start(c) \/ LockGranted(c) \/ LockForgone(c)
           \/ OpenSession(c) \/ OperationFails(c) \/ OperationSucceeds(c)
    PROVE  PoolInv'
  <1>0. TypeOK /\ \A d \in Call : pc[d] # "idle" => proc[d] \in Proc
    BY DEF PoolInv
  <1>1. pc[c] # "idle" /\ \E w \in {"lock", "open", "run", "done"} : pc' = [pc EXCEPT ![c] = w]
    BY DEF Start, HasTurn, LockGranted, LockForgone, OpenSession,
           OperationFails, OperationSucceeds, Settle, Proceed
  <1>2. recent' = recent \/ recent' = [recent EXCEPT ![mine[c]] = TRUE]
    BY DEF Start, LockGranted, LockForgone, OpenSession,
           OperationFails, OperationSucceeds, Settle, Proceed
  <1>3. /\ UNCHANGED <<created, proc, mine, redisUp>>
        /\ lock' \in {lock, None, c} /\ granted' \subseteq granted \cup {c}
        /\ releasing' \subseteq releasing \cup {c}
    BY DEF Start, LockGranted, LockForgone, OpenSession,
           OperationFails, OperationSucceeds, Settle, redisVars
  <1>4. \/ pool' = pool
        \/ pool' = [pool EXCEPT ![proc[c]] = None]
    BY DEF Start, LockGranted, LockForgone, OpenSession,
           OperationFails, OperationSucceeds, Evict
  <1>5. \/ session' = session
        \/ session' = [session EXCEPT ![mine[c]] = "open"]
        \/ session' = [e \in Entry |->
             IF e = pool[proc[c]] /\ session[e] = "open" THEN "closed" ELSE session[e]]
    BY DEF Start, LockGranted, LockForgone, OpenSession,
           OperationFails, OperationSucceeds, Evict
  <1>6. \/ chain' = chain
        \/ chain' = [e \in Entry |->
             IF InFront(c, e) THEN Tail(chain[e]) ELSE chain[e]]
    BY DEF Start, LockGranted, LockForgone, OpenSession,
           OperationFails, OperationSucceeds, Settle
  <1>7. chain' \in [Entry -> Seq(Call)]
    <2>1. ASSUME NEW e \in Entry, InFront(c, e) PROVE Tail(chain[e]) \in Seq(Call)
      BY <1>0, <2>1 DEF InFront, TypeOK
    <2> QED BY <1>0, <1>6, <2>1 DEF TypeOK
  <1>8. session' \in [Entry -> {"none", "open", "closed"}] /\ recent' \in [Entry -> BOOLEAN]
    BY <1>0, <1>2, <1>5 DEF TypeOK
  <1>9. pool' \in [Proc -> Entry \cup {None}] /\ pc' \in [Call -> PC]
    BY <1>0, <1>1, <1>4 DEF TypeOK, PC
  <1>10. \A d \in Call : pc'[d] # "idle" => proc'[d] \in Proc
    BY <1>0, <1>1, <1>3 DEF TypeOK
  <1> QED BY <1>0, <1>3, <1>7, <1>8, <1>9, <1>10 DEF PoolInv, TypeOK

\* What happens to entries, locks and replicas beside the calls.
LEMMA OutsideKeeps ==
    ASSUME PoolInv,
           \/ \E c \in Call : ReleaseLock(c) \/ ReleaseLost(c)
           \/ LockExpires \/ RedisFlips
           \/ \E p \in Proc : EvictDevice(p) \/ SweepIdle(p)
           \/ \E e \in Entry : EntryAges(e)
           \/ UNCHANGED vars
    PROVE  PoolInv'
  <1>0. TypeOK /\ \A d \in Call : pc[d] # "idle" => proc[d] \in Proc
    BY DEF PoolInv
  <1>1. CASE \/ \E c \in Call : ReleaseLock(c) \/ ReleaseLost(c)
             \/ LockExpires \/ RedisFlips \/ UNCHANGED vars
    <2>1. /\ UNCHANGED <<pool, session, recent, chain, created, pc, proc, mine, granted>>
          /\ lock' \in {lock, None} /\ releasing' \subseteq releasing
          /\ redisUp' \in {redisUp, ~redisUp}
      BY <1>1 DEF ReleaseLock, ReleaseLost, LockExpires, RedisFlips,
                  entryVars, callVars, vars
    <2> QED BY <1>0, <2>1 DEF PoolInv, TypeOK
  <1>2. ASSUME NEW p \in Proc, EvictDevice(p) \/ SweepIdle(p) PROVE PoolInv'
    <2>1. /\ pool' = [pool EXCEPT ![p] = None]
          /\ session' = [e \in Entry |->
               IF e = pool[p] /\ session[e] = "open" THEN "closed" ELSE session[e]]
          /\ UNCHANGED <<recent, chain, created, pc, proc, mine, granted, lock, releasing, redisUp>>
      BY <1>2 DEF EvictDevice, SweepIdle, Evict, callVars, redisVars
    <2>2. session' \in [Entry -> {"none", "open", "closed"}]
      BY <1>0, <2>1 DEF TypeOK
    <2> QED BY <1>0, <2>1, <2>2 DEF PoolInv, TypeOK
  <1>3. ASSUME NEW e \in Entry, EntryAges(e) PROVE PoolInv'
    <2>1. /\ recent' = [recent EXCEPT ![e] = FALSE]
          /\ UNCHANGED <<pool, session, chain, created, pc, proc, mine, granted, lock, releasing,
                         redisUp>>
      BY <1>3 DEF EntryAges, callVars, redisVars
    <2> QED BY <1>0, <2>1 DEF PoolInv, TypeOK
  <1> QED BY <1>1, <1>2, <1>3

LEMMA DeathKeeps ==
    ASSUME PoolInv, NEW p \in Proc, ProcDies(p)
    PROVE  PoolInv'
  <1> DEFINE its == {mine[c] : c \in {d \in Call : proc[d] = p}}
  <1>0. TypeOK /\ \A d \in Call : pc[d] # "idle" => proc[d] \in Proc
    BY DEF PoolInv
  <1>1. /\ pc' = [c \in Call |-> IF proc[c] = p /\ pc[c] # "done" THEN "dead" ELSE pc[c]]
        /\ pool' = [pool EXCEPT ![p] = None]
        /\ session' = [e \in Entry |->
             IF e \in its /\ session[e] = "open" THEN "closed" ELSE session[e]]
        /\ chain' = [e \in Entry |-> IF e \in its THEN << >> ELSE chain[e]]
        /\ releasing' \subseteq releasing
        /\ UNCHANGED <<recent, created, proc, mine, granted, lock, redisUp>>
    BY DEF ProcDies
  <1> HIDE DEF its
  <1>2. chain' \in [Entry -> Seq(Call)]
    <2>1. << >> \in Seq(Call)
      OBVIOUS
    <2> QED BY <1>0, <1>1, <2>1 DEF TypeOK
  <1>3. session' \in [Entry -> {"none", "open", "closed"}] /\ pool' \in [Proc -> Entry \cup {None}]
    BY <1>0, <1>1 DEF TypeOK
  <1>4. pc' \in [Call -> PC] /\ \A d \in Call : pc'[d] # "idle" => proc'[d] \in Proc
    BY <1>0, <1>1 DEF TypeOK, PC
  <1> QED BY <1>0, <1>1, <1>2, <1>3, <1>4 DEF PoolInv, TypeOK

LEMMA PoolStep == PoolInv /\ [Next]_vars => PoolInv'
  <1> SUFFICES ASSUME PoolInv, [Next]_vars PROVE PoolInv'
    OBVIOUS
  <1>1. ASSUME NEW c \in Call, NEW p \in Proc, WithDeviceSession(c, p) PROVE PoolInv'
    <2>1. /\ Enqueue(c, p) /\ proc' = [proc EXCEPT ![c] = p]
          /\ UNCHANGED <<granted, lock, releasing, redisUp>>
      BY <1>1 DEF WithDeviceSession, redisVars
    <2> QED BY <2>1, EnqueueKeeps
  <1>2. ASSUME NEW c \in Call, StartOver(c) PROVE PoolInv'
    <2>1. /\ pc[c] # "idle" /\ Enqueue(c, proc[c])
          /\ UNCHANGED <<proc, granted, lock, releasing, redisUp>>
      BY <1>2 DEF StartOver, HasTurn, redisVars
    <2>2. proc[c] \in Proc /\ proc \in [Call -> Proc \cup {None}]
      BY <2>1 DEF PoolInv, TypeOK
    <2>3. PICK p \in Proc : p = proc[c]
      BY <2>2
    <2>4. proc' = [proc EXCEPT ![c] = p]
      BY <2>1, <2>2, <2>3
    <2>5. Enqueue(c, p) /\ UNCHANGED <<granted, lock, releasing, redisUp>>
      BY <2>1, <2>3
    <2> QED BY <2>4, <2>5, EnqueueKeeps
  <1>3. ASSUME NEW c \in Call,
               \/ Start(c) \/ LockGranted(c) \/ LockForgone(c)
               \/ OpenSession(c) \/ OperationFails(c) \/ OperationSucceeds(c)
        PROVE  PoolInv'
    BY <1>3, CallKeeps
  <1>4. CASE \/ \E c \in Call : ReleaseLock(c) \/ ReleaseLost(c)
             \/ LockExpires \/ RedisFlips
             \/ \E p \in Proc : EvictDevice(p) \/ SweepIdle(p)
             \/ \E e \in Entry : EntryAges(e)
             \/ UNCHANGED vars
    BY <1>4, OutsideKeeps
  <1>5. ASSUME NEW p \in Proc, ProcDies(p) PROVE PoolInv'
    BY <1>5, DeathKeeps
  <1> HIDE DEF PoolInv
  <1> QED BY <1>1, <1>2, <1>3, <1>4, <1>5 DEF Next

LEMMA PoolStart == Init => PoolInv
  <1> SUFFICES ASSUME Init PROVE PoolInv
    OBVIOUS
  <1>1. << >> \in Seq(Call)
    OBVIOUS
  <1>2. 0 \in 0 .. MaxEntries
    BY BoundAssumption
  <1> QED BY <1>1, <1>2 DEF Init, PoolInv, TypeOK, PC

FlakyPoolInv == Flaky!TypeOK /\ \A c \in FlakyCall : fpc[c] # "idle" => fproc[c] \in Proc

LEMMA FlakyEnqueueKeeps ==
    ASSUME FlakyPoolInv, NEW c \in FlakyCall, NEW p \in Proc, Flaky!Enqueue(c, p),
           fproc' = [fproc EXCEPT ![c] = p], UNCHANGED <<fgranted, flock, freleasing, fredisUp>>
    PROVE  FlakyPoolInv'
  <1> USE NoneAssumption, BoundAssumption DEF Flaky!Entry
  <1> DEFINE e == IF fpool[p] = None THEN fcreated + 1 ELSE fpool[p]
  <1>0. Flaky!TypeOK
    BY DEF FlakyPoolInv
  <1>1. e \in Flaky!Entry
    BY <1>0 DEF Flaky!Enqueue, Flaky!TypeOK
  <1>2. /\ fpool' = [fpool EXCEPT ![p] = e] /\ fcreated' \in {fcreated, e}
        /\ fchain' = [fchain EXCEPT ![e] = Append(@, c)]
        /\ fmine' = [fmine EXCEPT ![c] = e] /\ fpc' = [fpc EXCEPT ![c] = "queued"]
        /\ UNCHANGED <<fsession, frecent>>
    BY DEF Flaky!Enqueue
  <1> HIDE DEF e
  <1>3. fcreated' \in 0 .. MaxEntries
    BY <1>0, <1>1, <1>2 DEF Flaky!TypeOK
  <1>4. Append(fchain[e], c) \in Seq(FlakyCall)
    BY <1>0, <1>1 DEF Flaky!TypeOK
  <1>5. fchain' \in [Flaky!Entry -> Seq(FlakyCall)]
    BY <1>0, <1>1, <1>2, <1>4 DEF Flaky!TypeOK
  <1>6. fpool' \in [Proc -> Flaky!Entry \cup {None}] /\ fmine' \in [FlakyCall -> Flaky!Entry \cup {None}]
    BY <1>0, <1>1, <1>2 DEF Flaky!TypeOK
  <1>7. fpc' \in [FlakyCall -> Flaky!PC] /\ fproc' \in [FlakyCall -> Proc \cup {None}]
    BY <1>0, <1>2 DEF Flaky!TypeOK, Flaky!PC
  <1>8. \A d \in FlakyCall : fpc'[d] # "idle" => fproc'[d] \in Proc
    BY <1>0, <1>2 DEF FlakyPoolInv, Flaky!TypeOK
  <1>9. UNCHANGED <<fsession, frecent, fgranted, flock, freleasing, fredisUp>>
    BY <1>2
  <1> HIDE DEF Flaky!Entry
  <1> QED BY <1>0, <1>3, <1>5, <1>6, <1>7, <1>8, <1>9 DEF FlakyPoolInv, Flaky!TypeOK

LEMMA FlakyCallKeeps ==
    ASSUME FlakyPoolInv, NEW c \in FlakyCall,
           \/ Flaky!Start(c) \/ Flaky!LockGranted(c) \/ Flaky!LockForgone(c)
           \/ Flaky!OpenSession(c) \/ Flaky!OperationFails(c) \/ Flaky!OperationSucceeds(c)
    PROVE  FlakyPoolInv'
  <1>0. Flaky!TypeOK /\ \A d \in FlakyCall : fpc[d] # "idle" => fproc[d] \in Proc
    BY DEF FlakyPoolInv
  <1>1. fpc[c] # "idle" /\ \E w \in {"lock", "open", "run", "done"} : fpc' = [fpc EXCEPT ![c] = w]
    BY DEF Flaky!Start, Flaky!HasTurn, Flaky!LockGranted, Flaky!LockForgone, Flaky!OpenSession,
           Flaky!OperationFails, Flaky!OperationSucceeds, Flaky!Settle, Flaky!Proceed
  <1>2. frecent' = frecent \/ frecent' = [frecent EXCEPT ![fmine[c]] = TRUE]
    BY DEF Flaky!Start, Flaky!LockGranted, Flaky!LockForgone, Flaky!OpenSession,
           Flaky!OperationFails, Flaky!OperationSucceeds, Flaky!Settle, Flaky!Proceed
  <1>3. /\ UNCHANGED <<fcreated, fproc, fmine, fredisUp>>
        /\ flock' \in {flock, None, c} /\ fgranted' \subseteq fgranted \cup {c}
        /\ freleasing' \subseteq freleasing \cup {c}
    BY DEF Flaky!Start, Flaky!LockGranted, Flaky!LockForgone, Flaky!OpenSession,
           Flaky!OperationFails, Flaky!OperationSucceeds, Flaky!Settle, Flaky!redisVars
  <1>4. \/ fpool' = fpool
        \/ fpool' = [fpool EXCEPT ![fproc[c]] = None]
    BY DEF Flaky!Start, Flaky!LockGranted, Flaky!LockForgone, Flaky!OpenSession,
           Flaky!OperationFails, Flaky!OperationSucceeds, Flaky!Evict
  <1>5. \/ fsession' = fsession
        \/ fsession' = [fsession EXCEPT ![fmine[c]] = "open"]
        \/ fsession' = [e \in Flaky!Entry |->
             IF e = fpool[fproc[c]] /\ fsession[e] = "open" THEN "closed" ELSE fsession[e]]
    BY DEF Flaky!Start, Flaky!LockGranted, Flaky!LockForgone, Flaky!OpenSession,
           Flaky!OperationFails, Flaky!OperationSucceeds, Flaky!Evict
  <1>6. \/ fchain' = fchain
        \/ fchain' = [e \in Flaky!Entry |->
             IF Flaky!InFront(c, e) THEN Tail(fchain[e]) ELSE fchain[e]]
    BY DEF Flaky!Start, Flaky!LockGranted, Flaky!LockForgone, Flaky!OpenSession,
           Flaky!OperationFails, Flaky!OperationSucceeds, Flaky!Settle
  <1>7. fchain' \in [Flaky!Entry -> Seq(FlakyCall)]
    <2>1. ASSUME NEW e \in Flaky!Entry, Flaky!InFront(c, e) PROVE Tail(fchain[e]) \in Seq(FlakyCall)
      BY <1>0, <2>1 DEF Flaky!InFront, Flaky!TypeOK
    <2> QED BY <1>0, <1>6, <2>1 DEF Flaky!TypeOK
  <1>8. /\ fsession' \in [Flaky!Entry -> {"none", "open", "closed"}]
        /\ frecent' \in [Flaky!Entry -> BOOLEAN]
    BY <1>0, <1>2, <1>5 DEF Flaky!TypeOK
  <1>9. fpool' \in [Proc -> Flaky!Entry \cup {None}] /\ fpc' \in [FlakyCall -> Flaky!PC]
    BY <1>0, <1>1, <1>4 DEF Flaky!TypeOK, Flaky!PC
  <1>10. \A d \in FlakyCall : fpc'[d] # "idle" => fproc'[d] \in Proc
    BY <1>0, <1>1, <1>3 DEF Flaky!TypeOK
  <1> QED BY <1>0, <1>3, <1>7, <1>8, <1>9, <1>10 DEF FlakyPoolInv, Flaky!TypeOK

LEMMA FlakyOutsideKeeps ==
    ASSUME FlakyPoolInv,
           \/ \E c \in FlakyCall : Flaky!ReleaseLock(c) \/ Flaky!ReleaseLost(c)
           \/ Flaky!LockExpires \/ Flaky!RedisFlips
           \/ \E p \in Proc : Flaky!EvictDevice(p) \/ Flaky!SweepIdle(p)
           \/ \E e \in Flaky!Entry : Flaky!EntryAges(e)
           \/ UNCHANGED flakyVars
    PROVE  FlakyPoolInv'
  <1>0. Flaky!TypeOK /\ \A d \in FlakyCall : fpc[d] # "idle" => fproc[d] \in Proc
    BY DEF FlakyPoolInv
  <1>1. CASE \/ \E c \in FlakyCall : Flaky!ReleaseLock(c) \/ Flaky!ReleaseLost(c)
             \/ Flaky!LockExpires \/ Flaky!RedisFlips \/ UNCHANGED flakyVars
    <2>1. /\ UNCHANGED <<fpool, fsession, frecent, fchain, fcreated, fpc, fproc, fmine, fgranted>>
          /\ flock' \in {flock, None} /\ freleasing' \subseteq freleasing
          /\ fredisUp' \in {fredisUp, ~fredisUp}
      BY <1>1 DEF Flaky!ReleaseLock, Flaky!ReleaseLost, Flaky!LockExpires, Flaky!RedisFlips,
                  Flaky!entryVars, Flaky!callVars, flakyVars
    <2> QED BY <1>0, <2>1 DEF FlakyPoolInv, Flaky!TypeOK
  <1>2. ASSUME NEW p \in Proc, Flaky!EvictDevice(p) \/ Flaky!SweepIdle(p) PROVE FlakyPoolInv'
    <2>1. /\ fpool' = [fpool EXCEPT ![p] = None]
          /\ fsession' = [e \in Flaky!Entry |->
               IF e = fpool[p] /\ fsession[e] = "open" THEN "closed" ELSE fsession[e]]
          /\ UNCHANGED <<frecent, fchain, fcreated, fpc, fproc, fmine, fgranted, flock,
                         freleasing, fredisUp>>
      BY <1>2 DEF Flaky!EvictDevice, Flaky!SweepIdle, Flaky!Evict, Flaky!callVars, Flaky!redisVars
    <2>2. fsession' \in [Flaky!Entry -> {"none", "open", "closed"}]
      BY <1>0, <2>1 DEF Flaky!TypeOK
    <2> QED BY <1>0, <2>1, <2>2 DEF FlakyPoolInv, Flaky!TypeOK
  <1>3. ASSUME NEW e \in Flaky!Entry, Flaky!EntryAges(e) PROVE FlakyPoolInv'
    <2>1. /\ frecent' = [frecent EXCEPT ![e] = FALSE]
          /\ UNCHANGED <<fpool, fsession, fchain, fcreated, fpc, fproc, fmine, fgranted, flock,
                         freleasing, fredisUp>>
      BY <1>3 DEF Flaky!EntryAges, Flaky!callVars, Flaky!redisVars
    <2> QED BY <1>0, <2>1 DEF FlakyPoolInv, Flaky!TypeOK
  <1> QED BY <1>1, <1>2, <1>3

LEMMA FlakyDeathKeeps ==
    ASSUME FlakyPoolInv, NEW p \in Proc, Flaky!ProcDies(p)
    PROVE  FlakyPoolInv'
  <1> DEFINE its == {fmine[c] : c \in {d \in FlakyCall : fproc[d] = p}}
  <1>0. Flaky!TypeOK /\ \A d \in FlakyCall : fpc[d] # "idle" => fproc[d] \in Proc
    BY DEF FlakyPoolInv
  <1>1. /\ fpc' = [c \in FlakyCall |-> IF fproc[c] = p /\ fpc[c] # "done" THEN "dead" ELSE fpc[c]]
        /\ fpool' = [fpool EXCEPT ![p] = None]
        /\ fsession' = [e \in Flaky!Entry |->
             IF e \in its /\ fsession[e] = "open" THEN "closed" ELSE fsession[e]]
        /\ fchain' = [e \in Flaky!Entry |-> IF e \in its THEN << >> ELSE fchain[e]]
        /\ freleasing' \subseteq freleasing
        /\ UNCHANGED <<frecent, fcreated, fproc, fmine, fgranted, flock, fredisUp>>
    BY DEF Flaky!ProcDies
  <1> HIDE DEF its
  <1>2. fchain' \in [Flaky!Entry -> Seq(FlakyCall)]
    <2>1. << >> \in Seq(FlakyCall)
      OBVIOUS
    <2> QED BY <1>0, <1>1, <2>1 DEF Flaky!TypeOK
  <1>3. /\ fsession' \in [Flaky!Entry -> {"none", "open", "closed"}]
        /\ fpool' \in [Proc -> Flaky!Entry \cup {None}]
    BY <1>0, <1>1 DEF Flaky!TypeOK
  <1>4. fpc' \in [FlakyCall -> Flaky!PC] /\ \A d \in FlakyCall : fpc'[d] # "idle" => fproc'[d] \in Proc
    BY <1>0, <1>1 DEF Flaky!TypeOK, Flaky!PC
  <1> QED BY <1>0, <1>1, <1>2, <1>3, <1>4 DEF FlakyPoolInv, Flaky!TypeOK

LEMMA FlakyPoolStep == FlakyPoolInv /\ [Flaky!Next]_flakyVars => FlakyPoolInv'
  <1> SUFFICES ASSUME FlakyPoolInv, [Flaky!Next]_flakyVars PROVE FlakyPoolInv'
    OBVIOUS
  <1>1. ASSUME NEW c \in FlakyCall, NEW p \in Proc, Flaky!WithDeviceSession(c, p) PROVE FlakyPoolInv'
    <2>1. /\ Flaky!Enqueue(c, p) /\ fproc' = [fproc EXCEPT ![c] = p]
          /\ UNCHANGED <<fgranted, flock,
                         freleasing, fredisUp>>
      BY <1>1 DEF Flaky!WithDeviceSession, Flaky!redisVars
    <2> QED BY <2>1, FlakyEnqueueKeeps
  <1>2. ASSUME NEW c \in FlakyCall, Flaky!StartOver(c) PROVE FlakyPoolInv'
    <2>1. /\ fpc[c] # "idle" /\ Flaky!Enqueue(c, fproc[c])
          /\ UNCHANGED <<fproc, fgranted, flock,
                         freleasing, fredisUp>>
      BY <1>2 DEF Flaky!StartOver, Flaky!HasTurn, Flaky!redisVars
    <2>2. fproc[c] \in Proc /\ fproc \in [FlakyCall -> Proc \cup {None}]
      BY <2>1 DEF FlakyPoolInv, Flaky!TypeOK
    <2>3. PICK p \in Proc : p = fproc[c]
      BY <2>2
    <2>4. fproc' = [fproc EXCEPT ![c] = p]
      BY <2>1, <2>2, <2>3
    <2>5. Flaky!Enqueue(c, p) /\ UNCHANGED <<fgranted, flock,
                         freleasing, fredisUp>>
      BY <2>1, <2>3
    <2> QED BY <2>4, <2>5, FlakyEnqueueKeeps
  <1>3. ASSUME NEW c \in FlakyCall,
               \/ Flaky!Start(c) \/ Flaky!LockGranted(c) \/ Flaky!LockForgone(c)
               \/ Flaky!OpenSession(c) \/ Flaky!OperationFails(c) \/ Flaky!OperationSucceeds(c)
        PROVE  FlakyPoolInv'
    BY <1>3, FlakyCallKeeps
  <1>4. CASE \/ \E c \in FlakyCall : Flaky!ReleaseLock(c) \/ Flaky!ReleaseLost(c)
             \/ Flaky!LockExpires \/ Flaky!RedisFlips
             \/ \E p \in Proc : Flaky!EvictDevice(p) \/ Flaky!SweepIdle(p)
             \/ \E e \in Flaky!Entry : Flaky!EntryAges(e)
             \/ UNCHANGED flakyVars
    BY <1>4, FlakyOutsideKeeps
  <1>5. ASSUME NEW p \in Proc, Flaky!ProcDies(p) PROVE FlakyPoolInv'
    BY <1>5, FlakyDeathKeeps
  <1> HIDE DEF FlakyPoolInv
  <1> QED BY <1>1, <1>2, <1>3, <1>4, <1>5 DEF Flaky!Next

LEMMA FlakyPoolStart == Flaky!Init => FlakyPoolInv
  <1> SUFFICES ASSUME Flaky!Init PROVE FlakyPoolInv
    OBVIOUS
  <1>1. << >> \in Seq(FlakyCall)
    OBVIOUS
  <1>2. 0 \in 0 .. MaxEntries
    BY BoundAssumption
  <1> QED BY <1>1, <1>2 DEF Flaky!Init, FlakyPoolInv, Flaky!TypeOK, Flaky!PC

LEMMA FlakyPoolMoves == [LocksNext]_all => [Next]_vars /\ [Flaky!Next]_flakyVars
  BY DEF LocksNext, all

\* Both pools keep their types, and with a Redis that comes and goes, loses answers and
\* releases or delivers them late, a device lock goes only with its own call's
\* compare-and-delete (RELEASE_LUA) or its TTL, never with the release of an earlier owner.
THEOREM FlakyLocksAreTakenBackByOwners == LocksSpec => FlakyLockTakenBackByOwner
  <1> DEFINE Kept ==
        \A c \in FlakyCall : flock = c /\ flock' # c => Flaky!ReleaseLock(c) \/ Flaky!LockExpires
  <1>1. [Flaky!Next]_flakyVars => Kept
    <2> SUFFICES ASSUME [Flaky!Next]_flakyVars, NEW c \in FlakyCall, flock = c, flock' # c
                 PROVE  Flaky!ReleaseLock(c) \/ Flaky!LockExpires
      OBVIOUS
    <2> USE NoneAssumption, FlakyAssumption
    <2>1. ASSUME NEW d \in FlakyCall, Flaky!LockGranted(d) \/ Flaky!LockForgone(d) PROVE FALSE
      BY <2>1 DEF Flaky!LockGranted, Flaky!LockForgone
    <2>2. ASSUME NEW d \in FlakyCall, Flaky!ReleaseLock(d) PROVE Flaky!ReleaseLock(c)
      <3>1. flock = d
        BY <2>2 DEF Flaky!ReleaseLock
      <3> QED BY <2>2, <3>1
    <2>3. ASSUME NEW d \in FlakyCall, NEW p \in Proc, Flaky!WithDeviceSession(d, p) PROVE FALSE
      BY <2>3 DEF Flaky!WithDeviceSession, Flaky!redisVars
    <2>4. ASSUME NEW d \in FlakyCall,
                 Flaky!StartOver(d) \/ Flaky!Start(d) \/ Flaky!OpenSession(d) \/ Flaky!OperationFails(d)
                   \/ Flaky!OperationSucceeds(d) \/ Flaky!ReleaseLost(d)
          PROVE  FALSE
      BY <2>4 DEF Flaky!StartOver, Flaky!Start, Flaky!OpenSession, Flaky!OperationFails, Flaky!OperationSucceeds,
                  Flaky!ReleaseLost,
                  Flaky!Settle, Flaky!redisVars
    <2>5. ASSUME NEW p \in Proc, Flaky!EvictDevice(p) \/ Flaky!SweepIdle(p) \/ Flaky!ProcDies(p)
          PROVE  FALSE
      BY <2>5 DEF Flaky!EvictDevice, Flaky!SweepIdle, Flaky!ProcDies, Flaky!redisVars
    <2>6. ASSUME Flaky!RedisFlips \/ (\E e \in Flaky!Entry : Flaky!EntryAges(e)) \/ UNCHANGED flakyVars
          PROVE  FALSE
      BY <2>6 DEF Flaky!RedisFlips, Flaky!EntryAges, Flaky!redisVars, flakyVars
    <2> QED BY <2>1, <2>2, <2>3, <2>4, <2>5, <2>6 DEF Flaky!Next
  <1>2. [LocksNext]_all => [Kept]_Flaky!vars
    BY <1>1, FlakyPoolMoves
  <1>3. LocksInit => PoolInv /\ FlakyPoolInv
    BY PoolStart, FlakyPoolStart DEF LocksInit
  <1>4. PoolInv /\ FlakyPoolInv /\ [LocksNext]_all => PoolInv' /\ FlakyPoolInv'
    BY PoolStep, FlakyPoolStep, FlakyPoolMoves
  <1>5. PoolInv /\ FlakyPoolInv => TypeOK /\ Flaky!TypeOK
    BY DEF PoolInv, FlakyPoolInv
  <1>6. LocksSpec => [](TypeOK /\ Flaky!TypeOK)
    BY <1>3, <1>4, <1>5, PTL DEF LocksSpec
  <1>7. LocksSpec => Flaky!LockTakenBackByOwner
    BY <1>2, PTL DEF LocksSpec, Flaky!LockTakenBackByOwner
  <1> QED BY <1>6, <1>7, PTL DEF FlakyLockTakenBackByOwner

-----------------------------------------------------------------------------
(* LeaderElection. *)

\* Every session a replica has was opened, and no two replicas have one: what one loses or
\* gives back is never another's.
OwnSessions ==
    /\ \A r \in Replica : client[r] \in (1 .. opened) \cup {None}
    /\ \A r, q \in Replica : client[r] # None /\ client[r] = client[q] => r = q

LeaderInv == Election!TypeOK /\ OwnSessions /\ Election!LeaderHasLock

\* A replica that lets go of its client, and what may happen to the lock then.
LEMMA DropKeeps ==
    ASSUME LeaderInv, NEW r \in Replica, Election!Drop(r),
           lost' \subseteq lost, lost \ {client[r]} \subseteq lost',
           alive' \subseteq alive, alive \ {client[r]} \subseteq alive',
           holder' \in {holder, Election!Released(client[r])},
           holder' = client[r] /\ holder' # None => client[r] \in alive',
           queue' \in [Replica -> SUBSET Device], busy' \in [Replica -> SUBSET Device],
           UNCHANGED opened
    PROVE  LeaderInv'
  <1> USE NoneAssumption, SessionAssumption
  <1>1. Election!TypeOK'
    <2>1. client' \in [Replica -> Election!Session \cup {None}]
      BY DEF LeaderInv, Election!TypeOK, Election!Drop
    <2>2. leader' \in [Replica -> BOOLEAN] /\ asked' \in [Replica -> BOOLEAN]
      BY DEF LeaderInv, Election!TypeOK, Election!Drop
    <2>3. opened' \in 0..MaxSessions /\ alive' \subseteq 1..opened' /\ lost' \subseteq 1..opened'
      BY DEF LeaderInv, Election!TypeOK
    <2>4. holder' \in alive' \cup {None}
      BY DEF LeaderInv, Election!TypeOK, Election!Released
    <2> QED BY <2>1, <2>2, <2>3, <2>4 DEF Election!TypeOK
  <1>2. \A q \in Replica : client'[q] = (IF q = r THEN None ELSE client[q])
    BY DEF LeaderInv, Election!TypeOK, Election!Drop
  <1>3. \A q \in Replica : leader'[q] = (IF q = r THEN FALSE ELSE leader[q])
    BY DEF LeaderInv, Election!TypeOK, Election!Drop
  <1>4. OwnSessions'
    BY <1>2 DEF LeaderInv, OwnSessions
  <1>5. Election!LeaderHasLock'
    <2> SUFFICES ASSUME NEW q \in Replica, leader'[q]
                 PROVE  client'[q] # None /\ (holder' = client'[q] \/ client'[q] \in lost')
      BY DEF Election!LeaderHasLock
    <2>1. q # r /\ client'[q] = client[q] /\ leader[q]
      BY <1>2, <1>3
    <2>2. client[q] # None /\ (holder = client[q] \/ client[q] \in lost)
      BY <2>1 DEF LeaderInv, Election!LeaderHasLock
    <2>3. client[q] # client[r]
      BY <2>1, <2>2 DEF LeaderInv, OwnSessions
    <2> QED BY <2>1, <2>2, <2>3 DEF Election!Released
  <1> QED BY <1>1, <1>4, <1>5 DEF LeaderInv

LEMMA ConnectKeeps ==
    ASSUME LeaderInv, NEW r \in Replica, Election!Connect(r)
    PROVE  LeaderInv'
  <1> USE NoneAssumption, SessionAssumption DEF Election!Session
  <1>1. /\ client[r] = None /\ opened < MaxSessions /\ opened' = opened + 1
        /\ client' = [client EXCEPT ![r] = opened + 1] /\ alive' = alive \cup {opened + 1}
        /\ asked' = [asked EXCEPT ![r] = ~leader[r]]
        /\ UNCHANGED <<leader, lost, holder, queue, busy>>
    BY DEF Election!Connect, Election!sweeps
  <1>2. opened \in 0..MaxSessions /\ opened + 1 \in Election!Session /\ opened + 1 \in Nat
    BY <1>1 DEF LeaderInv, Election!TypeOK
  <1>3. Election!TypeOK'
    <2>1. client' \in [Replica -> Election!Session \cup {None}]
      BY <1>1, <1>2 DEF LeaderInv, Election!TypeOK
    <2>2. leader' \in [Replica -> BOOLEAN] /\ asked' \in [Replica -> BOOLEAN]
      BY <1>1 DEF LeaderInv, Election!TypeOK
    <2>3. opened' \in 0..MaxSessions /\ alive' \subseteq 1..opened' /\ lost' \subseteq 1..opened'
      BY <1>1, <1>2 DEF LeaderInv, Election!TypeOK
    <2>4. holder' \in alive' \cup {None}
      BY <1>1 DEF LeaderInv, Election!TypeOK
    <2>5. queue' \in [Replica -> SUBSET Device] /\ busy' \in [Replica -> SUBSET Device]
      BY <1>1 DEF LeaderInv, Election!TypeOK
    <2> QED BY <2>1, <2>2, <2>3, <2>4, <2>5 DEF Election!TypeOK
  <1>4. \A q \in Replica : client'[q] = (IF q = r THEN opened + 1 ELSE client[q])
    BY <1>1 DEF LeaderInv, Election!TypeOK
  <1>5. ~leader[r]
    BY <1>1 DEF LeaderInv, Election!LeaderHasLock
  <1>6. Election!LeaderHasLock'
    BY <1>1, <1>4, <1>5 DEF LeaderInv, Election!LeaderHasLock
  <1>7. OwnSessions'
    <2>1. \A q \in Replica : client[q] # opened + 1
      BY <1>2 DEF LeaderInv, OwnSessions
    <2>2. \A q \in Replica : client'[q] \in (1 .. opened') \cup {None}
      BY <1>1, <1>2, <1>4 DEF LeaderInv, OwnSessions
    <2> QED BY <1>1, <1>2, <1>4, <2>1, <2>2 DEF LeaderInv, OwnSessions
  <1> QED BY <1>3, <1>6, <1>7 DEF LeaderInv

LEMMA LeaderStep ==
    ASSUME LeaderInv, [Election!Next]_leaderVars
    PROVE  LeaderInv'
  <1> USE NoneAssumption, SessionAssumption
  <1>1. ASSUME NEW r \in Replica, Election!Connect(r) PROVE LeaderInv'
    BY <1>1, ConnectKeeps
  <1>2. ASSUME NEW r \in Replica, Election!AskAgain(r) PROVE LeaderInv'
    <2>1. asked' = [asked EXCEPT ![r] = TRUE]
          /\ UNCHANGED <<client, leader, opened, alive, lost, holder, queue, busy>>
      BY <1>2 DEF Election!AskAgain, Election!sweeps
    <2> QED BY <2>1 DEF LeaderInv, Election!TypeOK, OwnSessions, Election!LeaderHasLock
  <1>3. ASSUME NEW r \in Replica, Election!Answered(r) PROVE LeaderInv'
    <2> DEFINE ok == holder \in {None, client[r]}
    <2>1. /\ client[r] \in alive
          /\ holder' = IF ok THEN client[r] ELSE holder
          /\ leader' = [leader EXCEPT ![r] = ok]
          /\ asked' = [asked EXCEPT ![r] = FALSE]
          /\ UNCHANGED <<client, opened, alive, lost, queue, busy>>
      BY <1>3 DEF Election!Answered, Election!sweeps
    <2>2. client[r] # None
      <3>1. opened \in 0..MaxSessions /\ client[r] \in 1..opened
        BY <2>1 DEF LeaderInv, Election!TypeOK
      <3>2. client[r] \in Nat
        BY <3>1
      <3> QED BY <3>2
    <2>3. Election!TypeOK'
      BY <2>1 DEF LeaderInv, Election!TypeOK
    <2>4. OwnSessions'
      BY <2>1 DEF LeaderInv, OwnSessions
    <2>5. Election!LeaderHasLock'
      <3> SUFFICES ASSUME NEW q \in Replica, leader'[q]
                   PROVE  client[q] # None /\ (holder' = client[q] \/ client[q] \in lost)
        BY <2>1 DEF Election!LeaderHasLock
      <3>1. CASE q = r
        BY <3>1, <2>1, <2>2 DEF LeaderInv, Election!TypeOK
      <3>2. CASE q # r
        <4>1. client[q] # None /\ (holder = client[q] \/ client[q] \in lost)
          BY <3>2, <2>1 DEF LeaderInv, Election!TypeOK, Election!LeaderHasLock
        <4> QED BY <4>1, <2>1
      <3> QED BY <3>1, <3>2
    <2> QED BY <2>3, <2>4, <2>5 DEF LeaderInv
  <1>4. ASSUME NEW r \in Replica, Election!AskFails(r) PROVE LeaderInv'
    <2>1. /\ Election!Drop(r) /\ alive' = alive \ {client[r]}
          /\ holder' = Election!Released(client[r]) /\ UNCHANGED <<opened, lost, queue, busy>>
      BY <1>4 DEF Election!AskFails, Election!sweeps
    <2> QED BY <2>1, DropKeeps DEF LeaderInv, Election!TypeOK, Election!Released
  <1>5. ASSUME NEW r \in Replica, Election!Notice(r) PROVE LeaderInv'
    <2>1. /\ Election!Drop(r) /\ lost' = lost \ {client[r]}
          /\ UNCHANGED <<opened, alive, holder, queue, busy>>
      BY <1>5 DEF Election!Notice, Election!sweeps
    <2> QED BY <2>1, DropKeeps DEF LeaderInv, Election!TypeOK
  <1>6. ASSUME NEW r \in Replica, Election!Crash(r) PROVE LeaderInv'
    <2>1. /\ Election!Drop(r) /\ alive' = alive \ {client[r]} /\ lost' = lost \ {client[r]}
          /\ holder' = Election!Released(client[r])
          /\ queue' = [queue EXCEPT ![r] = {}] /\ busy' = [busy EXCEPT ![r] = {}]
          /\ UNCHANGED opened
      BY <1>6 DEF Election!Crash
    <2> QED BY <2>1, DropKeeps DEF LeaderInv, Election!TypeOK, Election!Released
  <1>7. ASSUME NEW s, Election!LoseSession(s) PROVE LeaderInv'
    <2>1. /\ s \in alive /\ alive' = alive \ {s} /\ lost' = lost \cup {s}
          /\ holder' = Election!Released(s)
          /\ UNCHANGED <<client, leader, asked, opened, queue, busy>>
      BY <1>7 DEF Election!LoseSession, Election!sweeps
    <2>2. Election!TypeOK'
      BY <2>1 DEF LeaderInv, Election!TypeOK, Election!Released
    <2>3. OwnSessions'
      BY <2>1 DEF LeaderInv, OwnSessions
    <2>4. Election!LeaderHasLock'
      BY <2>1 DEF LeaderInv, Election!LeaderHasLock, Election!Released
    <2> QED BY <2>2, <2>3, <2>4 DEF LeaderInv
  <1>8. ASSUME NEW r \in Replica,
               Election!StartSweep(r) \/ Election!TakeDevice(r) \/ Election!DoneWith(r)
        PROVE  LeaderInv'
    <2>1. UNCHANGED <<client, leader, asked, opened, alive, lost, holder>>
      BY <1>8 DEF Election!StartSweep, Election!TakeDevice, Election!DoneWith, Election!election
    <2>2. queue' \in [Replica -> SUBSET Device] /\ busy' \in [Replica -> SUBSET Device]
      BY <1>8 DEF Election!StartSweep, Election!TakeDevice, Election!DoneWith, LeaderInv,
                  Election!TypeOK
    <2> QED BY <2>1, <2>2 DEF LeaderInv, Election!TypeOK, OwnSessions, Election!LeaderHasLock
  <1>9. ASSUME (\E r \in Replica : Election!Restart(r)) \/ UNCHANGED leaderVars
        PROVE  LeaderInv'
    <2>1. UNCHANGED <<client, leader, asked, opened, alive, lost, holder, queue, busy>>
      BY <1>9 DEF Election!Restart, Election!election, Election!sweeps, leaderVars
    <2> QED BY <2>1 DEF LeaderInv, Election!TypeOK, OwnSessions, Election!LeaderHasLock
  <1> QED BY <1>1, <1>2, <1>3, <1>4, <1>5, <1>6, <1>7, <1>8, <1>9 DEF Election!Next

\* Whoever says it leads has the lock, or has lost its connection and was not told: no failed
\* statement, crash, restart or late answer leaves `leader` (leader.ts:15) set without the
\* session behind it, for connections lost with and without notice.
THEOREM LeadersHaveTheLock == LocksSpec => []LeaderHasLock
  <1>1. Election!Init => LeaderInv
    BY SessionAssumption, NoneAssumption
       DEF Election!Init, LeaderInv, Election!TypeOK, OwnSessions, Election!LeaderHasLock
  <1>2. LeaderInv /\ [Election!Next]_leaderVars => LeaderInv'
    BY LeaderStep
  <1>3. LeaderInv => LeaderHasLock
    BY DEF LeaderInv, LeaderHasLock
  <1>4. LocksInit => Election!Init
    BY DEF LocksInit
  <1>5. [LocksNext]_all => [Election!Next]_leaderVars
    BY DEF LocksNext, all
  <1> QED BY <1>1, <1>2, <1>3, <1>4, <1>5, PTL DEF LocksSpec
=============================================================================
