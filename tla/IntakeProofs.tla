--------------------------- MODULE IntakeProofs ------------------------------
(***************************************************************************)
(* The audit chain stays intact, rows are appended in the order of their   *)
(* ids, and an edit is located where it was made, for any number of        *)
(* concurrent calls and any history before the chain; every syslog         *)
(* message is in one place and a source limited, and the collector's flows *)
(* add up, for any sources, devices, exporters, flushes and bounds.        *)
(***************************************************************************)
EXTENDS MCIntake, SequenceTheorems, WellFoundedInduction, TLAPS

Locked == {"read", "insert", "hash", "commit"}

\* Whoever is past the lock statement holds the lock.
LockInv ==
    /\ lock \in Call \cup {None}
    /\ DOMAIN pc = Call
    /\ \A c \in Call : pc[c] \in Locked => lock = c

\* Ids come from the sequence and tell the rows apart.
IdInv ==
    /\ nextId \in Nat
    /\ \A r \in log : r.id \in Nat /\ r.id < nextId
    /\ \A r, q \in log : r.id = q.id => r = q

\* Every hashed row carries the hash of its content and links to the row before it,
\* hashed or not.
LinkInv ==
    /\ \A r \in log : r.hash # Empty => r.hash = Canonical(r.prev, r.id, r.entry)
    /\ \A q, r \in log : r.hash # Empty /\ Before(log, q, r) => r.prev = q.hash
    /\ \A q, r \in log : q.hash # Empty /\ q.id < r.id => r.hash # Empty

\* What a call has read and written is still right: nobody else can have committed.
DraftInv ==
    /\ DOMAIN prev = Call /\ DOMAIN row = Call
    /\ \A c \in Call : pc[c] \in {"insert", "hash", "commit"} => IsLastHash(prev[c])
    /\ \A c \in Call : pc[c] \in {"hash", "commit"} =>
         /\ row[c] = [id |-> row[c].id, entry |-> c, prev |-> prev[c], hash |-> row[c].hash]
         /\ row[c].id \in Nat /\ row[c].id < nextId
         /\ \A q \in log : q.id < row[c].id
    /\ \A c \in Call : pc[c] = "commit" => row[c].hash = Canonical(prev[c], row[c].id, c)

IInv == LockInv /\ IdInv /\ LinkInv /\ DraftInv

-----------------------------------------------------------------------------
LEMMA InitInv == Init => IInv
  <1> SUFFICES ASSUME Init PROVE IInv
    OBVIOUS
  <1> USE BoundAssumption, NoneAssumption
  <1>1. LockInv
    BY DEF Init, LockInv, Locked
  <1>2. \A r \in log : r.id \in 1 .. Legacy /\ r.hash = Empty
                       /\ r = [id |-> r.id, entry |-> Other, prev |-> Empty, hash |-> Empty]
    BY DEF Init
  <1>3. IdInv
    BY <1>2 DEF Init, IdInv
  <1>4. LinkInv
    BY <1>2 DEF LinkInv
  <1>5. DraftInv
    BY DEF Init, DraftInv
  <1> QED BY <1>1, <1>3, <1>4, <1>5 DEF IInv

\* A step that leaves the log and the drafts of the others alone.
LEMMA LockStep ==
    ASSUME LockInv, [Next]_vars
    PROVE  LockInv'
  <1> USE NoneAssumption DEF LockInv, Locked, Goto
  <1>1. CASE UNCHANGED vars
    BY <1>1 DEF vars
  <1>2. ASSUME NEW c \in Call, Connect(c) \/ ConnectFails(c) PROVE LockInv'
    BY <1>2 DEF Connect, ConnectFails
  <1>3. ASSUME NEW c \in Call, Lock(c) PROVE LockInv'
    BY <1>3 DEF Lock
  <1>4. ASSUME NEW c \in Call, ReadPrev(c) PROVE LockInv'
    BY <1>4 DEF ReadPrev
  <1>5. ASSUME NEW c \in Call, Insert(c) PROVE LockInv'
    BY <1>5 DEF Insert
  <1>6. ASSUME NEW c \in Call, SetHash(c) PROVE LockInv'
    BY <1>6 DEF SetHash
  <1>7. ASSUME NEW c \in Call, NEW answer \in {"written", "failed"}, Commit(c, answer) PROVE LockInv'
    BY <1>7 DEF Commit
  <1>8. ASSUME NEW c \in Call, Rollback(c) PROVE LockInv'
    BY <1>8 DEF Rollback, InTransaction
  <1> QED BY <1>1, <1>2, <1>3, <1>4, <1>5, <1>6, <1>7, <1>8 DEF Next, Progress

\* Everything but Insert, SetHash, ReadPrev and Commit leaves the log and all drafts.
LEMMA QuietStep ==
    ASSUME IInv, UNCHANGED <<log, nextId, prev, row>>, NEW c \in Call,
           NEW at \in {"lock", "rejected", "read", "failed"}, pc' = [pc EXCEPT ![c] = at]
    PROVE  IdInv' /\ LinkInv' /\ DraftInv'
  <1>1. IdInv' /\ LinkInv'
    BY DEF IInv, IdInv, LinkInv, Before
  <1>2. \A d \in Call : pc'[d] \in {"insert", "hash", "commit"} => pc'[d] = pc[d]
    BY DEF IInv, LockInv
  <1>3. DraftInv'
    BY <1>2 DEF IInv, DraftInv, IsLastHash
  <1> QED BY <1>1, <1>3

LEMMA StepInv ==
    ASSUME IInv, [Next]_vars
    PROVE  IInv'
  <1>0. LockInv'
    BY LockStep DEF IInv
  <1> SUFFICES IdInv' /\ LinkInv' /\ DraftInv'
    BY <1>0 DEF IInv
  <1>1. CASE UNCHANGED vars
    BY <1>1 DEF vars, IInv, IdInv, LinkInv, Before, DraftInv, IsLastHash
  <1>2. ASSUME NEW c \in Call, Connect(c) \/ ConnectFails(c) \/ Lock(c) \/ Rollback(c)
        PROVE  IdInv' /\ LinkInv' /\ DraftInv'
    BY <1>2, QuietStep DEF Connect, ConnectFails, Lock, Rollback, Goto
  <1>3. ASSUME NEW c \in Call, ReadPrev(c) PROVE IdInv' /\ LinkInv' /\ DraftInv'
    <2>1. UNCHANGED <<log, nextId, row>> /\ pc' = [pc EXCEPT ![c] = "insert"]
      BY <1>3 DEF ReadPrev, Goto
    <2>2. PICK h : IsLastHash(h) /\ prev' = [prev EXCEPT ![c] = h]
      BY <1>3 DEF ReadPrev
    <2>3. IdInv' /\ LinkInv'
      BY <2>1 DEF IInv, IdInv, LinkInv, Before
    <2>4. \A d \in Call : d # c => pc'[d] = pc[d] /\ prev'[d] = prev[d]
      BY <2>1, <2>2 DEF IInv, LockInv, DraftInv
    <2>5. pc'[c] = "insert" /\ prev'[c] = h
      BY <2>1, <2>2 DEF IInv, LockInv, DraftInv
    <2>6. DraftInv'
      BY <2>1, <2>2, <2>4, <2>5 DEF IInv, DraftInv, IsLastHash
    <2> QED BY <2>3, <2>6
  <1>4. ASSUME NEW c \in Call, Insert(c) PROVE IdInv' /\ LinkInv' /\ DraftInv'
    <2>1. /\ UNCHANGED <<log, prev>> /\ pc' = [pc EXCEPT ![c] = "hash"]
          /\ nextId' = nextId + 1 /\ pc[c] = "insert"
          /\ row' = [row EXCEPT ![c] =
                       [id |-> nextId, entry |-> c, prev |-> prev[c], hash |-> Empty]]
      BY <1>4 DEF Insert, Goto
    <2>2. IdInv' /\ LinkInv'
      BY <2>1 DEF IInv, IdInv, LinkInv, Before
    <2>3. \A d \in Call : d # c => pc'[d] = pc[d] /\ row'[d] = row[d]
      BY <2>1 DEF IInv, LockInv, DraftInv
    <2>4. /\ pc'[c] = "hash"
          /\ row'[c] = [id |-> nextId, entry |-> c, prev |-> prev[c], hash |-> Empty]
      BY <2>1 DEF IInv, LockInv, DraftInv
    <2>5. DraftInv'
      BY <2>1, <2>3, <2>4 DEF IInv, DraftInv, IsLastHash, IdInv
    <2> QED BY <2>2, <2>5
  <1>5. ASSUME NEW c \in Call, SetHash(c) PROVE IdInv' /\ LinkInv' /\ DraftInv'
    <2>1. /\ UNCHANGED <<log, nextId, prev>> /\ pc' = [pc EXCEPT ![c] = "commit"]
          /\ pc[c] = "hash"
          /\ row' = [row EXCEPT ![c] = [row[c] EXCEPT !.hash = Canonical(prev[c], row[c].id, c)]]
      BY <1>5 DEF SetHash, Goto
    <2>2. IdInv' /\ LinkInv'
      BY <2>1 DEF IInv, IdInv, LinkInv, Before
    <2>3. \A d \in Call : d # c => pc'[d] = pc[d] /\ row'[d] = row[d]
      BY <2>1 DEF IInv, LockInv, DraftInv
    <2>4. /\ pc'[c] = "commit"
          /\ row'[c] = [row[c] EXCEPT !.hash = Canonical(prev[c], row[c].id, c)]
      BY <2>1 DEF IInv, LockInv, DraftInv
    <2>5. row[c] = [id |-> row[c].id, entry |-> c, prev |-> prev[c], hash |-> row[c].hash]
      BY <2>1 DEF IInv, DraftInv
    <2>6. row'[c] = [id |-> row[c].id, entry |-> c, prev |-> prev[c],
                     hash |-> Canonical(prev[c], row[c].id, c)]
      BY <2>4, <2>5
    <2>7. DraftInv'
      BY <2>1, <2>3, <2>4, <2>6 DEF IInv, DraftInv, IsLastHash
    <2> QED BY <2>2, <2>7
  <1>6. ASSUME NEW c \in Call, NEW answer \in {"written", "failed"}, Commit(c, answer)
        PROVE  IdInv' /\ LinkInv' /\ DraftInv'
    <2> DEFINE n == row[c]
    <2>1. /\ pc[c] = "commit" /\ log' = log \cup {n} /\ UNCHANGED <<nextId, prev, row>>
          /\ pc' = [pc EXCEPT ![c] = answer]
      BY <1>6 DEF Commit, Goto
    <2>2. /\ n.entry = c /\ n.prev = prev[c] /\ n.id \in Nat /\ n.id < nextId
          /\ n.hash = Canonical(n.prev, n.id, n.entry)
          /\ IsLastHash(n.prev)
          /\ \A q \in log : q.id < n.id
      BY <2>1 DEF IInv, DraftInv
    <2>3. n.hash # Empty
      BY <2>2 DEF Canonical, Empty
    <2>4. IdInv'
      BY <2>1, <2>2 DEF IInv, IdInv
    <2>5. \A q \in log : Before(log \cup {n}, q, n) => n.prev = q.hash
      <3> SUFFICES ASSUME NEW q \in log, Before(log \cup {n}, q, n) PROVE n.prev = q.hash
        OBVIOUS
      <3>1. PICK r \in log : n.prev = r.hash /\ \A x \in log : x.id <= r.id
        BY <2>2 DEF IsLastHash
      <3>2. ~(q.id < r.id)
        BY <2>2, <3>1 DEF Before
      <3>3. q = r
        BY <3>1, <3>2 DEF IInv, IdInv
      <3> QED BY <3>1, <3>3
    <2>6. \A q, r \in log : Before(log \cup {n}, q, r) => Before(log, q, r)
      BY DEF Before
    <2>7. \A r \in log : ~Before(log \cup {n}, n, r)
      BY <2>2 DEF Before, IInv, IdInv
    <2>8. LinkInv'
      <3> HIDE DEF n
      <3>1. \A r \in log' : r.hash # Empty => r.hash = Canonical(r.prev, r.id, r.entry)
        BY <2>1, <2>2 DEF IInv, LinkInv
      <3>2. \A q, r \in log' : r.hash # Empty /\ Before(log', q, r) => r.prev = q.hash
        <4>1. ~Before(log', n, n)
          BY <2>2 DEF Before
        <4> QED BY <2>1, <2>5, <2>6, <2>7, <4>1 DEF IInv, LinkInv
      <3>3. \A q, r \in log' : q.hash # Empty /\ q.id < r.id => r.hash # Empty
        BY <2>1, <2>2, <2>3 DEF IInv, IdInv, LinkInv
      <3> QED BY <3>1, <3>2, <3>3 DEF LinkInv, Canonical
    <2>9. \A d \in Call : pc'[d] \notin {"insert", "hash", "commit"}
      BY <1>0, <2>1 DEF IInv, LockInv, Locked
    <2>10. DraftInv'
      BY <2>1, <2>9 DEF IInv, DraftInv
    <2> QED BY <2>4, <2>8, <2>10
  <1> QED BY <1>1, <1>2, <1>3, <1>4, <1>5, <1>6 DEF Next, Progress

LEMMA InvHolds == Spec => []IInv
  <1>1. IInv /\ [Next]_vars => IInv'
    BY StepInv
  <1> QED BY <1>1, InitInv, PTL DEF Spec

-----------------------------------------------------------------------------
\* verifyAuditChain() never finds a row broken, whatever calls of audit() interleave,
\* fail or die (audit.ts: "keeping the hash chain strictly ordered even under concurrent
\* requests").
THEOREM ChainStaysIntact == Spec => []ChainIntact
  <1>1. IInv => ChainIntact
    <2> SUFFICES ASSUME IInv, NEW r \in Hashed(log),
                        NEW q \in Hashed(log), Before(Hashed(log), q, r)
                 PROVE  r.prev = q.hash
      BY DEF ChainIntact, Broken, IInv, LinkInv, Hashed
    <2>1. Before(log, q, r)
      BY DEF Before, Hashed, IInv, LinkInv
    <2> QED BY <2>1 DEF Hashed, IInv, LinkInv
  <1> QED BY <1>1, InvHolds, PTL

\* Committed rows stay as they are and every new one has a higher id than all before.
THEOREM RowsAreAppendedInOrder == Spec => AppendedInOrder
  <1> DEFINE Appends == /\ log \subseteq log'
                        /\ \A r \in log' \ log : \A q \in log : q.id < r.id
  <1>1. IInv /\ [Next]_vars => [Appends]_vars
    <2> SUFFICES ASSUME IInv, Next PROVE Appends
      OBVIOUS
    <2>1. CASE UNCHANGED log
      BY <2>1
    <2>2. ASSUME NEW c \in Call, NEW answer \in {"written", "failed"}, Commit(c, answer)
          PROVE  Appends
      BY <2>2 DEF Commit, IInv, DraftInv
    <2> QED BY <2>1, <2>2 DEF Next, Progress, Connect, ConnectFails, Lock, ReadPrev, Insert,
                              SetHash, Rollback
  <1> QED BY <1>1, InvHolds, PTL DEF Spec, AppendedInOrder
-----------------------------------------------------------------------------
(* The type invariant of the audit log, and EditsAreLocated. *)

\* The rows that are hashed are those of calls.
EntryInv ==
    /\ \A r \in log : r.entry \in Call \cup {Other} /\ (r.hash # Empty => r.entry \in Call)
    /\ \A r \in log : r = [id |-> r.id, entry |-> r.entry, prev |-> r.prev, hash |-> r.hash]
    /\ pc \in [Call -> InTransaction \cup {"idle", "written", "failed", "rejected"}]

AInv == IInv /\ EntryInv

LEMMA AuditInit == Init => AInv
  <1> SUFFICES ASSUME Init PROVE EntryInv
    BY InitInv DEF AInv
  <1>1. pc \in [Call -> InTransaction \cup {"idle", "written", "failed", "rejected"}]
    BY DEF Init
  <1>2. \A r \in log : r.entry = Other /\ r.hash = Empty
    BY DEF Init
  <1>3. \A r \in log : r = [id |-> r.id, entry |-> r.entry, prev |-> r.prev, hash |-> r.hash]
    BY DEF Init
  <1> QED BY <1>1, <1>2, <1>3 DEF EntryInv

LEMMA AuditStep ==
    ASSUME AInv, [Next]_vars
    PROVE  AInv'
  <1> SUFFICES EntryInv'
    BY StepInv DEF AInv
  <1> USE DEF EntryInv, Goto, InTransaction
  <1>1. CASE UNCHANGED vars
    BY <1>1 DEF vars, AInv
  <1>2. ASSUME NEW c \in Call,
               Connect(c) \/ ConnectFails(c) \/ Lock(c) \/ ReadPrev(c) \/ Insert(c) \/ SetHash(c)
        PROVE  EntryInv'
    BY <1>2 DEF Connect, ConnectFails, Lock, ReadPrev, Insert, SetHash, AInv
  <1>3. ASSUME NEW c \in Call, Rollback(c) PROVE EntryInv'
    BY <1>3 DEF Rollback, AInv
  <1>4. ASSUME NEW c \in Call, NEW answer \in {"written", "failed"}, Commit(c, answer) PROVE EntryInv'
    <2>1. /\ row[c].entry = c
          /\ row[c] = [id |-> row[c].id, entry |-> row[c].entry, prev |-> row[c].prev,
                       hash |-> row[c].hash]
      BY <1>4 DEF Commit, AInv, IInv, DraftInv
    <2> QED BY <1>4, <2>1 DEF Commit, AInv
  <1> QED BY <1>1, <1>2, <1>3, <1>4 DEF Next, Progress

LEMMA AuditTypes == AInv => TypeOK
  BY DEF AInv, IInv, EntryInv, TypeOK, IdInv, LockInv, DraftInv

\* The row before a hashed one, if there is one.
LEMMA RowBefore ==
    ASSUME IInv, NEW r \in Hashed(log), NEW p \in Hashed(log), p.id < r.id
    PROVE  \E q \in Hashed(log) : Before(Hashed(log), q, r)
  <1> DEFINE gap(x) == r.id - x.id
             gaps == {gap(x) : x \in {y \in Hashed(log) : y.id < r.id}}
  <1>1. \A x \in Hashed(log) : x.id \in Nat
    BY DEF Hashed, IInv, IdInv
  <1>2. gaps \in SUBSET Nat /\ gap(p) \in gaps
    BY <1>1
  <1>3. PICK g \in gaps : \A h \in gaps : ~ <<h, g>> \in OpToRel(<, Nat)
    BY <1>2, NatLessThanWellFounded, WFMin
  <1>4. PICK q \in Hashed(log) : q.id < r.id /\ g = gap(q)
    BY <1>3
  <1>5. \A x \in Hashed(log) : ~(q.id < x.id /\ x.id < r.id)
    <2> SUFFICES ASSUME NEW x \in Hashed(log), q.id < x.id, x.id < r.id PROVE FALSE
      OBVIOUS
    <2>1. gap(x) \in gaps /\ gap(x) \in Nat /\ g \in Nat /\ gap(x) < g
      BY <1>1, <1>2, <1>4
    <2> HIDE DEF gaps, gap
    <2> QED BY <2>1, <1>3 DEF OpToRel
  <1> QED BY <1>4, <1>5 DEF Before

\* Hashed rows link to the hashed row before, are told apart by their ids, and are
\* followed by one row at most.
LEMMA Links ==
    ASSUME AInv
    PROVE  /\ \A q, r \in Hashed(log) : Before(Hashed(log), q, r) => r.prev = q.hash
           /\ \A r \in Hashed(log) : /\ r.hash = Canonical(r.prev, r.id, r.entry)
                                    /\ r.id \in Nat /\ r.entry \in Call
                                    /\ r = [id |-> r.id, entry |-> r.entry, prev |-> r.prev,
                                            hash |-> r.hash]
           /\ \A q, r \in Hashed(log) : q.id = r.id => q = r
           /\ \A q, r, s \in Hashed(log) :
                Before(Hashed(log), r, s) /\ Before(Hashed(log), r, q) => q = s
  <1>1. \A q, r \in Hashed(log) : Before(Hashed(log), q, r) => Before(log, q, r)
    BY DEF Before, Hashed, AInv, IInv, LinkInv
  <1>2. \A q, r \in Hashed(log) : Before(Hashed(log), q, r) => r.prev = q.hash
    BY <1>1 DEF Hashed, AInv, IInv, LinkInv
  <1>3. \A r \in Hashed(log) : /\ r.hash = Canonical(r.prev, r.id, r.entry)
                              /\ r.id \in Nat /\ r.entry \in Call
                              /\ r = [id |-> r.id, entry |-> r.entry, prev |-> r.prev,
                                      hash |-> r.hash]
    BY DEF Hashed, AInv, IInv, LinkInv, IdInv, EntryInv
  <1>4. \A q, r \in Hashed(log) : q.id = r.id => q = r
    BY DEF Hashed, AInv, IInv, IdInv
  <1>5. \A q, r, s \in Hashed(log) :
          Before(Hashed(log), r, s) /\ Before(Hashed(log), r, q) => q.id = s.id
    BY <1>3 DEF Before
  <1> QED BY <1>2, <1>3, <1>4, <1>5

\* A hashed row that is replaced by one with its id keeps its place among the rows.
LEMMA PlaceKept ==
    ASSUME AInv, NEW r \in Hashed(log), NEW n, n.id = r.id, n.hash # Empty, n # r
    PROVE  LET rows == (log \ {r}) \cup {n}
               old(x) == IF x = n THEN r ELSE x
           IN  /\ Hashed(rows) = (Hashed(log) \ {r}) \cup {n}
               /\ \A x \in Hashed(rows) : old(x) \in Hashed(log) /\ old(x).id = x.id
               /\ \A x, y \in Hashed(rows) :
                    Before(Hashed(rows), x, y) <=> Before(Hashed(log), old(x), old(y))
  <1> DEFINE rows == (log \ {r}) \cup {n}
             old(x) == IF x = n THEN r ELSE x
  <1>1. Hashed(rows) = (Hashed(log) \ {r}) \cup {n}
    BY DEF Hashed
  <1>2. \A x \in Hashed(rows) : old(x) \in Hashed(log) /\ old(x).id = x.id
    BY <1>1
  <1>3. ASSUME NEW x \in Hashed(rows), NEW y \in Hashed(rows)
        PROVE  Before(Hashed(rows), x, y) <=> Before(Hashed(log), old(x), old(y))
    <2>1. ASSUME NEW z \in Hashed(rows) PROVE \E w \in Hashed(log) : w.id = z.id
      BY <1>2, <2>1
    <2>2. ASSUME NEW w \in Hashed(log) PROVE \E z \in Hashed(rows) : w.id = z.id
      BY <1>1, <2>2
    <2>3. old(x).id = x.id /\ old(y).id = y.id
      BY <1>2
    <2> HIDE DEF rows, old
    <2> QED BY <2>1, <2>2, <2>3 DEF Before
  <1> HIDE DEF rows, old
  <1>4. /\ Hashed(rows) = (Hashed(log) \ {r}) \cup {n}
        /\ \A x \in Hashed(rows) : old(x) \in Hashed(log) /\ old(x).id = x.id
        /\ \A x, y \in Hashed(rows) :
             Before(Hashed(rows), x, y) <=> Before(Hashed(log), old(x), old(y))
    BY <1>1, <1>2, <1>3
  <1> QED BY <1>4 DEF rows, old

LEMMA ChangedIsLocated ==
    ASSUME AInv, NEW r \in Hashed(log)
    PROVE  LET changed == [r EXCEPT !.entry = Other]
           IN  BrokenAt((log \ {r}) \cup {changed}, changed)
  <1> DEFINE n == [r EXCEPT !.entry = Other]
             rows == (log \ {r}) \cup {n}
             old(x) == IF x = n THEN r ELSE x
  <1>1. /\ n.id = r.id /\ n.hash = r.hash /\ n.prev = r.prev /\ n.entry = Other
        /\ r.hash = Canonical(r.prev, r.id, r.entry) /\ r.entry # Other /\ r.hash # Empty
        /\ r.id \in Nat
    BY Links, NoneAssumption DEF Hashed
  <1> HIDE DEF n
  <1>2. n # r
    BY <1>1
  <1>3. /\ Hashed(rows) = (Hashed(log) \ {r}) \cup {n}
        /\ \A x, y \in Hashed(rows) :
             Before(Hashed(rows), x, y) => Before(Hashed(log), old(x), old(y))
    BY <1>1, <1>2, PlaceKept
  <1> HIDE DEF rows
  <1>4. n.hash # Canonical(n.prev, n.id, n.entry)
    BY <1>1 DEF Canonical
  <1>5. n \in Broken(rows)
    BY <1>3, <1>4 DEF Broken
  <1>6. ASSUME NEW x \in Broken(rows) PROVE x = n
    <2> SUFFICES ASSUME x # n PROVE FALSE
      OBVIOUS
    <2>1. x \in Hashed(log) /\ old(x) = x /\ x \in Hashed(rows)
      BY <1>3 DEF Broken
    <2>2. x.hash = Canonical(x.prev, x.id, x.entry)
      BY <2>1, Links
    <2>3. PICK q \in Hashed(rows) : Before(Hashed(rows), q, x) /\ x.prev # q.hash
      BY <2>2 DEF Broken
    <2>4. old(q) \in Hashed(log) /\ old(q).hash = q.hash
      BY <1>1, <1>3
    <2>5. Before(Hashed(log), old(q), x)
      BY <1>3, <2>1, <2>3
    <2> HIDE DEF old
    <2> QED BY <2>1, <2>3, <2>4, <2>5, Links
  <1>7. BrokenAt(rows, n)
    BY <1>1, <1>5, <1>6 DEF BrokenAt
  <1> QED BY <1>7 DEF rows, n

LEMMA RehashIsLocated ==
    ASSUME AInv, NEW r \in Hashed(log), NEW s \in Hashed(log), Before(Hashed(log), r, s)
    PROVE  LET changed == [r EXCEPT !.entry = Other]
               rehash  == [changed EXCEPT !.hash = Canonical(r.prev, r.id, Other)]
           IN  BrokenAt((log \ {r}) \cup {rehash}, s)
  <1> DEFINE m == [r EXCEPT !.entry = Other]
             n == [m EXCEPT !.hash = Canonical(r.prev, r.id, Other)]
             rows == (log \ {r}) \cup {n}
             old(x) == IF x = n THEN r ELSE x
  <1>1. /\ n.id = r.id /\ n.hash = Canonical(r.prev, r.id, Other) /\ n.prev = r.prev
        /\ n.entry = Other /\ r.hash = Canonical(r.prev, r.id, r.entry) /\ r.entry # Other
        /\ r.id \in Nat /\ s.id \in Nat
    BY Links, NoneAssumption
  <1> HIDE DEF n
  <1>2. n # r /\ n.hash # Empty /\ n.hash # r.hash
    BY <1>1 DEF Canonical, Empty
  <1>3. /\ Hashed(rows) = (Hashed(log) \ {r}) \cup {n}
        /\ \A x, y \in Hashed(rows) :
             Before(Hashed(rows), x, y) <=> Before(Hashed(log), old(x), old(y))
    BY <1>1, <1>2, PlaceKept
  <1> HIDE DEF rows
  <1>4. s # r /\ s.id # n.id /\ s # n
    BY <1>1 DEF Before
  <1>5. s \in Hashed(rows) /\ n \in Hashed(rows) /\ Before(Hashed(rows), n, s)
    BY <1>3, <1>4
  <1>6. s \in Broken(rows)
    BY <1>2, <1>5, Links DEF Broken
  <1>7. ASSUME NEW x \in Broken(rows) PROVE x = s
    <2>1. x \in Hashed(rows) /\ old(x) \in Hashed(log)
      BY <1>3 DEF Broken
    <2>2. x.hash = Canonical(x.prev, x.id, x.entry)
      BY <1>1, <2>1, Links
    <2>3. PICK q \in Hashed(rows) : Before(Hashed(rows), q, x) /\ x.prev # q.hash
      BY <2>2 DEF Broken
    <2>4. old(q) \in Hashed(log) /\ Before(Hashed(log), old(q), old(x)) /\ old(x).prev = x.prev
      BY <1>1, <1>3, <2>1, <2>3
    <2>5. old(x).prev = old(q).hash
      BY <2>1, <2>4, Links
    <2>6. q = n
      BY <2>3, <2>4, <2>5
    <2>7. Before(Hashed(log), r, old(x))
      BY <2>4, <2>6
    <2>8. old(x) = s
      BY <2>1, <2>7, Links
    <2> QED BY <2>8, <1>4
  <1>8. BrokenAt(rows, s)
    BY <1>1, <1>6, <1>7 DEF BrokenAt
  <1> QED BY <1>8 DEF rows, n

LEMMA DeletionIsLocated ==
    ASSUME AInv, NEW r \in Hashed(log), NEW s \in Hashed(log), Before(Hashed(log), r, s),
           NEW p \in Hashed(log), p.id < r.id
    PROVE  BrokenAt(log \ {r}, s)
  <1> DEFINE rows == log \ {r}
  <1>1. Hashed(rows) = Hashed(log) \ {r}
    BY DEF Hashed
  <1> HIDE DEF rows
  <1>2. PICK q \in Hashed(log) : Before(Hashed(log), q, r)
    BY RowBefore DEF AInv
  <1>3. \A x \in Hashed(log) : x.id \in Nat /\ x.hash = Canonical(x.prev, x.id, x.entry)
    BY Links
  <1>4. q # r /\ s # r /\ q.id # r.id
    BY <1>2, <1>3 DEF Before
  <1>5. Before(Hashed(rows), q, s)
    BY <1>1, <1>2, <1>3, Links DEF Before
  <1>6. s.prev = r.hash /\ r.hash # q.hash
    BY <1>3, <1>4, Links DEF Canonical
  <1>7. s \in Broken(rows)
    BY <1>1, <1>4, <1>5, <1>6 DEF Broken
  <1>8. ASSUME NEW x \in Broken(rows) PROVE x = s
    <2>1. x \in Hashed(log) /\ x # r
      BY <1>1 DEF Broken
    <2>2. PICK y \in Hashed(rows) : Before(Hashed(rows), y, x) /\ x.prev # y.hash
      BY <1>3, <2>1 DEF Broken
    <2>3. ~Before(Hashed(log), y, x)
      BY <1>1, <2>1, <2>2, Links
    <2>4. y.id < r.id /\ r.id < x.id
      BY <1>1, <2>2, <2>3 DEF Before
    <2>5. Before(Hashed(log), r, x)
      BY <1>1, <1>3, <2>1, <2>2, <2>4 DEF Before
    <2> QED BY <2>1, <2>5, Links
  <1>9. BrokenAt(rows, s)
    BY <1>3, <1>7, <1>8 DEF BrokenAt
  <1> QED BY <1>9 DEF rows

LEMMA AuditSafe == AInv => TypeOK /\ EditsAreLocated
  BY AuditTypes, ChangedIsLocated, RehashIsLocated, DeletionIsLocated DEF EditsAreLocated

-----------------------------------------------------------------------------
(* The syslog listener: types, EachInOnePlace and SourceIsLimited. *)

Numbers == 1..MaxMsgs
SomeId == Id \cup {None}
Rows == Syslog!Rows

Waits == {m \in Numbers : asked[m] # Absent}
InBuffer == Syslog!Queued(buffer)
InBatch == Syslog!Queued(batch)
InTable == {r.msg : r \in stored}
Handled == limited \cup shed \cup InBuffer \cup InBatch

Apart(a, b, c, d) == /\ a \cap b = {} /\ a \cap c = {} /\ a \cap d = {}
                     /\ b \cap c = {} /\ b \cap d = {} /\ c \cap d = {}
Once(rows) == \A i, j \in DOMAIN rows : rows[i].msg = rows[j].msg => i = j

\* Devices and the cache.
DeviceInv ==
    /\ owner \in [Source -> SomeId] /\ dbUp \in BOOLEAN
    /\ cache \in [Source -> SomeId \cup {Absent}]
    /\ Syslog!OneEach(owner)
    /\ unused \subseteq Id /\ \A s \in Source : owner[s] \notin unused

\* A datagram that waits came from a source.
AskedInv ==
    /\ asked \in [Numbers -> SomeId \cup {Absent, Asked}]
    /\ DOMAIN source = Numbers
    /\ arrived \in Nat /\ arrived <= MaxMsgs
    /\ \A m \in 1..arrived : source[m] \in Source

\* What was let through is counted in the window, or was before the map was emptied.
RateInv ==
    /\ accepted \in [Source -> Nat] /\ cleared \in Nat /\ DOMAIN rate = Source
    /\ \A s \in Source :
         IF rate[s] = None THEN accepted[s] <= Rate * cleared
         ELSE /\ rate[s] \in [count : 1..Rate, now : BOOLEAN]
              /\ accepted[s] <= Rate * cleared + (IF rate[s].now THEN rate[s].count ELSE 0)

\* The batcher's rows and the table's.
QueueInv ==
    /\ buffer \in Seq(Rows) /\ batch \in Seq(Rows) /\ Len(buffer) <= MaxBuffer
    /\ Once(buffer) /\ Once(batch)
    /\ Apart(limited, shed, InBuffer, InBatch)
TableInv ==
    /\ stored \subseteq Rows /\ matched \subseteq Rows
    /\ \A x, y \in stored : x.msg = y.msg => x = y

PlaceInv ==
    /\ Waits \cup lost \cup InTable \cup Handled = 1..arrived
    /\ Apart(Waits, lost, InTable, Handled)

LInv == DeviceInv /\ AskedInv /\ RateInv /\ QueueInv /\ TableInv /\ PlaceInv

-----------------------------------------------------------------------------
LEMMA LogInit == Syslog!Init => LInv
  <1> SUFFICES ASSUME Syslog!Init PROVE LInv
    OBVIOUS
  <1> USE SyslogAssumption DEF Syslog!Init, Numbers, Syslog!Msg, SomeId
  <1>1. DeviceInv
    BY DEF DeviceInv, Syslog!OneEach
  <1>2. AskedInv
    BY DEF AskedInv
  <1>3. RateInv
    BY DEF RateInv
  <1>4. /\ InBuffer = {} /\ InBatch = {} /\ InTable = {} /\ Handled = {} /\ Waits = {}
    BY DEF InBuffer, InBatch, InTable, Handled, Waits, Syslog!Queued
  <1>5. QueueInv
    BY <1>4 DEF QueueInv, Once, Apart
  <1>6. TableInv
    BY DEF TableInv
  <1>7. PlaceInv
    BY <1>4 DEF PlaceInv, Apart
  <1> QED BY <1>1, <1>2, <1>3, <1>5, <1>6, <1>7 DEF LInv

\* Appending a row queues its datagram.
LEMMA AppendQueues ==
    ASSUME NEW rows \in Seq(Rows), NEW r \in Rows, Once(rows), r.msg \notin Syslog!Queued(rows)
    PROVE  /\ Append(rows, r) \in Seq(Rows) /\ Len(Append(rows, r)) = Len(rows) + 1
           /\ Once(Append(rows, r))
           /\ Syslog!Queued(Append(rows, r)) = Syslog!Queued(rows) \cup {r.msg}
  <1> DEFINE new == Append(rows, r)
  <1>1. /\ new \in Seq(Rows) /\ Len(new) = Len(rows) + 1 /\ Len(rows) \in Nat
        /\ DOMAIN rows = 1..Len(rows) /\ DOMAIN new = 1..Len(rows) + 1
        /\ \A i \in 1..Len(rows) : new[i] = rows[i]
        /\ new[Len(rows) + 1] = r
    OBVIOUS
  <1> HIDE DEF new
  <1>2. \A i \in 1..Len(rows) : rows[i].msg # r.msg
    BY <1>1 DEF Syslog!Queued
  <1>3. Once(new)
    BY <1>1, <1>2 DEF Once
  <1>4. Syslog!Queued(new) = Syslog!Queued(rows) \cup {r.msg}
    BY <1>1 DEF Syslog!Queued
  <1> QED BY <1>1, <1>3, <1>4 DEF new

LEMMA NoneQueued == Syslog!Queued(<< >>) = {} /\ Once(<< >>) /\ << >> \in Seq(Rows) /\ Len(<< >>) = 0
  BY DEF Syslog!Queued, Once

\* withinRate() keeps the count.
LEMMA RateStep ==
    ASSUME RateInv, NEW s \in Source, Syslog!WithinRate(s)
    PROVE  RateInv'
  <1> USE SyslogAssumption
  <1> DEFINE full == Syslog!Held(rate) > MapCap
             r    == IF full THEN None ELSE rate[s]
             new  == r = None \/ ~r.now
             ok   == new \/ r.count < Rate
             P    == Rate * cleared
             Pn   == Rate * cleared'
             entry == [count |-> IF new THEN 1 ELSE IF ok THEN r.count + 1 ELSE r.count,
                       now |-> TRUE]
  <1>1. /\ rate' = [q \in Source |-> IF q = s THEN entry ELSE IF full THEN None ELSE rate[q]]
        /\ accepted' = [accepted EXCEPT ![s] = IF ok THEN @ + 1 ELSE @]
        /\ cleared' = IF full THEN cleared + 1 ELSE cleared
    BY DEF Syslog!WithinRate
  <1>2. P \in Nat /\ Pn \in Nat /\ Pn = IF full THEN P + Rate ELSE P
    BY <1>1 DEF RateInv
  <1>3. /\ accepted \in [Source -> Nat] /\ cleared \in Nat
        /\ \A q \in Source :
             IF rate[q] = None THEN accepted[q] <= P
             ELSE /\ rate[q] \in [count : 1..Rate, now : BOOLEAN]
                  /\ accepted[q] <= P + (IF rate[q].now THEN rate[q].count ELSE 0)
    BY DEF RateInv
  <1> HIDE DEF P, Pn, full
  <1>4. accepted' \in [Source -> Nat] /\ cleared' \in Nat
    BY <1>1, <1>3
  <1>5. ASSUME NEW q \in Source, q # s
        PROVE  IF rate'[q] = None THEN accepted'[q] <= Pn
               ELSE /\ rate'[q] \in [count : 1..Rate, now : BOOLEAN]
                    /\ accepted'[q] <= Pn + (IF rate'[q].now THEN rate'[q].count ELSE 0)
    <2>1. accepted'[q] = accepted[q] /\ rate'[q] = IF full THEN None ELSE rate[q]
      BY <1>1, <1>3, <1>5
    <2> QED BY <2>1, <1>2, <1>3
  <1>6. /\ entry.now /\ entry \in [count : 1..Rate, now : BOOLEAN] /\ rate'[s] = entry
        /\ entry \in [count : Nat, now : BOOLEAN]
    BY <1>1, <1>3
  <1>7. accepted'[s] <= Pn + entry.count
    <2>1. accepted'[s] = IF ok THEN accepted[s] + 1 ELSE accepted[s]
      BY <1>1, <1>3
    <2>2. accepted[s] \in Nat
      BY <1>3
    <2>3. CASE full
      BY <2>1, <2>2, <2>3, <1>2, <1>3
    <2>4. CASE ~full
      BY <2>1, <2>2, <2>4, <1>2, <1>3
    <2> QED BY <2>3, <2>4
  <1> HIDE DEF entry
  <1>8. IF rate'[s] = None THEN accepted'[s] <= Pn
        ELSE /\ rate'[s] \in [count : 1..Rate, now : BOOLEAN]
             /\ accepted'[s] <= Pn + (IF rate'[s].now THEN rate'[s].count ELSE 0)
    BY <1>6, <1>7
  <1>9. DOMAIN rate' = Source
    BY <1>1
  <1> QED BY <1>4, <1>5, <1>8, <1>9 DEF RateInv, Pn

\* push() sheds the row, or queues it in the buffer or in a batch.
LEMMA PushStep ==
    ASSUME QueueInv, NEW r \in Rows, r.msg \notin Handled, Syslog!Push(r), UNCHANGED limited
    PROVE  QueueInv' /\ Handled' = Handled \cup {r.msg}
  <1> USE SyslogAssumption
  <1>1. r.msg \notin InBuffer /\ r.msg \notin InBatch /\ r.msg \notin limited /\ r.msg \notin shed
    BY DEF Handled
  <1>2. CASE Len(buffer) >= MaxBuffer
    <2>1. shed' = shed \cup {r.msg} /\ UNCHANGED <<buffer, batch>>
      BY <1>2 DEF Syslog!Push
    <2>2. InBuffer' = InBuffer /\ InBatch' = InBatch
      BY <2>1 DEF InBuffer, InBatch
    <2> QED BY <2>1, <2>2, <1>1 DEF QueueInv, Once, Apart, Handled
  <1>3. CASE ~(Len(buffer) >= MaxBuffer)
    <2> DEFINE new == Append(buffer, r)
    <2>1. /\ new \in Seq(Rows) /\ Len(new) = Len(buffer) + 1 /\ Once(new)
          /\ Syslog!Queued(new) = InBuffer \cup {r.msg} /\ Len(buffer) \in Nat
      BY <1>1, AppendQueues DEF QueueInv, InBuffer
    <2>2. /\ UNCHANGED shed
          /\ \/ buffer' = new /\ UNCHANGED batch
             \/ buffer' = << >> /\ batch' = new /\ batch = << >>
      BY <1>3 DEF Syslog!Push, Syslog!FlushNow
    <2> HIDE DEF new
    <2>3. CASE buffer' = new /\ UNCHANGED batch
      <3>1. InBuffer' = InBuffer \cup {r.msg} /\ InBatch' = InBatch
        BY <2>1, <2>3 DEF InBuffer, InBatch
      <3>2. /\ buffer' \in Seq(Rows) /\ batch' \in Seq(Rows) /\ Len(buffer') <= MaxBuffer
            /\ Once(buffer)' /\ Once(batch)'
        BY <2>1, <2>3, <1>3 DEF QueueInv, Once
      <3> QED BY <3>1, <3>2, <2>2, <1>1 DEF QueueInv, Apart, Handled
    <2>4. CASE buffer' = << >> /\ batch' = new /\ batch = << >>
      <3>1. InBuffer' = {} /\ InBatch' = InBuffer \cup {r.msg} /\ InBatch = {}
        BY <2>1, <2>4, NoneQueued DEF InBuffer, InBatch
      <3>2. /\ buffer' \in Seq(Rows) /\ batch' \in Seq(Rows) /\ Len(buffer') <= MaxBuffer
            /\ Once(buffer)' /\ Once(batch)'
        BY <2>1, <2>4, NoneQueued DEF QueueInv, Once
      <3> QED BY <3>1, <3>2, <2>2, <1>1 DEF QueueInv, Apart, Handled
    <2> QED BY <2>2, <2>3, <2>4
  <1> QED BY <1>2, <1>3

\* A datagram that is handled is limited, shed or queued, and matched.
LEMMA HandleStep ==
    ASSUME QueueInv, RateInv, matched \subseteq Rows, NEW m \in Numbers, NEW s \in Source,
           NEW id \in SomeId, m \notin Handled, Syslog!Handle(m, s, id)
    PROVE  QueueInv' /\ RateInv' /\ Handled' = Handled \cup {m} /\ matched' \subseteq Rows
  <1>1. Syslog!WithinRate(s) /\ matched' = matched \cup {[msg |-> m, id |-> id]}
    BY DEF Syslog!Handle
  <1>2. RateInv'
    BY <1>1, RateStep
  <1>3. [msg |-> m, id |-> id] \in Rows
    BY DEF Rows, Syslog!Rows, Numbers, Syslog!Msg, SomeId
  <1>4. CASE limited' = limited \cup {m} /\ UNCHANGED <<buffer, batch, shed>>
    <2>1. InBuffer' = InBuffer /\ InBatch' = InBatch
      BY <1>4 DEF InBuffer, InBatch
    <2> QED BY <2>1, <1>1, <1>2, <1>3, <1>4 DEF QueueInv, Once, Apart, Handled
  <1>5. CASE Syslog!Push([msg |-> m, id |-> id]) /\ UNCHANGED limited
    BY <1>1, <1>2, <1>3, <1>5, PushStep
  <1> QED BY <1>4, <1>5 DEF Syslog!Handle

\* What a step that leaves a part of the listener alone keeps.
LEMMA Kept ==
    /\ DeviceInv /\ UNCHANGED <<owner, unused, dbUp, cache>> => DeviceInv'
    /\ AskedInv /\ UNCHANGED <<asked, arrived, source>> => AskedInv'
    /\ RateInv /\ UNCHANGED <<accepted, cleared, rate>> => RateInv'
    /\ QueueInv /\ UNCHANGED <<buffer, batch, limited, shed>> => QueueInv'
    /\ TableInv /\ UNCHANGED <<stored, matched>> => TableInv'
    /\ UNCHANGED <<buffer, batch>> => InBuffer' = InBuffer /\ InBatch' = InBatch
    /\ UNCHANGED <<buffer, batch, limited, shed>> => Handled' = Handled
    /\ UNCHANGED asked => Waits' = Waits
    /\ UNCHANGED stored => InTable' = InTable
  <1>1. UNCHANGED <<buffer, batch>> => InBuffer' = InBuffer /\ InBatch' = InBatch
    BY DEF InBuffer, InBatch
  <1>2. UNCHANGED <<buffer, batch, limited, shed>> => Handled' = Handled
    BY <1>1 DEF Handled
  <1>3. DeviceInv /\ UNCHANGED <<owner, unused, dbUp, cache>> => DeviceInv'
    BY DEF DeviceInv, Syslog!OneEach
  <1>4. AskedInv /\ UNCHANGED <<asked, arrived, source>> => AskedInv'
    BY DEF AskedInv
  <1>5. RateInv /\ UNCHANGED <<accepted, cleared, rate>> => RateInv'
    BY DEF RateInv
  <1>6. QueueInv /\ UNCHANGED <<buffer, batch, limited, shed>> => QueueInv'
    BY <1>1 DEF QueueInv, Once, Apart
  <1>7. TableInv /\ UNCHANGED <<stored, matched>> => TableInv'
    BY DEF TableInv
  <1>8. /\ UNCHANGED asked => Waits' = Waits
        /\ UNCHANGED stored => InTable' = InTable
    BY DEF Waits, InTable
  <1> QED BY <1>1, <1>2, <1>3, <1>4, <1>5, <1>6, <1>7, <1>8

LEMMA ArriveStep ==
    ASSUME LInv, NEW s \in Source, Syslog!Arrive(s)
    PROVE  LInv'
  <1> USE SyslogAssumption
  <1> DEFINE m == arrived + 1
  <1>1. /\ m \in Numbers /\ arrived \in Nat /\ m \notin 1..arrived /\ 1..m = 1..arrived \cup {m}
        /\ arrived' = m /\ source' = [source EXCEPT ![m] = s]
        /\ UNCHANGED <<owner, unused, dbUp, stored, lost>>
        /\ m <= MaxMsgs
    BY DEF Syslog!Arrive, Syslog!db, Syslog!fates, LInv, AskedInv, Numbers
  <1>2. m \notin Handled /\ m \notin Waits /\ m \notin lost /\ m \notin InTable
    BY <1>1 DEF LInv, PlaceInv
  <1>3. InTable' = InTable
    BY <1>1 DEF InTable
  <1> HIDE DEF m
  <1>4. \A n \in 1..m : source'[n] \in Source
    BY <1>1 DEF LInv, AskedInv, Numbers
  <1>5. CASE cache[s] # Absent
    <2>1. Syslog!Handle(m, s, cache[s]) /\ UNCHANGED <<cache, asked>>
      BY <1>5 DEF Syslog!Arrive, m
    <2>2. cache[s] \in SomeId
      BY <1>5 DEF LInv, DeviceInv
    <2>3. QueueInv' /\ RateInv' /\ Handled' = Handled \cup {m} /\ matched' \subseteq Rows
      BY <1>1, <1>2, <2>1, <2>2, HandleStep DEF LInv, TableInv
    <2>4. DeviceInv' /\ Waits' = Waits
      BY <1>1, <2>1, Kept DEF LInv
    <2>5. AskedInv'
      BY <1>1, <1>4, <2>1 DEF LInv, AskedInv
    <2>6. TableInv'
      BY <1>1, <2>3 DEF LInv, TableInv
    <2>7. PlaceInv'
      BY <1>1, <1>2, <1>3, <2>3, <2>4 DEF LInv, PlaceInv, Apart
    <2> QED BY <2>3, <2>4, <2>5, <2>6, <2>7 DEF LInv
  <1>6. CASE cache[s] = Absent
    <2>1. /\ cache' = cache \/ cache' = [q \in Source |-> Absent]
          /\ asked' = [asked EXCEPT ![m] = Asked]
          /\ UNCHANGED <<rate, accepted, cleared, buffer, batch, matched, limited, shed>>
      BY <1>6 DEF Syslog!Arrive, m
    <2>2. QueueInv' /\ RateInv' /\ Handled' = Handled /\ TableInv'
      BY <1>1, <2>1, Kept DEF LInv
    <2>3. DeviceInv'
      BY <1>1, <2>1 DEF LInv, DeviceInv, Syslog!OneEach
    <2>4. AskedInv'
      BY <1>1, <1>4, <2>1 DEF LInv, AskedInv
    <2>5. Waits' = Waits \cup {m}
      BY <1>1, <2>1 DEF LInv, AskedInv, Waits
    <2>6. PlaceInv'
      BY <1>1, <1>2, <1>3, <2>2, <2>5 DEF LInv, PlaceInv, Apart
    <2> QED BY <2>2, <2>3, <2>4, <2>6 DEF LInv
  <1> QED BY <1>5, <1>6

LEMMA AnsweredStep ==
    ASSUME LInv, NEW m \in Numbers, Syslog!Answered(m)
    PROVE  LInv'
  <1> USE SyslogAssumption
  <1>1. /\ asked[m] \in SomeId /\ m \in Waits
        /\ cache' = [cache EXCEPT ![source[m]] = asked[m]]
        /\ asked' = [asked EXCEPT ![m] = Absent]
        /\ Syslog!Handle(m, source[m], asked[m])
        /\ UNCHANGED <<owner, unused, dbUp, arrived, source, stored, lost>>
    BY DEF Syslog!Answered, Syslog!db, Syslog!fates, LInv, AskedInv, Waits
  <1>2. m \notin Handled /\ m \in 1..arrived /\ source[m] \in Source
    BY <1>1 DEF LInv, PlaceInv, Apart, AskedInv
  <1>3. QueueInv' /\ RateInv' /\ Handled' = Handled \cup {m} /\ matched' \subseteq Rows
    BY <1>1, <1>2, HandleStep DEF LInv, TableInv
  <1>4. DeviceInv'
    BY <1>1, <1>2 DEF LInv, DeviceInv, Syslog!OneEach
  <1>5. AskedInv'
    BY <1>1 DEF LInv, AskedInv
  <1>6. TableInv' /\ InTable' = InTable
    BY <1>1, <1>3 DEF LInv, TableInv, InTable
  <1>7. Waits' = Waits \ {m}
    BY <1>1 DEF LInv, AskedInv, Waits
  <1>8. PlaceInv'
    BY <1>1, <1>3, <1>6, <1>7 DEF LInv, PlaceInv, Apart
  <1> QED BY <1>3, <1>4, <1>5, <1>6, <1>8 DEF LInv

LEMMA FlushStep ==
    ASSUME LInv, Syslog!Timer \/ Syslog!FlushEnds
    PROVE  LInv'
  <1>1. CASE Syslog!Timer
    <2>1. /\ batch = << >> /\ buffer' = << >> /\ batch' = buffer
          /\ UNCHANGED <<owner, unused, dbUp, cache, asked, arrived, source, accepted, cleared,
                         rate, limited, shed, stored, matched, lost>>
      BY <1>1 DEF Syslog!Timer, Syslog!FlushNow, Syslog!db, Syslog!clock, Syslog!fates,
                  Syslog!handler
    <2>2. InBuffer' = {} /\ InBatch' = InBuffer /\ InBatch = {}
      BY <2>1, NoneQueued DEF InBuffer, InBatch
    <2>3. QueueInv' /\ Handled' = Handled
      BY <2>1, <2>2, NoneQueued, SyslogAssumption DEF LInv, QueueInv, Once, Apart, Handled
    <2>4. DeviceInv' /\ AskedInv' /\ RateInv' /\ TableInv' /\ Waits' = Waits /\ InTable' = InTable
      BY <2>1, Kept DEF LInv
    <2>5. PlaceInv'
      BY <2>1, <2>3, <2>4 DEF LInv, PlaceInv
    <2> QED BY <2>3, <2>4, <2>5 DEF LInv
  <1>2. CASE Syslog!FlushEnds
    <2>1. /\ batch' = << >>
          /\ UNCHANGED <<owner, unused, dbUp, cache, asked, arrived, source, accepted, cleared,
                         rate, limited, shed, matched, buffer>>
          /\ \/ stored' = stored \cup Syslog!ToSet(batch) /\ UNCHANGED lost
             \/ lost' = lost \cup InBatch /\ UNCHANGED stored
      BY <1>2 DEF Syslog!FlushEnds, Syslog!db, Syslog!clock, Syslog!handler, InBatch, Syslog!Queued
    <2>2. /\ batch \in Seq(Rows) /\ \A i \in DOMAIN batch : batch[i] \in Rows
          /\ \A i, j \in DOMAIN batch : batch[i].msg = batch[j].msg => i = j
      BY DEF LInv, QueueInv, Once
    <2>3. InBuffer' = InBuffer /\ InBatch' = {}
      BY <2>1, NoneQueued DEF InBuffer, InBatch
    <2>4. /\ QueueInv' /\ Handled' = limited \cup shed \cup InBuffer /\ InBatch \cap Handled' = {}
          /\ Handled = Handled' \cup InBatch
      BY <2>1, <2>3, NoneQueued DEF LInv, QueueInv, Once, Apart, Handled
    <2>5. DeviceInv' /\ AskedInv' /\ RateInv' /\ Waits' = Waits
      BY <2>1, Kept DEF LInv
    <2>6. CASE stored' = stored \cup Syslog!ToSet(batch) /\ UNCHANGED lost
      <3>1. InTable' = InTable \cup InBatch
        BY <2>6 DEF InTable, InBatch, Syslog!Queued, Syslog!ToSet
      <3>2. InTable \cap InBatch = {}
        BY DEF LInv, PlaceInv, Apart, Handled
      <3>3. \A x \in stored, y \in Syslog!ToSet(batch) : x.msg # y.msg
        BY <3>2 DEF InTable, InBatch, Syslog!Queued, Syslog!ToSet
      <3>4. \A x, y \in Syslog!ToSet(batch) : x \in Rows /\ (x.msg = y.msg => x = y)
        BY <2>2 DEF Syslog!ToSet
      <3>5. TableInv'
        BY <2>1, <2>6, <3>3, <3>4 DEF LInv, TableInv
      <3>6. PlaceInv'
        BY <2>1, <2>4, <2>5, <2>6, <3>1 DEF LInv, PlaceInv, Apart
      <3> QED BY <2>4, <2>5, <3>5, <3>6 DEF LInv
    <2>7. CASE lost' = lost \cup InBatch /\ UNCHANGED stored
      <3>1. TableInv' /\ InTable' = InTable
        BY <2>1, <2>7, Kept DEF LInv
      <3>2. PlaceInv'
        BY <2>1, <2>4, <2>5, <2>7, <3>1 DEF LInv, PlaceInv, Apart
      <3> QED BY <2>4, <2>5, <3>1, <3>2 DEF LInv
    <2> QED BY <2>1, <2>6, <2>7
  <1> QED BY <1>1, <1>2

LEMMA TickStep ==
    ASSUME LInv, Syslog!Tick
    PROVE  LInv'
  <1> USE SyslogAssumption
  <1>1. /\ rate' = [s \in Source |-> IF rate[s] = None THEN None ELSE [rate[s] EXCEPT !.now = FALSE]]
        /\ accepted' = [s \in Source |-> 0] /\ cleared' = 0
        /\ UNCHANGED <<owner, unused, dbUp, stored, lost, cache, asked, arrived, source, matched,
                       limited, shed, buffer, batch>>
    BY DEF Syslog!Tick, Syslog!db, Syslog!fates
  <1>2. DeviceInv' /\ AskedInv' /\ QueueInv' /\ Handled' = Handled /\ TableInv'
        /\ Waits' = Waits /\ InTable' = InTable
    BY <1>1, Kept DEF LInv
  <1>3. PlaceInv'
    BY <1>1, <1>2 DEF LInv, PlaceInv
  <1>4. ASSUME NEW s \in Source, rate[s] # None
        PROVE  /\ rate'[s] \in [count : 1..Rate, now : BOOLEAN] /\ rate'[s].now = FALSE
               /\ rate'[s] # None
    <2>1. rate[s] \in [count : 1..Rate, now : BOOLEAN]
      BY <1>4 DEF LInv, RateInv
    <2>2. rate'[s] = [rate[s] EXCEPT !.now = FALSE]
      BY <1>1, <1>4
    <2>3. rate'[s] = [count |-> rate[s].count, now |-> FALSE] /\ rate[s].count \in 1..Rate
      BY <2>1, <2>2
    <2>4. /\ rate'[s] \in [count : 1..Rate, now : BOOLEAN] /\ rate'[s].now = FALSE
          /\ rate'[s] \in [count : Nat, now : BOOLEAN]
      BY <2>3
    <2> QED BY <2>4
  <1>5. Rate * cleared' = 0
    BY <1>1
  <1>6. /\ accepted' \in [Source -> Nat] /\ cleared' \in Nat /\ DOMAIN rate' = Source
        /\ \A s \in Source : accepted'[s] = 0 /\ (rate[s] = None => rate'[s] = None)
    BY <1>1
  <1>7. ASSUME NEW s \in Source
        PROVE  IF rate'[s] = None THEN accepted'[s] <= Rate * cleared'
               ELSE /\ rate'[s] \in [count : 1..Rate, now : BOOLEAN]
                    /\ accepted'[s] <= Rate * cleared' + (IF rate'[s].now THEN rate'[s].count ELSE 0)
    <2>1. CASE rate'[s] = None
      BY <2>1, <1>5, <1>6
    <2>2. CASE rate'[s] # None
      <3>1. /\ rate'[s] \in [count : 1..Rate, now : BOOLEAN]
            /\ (IF rate'[s].now THEN rate'[s].count ELSE 0) = 0
        BY <2>2, <1>4, <1>6
      <3> QED BY <2>2, <3>1, <1>5, <1>6
    <2> QED BY <2>1, <2>2
  <1>8. RateInv'
    BY <1>6, <1>7 DEF RateInv
  <1> QED BY <1>2, <1>3, <1>8 DEF LInv

LEMMA LookUpStep ==
    ASSUME LInv, NEW m \in Numbers, Syslog!LookUp(m)
    PROVE  LInv'
  <1> USE SyslogAssumption
  <1>1. /\ asked[m] = Asked /\ m \in Waits
        /\ asked' = [asked EXCEPT ![m] = IF dbUp THEN owner[source[m]] ELSE None]
        /\ UNCHANGED <<owner, unused, dbUp, accepted, cleared, stored, lost, cache, arrived, source,
                       rate, matched, limited, shed, buffer, batch>>
    BY DEF Syslog!LookUp, Syslog!db, Syslog!clock, Syslog!fates, Waits
  <1>2. source[m] \in Source
    BY <1>1 DEF LInv, PlaceInv, AskedInv
  <1>3. asked'[m] \in SomeId /\ asked' \in [Numbers -> SomeId \cup {Absent, Asked}]
    BY <1>1, <1>2 DEF LInv, AskedInv, DeviceInv, SomeId
  <1>4. Waits' = Waits
    BY <1>1, <1>3 DEF LInv, AskedInv, Waits, SomeId
  <1>5. AskedInv'
    BY <1>1, <1>3 DEF LInv, AskedInv
  <1>6. DeviceInv' /\ RateInv' /\ QueueInv' /\ Handled' = Handled /\ TableInv' /\ InTable' = InTable
    BY <1>1, Kept DEF LInv
  <1>7. PlaceInv'
    BY <1>1, <1>4, <1>6 DEF LInv, PlaceInv
  <1> QED BY <1>5, <1>6, <1>7 DEF LInv

\* Entries age, devices come and go, the database stops answering.
LEMMA WorldStep ==
    ASSUME LInv, NEW s \in Source,
           Syslog!CacheExpires(s) \/ Syslog!AddDevice(s) \/ Syslog!RemoveDevice(s) \/ Syslog!Outage
    PROVE  LInv'
  <1> USE SyslogAssumption
  <1>1. /\ UNCHANGED <<accepted, cleared, asked, arrived, source, rate, matched, limited, shed,
                       buffer, batch>>
        /\ AskedInv' /\ RateInv' /\ QueueInv' /\ Handled' = Handled /\ Waits' = Waits
    <2>1. UNCHANGED <<accepted, cleared, asked, arrived, source, rate, matched, limited, shed,
                      buffer, batch>>
      BY DEF Syslog!CacheExpires, Syslog!AddDevice, Syslog!RemoveDevice, Syslog!Outage,
             Syslog!clock, Syslog!handler
    <2> QED BY <2>1, Kept DEF LInv
  <1>2. ASSUME UNCHANGED <<stored, lost>>, DeviceInv' PROVE LInv'
    <2>1. TableInv' /\ InTable' = InTable
      BY <1>1, <1>2, Kept DEF LInv
    <2> QED BY <1>1, <1>2, <2>1 DEF LInv, PlaceInv
  <1>3. CASE Syslog!CacheExpires(s) \/ Syslog!Outage
    <2>1. UNCHANGED <<owner, unused, stored, lost>> /\ DeviceInv'
      BY <1>3 DEF Syslog!CacheExpires, Syslog!Outage, Syslog!db, Syslog!fates, Syslog!handler,
                  LInv, DeviceInv, Syslog!OneEach
    <2> QED BY <2>1, <1>2
  <1>4. CASE Syslog!AddDevice(s)
    <2>1. PICK id \in unused : unused' = unused \ {id} /\ owner' = [owner EXCEPT ![s] = id]
      BY <1>4 DEF Syslog!AddDevice
    <2>2. UNCHANGED <<dbUp, cache, stored, lost>>
      BY <1>4 DEF Syslog!AddDevice, Syslog!handler, Syslog!fates
    <2>3. owner' \in [Source -> SomeId] /\ owner'[s] = id /\ \A q \in Source \ {s} : owner'[q] = owner[q]
      BY <2>1 DEF LInv, DeviceInv, SomeId
    <2>4. Syslog!OneEach(owner')
      BY <2>3 DEF LInv, DeviceInv, Syslog!OneEach
    <2>5. \A q \in Source : owner'[q] \notin unused'
      BY <2>1, <2>3 DEF LInv, DeviceInv
    <2>6. DeviceInv'
      BY <2>1, <2>2, <2>3, <2>4, <2>5 DEF LInv, DeviceInv, Syslog!OneEach
    <2> QED BY <2>2, <2>6, <1>2
  <1>5. CASE Syslog!RemoveDevice(s)
    <2> DEFINE out == {r.msg : r \in {x \in stored : x.id = owner[s]}}
    <2>1. /\ owner' = [owner EXCEPT ![s] = None] /\ UNCHANGED <<unused, dbUp, cache>>
          /\ lost' = lost \cup out /\ stored' = {x \in stored : x.id # owner[s]}
      BY <1>5 DEF Syslog!RemoveDevice, Syslog!handler
    <2>2. DeviceInv'
      BY <2>1 DEF LInv, DeviceInv, Syslog!OneEach, SomeId
    <2>3. TableInv'
      BY <1>1, <2>1 DEF LInv, TableInv
    <2>4. InTable' = InTable \ out /\ out \subseteq InTable
      BY <2>1 DEF LInv, TableInv, InTable
    <2> HIDE DEF out
    <2>5. PlaceInv'
      BY <1>1, <2>1, <2>4 DEF LInv, PlaceInv, Apart
    <2> QED BY <1>1, <2>2, <2>3, <2>5 DEF LInv
  <1> QED BY <1>3, <1>4, <1>5

LEMMA LogStep ==
    ASSUME LInv, Syslog!Next \/ UNCHANGED syslogVars
    PROVE  LInv'
  <1>1. CASE UNCHANGED syslogVars
    <2>1. DeviceInv' /\ AskedInv' /\ RateInv' /\ QueueInv' /\ TableInv'
      BY <1>1, Kept DEF syslogVars, LInv
    <2>2. Handled' = Handled /\ Waits' = Waits /\ InTable' = InTable /\ UNCHANGED <<lost, arrived>>
      BY <1>1, Kept DEF syslogVars
    <2> QED BY <2>1, <2>2 DEF LInv, PlaceInv
  <1>2. CASE Syslog!Outage
    <2>1. /\ UNCHANGED <<owner, unused, accepted, cleared, stored, lost, cache, asked, arrived,
                         source, rate, matched, limited, shed, buffer, batch>>
          /\ dbUp' = ~dbUp
      BY <1>2 DEF Syslog!Outage, Syslog!clock, Syslog!fates, Syslog!handler
    <2>2. AskedInv' /\ RateInv' /\ QueueInv' /\ TableInv'
      BY <2>1, Kept DEF LInv
    <2>3. DeviceInv'
      BY <2>1 DEF LInv, DeviceInv, Syslog!OneEach
    <2>4. Handled' = Handled /\ Waits' = Waits /\ InTable' = InTable
      BY <2>1, Kept
    <2> QED BY <2>1, <2>2, <2>3, <2>4 DEF LInv, PlaceInv
  <1>3. CASE Syslog!Next
    <2>1. ASSUME NEW s \in Source,
                 \/ Syslog!Arrive(s) \/ Syslog!CacheExpires(s)
                 \/ Syslog!AddDevice(s) \/ Syslog!RemoveDevice(s)
          PROVE  LInv'
      BY <2>1, ArriveStep, WorldStep
    <2>2. ASSUME NEW m \in Numbers, Syslog!LookUp(m) \/ Syslog!Answered(m) PROVE LInv'
      BY <2>2, LookUpStep, AnsweredStep
    <2> QED BY <1>2, <1>3, <2>1, <2>2, FlushStep, TickStep DEF Syslog!Next, Numbers, Syslog!Msg
  <1> QED BY <1>1, <1>3

\* What the invariant says of the run's properties.
LEMMA LogSafe == LInv => Syslog!TypeOK /\ Syslog!EachInOnePlace /\ Syslog!SourceIsLimited
  <1> SUFFICES ASSUME LInv PROVE Syslog!TypeOK /\ Syslog!EachInOnePlace /\ Syslog!SourceIsLimited
    OBVIOUS
  <1> USE SyslogAssumption
  <1>1. Syslog!TypeOK
    <2>1. Syslog!ToSet(buffer) \cup Syslog!ToSet(batch) \subseteq Rows
      BY DEF LInv, QueueInv, Syslog!ToSet
    <2>2. \A s \in Source : rate[s] # None => rate[s].count \in 1..Rate
      BY DEF LInv, RateInv
    <2>3. Syslog!Msg = Numbers
      BY DEF Syslog!Msg, Numbers
    <2> QED BY <2>1, <2>2, <2>3 DEF Syslog!TypeOK, LInv, DeviceInv, AskedInv, QueueInv, TableInv,
                                    Rows, SomeId
  <1>2. Syslog!SourceIsLimited
    <2> SUFFICES ASSUME NEW s \in Source PROVE accepted[s] <= Rate * (cleared + 1)
      BY DEF Syslog!SourceIsLimited
    <2>1. cleared \in Nat /\ accepted[s] \in Nat
      BY DEF LInv, RateInv
    <2>2. Rate * (cleared + 1) = Rate * cleared + Rate /\ Rate * cleared \in Nat
      BY <2>1
    <2>3. accepted[s] <= Rate * cleared + Rate
      <3>1. CASE rate[s] = None
        BY <3>1, <2>1, <2>2 DEF LInv, RateInv
      <3>2. CASE rate[s] # None
        <4>1. rate[s].count \in 1..Rate /\ rate[s].now \in BOOLEAN
          BY <3>2 DEF LInv, RateInv
        <4>2. accepted[s] <= Rate * cleared + (IF rate[s].now THEN rate[s].count ELSE 0)
          BY <3>2 DEF LInv, RateInv
        <4> QED BY <4>1, <4>2, <2>1, <2>2
      <3> QED BY <3>1, <3>2
    <2> QED BY <2>2, <2>3
  <1>3. Syslog!EachInOnePlace
    <2>1. \A rows \in {buffer, batch} : \A i, j \in DOMAIN rows : rows[i].msg = rows[j].msg => i = j
      BY DEF LInv, QueueInv, Once
    <2>2. ASSUME NEW m \in 1..arrived
          PROVE  \E place \in 1..7 : \A i \in 1..7 : Syslog!Places(m)[i] <=> i = place
      <3>1. m \in Numbers
        BY DEF LInv, AskedInv, Numbers
      <3>2. (\E id \in SomeId : [msg |-> m, id |-> id] \in stored) <=> m \in InTable
        <4>1. \A r \in stored : r \in [msg : Numbers, id : SomeId]
          BY DEF LInv, TableInv, Rows, Syslog!Rows, Numbers, Syslog!Msg, SomeId
        <4>2. \A r \in stored : r = [msg |-> r.msg, id |-> r.id] /\ r.id \in SomeId
          BY <4>1
        <4>3. (\E id \in SomeId : [msg |-> m, id |-> id] \in stored) => m \in InTable
          BY DEF InTable
        <4>4. m \in InTable => \E r \in stored : r.msg = m
          BY DEF InTable
        <4> QED BY <4>2, <4>3, <4>4
      <3>3. /\ Syslog!Places(m)[1] <=> m \in Waits
            /\ Syslog!Places(m)[2] <=> m \in limited
            /\ Syslog!Places(m)[3] <=> m \in shed
            /\ Syslog!Places(m)[4] <=> m \in lost
            /\ Syslog!Places(m)[5] <=> m \in InBuffer
            /\ Syslog!Places(m)[6] <=> m \in InBatch
            /\ Syslog!Places(m)[7] <=> m \in InTable
        BY <3>1, <3>2 DEF Syslog!Places, Syslog!Waiting, Waits, InBuffer, InBatch, SomeId
      <3>4. m \in Waits \cup lost \cup InTable \cup limited \cup shed \cup InBuffer \cup InBatch
        BY DEF LInv, PlaceInv, Handled
      <3>5. /\ m \in Waits => m \notin lost \cup InTable \cup limited \cup shed \cup InBuffer \cup InBatch
            /\ m \in lost => m \notin InTable \cup limited \cup shed \cup InBuffer \cup InBatch
            /\ m \in InTable => m \notin limited \cup shed \cup InBuffer \cup InBatch
            /\ m \in limited => m \notin shed \cup InBuffer \cup InBatch
            /\ m \in shed => m \notin InBuffer \cup InBatch
            /\ m \in InBuffer => m \notin InBatch
        BY DEF LInv, PlaceInv, QueueInv, Apart, Handled
      <3>6. \A i \in 1..7 : i = 1 \/ i = 2 \/ i = 3 \/ i = 4 \/ i = 5 \/ i = 6 \/ i = 7
        OBVIOUS
      <3>7. PICK place \in 1..7 : Syslog!Places(m)[place]
        BY <3>3, <3>4
      <3>8. \A i \in 1..7 : Syslog!Places(m)[i] => i = place
        BY <3>3, <3>5, <3>6, <3>7
      <3> QED BY <3>7, <3>8
    <2> QED BY <2>1, <2>2 DEF Syslog!EachInOnePlace
  <1> QED BY <1>1, <1>2, <1>3

-----------------------------------------------------------------------------
(* The NetFlow collector: types, FlowsAddUp and PeaceLosesNothing. *)

Flight == NetFlow!InFlight
Carried(f) == NetFlow!Left(f)
FlushRecord == [left : SUBSET (1..MaxFlows), ask : SUBSET Exporter, device : [Exporter -> SomeId]]

FlowTypes ==
    /\ exporterOwner \in [Exporter -> SomeId] /\ newIds \subseteq Id
    /\ reachable \in BOOLEAN /\ collecting \in BOOLEAN /\ troubled \in BOOLEAN
    /\ templates \subseteq Templated
    /\ exporterDevice \in [Exporter -> SomeId]
    /\ decoded \in Seq(Exporter) /\ Len(decoded) <= MaxFlows
    /\ DOMAIN flushing = Flush
    /\ \A f \in Flush : flushing[f] # None => flushing[f] \in FlushRecord /\ flushing[f].left # {}

\* A process that is down has nothing in memory.
DownInv == ~collecting => buckets = {} /\ \A f \in Flush : flushing[f] = None

\* Without trouble every device that a flush or the cache has found is still there.
PeaceInv ==
    ~troubled =>
      /\ reachable /\ gone = {}
      /\ \A e \in Exporter : exporterDevice[e] \in {None} \cup NetFlow!Range(exporterOwner)
      /\ \A f \in Flush : flushing[f] # None =>
           \A e \in Exporter : flushing[f].device[e] \in {None} \cup NetFlow!Range(exporterOwner)

FInv == FlowTypes /\ DownInv /\ PeaceInv /\ NetFlow!FlowsAddUp

LEMMA FlowInit == NetFlow!Init => FInv
  <1> SUFFICES ASSUME NetFlow!Init PROVE FInv
    OBVIOUS
  <1> USE FlowsAssumption DEF NetFlow!Init
  <1>1. DownInv /\ PeaceInv
    BY DEF DownInv, PeaceInv
  <1>5. FlowTypes
    <2>1. decoded \in Seq(Exporter) /\ Len(decoded) <= MaxFlows
      OBVIOUS
    <2> QED BY <2>1 DEF FlowTypes, SomeId
  <1>2. \A f \in Flush : NetFlow!Left(f) = {}
    BY DEF NetFlow!Left
  <1>3. NetFlow!InFlight = {}
    BY <1>2 DEF NetFlow!InFlight
  <1>4. 1..Len(decoded) = {}
    OBVIOUS
  <1> QED BY <1>1, <1>2, <1>3, <1>4, <1>5 DEF FInv, NetFlow!FlowsAddUp

\* A flush that carries less or more changes what is in flight by as much.
LEMMA CarryStep ==
    ASSUME FInv, NEW f \in Flush, NEW v, flushing' = [flushing EXCEPT ![f] = v]
    PROVE  /\ Carried(f)' = (IF v = None THEN {} ELSE v.left)
           /\ \A g \in Flush : g # f => Carried(g)' = Carried(g) /\ flushing'[g] = flushing[g]
           /\ flushing'[f] = v /\ DOMAIN flushing' = Flush
           /\ Flight' = (Flight \ Carried(f)) \cup Carried(f)'
           /\ Carried(f) \subseteq Flight
  <1>1. /\ flushing'[f] = v /\ DOMAIN flushing' = Flush
        /\ \A g \in Flush : g # f => flushing'[g] = flushing[g]
    BY DEF FInv, FlowTypes
  <1>2. /\ Carried(f)' = (IF v = None THEN {} ELSE v.left)
        /\ \A g \in Flush : g # f => Carried(g)' = Carried(g)
    BY <1>1 DEF Carried, NetFlow!Left
  <1>3. /\ \A x : x \in Flight <=> \E g \in Flush : x \in Carried(g)
        /\ \A x : x \in Flight' <=> \E g \in Flush : x \in Carried(g)'
    BY DEF Flight, Carried, NetFlow!InFlight
  <1>4. \A g \in Flush : g # f => Carried(f) \cap Carried(g) = {}
    BY DEF FInv, NetFlow!FlowsAddUp, Carried
  <1>5. Flight' = (Flight \ Carried(f)) \cup Carried(f)'
    BY <1>2, <1>3, <1>4
  <1>6. Carried(f) \subseteq Flight
    BY <1>3
  <1> QED BY <1>1, <1>2, <1>5, <1>6

\* FlowsAddUp, in the words of the lemmas below.
LEMMA AddUpMeans ==
    NetFlow!FlowsAddUp <=>
      /\ buckets \cup Flight \cup records \cup gone = 1..Len(decoded)
      /\ buckets \cap Flight = {} /\ (buckets \cup Flight) \cap (records \cup gone) = {}
      /\ records \cap gone = {}
      /\ \A f, g \in Flush : f # g => Carried(f) \cap Carried(g) = {}
  BY DEF NetFlow!FlowsAddUp, Flight, Carried

LEMMA QuietFlows ==
    ASSUME FInv, UNCHANGED <<buckets, records, gone, decoded>>,
           \A f \in Flush : Carried(f)' = Carried(f)
    PROVE  NetFlow!FlowsAddUp'
  <1>1. Flight' = Flight
    BY DEF Flight, Carried, NetFlow!InFlight
  <1>2. /\ buckets' \cup Flight' \cup records' \cup gone' = 1..Len(decoded')
        /\ buckets' \cap Flight' = {} /\ (buckets' \cup Flight') \cap (records' \cup gone') = {}
        /\ records' \cap gone' = {}
        /\ \A f, g \in Flush : f # g => Carried(f)' \cap Carried(g)' = {}
    BY <1>1, AddUpMeans DEF FInv
  <1> QED BY <1>2 DEF NetFlow!FlowsAddUp, Flight, Carried

LEMMA TakeStep ==
    ASSUME FInv, NEW e \in Exporter, NetFlow!SendTemplate(e) \/ NetFlow!Ingest(e)
    PROVE  FInv'
  <1> USE FlowsAssumption
  <1>1. /\ UNCHANGED <<exporterOwner, newIds, reachable, flowEvents, troubled, records, collecting,
                       exporterDevice, flushing, gone>>
        /\ collecting
    BY DEF NetFlow!SendTemplate, NetFlow!Ingest, NetFlow!database
  <1>2. \A f \in Flush : Carried(f)' = Carried(f)
    BY <1>1 DEF Carried, NetFlow!Left
  <1>3. DownInv' /\ PeaceInv' /\ Flight' = Flight
    BY <1>1, <1>2 DEF FInv, DownInv, PeaceInv, Flight, Carried, NetFlow!InFlight
  <1>4. CASE NetFlow!SendTemplate(e)
    <2>1. FlowTypes'
      BY <1>1, <1>4 DEF NetFlow!SendTemplate, FInv, FlowTypes
    <2>2. UNCHANGED <<buckets, records, gone, decoded>>
      BY <1>1, <1>4 DEF NetFlow!SendTemplate
    <2> QED BY <2>1, <2>2, <1>2, <1>3, QuietFlows DEF FInv
  <1>5. CASE NetFlow!Ingest(e)
    <2> DEFINE n == Len(decoded)
    <2>1. /\ decoded' = Append(decoded, e) /\ buckets' = buckets \cup {n + 1} /\ n < MaxFlows
          /\ UNCHANGED templates
      BY <1>5 DEF NetFlow!Ingest
    <2>2. n \in Nat /\ decoded' \in Seq(Exporter) /\ Len(decoded') = n + 1
      BY <2>1 DEF FInv, FlowTypes
    <2>3. FlowTypes'
      BY <1>1, <2>1, <2>2 DEF FInv, FlowTypes
    <2> HIDE DEF n
    <2>4. 1..n + 1 = 1..n \cup {n + 1} /\ n + 1 \notin 1..n
      BY <2>2
    <2>5. /\ buckets \cup Flight \cup records \cup gone = 1..n
          /\ buckets \cap Flight = {} /\ (buckets \cup Flight) \cap (records \cup gone) = {}
          /\ records \cap gone = {}
          /\ \A f, g \in Flush : f # g => Carried(f) \cap Carried(g) = {}
      BY AddUpMeans DEF FInv, n
    <2>6. /\ buckets' \cup Flight' \cup records' \cup gone' = 1..Len(decoded')
          /\ buckets' \cap Flight' = {} /\ (buckets' \cup Flight') \cap (records' \cup gone') = {}
          /\ records' \cap gone' = {}
          /\ \A f, g \in Flush : f # g => Carried(f)' \cap Carried(g)' = {}
      BY <1>1, <1>2, <1>3, <2>1, <2>2, <2>4, <2>5
    <2>7. NetFlow!FlowsAddUp'
      BY <2>6 DEF NetFlow!FlowsAddUp, Flight, Carried
    <2> QED BY <1>3, <2>3, <2>7 DEF FInv
  <1> QED BY <1>4, <1>5

\* The snapshot passes from the buckets to a flush that carried nothing.
LEMMA StartStep ==
    ASSUME FInv, NEW f \in Flush, NetFlow!StartFlush(f)
    PROVE  FInv'
  <1> USE FlowsAssumption
  <1> DEFINE v == [left |-> buckets, ask |-> NetFlow!From(buckets),
                   device |-> [e \in Exporter |-> None]]
  <1>1. /\ collecting /\ flushing[f] = None /\ buckets # {}
        /\ flushing' = [flushing EXCEPT ![f] = v] /\ buckets' = {}
        /\ UNCHANGED <<exporterOwner, newIds, reachable, flowEvents, troubled, records, collecting,
                       templates, exporterDevice, decoded, gone>>
    BY DEF NetFlow!StartFlush, NetFlow!database
  <1>2. buckets \subseteq 1..Len(decoded) /\ Len(decoded) \in Nat /\ Len(decoded) <= MaxFlows
    BY AddUpMeans DEF FInv, FlowTypes
  <1>3. v \in FlushRecord
    <2>1. buckets \in SUBSET (1..MaxFlows)
      BY <1>2
    <2>2. NetFlow!From(buckets) \subseteq Exporter
      BY <1>2 DEF NetFlow!From, FInv, FlowTypes
    <2> QED BY <2>1, <2>2 DEF FlushRecord, SomeId
  <1>4. v # None
    BY <1>3 DEF FlushRecord, SomeId
  <1>5. v.left = buckets /\ \A e \in Exporter : v.device[e] = None
    OBVIOUS
  <1> HIDE DEF v
  <1>6. /\ Carried(f)' = buckets /\ flushing'[f] = v /\ DOMAIN flushing' = Flush
        /\ \A g \in Flush : g # f => Carried(g)' = Carried(g) /\ flushing'[g] = flushing[g]
        /\ Flight' = (Flight \ Carried(f)) \cup buckets
    BY <1>1, <1>4, <1>5, CarryStep
  <1>7. Carried(f) = {}
    BY <1>1 DEF Carried, NetFlow!Left
  <1>8. FlowTypes' /\ DownInv'
    BY <1>1, <1>3, <1>5, <1>6 DEF FInv, FlowTypes, DownInv
  <1>9. PeaceInv'
    BY <1>1, <1>5, <1>6 DEF FInv, PeaceInv
  <1>10. \A g \in Flush : Carried(g) \cap buckets = {}
    BY AddUpMeans DEF FInv, Flight, Carried, NetFlow!InFlight
  <1>11. /\ buckets' \cup Flight' \cup records' \cup gone' = 1..Len(decoded')
         /\ buckets' \cap Flight' = {} /\ (buckets' \cup Flight') \cap (records' \cup gone') = {}
         /\ records' \cap gone' = {}
         /\ \A g, h \in Flush : g # h => Carried(g)' \cap Carried(h)' = {}
    BY <1>1, <1>6, <1>7, <1>10, AddUpMeans DEF FInv
  <1>12. NetFlow!FlowsAddUp'
    BY <1>11 DEF NetFlow!FlowsAddUp, Flight, Carried
  <1> QED BY <1>8, <1>9, <1>12 DEF FInv

\* A chunk passes from its flush to the table, or is lost.
LEMMA InsertStep ==
    ASSUME FInv, NEW f \in Flush, NetFlow!InsertChunk(f)
    PROVE  FInv'
  <1> USE FlowsAssumption
  <1>1. /\ flushing[f] # None
        /\ UNCHANGED <<exporterOwner, newIds, reachable, flowEvents, troubled, collecting,
                       templates, exporterDevice, buckets, decoded>>
    BY DEF NetFlow!InsertChunk
  <1>2. PICK rows \in SUBSET NetFlow!From(Carried(f)) :
          /\ NetFlow!IsChunk(f, rows)
          /\ IF NetFlow!Accepted(f, rows)
               THEN records' = records \cup NetFlow!Of(Carried(f), rows) /\ UNCHANGED gone
               ELSE gone' = gone \cup NetFlow!Of(Carried(f), rows) /\ UNCHANGED records
          /\ NetFlow!Then(f, Carried(f) \ NetFlow!Of(Carried(f), rows))
    BY DEF NetFlow!InsertChunk, Carried
  <1> DEFINE piece == NetFlow!Of(Carried(f), rows)
             v == IF Carried(f) \ piece = {} THEN None
                  ELSE [flushing[f] EXCEPT !.left = Carried(f) \ piece]
  <1>3. piece \subseteq Carried(f)
    BY DEF NetFlow!Of
  <1>4. flushing' = [flushing EXCEPT ![f] = v]
    BY <1>2 DEF NetFlow!Then
  <1>5. flushing[f] \in FlushRecord /\ Carried(f) = flushing[f].left
    BY <1>1 DEF FInv, FlowTypes, Carried, NetFlow!Left
  <1> HIDE DEF piece
  <1>6. v # None => /\ v \in FlushRecord /\ v.left = Carried(f) \ piece /\ v.left # {}
                    /\ v.device = flushing[f].device
    BY <1>5 DEF FlushRecord
  <1>7. v = None => Carried(f) \ piece = {}
    <2> SUFFICES ASSUME Carried(f) \ piece # {} PROVE v # None
      OBVIOUS
    <2>1. [flushing[f] EXCEPT !.left = Carried(f) \ piece] \in FlushRecord
      BY <1>5 DEF FlushRecord
    <2> QED BY <2>1 DEF FlushRecord, SomeId
  <1> HIDE DEF v
  <1>8. /\ Carried(f)' = Carried(f) \ piece /\ flushing'[f] = v /\ DOMAIN flushing' = Flush
        /\ \A g \in Flush : g # f => Carried(g)' = Carried(g) /\ flushing'[g] = flushing[g]
        /\ Flight' = (Flight \ Carried(f)) \cup (Carried(f) \ piece)
        /\ Carried(f) \subseteq Flight
    BY <1>4, <1>6, <1>7, CarryStep
  <1>9. FlowTypes'
    BY <1>1, <1>6, <1>8 DEF FInv, FlowTypes
  <1>10. DownInv'
    BY <1>1, <1>8 DEF FInv, DownInv
  <1>11. ~troubled => NetFlow!Accepted(f, rows)
    <2>1. rows \subseteq Exporter
      <3>1. Carried(f) \subseteq 1..Len(decoded)
        BY <1>8, AddUpMeans DEF FInv
      <3> QED BY <3>1 DEF NetFlow!From, FInv, FlowTypes
    <2> QED BY <1>1, <2>1 DEF FInv, PeaceInv, NetFlow!Accepted
  <1>12. PeaceInv'
    <2> SUFFICES ASSUME ~troubled' PROVE PeaceInv'
      BY DEF PeaceInv
    <2>1. ~troubled /\ UNCHANGED gone
      BY <1>1, <1>2, <1>11
    <2>2. /\ reachable' /\ gone' = {}
          /\ \A e \in Exporter : exporterDevice'[e] \in {None} \cup NetFlow!Range(exporterOwner')
      BY <1>1, <2>1 DEF FInv, PeaceInv
    <2>3. \A g \in Flush : flushing'[g] # None =>
            \A e \in Exporter : flushing'[g].device[e] \in {None} \cup NetFlow!Range(exporterOwner')
      BY <1>1, <1>6, <1>8, <2>1 DEF FInv, PeaceInv
    <2> QED BY <2>2, <2>3 DEF PeaceInv
  <1>13. (records' = records \cup piece /\ UNCHANGED gone) \/ (gone' = gone \cup piece /\ UNCHANGED records)
    BY <1>2 DEF piece
  <1>14. /\ buckets' \cup Flight' \cup records' \cup gone' = 1..Len(decoded')
         /\ buckets' \cap Flight' = {} /\ (buckets' \cup Flight') \cap (records' \cup gone') = {}
         /\ records' \cap gone' = {}
         /\ \A g, h \in Flush : g # h => Carried(g)' \cap Carried(h)' = {}
    <2>1. /\ buckets \cup Flight \cup records \cup gone = 1..Len(decoded)
          /\ buckets \cap Flight = {} /\ (buckets \cup Flight) \cap (records \cup gone) = {}
          /\ records \cap gone = {}
          /\ \A g, h \in Flush : g # h => Carried(g) \cap Carried(h) = {}
      BY AddUpMeans DEF FInv
    <2>2. \A g, h \in Flush : g # h => Carried(g)' \cap Carried(h)' = {}
      BY <1>8, <2>1
    <2>3. Flight' = Flight \ piece
      BY <1>3, <1>8
    <2> QED BY <1>1, <1>3, <1>8, <1>13, <2>1, <2>2, <2>3
  <1>15. NetFlow!FlowsAddUp'
    BY <1>14 DEF NetFlow!FlowsAddUp, Flight, Carried
  <1> QED BY <1>9, <1>10, <1>12, <1>15 DEF FInv

\* An exporter's device is found, or the process exits with what it has in memory.
LEMMA DeviceStep ==
    ASSUME FInv, NEW f \in Flush, NetFlow!DeviceForExporter(f)
    PROVE  FInv'
  <1> USE FlowsAssumption
  <1>1. PICK e \in flushing[f].ask :
          IF exporterDevice[e] = None /\ ~reachable
            THEN NetFlow!Exit /\ UNCHANGED <<NetFlow!database, decoded>>
            ELSE LET id == IF exporterDevice[e] # None THEN exporterDevice[e] ELSE exporterOwner[e]
                 IN  /\ exporterDevice' = [exporterDevice EXCEPT ![e] = id]
                     /\ flushing' = [flushing EXCEPT ![f].ask = @ \ {e}, ![f].device[e] = id]
                     /\ UNCHANGED <<NetFlow!database, collecting, templates, buckets, decoded, gone>>
    BY DEF NetFlow!DeviceForExporter
  <1>2. flushing[f] # None /\ flushing[f] \in FlushRecord /\ e \in Exporter
    BY <1>1 DEF NetFlow!DeviceForExporter, FInv, FlowTypes, FlushRecord
  <1>3. CASE exporterDevice[e] = None /\ ~reachable
    <2>1. /\ collecting' = FALSE /\ templates' = {} /\ buckets' = {}
          /\ exporterDevice' = [x \in Exporter |-> None] /\ flushing' = [x \in Flush |-> None]
          /\ gone' = gone \cup buckets \cup Flight
          /\ UNCHANGED <<exporterOwner, newIds, reachable, flowEvents, troubled, records, decoded>>
      BY <1>1, <1>3 DEF NetFlow!Exit, NetFlow!database, Flight
    <2>2. FlowTypes'
      BY <2>1 DEF FInv, FlowTypes, SomeId
    <2>3. DownInv'
      BY <2>1 DEF DownInv
    <2>4. PeaceInv'
      BY <2>1, <1>3 DEF FInv, PeaceInv
    <2>5. \A g \in Flush : Carried(g)' = {}
      BY <2>1 DEF Carried, NetFlow!Left
    <2>6. Flight' = {}
      BY <2>5 DEF Flight, Carried, NetFlow!InFlight
    <2>7. /\ buckets' \cup Flight' \cup records' \cup gone' = 1..Len(decoded')
          /\ buckets' \cap Flight' = {} /\ (buckets' \cup Flight') \cap (records' \cup gone') = {}
          /\ records' \cap gone' = {}
          /\ \A g, h \in Flush : g # h => Carried(g)' \cap Carried(h)' = {}
      BY <2>1, <2>5, <2>6, AddUpMeans DEF FInv
    <2>8. NetFlow!FlowsAddUp'
      BY <2>7 DEF NetFlow!FlowsAddUp, Flight, Carried
    <2> QED BY <2>2, <2>3, <2>4, <2>8 DEF FInv
  <1>4. CASE ~(exporterDevice[e] = None /\ ~reachable)
    <2> DEFINE id == IF exporterDevice[e] # None THEN exporterDevice[e] ELSE exporterOwner[e]
               v == [flushing[f] EXCEPT !.ask = flushing[f].ask \ {e},
                                        !.device = [flushing[f].device EXCEPT ![e] = id]]
    <2>1. /\ exporterDevice' = [exporterDevice EXCEPT ![e] = id]
          /\ UNCHANGED <<exporterOwner, newIds, reachable, flowEvents, troubled, records, collecting,
                         templates, buckets, decoded, gone>>
      BY <1>1, <1>4 DEF NetFlow!database
    <2>2. flushing' = [flushing EXCEPT ![f] = v]
      BY <1>1, <1>4, <1>2 DEF FlushRecord, FInv, FlowTypes
    <2>3. id \in SomeId
      BY <1>2 DEF FInv, FlowTypes
    <2>4. ~troubled => id \in {None} \cup NetFlow!Range(exporterOwner)
      BY <1>2 DEF FInv, FlowTypes, PeaceInv, NetFlow!Range
    <2> HIDE DEF id
    <2>5. /\ v \in FlushRecord /\ v.left = flushing[f].left
          /\ v.device = [flushing[f].device EXCEPT ![e] = id]
      BY <1>2, <2>3 DEF FlushRecord
    <2>6. v # None
      BY <2>5 DEF FlushRecord, SomeId
    <2>7. Carried(f) = v.left /\ v.left # {}
      BY <1>2, <2>5 DEF Carried, NetFlow!Left, FInv, FlowTypes
    <2>8. \A x \in Exporter : v.device[x] = IF x = e THEN id ELSE flushing[f].device[x]
      BY <1>2, <2>5 DEF FlushRecord
    <2> HIDE DEF v
    <2>9. /\ Carried(f)' = Carried(f) /\ flushing'[f] = v /\ DOMAIN flushing' = Flush
          /\ \A g \in Flush : g # f => Carried(g)' = Carried(g) /\ flushing'[g] = flushing[g]
      <3>1. /\ Carried(f)' = (IF v = None THEN {} ELSE v.left)
            /\ flushing'[f] = v /\ DOMAIN flushing' = Flush
            /\ \A g \in Flush : g # f => Carried(g)' = Carried(g) /\ flushing'[g] = flushing[g]
        BY <2>2, CarryStep
      <3> QED BY <3>1, <2>6, <2>7
    <2>10. FlowTypes'
      BY <2>1, <2>3, <2>5, <2>7, <2>9 DEF FInv, FlowTypes
    <2>11. DownInv'
      BY <1>2, <2>1 DEF FInv, DownInv
    <2>12. PeaceInv'
      <3> SUFFICES ASSUME ~troubled' PROVE PeaceInv'
        BY DEF PeaceInv
      <3>1. ~troubled /\ reachable' /\ gone' = {}
        BY <2>1 DEF FInv, PeaceInv
      <3>2. \A x \in Exporter : exporterDevice'[x] \in {None} \cup NetFlow!Range(exporterOwner')
        <4>1. \A x \in Exporter : exporterDevice'[x] = IF x = e THEN id ELSE exporterDevice[x]
          BY <2>1 DEF FInv, FlowTypes
        <4> QED BY <4>1, <2>1, <2>4, <3>1 DEF FInv, PeaceInv
      <3>3. \A g \in Flush : flushing'[g] # None =>
              \A x \in Exporter : flushing'[g].device[x] \in {None} \cup NetFlow!Range(exporterOwner')
        BY <1>2, <2>1, <2>4, <2>8, <2>9, <3>1 DEF FInv, PeaceInv
      <3> QED BY <3>1, <3>2, <3>3 DEF PeaceInv
    <2>13. NetFlow!FlowsAddUp'
      BY <2>1, <2>9, QuietFlows
    <2> QED BY <2>10, <2>11, <2>12, <2>13 DEF FInv
  <1> QED BY <1>3, <1>4

\* The process is restarted, devices come and go, the database stops answering.
LEMMA AroundStep ==
    ASSUME FInv, \/ NetFlow!Restart \/ NetFlow!Outage \/ UNCHANGED netFlowVars
                 \/ \E e \in Exporter : NetFlow!ChangeDevice(e)
    PROVE  FInv'
  <1> USE FlowsAssumption
  <1>1. /\ UNCHANGED <<buckets, records, gone, decoded, flushing, templates, exporterDevice>>
        /\ (~collecting' => ~collecting)
    BY DEF NetFlow!Restart, NetFlow!Outage, NetFlow!ChangeDevice, netFlowVars, NetFlow!database,
           NetFlow!memory
  <1>2. \A f \in Flush : Carried(f)' = Carried(f)
    BY <1>1 DEF Carried, NetFlow!Left
  <1>3. NetFlow!FlowsAddUp' /\ DownInv'
    BY <1>1, <1>2, QuietFlows DEF FInv, DownInv
  <1>4. CASE NetFlow!Restart \/ UNCHANGED netFlowVars
    <2>1. UNCHANGED <<exporterOwner, newIds, reachable, troubled>> /\ collecting' \in BOOLEAN
      BY <1>4 DEF NetFlow!Restart, netFlowVars, NetFlow!database, FInv, FlowTypes
    <2>2. FlowTypes' /\ PeaceInv'
      BY <1>1, <2>1 DEF FInv, FlowTypes, PeaceInv
    <2> QED BY <1>3, <2>2 DEF FInv
  <1>5. CASE NetFlow!Outage
    <2>1. UNCHANGED <<exporterOwner, newIds, collecting>> /\ troubled' = TRUE /\ reachable' = ~reachable
      BY <1>5 DEF NetFlow!Outage
    <2>2. FlowTypes' /\ PeaceInv'
      BY <1>1, <2>1 DEF FInv, FlowTypes, PeaceInv
    <2> QED BY <1>3, <2>2 DEF FInv
  <1>6. ASSUME NEW e \in Exporter, NetFlow!ChangeDevice(e) PROVE FInv'
    <2>1. UNCHANGED <<reachable, collecting>>
      BY <1>6 DEF NetFlow!ChangeDevice
    <2>2. CASE exporterOwner[e] # None
      <3>1. exporterOwner' = [exporterOwner EXCEPT ![e] = None] /\ troubled' = TRUE /\ UNCHANGED newIds
        BY <1>6, <2>2 DEF NetFlow!ChangeDevice
      <3>2. FlowTypes' /\ PeaceInv'
        BY <1>1, <2>1, <3>1 DEF FInv, FlowTypes, PeaceInv, SomeId
      <3> QED BY <1>3, <3>2 DEF FInv
    <2>3. CASE exporterOwner[e] = None
      <3>1. PICK id \in newIds : /\ exporterOwner' = [exporterOwner EXCEPT ![e] = id]
                                 /\ newIds' = newIds \ {id} /\ UNCHANGED troubled
        BY <1>6, <2>3 DEF NetFlow!ChangeDevice
      <3>2. FlowTypes'
        BY <1>1, <2>1, <3>1 DEF FInv, FlowTypes, SomeId
      <3>3. \A x \in NetFlow!Range(exporterOwner) : x = None \/ x \in NetFlow!Range(exporterOwner')
        BY <2>3, <3>1 DEF NetFlow!Range, FInv, FlowTypes
      <3>4. PeaceInv'
        BY <1>1, <2>1, <3>1, <3>3 DEF FInv, PeaceInv
      <3> QED BY <1>3, <3>2, <3>4 DEF FInv
    <2> QED BY <2>2, <2>3
  <1> QED BY <1>4, <1>5, <1>6

LEMMA FlowStep ==
    ASSUME FInv, NetFlow!Next \/ UNCHANGED netFlowVars
    PROVE  FInv'
  BY TakeStep, StartStep, DeviceStep, InsertStep, AroundStep DEF NetFlow!Next

LEMMA FlowSafe == FInv => NetFlow!TypeOK /\ NetFlow!FlowsAddUp /\ NetFlow!PeaceLosesNothing
  <1> SUFFICES ASSUME FInv PROVE NetFlow!TypeOK /\ NetFlow!PeaceLosesNothing
    BY DEF FInv
  <1>1. NetFlow!PeaceLosesNothing
    BY DEF FInv, PeaceInv, NetFlow!PeaceLosesNothing
  <1>2. \A f \in Flush : flushing[f] # None =>
          /\ flushing[f].left # {} /\ flushing[f].ask \subseteq Exporter
          /\ flushing[f].device \in [Exporter -> Id \cup {None}]
    BY DEF FInv, FlowTypes, FlushRecord, SomeId
  <1>3. ~collecting => buckets = {} /\ NetFlow!InFlight = {}
    BY DEF FInv, DownInv, NetFlow!InFlight, NetFlow!Left
  <1>4. NetFlow!TypeOK
    BY <1>2, <1>3 DEF FInv, FlowTypes, NetFlow!TypeOK, SomeId
  <1> QED BY <1>1, <1>4

-----------------------------------------------------------------------------
(* The three together. *)

IntakeInv == AInv /\ LInv /\ FInv

LEMMA IntakeInvHolds == IntakeSpec => []IntakeInv
  <1>1. IntakeInit => IntakeInv
    BY AuditInit, LogInit, FlowInit DEF IntakeInit, IntakeInv
  <1>2. IntakeInv /\ [IntakeNext]_all => IntakeInv'
    <2> SUFFICES ASSUME IntakeInv, [IntakeNext]_all PROVE IntakeInv'
      OBVIOUS
    <2>1. [Next]_vars
      BY DEF IntakeNext, all
    <2>2. Syslog!Next \/ UNCHANGED syslogVars
      BY DEF IntakeNext, all
    <2>3. NetFlow!Next \/ UNCHANGED netFlowVars
      BY DEF IntakeNext, all
    <2> QED BY <2>1, <2>2, <2>3, AuditStep, LogStep, FlowStep DEF IntakeInv
  <1> QED BY <1>1, <1>2, PTL DEF IntakeSpec

\* Nothing that comes in is lost unsaid or counted twice (audit.ts, syslogService.ts,
\* util/batcher.ts, netflow/collector.ts), for any number of calls, sources, datagrams,
\* devices, exporters and flushes: an edit of the log is located where it was made; every
\* syslog datagram is waiting, queued once, stored once or given up once, and a source gets
\* no more rows than the limit allows; the collector's flows are in memory, in one flush, in
\* the table or lost, and without an outage or a removed device none is lost.
THEOREM WhatComesInAddsUp == IntakeSpec => []IntakeAddsUp
  <1>1. IntakeInv => IntakeAddsUp
    BY AuditSafe, LogSafe, FlowSafe DEF IntakeInv, IntakeAddsUp
  <1> QED BY <1>1, IntakeInvHolds, PTL
=============================================================================
