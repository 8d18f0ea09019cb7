------------------------------ MODULE AuditChain ------------------------------
(***************************************************************************)
(* The hash-chained audit log of audit.ts: concurrent calls of audit(), on *)
(* any replica, each a Postgres transaction under one advisory lock, and   *)
(* verifyAuditChain() over the rows they leave.                            *)
(*                                                                         *)
(* Transactions are READ COMMITTED: a statement sees the committed rows.   *)
(* A row a transaction has inserted is its own until it commits.  SHA-256  *)
(* is taken to be injective and is modelled by the tuple of what it is     *)
(* applied to; the empty tuple is the empty hash of a row that predates    *)
(* the chain.                                                              *)
(***************************************************************************)
EXTENDS Integers, FiniteSets

CONSTANTS
    Call,       \* calls of audit(); a call stands for the entry it writes
    Other,      \* what someone else might put into an entry
    None,       \* no lock holder, no row
    Legacy,     \* rows written before the chain existed
    PoolMax     \* DB_POOL_MAX

ASSUME NoneAssumption == None \notin Call /\ Other \notin Call
ASSUME BoundAssumption == Legacy \in Nat /\ PoolMax \in Nat \ {0}

VARIABLES
    log,        \* audit_log: the committed rows
    nextId,     \* the id sequence; a rollback leaves a gap
    lock,       \* holder of the advisory lock
    pc,         \* pc[c]: the statement the call comes to next
    prev,       \* prev[c]: the hash it read
    row         \* row[c]: the row it inserted

vars == <<log, nextId, lock, pc, prev, row>>

Empty == << >>

\* Mutant: the content is left out of the hash.
CanonicalNoEntry(p, id, entry) == <<p, id>>

\* sha256(canonical(...)).
Canonical(p, id, entry) == <<p, id, entry>>

InTransaction == {"lock", "read", "insert", "hash", "commit"}

Init ==
    /\ log = {[id |-> i, entry |-> Other, prev |-> Empty, hash |-> Empty] : i \in 1 .. Legacy}
    /\ nextId = Legacy + 1
    /\ lock = None
    /\ pc = [c \in Call |-> "idle"]
    /\ prev = [c \in Call |-> Empty]
    /\ row = [c \in Call |-> None]

-----------------------------------------------------------------------------
Goto(c, at) == pc' = [pc EXCEPT ![c] = at]

\* pool.connect() and BEGIN.
Connect(c) ==
    /\ pc[c] = "idle"
    /\ Cardinality({d \in Call : pc[d] \in InTransaction}) < PoolMax
    /\ Goto(c, "lock")
    /\ UNCHANGED <<log, nextId, lock, prev, row>>

\* The connection cannot be had: outside the try block, so audit() itself rejects.
ConnectFails(c) ==
    /\ pc[c] = "idle"
    /\ Goto(c, "rejected")
    /\ UNCHANGED <<log, nextId, lock, prev, row>>

\* Mutant: a lock that keeps nobody out.
LockShared(c) ==
    /\ pc[c] = "lock"
    /\ lock' = c
    /\ Goto(c, "read")
    /\ UNCHANGED <<log, nextId, prev, row>>

\* pg_advisory_xact_lock().
Lock(c) ==
    /\ pc[c] = "lock"
    /\ lock = None
    /\ lock' = c
    /\ Goto(c, "read")
    /\ UNCHANGED <<log, nextId, prev, row>>

\* h is the hash of the committed row with the highest id.
IsLastHash(h) ==
    IF log = {} THEN h = Empty
    ELSE \E r \in log : h = r.hash /\ \A q \in log : q.id <= r.id

ReadPrev(c) ==
    /\ pc[c] = "read"
    /\ \E h \in {r.hash : r \in log} \cup {Empty} :
         /\ IsLastHash(h)
         /\ prev' = [prev EXCEPT ![c] = h]
    /\ Goto(c, "insert")
    /\ UNCHANGED <<log, nextId, lock, row>>

\* Mutant: the row is inserted without an id.
InsertNoId(c) ==
    /\ pc[c] = "insert"
    /\ row' = [row EXCEPT ![c] = [id |-> -1, entry |-> c, prev |-> prev[c], hash |-> Empty]]
    /\ Goto(c, "hash")
    /\ UNCHANGED <<log, nextId, lock, prev>>

Insert(c) ==
    /\ pc[c] = "insert"
    /\ row' = [row EXCEPT ![c] = [id |-> nextId, entry |-> c, prev |-> prev[c], hash |-> Empty]]
    /\ nextId' = nextId + 1
    /\ Goto(c, "hash")
    /\ UNCHANGED <<log, lock, prev>>

SetHash(c) ==
    /\ pc[c] = "hash"
    /\ row' = [row EXCEPT ![c].hash = Canonical(prev[c], row[c].id, c)]
    /\ Goto(c, "commit")
    /\ UNCHANGED <<log, nextId, lock, prev>>

\* COMMIT: the row becomes visible and the lock is released.  When the answer is lost,
\* audit() reports a failure although the row is there.
Commit(c, answer) ==
    /\ pc[c] = "commit"
    /\ log' = log \cup {row[c]}
    /\ lock' = None
    /\ Goto(c, answer)
    /\ UNCHANGED <<nextId, prev, row>>

\* Mutant: the lock outlives the transaction.
RollbackKeepsLock(c) ==
    /\ pc[c] \in InTransaction
    /\ Goto(c, "failed")
    /\ UNCHANGED <<log, nextId, lock, prev, row>>

\* A statement fails, or the replica dies: ROLLBACK.
Rollback(c) ==
    /\ pc[c] \in InTransaction
    /\ lock' = IF lock = c THEN None ELSE lock
    /\ Goto(c, "failed")
    /\ UNCHANGED <<log, nextId, prev, row>>

Progress(c) ==
    \/ Connect(c) \/ Lock(c) \/ ReadPrev(c) \/ Insert(c) \/ SetHash(c)
    \/ \E answer \in {"written", "failed"} : Commit(c, answer)

Next == \E c \in Call : Progress(c) \/ ConnectFails(c) \/ Rollback(c)

Spec == Init /\ [][Next]_vars

\* Statements are answered, and a free lock or connection is handed to somebody who
\* waits.  A call ends for good, so that weak fairness is enough.
FairSpec == Spec /\ \A c \in Call : WF_vars(Progress(c))

-----------------------------------------------------------------------------
(* verifyAuditChain(). *)

Hashed(rows) == {r \in rows : r.hash # Empty}

\* q is the row the loop looks at before r.
Before(rows, q, r) == q.id < r.id /\ \A x \in rows : ~(q.id < x.id /\ x.id < r.id)

\* The rows at which the loop would stop: not linked to the row before, or changed.
Broken(rows) ==
    {r \in Hashed(rows) :
        \/ \E q \in Hashed(rows) : Before(Hashed(rows), q, r) /\ r.prev # q.hash
        \/ r.hash # Canonical(r.prev, r.id, r.entry)}

BrokenAt(rows, r) == r \in Broken(rows) /\ \A x \in Broken(rows) : r.id <= x.id

-----------------------------------------------------------------------------
TypeOK ==
    /\ \A r \in log : r.id \in Nat /\ r.entry \in Call \cup {Other}
    /\ nextId \in Nat
    /\ lock \in Call \cup {None}
    /\ pc \in [Call -> InTransaction \cup {"idle", "written", "failed", "rejected"}]
    /\ \A c \in Call : pc[c] \in {"hash", "commit"} => row[c].id \in Nat

\* "keeping the hash chain strictly ordered even under concurrent requests": whatever
\* calls interleave, fail or die, verifyAuditChain() finds the chain intact.
ChainIntact == Broken(log) = {}

\* Rows are only ever added, each after all that were there: a reader who pages by id
\* has seen everything up to the last row it saw.
AppendedInOrder ==
    [][/\ log \subseteq log'
       /\ \A r \in log' \ log : \A q \in log : q.id < r.id]_vars

\* What verifyAuditChain() reports of a log that somebody edited: a changed entry at
\* its own row; a deleted row, or one whose hash was recomputed to match, at the next.
EditsAreLocated ==
    \A r \in Hashed(log) :
        LET changed == [r EXCEPT !.entry = Other]
            rehash  == [changed EXCEPT !.hash = Canonical(r.prev, r.id, Other)]
        IN  /\ BrokenAt((log \ {r}) \cup {changed}, changed)
            /\ \A s \in Hashed(log) : Before(Hashed(log), r, s) =>
                 /\ BrokenAt((log \ {r}) \cup {rehash}, s)
                 /\ (\E q \in Hashed(log) : q.id < r.id) => BrokenAt(log \ {r}, s)

\* Every call of audit() returns: nobody waits for the lock or a connection forever.
Returned == \A c \in Call : pc[c] \in {"written", "failed", "rejected"}
AuditReturns == <>[]Returned
=============================================================================
