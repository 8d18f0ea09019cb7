-------------------------------- MODULE Ingest --------------------------------
(***************************************************************************)
(* The syslog listener (services/syslogService.ts) over the batch writer   *)
(* of util/batcher.ts: every datagram is attributed to a device through a  *)
(* cache, limited per source and second, buffered, and stored by one       *)
(* INSERT per batch, while devices are added and removed and the database  *)
(* goes away.                                                              *)
(*                                                                         *)
(* A step is the code between two awaits.  Datagrams are numbered in the   *)
(* order they arrive in; of their text only the source matters.  Time is   *)
(* kept as what the code compares: whether a cache entry is older than     *)
(* DEVICE_TTL_MS, and whether a rate window is the current second's.       *)
(***************************************************************************)
EXTENDS Naturals, FiniteSets, SequencesExt

CONSTANTS
    Source,    \* addresses datagrams come from
    Id,        \* ids of devices, each used once
    None, Absent, Asked, \* no device; no entry; no answer yet
    MaxMsgs,   \* bound on datagrams
    MaxEvents, \* bound on devices added or removed and outages
    MaxBatch, MaxBuffer, MapCap,
    Rate       \* MAX_MSGS_PER_SOURCE_PER_SEC

Msg == 1..MaxMsgs

VARIABLES
    owner,     \* owner[s]: the device whose mgmt_ip is s
    unused,    \* ids not given to a device so far
    dbUp,
    cache,     \* deviceCache[s]: absent, or the id found (None: nobody's)
    asked,     \* asked[m]: what m's handler waits for: nothing (Absent), a lookup, or its answer
    arrived,   \* datagrams so far
    source,    \* source[m]
    rate,      \* sourceRate[s]: None, or its count and whether it is this second's
    buffer,    \* the batcher's rows
    batch,     \* the rows of the flush in flight; empty: none is
    stored,    \* syslog_messages: the rows
    matched,   \* datagrams whose text was compared with PATTERNS, with the device's id
    limited, shed, lost, \* datagrams not stored: over the rate, buffer full, flush failed
    accepted,  \* accepted[s]: rows let through this second
    cleared,   \* sourceRate was emptied this often this second
    events

db == <<owner, unused, dbUp, events>>
clock == <<accepted, cleared>>
fates == <<stored, lost>>
handler == <<cache, asked, arrived, source, rate, matched, limited, shed>>
vars == <<db, clock, fates, handler, buffer, batch>>

\* mgmt_ip is unique.
OneEach(o) == \A s, q \in Source : o[s] = o[q] => s = q \/ o[s] = None

Init ==
    /\ owner \in {o \in [Source -> Id \cup {None}] : OneEach(o)}
    /\ unused = Id \ {owner[s] : s \in Source} /\ dbUp = TRUE /\ events = 0
    /\ cache = [s \in Source |-> Absent]
    /\ asked = [m \in Msg |-> Absent]
    /\ arrived = 0 /\ source = [m \in Msg |-> None]
    /\ rate = [s \in Source |-> None]
    /\ buffer = << >> /\ batch = << >>
    /\ stored = {} /\ matched = {} /\ limited = {} /\ shed = {} /\ lost = {}
    /\ accepted = [s \in Source |-> 0] /\ cleared = 0

-----------------------------------------------------------------------------
Held(map) == Cardinality({s \in Source : map[s] \notin {None, Absent}})

\* Mutant: one more than the limit.
WithinRateOffByOne(s) ==
    LET full == Held(rate) > MapCap
        r    == IF full THEN None ELSE rate[s]
        new  == r = None \/ ~r.now
        ok   == new \/ r.count <= Rate
    IN  /\ rate' = [q \in Source |->
               IF q = s THEN [count |-> IF new THEN 1 ELSE IF ok THEN r.count + 1 ELSE r.count,
                              now |-> TRUE]
               ELSE IF full THEN None ELSE rate[q]]
        /\ accepted' = [accepted EXCEPT ![s] = IF ok THEN @ + 1 ELSE @]
        /\ cleared' = IF full THEN cleared + 1 ELSE cleared

\* withinRate(): a map over its cap is emptied first, whoever asks.
WithinRate(s) ==
    LET full == Held(rate) > MapCap
        r    == IF full THEN None ELSE rate[s]
        new  == r = None \/ ~r.now
        ok   == new \/ r.count < Rate
    IN  /\ rate' = [q \in Source |->
               IF q = s THEN [count |-> IF new THEN 1 ELSE IF ok THEN r.count + 1 ELSE r.count,
                              now |-> TRUE]
               ELSE IF full THEN None ELSE rate[q]]
        /\ accepted' = [accepted EXCEPT ![s] = IF ok THEN @ + 1 ELSE @]
        /\ cleared' = IF full THEN cleared + 1 ELSE cleared

\* flushNow() up to its await, on a buffer of these rows.
FlushNow(rows) ==
    IF batch # << >> THEN buffer' = rows /\ UNCHANGED batch
                     ELSE buffer' = << >> /\ batch' = rows

\* Mutant: a size-triggered flush does not look whether one is in flight.
PushFlushes(row) ==
    IF Len(buffer) >= MaxBuffer
      THEN shed' = shed \cup {row.msg} /\ UNCHANGED <<buffer, batch>>
      ELSE /\ UNCHANGED shed
           /\ IF Len(buffer) + 1 >= MaxBatch
                THEN buffer' = << >> /\ batch' = Append(buffer, row)
                ELSE buffer' = Append(buffer, row) /\ UNCHANGED batch

\* push(): a full buffer sheds; a batch's worth of rows is flushed at once.
Push(row) ==
    IF Len(buffer) >= MaxBuffer
      THEN shed' = shed \cup {row.msg} /\ UNCHANGED <<buffer, batch>>
      ELSE /\ UNCHANGED shed
           /\ IF Len(buffer) + 1 >= MaxBatch
                THEN FlushNow(Append(buffer, row))
                ELSE buffer' = Append(buffer, row) /\ UNCHANGED batch

\* The handler once it knows the device: the row is limited and buffered, and the text
\* is compared with PATTERNS in any case.
Handle(m, s, id) ==
    /\ WithinRate(s)
    /\ IF accepted' # accepted
         THEN Push([msg |-> m, id |-> id]) /\ UNCHANGED limited
         ELSE limited' = limited \cup {m} /\ UNCHANGED <<buffer, batch, shed>>
    /\ matched' = matched \cup {[msg |-> m, id |-> id]}

\* A datagram comes in.  A hit in the cache is handled at once; else the database is
\* asked, by every datagram that comes in before the answer.
Arrive(s) ==
    LET m == arrived + 1
    IN  /\ arrived < MaxMsgs /\ arrived' = m
        /\ source' = [source EXCEPT ![m] = s]
        /\ IF cache[s] # Absent
             THEN Handle(m, s, cache[s]) /\ UNCHANGED <<cache, asked>>
             ELSE /\ cache' = IF Cardinality({q \in Source : cache[q] # Absent}) > MapCap
                                THEN [q \in Source |-> Absent] ELSE cache
                  /\ asked' = [asked EXCEPT ![m] = Asked]
                  /\ UNCHANGED <<rate, accepted, cleared, buffer, batch, matched, limited, shed>>
        /\ UNCHANGED <<db, fates>>

\* The lookup reads the devices table, or fails and counts as nobody's.
LookUp(m) ==
    /\ asked[m] = Asked
    /\ asked' = [asked EXCEPT ![m] = IF dbUp THEN owner[source[m]] ELSE None]
    /\ UNCHANGED <<db, clock, fates, cache, arrived, source, rate, matched, limited, shed,
                   buffer, batch>>

\* ... and its answer is cached and used.
Answered(m) ==
    /\ asked[m] \notin {Absent, Asked}
    /\ cache' = [cache EXCEPT ![source[m]] = asked[m]]
    /\ asked' = [asked EXCEPT ![m] = Absent]
    /\ Handle(m, source[m], asked[m])
    /\ UNCHANGED <<db, fates, arrived, source>>

\* The interval timer of the batcher.
Timer ==
    /\ buffer # << >> /\ batch = << >>
    /\ FlushNow(buffer)
    /\ UNCHANGED <<db, clock, fates, handler>>

\* A row of a device that is gone violates the foreign key, and the INSERT is one.
Storable == dbUp /\ \A i \in DOMAIN batch : batch[i].id \in {None} \cup {owner[s] : s \in Source}

\* Mutant: a failed flush goes on being in flight.
FlushStays ==
    /\ batch # << >> /\ Storable
    /\ stored' = stored \cup ToSet(batch)
    /\ batch' = << >>
    /\ UNCHANGED <<db, clock, handler, lost, buffer>>

\* The flush ends: a failed one drops its batch.
FlushEnds ==
    /\ batch # << >>
    /\ IF Storable THEN stored' = stored \cup ToSet(batch) /\ UNCHANGED lost
                   ELSE lost' = lost \cup {batch[i].msg : i \in DOMAIN batch} /\ UNCHANGED stored
    /\ batch' = << >>
    /\ UNCHANGED <<db, clock, handler, buffer>>

-----------------------------------------------------------------------------
\* Mutant: what is nobody's stays nobody's.
CacheExpiresPositive(s) ==
    /\ cache[s] \notin {Absent, None}
    /\ cache' = [cache EXCEPT ![s] = Absent]
    /\ UNCHANGED <<db, clock, fates, asked, arrived, source, rate, matched, limited, shed,
                   buffer, batch>>

\* DEVICE_TTL_MS after an entry was made.
CacheExpires(s) ==
    /\ cache[s] # Absent
    /\ cache' = [cache EXCEPT ![s] = Absent]
    /\ UNCHANGED <<db, clock, fates, asked, arrived, source, rate, matched, limited, shed,
                   buffer, batch>>

Tick ==
    /\ \E s \in Source : rate[s] # None /\ rate[s].now
    /\ rate' = [s \in Source |-> IF rate[s] = None THEN None ELSE [rate[s] EXCEPT !.now = FALSE]]
    /\ accepted' = [s \in Source |-> 0] /\ cleared' = 0
    /\ UNCHANGED <<db, fates, cache, asked, arrived, source, matched, limited, shed, buffer, batch>>

Happens == events < MaxEvents /\ events' = events + 1

AddDevice(s) ==
    /\ Happens
    /\ owner[s] = None /\ unused # {}
    /\ LET id == CHOOSE i \in unused : TRUE
       IN  unused' = unused \ {id} /\ owner' = [owner EXCEPT ![s] = id]
    /\ UNCHANGED <<dbUp, clock, fates, handler, buffer, batch>>

\* DELETE FROM devices takes the device's rows with it.
RemoveDevice(s) ==
    /\ Happens
    /\ owner[s] # None
    /\ owner' = [owner EXCEPT ![s] = None]
    /\ lost' = lost \cup {r.msg : r \in {x \in stored : x.id = owner[s]}}
    /\ stored' = {x \in stored : x.id # owner[s]}
    /\ UNCHANGED <<unused, dbUp, clock, handler, buffer, batch>>

\* The database stops answering, and comes back.
Outage ==
    /\ IF dbUp THEN Happens ELSE UNCHANGED events
    /\ dbUp' = ~dbUp
    /\ UNCHANGED <<owner, unused, clock, fates, handler, buffer, batch>>

Next ==
    \/ \E s \in Source : Arrive(s) \/ CacheExpires(s) \/ AddDevice(s) \/ RemoveDevice(s)
    \/ \E m \in Msg : LookUp(m) \/ Answered(m)
    \/ Timer \/ FlushEnds \/ Tick \/ Outage

Spec == Init /\ [][Next]_vars

\* Statements are answered or rejected, the timer ticks, entries age.
Fairness ==
    /\ WF_vars(Timer) /\ WF_vars(FlushEnds)
    /\ \A m \in Msg : WF_vars(LookUp(m) \/ Answered(m))
    /\ \A s \in Source : WF_vars(CacheExpires(s))

FairSpec == Spec /\ Fairness

-----------------------------------------------------------------------------
Rows == [msg : Msg, id : Id \cup {None}]

TypeOK ==
    /\ owner \in [Source -> Id \cup {None}] /\ dbUp \in BOOLEAN
    /\ cache \in [Source -> Id \cup {None, Absent}]
    /\ asked \in [Msg -> Id \cup {None, Absent, Asked}]
    /\ \A s \in Source : rate[s] # None => rate[s].count \in 1..Rate
    /\ OneEach(owner)
    /\ ToSet(buffer) \cup ToSet(batch) \cup stored \cup matched \subseteq Rows
    /\ Len(buffer) <= MaxBuffer

Waiting(m) == asked[m] # Absent
Queued(rows) == {rows[i].msg : i \in DOMAIN rows}
Places(m) == <<Waiting(m), m \in limited, m \in shed, m \in lost, m \in Queued(buffer),
               m \in Queued(batch), \E id \in Id \cup {None} : [msg |-> m, id |-> id] \in stored>>

\* Buffering defers a row and never doubles or forgets it: a datagram that came in is
\* waiting, in the buffer, in the flush in flight or stored, or was given up for one
\* reason (batcher.ts, "A failed flush drops its batch rather than re-queueing").
EachInOnePlace ==
    /\ \A m \in 1..arrived : \E place \in 1..7 : \A i \in 1..7 : Places(m)[i] <=> i = place
    /\ \A rows \in {buffer, batch} : \A i, j \in DOMAIN rows : rows[i].msg = rows[j].msg => i = j

\* "a single chatty source can't hammer the DB": however the lookups of its datagrams
\* end, a source gets at most Rate rows a second, and as many again for every time a
\* flood of other sources has the map emptied.
SourceIsLimited == \A s \in Source : accepted[s] <= Rate * (cleared + 1)

\* "Alert matching stays immediate": what is not stored is matched all the same, and
\* what is buffered gets to the table or is given up.
MessagesAreHandled ==
    <>[](\A m \in 1..arrived : /\ \E r \in matched : r.msg = m
                               /\ m \notin Queued(buffer) \cup Queued(batch))

\* Once the database stays up, messages come to be attributed to the device that has
\* their address: no failed or late lookup stays in the cache.
AttributionFollows ==
    <>[]dbUp => <>[](\A s \in Source : cache[s] \in {Absent, owner[s]})
=============================================================================
