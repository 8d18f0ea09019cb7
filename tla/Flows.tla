--------------------------------- MODULE Flows ---------------------------------
(***************************************************************************)
(* The NetFlow collector (services/netflow/): datagrams are decoded with   *)
(* the templates their exporter sent, added up in memory, and written to   *)
(* flow_records every minute, chunk by chunk, with the exporter's device.  *)
(*                                                                         *)
(* One aggregate stands for the rows of an exporter, and its sum is kept as *)
(* the set of datagrams added up in it, numbered as they come: a sum that  *)
(* counts one twice or forgets one shows.  A flush may still go on when    *)
(* the next begins.                                                        *)
(***************************************************************************)
EXTENDS Integers, Sequences, FiniteSets, Functions

CONSTANTS
    Exporter, Templated,  \* all exporters, and those that speak v9 or IPFIX
    Id,                   \* ids of devices, each used once
    None,
    Flush,                \* names for flushes in flight
    Chunk,                \* rows of one INSERT
    MaxFlows, MaxFlowEvents \* bounds on datagrams, and on outages and changes of devices

VARIABLES
    exporterOwner,  \* the device whose mgmt_ip the exporter has
    newIds, reachable, flowEvents,
    collecting,     \* the process is up
    templates,      \* exporters with a template in the cache
    exporterDevice, \* the cache of devices: hits only, for good
    buckets,        \* what is added up since the last flush
    flushing,       \* flushing[f]: None, or what a flush has left to do
    records,        \* flow_records: what they add up to
    decoded,        \* what was taken in: the exporters of the datagrams, in order
    gone,           \* what was lost
    troubled        \* there was an outage, or a device was removed

database == <<exporterOwner, newIds, reachable, flowEvents, troubled, records>>
memory == <<templates, exporterDevice, buckets, flushing>>
vars == <<database, collecting, memory, decoded, gone>>

Init ==
    /\ exporterOwner = [e \in Exporter |-> None] /\ newIds = Id
    /\ reachable = TRUE /\ flowEvents = 0 /\ troubled = FALSE
    /\ collecting = TRUE
    /\ templates = {} /\ exporterDevice = [e \in Exporter |-> None]
    /\ buckets = {}
    /\ flushing = [f \in Flush |-> None]
    /\ records = {} /\ decoded = << >> /\ gone = {}

\* The exporters whose rows a sum has, and the part of it that is in theirs.
From(sum) == {decoded[i] : i \in sum}
Of(sum, rows) == {i \in sum : decoded[i] \in rows}
Left(f) == IF flushing[f] = None THEN {} ELSE flushing[f].left
InFlight == UNION {Left(f) : f \in Flush}

-----------------------------------------------------------------------------
SendTemplate(e) ==
    /\ collecting
    /\ e \in Templated \ templates
    /\ templates' = templates \cup {e}
    /\ UNCHANGED <<database, collecting, exporterDevice, buckets, flushing, decoded, gone>>

\* Version 5 needs no template; a record of a template that is not known is passed over.
Decodes(e) == e \in Templated => e \in templates

\* ingest(): what a datagram says is added to the aggregates.
Ingest(e) ==
    /\ collecting
    /\ Decodes(e)
    /\ Len(decoded) < MaxFlows
    /\ decoded' = Append(decoded, e)
    /\ buckets' = buckets \cup {Len(decoded) + 1}
    /\ UNCHANGED <<database, collecting, templates, exporterDevice, flushing, gone>>

\* flush() up to its first await.
StartFlush(f) ==
    /\ collecting /\ flushing[f] = None
    /\ buckets # {}
    /\ flushing' = [flushing EXCEPT ![f] =
          [left |-> buckets, ask |-> From(buckets), device |-> [e \in Exporter |-> None]]]
    /\ buckets' = {}
    /\ UNCHANGED <<database, collecting, templates, exporterDevice, decoded, gone>>

\* Mutant: the flushes in flight go on.
ExitKeepsFlushes ==
    /\ collecting' = FALSE
    /\ templates' = {} /\ exporterDevice' = [e \in Exporter |-> None]
    /\ buckets' = {}
    /\ gone' = gone \cup buckets
    /\ UNCHANGED flushing

\* The flush's promise is voided: a rejection that nobody handles ends the process,
\* and with it everything in memory.
Exit ==
    /\ collecting' = FALSE
    /\ templates' = {} /\ exporterDevice' = [e \in Exporter |-> None]
    /\ buckets' = {}
    /\ flushing' = [f \in Flush |-> None]
    /\ gone' = gone \cup buckets \cup InFlight

\* deviceForExporter(), for one exporter after the other.
DeviceForExporter(f) ==
    /\ flushing[f] # None
    /\ \E e \in flushing[f].ask :
         IF exporterDevice[e] = None /\ ~reachable THEN Exit /\ UNCHANGED <<database, decoded>>
         ELSE LET id == IF exporterDevice[e] # None THEN exporterDevice[e] ELSE exporterOwner[e]
              IN  /\ exporterDevice' = [exporterDevice EXCEPT ![e] = id]
                  /\ flushing' = [flushing EXCEPT ![f].ask = @ \ {e}, ![f].device[e] = id]
                  /\ UNCHANGED <<database, collecting, templates, buckets, decoded, gone>>

Then(f, left) ==
    flushing' = [flushing EXCEPT ![f] = IF left = {} THEN None ELSE [@ EXCEPT !.left = left]]

\* The next rows: a chunk, or what there is.
IsChunk(f, rows) ==
    /\ rows \subseteq From(Left(f)) /\ rows # {}
    /\ Cardinality(rows) = Chunk \/ (rows = From(Left(f)) /\ Cardinality(rows) < Chunk)

\* Mutant: flows of exporters that are nobody's are refused.
AcceptedManaged(f, rows) ==
    reachable /\ \A e \in rows : flushing[f].device[e] \in Range(exporterOwner) \ {None}

\* A device that is gone violates the chunk's foreign key.
Accepted(f, rows) ==
    /\ reachable
    /\ \A e \in rows : flushing[f].device[e] \in {None} \cup Range(exporterOwner)

\* Mutant: a conflicting row is overwritten, not added to.
InsertReplaces(f) ==
    /\ flushing[f] # None /\ flushing[f].ask = {}
    /\ \E rows \in SUBSET From(Left(f)) :
         /\ IsChunk(f, rows)
         /\ IF Accepted(f, rows)
              THEN /\ records' = (records \ Of(records, rows)) \cup Of(Left(f), rows)
                   /\ UNCHANGED gone
              ELSE gone' = gone \cup Of(Left(f), rows) /\ UNCHANGED records
         /\ Then(f, Left(f) \ Of(Left(f), rows))
    /\ UNCHANGED <<exporterOwner, newIds, reachable, flowEvents, troubled, collecting,
                   templates, exporterDevice, buckets, decoded>>

\* Mutant: a chunk that fails ends the flush, and leaves it behind.
InsertStops(f) ==
    /\ flushing[f] # None /\ flushing[f].ask = {}
    /\ \E rows \in SUBSET From(Left(f)) :
         /\ IsChunk(f, rows) /\ Accepted(f, rows)
         /\ records' = records \cup Of(Left(f), rows)
         /\ Then(f, Left(f) \ Of(Left(f), rows))
    /\ UNCHANGED <<exporterOwner, newIds, reachable, flowEvents, troubled, collecting,
                   templates, exporterDevice, buckets, decoded, gone>>

\* INSERT ... ON CONFLICT DO UPDATE of the next chunk; one that fails is logged.
InsertChunk(f) ==
    /\ flushing[f] # None /\ flushing[f].ask = {}
    /\ \E rows \in SUBSET From(Left(f)) :
         /\ IsChunk(f, rows)
         /\ IF Accepted(f, rows)
              THEN records' = records \cup Of(Left(f), rows) /\ UNCHANGED gone
              ELSE gone' = gone \cup Of(Left(f), rows) /\ UNCHANGED records
         /\ Then(f, Left(f) \ Of(Left(f), rows))
    /\ UNCHANGED <<exporterOwner, newIds, reachable, flowEvents, troubled, collecting,
                   templates, exporterDevice, buckets, decoded>>

Restart ==
    /\ ~collecting /\ collecting' = TRUE
    /\ UNCHANGED <<database, memory, decoded, gone>>

-----------------------------------------------------------------------------
Happens == flowEvents < MaxFlowEvents /\ flowEvents' = flowEvents + 1

\* A device is added with the exporter's address, or removed; its records stay.
ChangeDevice(e) ==
    /\ Happens
    /\ IF exporterOwner[e] # None
         THEN /\ exporterOwner' = [exporterOwner EXCEPT ![e] = None]
              /\ troubled' = TRUE /\ UNCHANGED newIds
         ELSE \E id \in newIds : /\ exporterOwner' = [exporterOwner EXCEPT ![e] = id]
                                 /\ newIds' = newIds \ {id} /\ UNCHANGED troubled
    /\ UNCHANGED <<reachable, records, collecting, memory, decoded, gone>>

Outage ==
    /\ Happens
    /\ reachable' = ~reachable /\ troubled' = TRUE
    /\ UNCHANGED <<exporterOwner, newIds, records, collecting, memory, decoded, gone>>

Next ==
    \/ \E e \in Exporter : SendTemplate(e) \/ Ingest(e) \/ ChangeDevice(e)
    \/ \E f \in Flush : StartFlush(f) \/ DeviceForExporter(f) \/ InsertChunk(f)
    \/ Restart \/ Outage

Spec == Init /\ [][Next]_vars

\* The timer ticks, statements are answered or rejected, the process is restarted.
Fairness ==
    /\ \A f \in Flush : WF_vars(DeviceForExporter(f) \/ InsertChunk(f))
    /\ WF_vars(\E f \in Flush : StartFlush(f)) /\ WF_vars(Restart)

FairSpec == Spec /\ Fairness

-----------------------------------------------------------------------------
TypeOK ==
    /\ exporterOwner \in [Exporter -> Id \cup {None}] /\ newIds \subseteq Id
    /\ templates \subseteq Templated
    /\ exporterDevice \in [Exporter -> Id \cup {None}]
    /\ decoded \in Seq(Exporter) /\ Len(decoded) <= MaxFlows
    /\ \A f \in Flush : flushing[f] # None =>
         /\ flushing[f].left # {} /\ flushing[f].ask \subseteq Exporter
         /\ flushing[f].device \in [Exporter -> Id \cup {None}]
    /\ ~collecting => buckets = {} /\ InFlight = {}

\* The collector counts nothing twice and forgets nothing unsaid: whatever arrives
\* between the snapshot and the inserts, and however flushes overlap, what was taken
\* in is in memory, in one flush, in the table or lost with a failure.
FlowsAddUp ==
    /\ buckets \cup InFlight \cup records \cup gone = 1..Len(decoded)
    /\ buckets \cap InFlight = {} /\ (buckets \cup InFlight) \cap (records \cup gone) = {}
    /\ records \cap gone = {}
    /\ \A f, g \in Flush : f # g => Left(f) \cap Left(g) = {}

\* As long as the database answers and no device goes, nothing is lost: a device that is
\* added while its flows are collected or written costs none.
PeaceLosesNothing == ~troubled => gone = {}

\* Every flush ends, and every flow that was taken in is stored or lost in the end: no
\* failed chunk keeps the ones after it.
FlowsSettle == <>[](records \cup gone = 1..Len(decoded))
=============================================================================
