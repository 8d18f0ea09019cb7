-------------------------------- MODULE MCIntake --------------------------------
(* What comes in and is kept, for TLC: the audit log, syslog and NetFlow.  `part`   *)
(* says which of them a behaviour is about; the rest stands still.                  *)
EXTENDS AuditChain, TLC

CONSTANTS Source, Id, Absent, Asked, MaxMsgs, MaxEvents, MaxBatch, MaxBuffer, MapCap, Rate,
          Exporter, Templated, Flush, Chunk, MaxFlows, MaxFlowEvents

ASSUME SyslogAssumption ==
    /\ Rate \in Nat \ {0} /\ MaxMsgs \in Nat /\ MaxBuffer \in Nat
    /\ {None, Absent, Asked} \cap Id = {} /\ Absent \notin {None, Asked} /\ Asked # None
    /\ None \notin [count : Nat, now : BOOLEAN]

ASSUME FlowsAssumption ==
    /\ Templated \subseteq Exporter /\ MaxFlows \in Nat
    /\ None \notin [left : SUBSET (1..MaxFlows), ask : SUBSET Exporter,
                    device : [Exporter -> Id \cup {None}]]

VARIABLES part,
          owner, unused, dbUp, cache, asked, arrived, source, rate, buffer, batch, stored,
          matched, limited, shed, lost, accepted, cleared, events,
          exporterOwner, newIds, reachable, flowEvents, collecting, templates, exporterDevice,
          buckets, flushing, records, decoded, gone, troubled

Syslog == INSTANCE Ingest
NetFlow == INSTANCE Flows

syslogVars == <<owner, unused, dbUp, cache, asked, arrived, source, rate, buffer, batch, stored,
                matched, limited, shed, lost, accepted, cleared, events>>
netFlowVars == <<exporterOwner, newIds, reachable, flowEvents, collecting, templates,
                 exporterDevice, buckets, flushing, records, decoded, gone, troubled>>
all == <<part, vars, syslogVars, netFlowVars>>

IntakeInit ==
    /\ part \in {"audit", "syslog", "netflow"}
    /\ Init /\ Syslog!Init /\ NetFlow!Init
    \* sources are alike
    /\ \A s \in Source : owner[s] # None => part = "syslog" /\ s = CHOOSE q \in Source : TRUE

IntakeNext ==
    /\ UNCHANGED part
    /\ \/ part = "audit" /\ Next /\ UNCHANGED <<syslogVars, netFlowVars>>
       \/ part = "syslog" /\ Syslog!Next /\ UNCHANGED <<vars, netFlowVars>>
       \/ part = "netflow" /\ NetFlow!Next /\ UNCHANGED <<vars, syslogVars>>

\* The fairness of each of the modules.
IntakeSpec ==
    /\ IntakeInit /\ [][IntakeNext]_all
    /\ \A c \in Call : WF_vars(part = "audit" /\ Progress(c))
    /\ WF_syslogVars(part = "syslog" /\ Syslog!Timer)
    /\ WF_syslogVars(part = "syslog" /\ Syslog!FlushEnds)
    /\ \A m \in 1..MaxMsgs : WF_syslogVars(part = "syslog" /\ (Syslog!LookUp(m) \/ Syslog!Answered(m)))
    /\ \A s \in Source : WF_syslogVars(part = "syslog" /\ Syslog!CacheExpires(s))
    /\ \A f \in Flush :
         WF_netFlowVars(part = "netflow" /\ (NetFlow!DeviceForExporter(f) \/ NetFlow!InsertChunk(f)))
    /\ WF_netFlowVars(part = "netflow" /\ (NetFlow!Restart \/ \E f \in Flush : NetFlow!StartFlush(f)))

AuditCallsReturn == <>[](part = "audit" => Returned)
\* The type invariants, and that nothing which comes in is lost unsaid or doubled: edits of
\* the log are located, a message is in one place, a source is limited, flows add up.
IntakeAddsUp ==
    /\ TypeOK /\ Syslog!TypeOK /\ NetFlow!TypeOK
    /\ EditsAreLocated
    /\ Syslog!EachInOnePlace /\ Syslog!SourceIsLimited
    /\ NetFlow!FlowsAddUp /\ NetFlow!PeaceLosesNothing
\* Every message is dealt with, attributions follow the devices, and flushes end.
IntakeSettles == Syslog!MessagesAreHandled /\ Syslog!AttributionFollows /\ NetFlow!FlowsSettle
=================================================================================
