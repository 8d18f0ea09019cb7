------------------------------- MODULE PortWrites -------------------------------
(***************************************************************************)
(* Writes to the ports of one switch: deviceComms.ts (SSH vendors),          *)
(* aruba/write.ts (SNMP), routes/ports.ts, the bulk panel of PortsTab.tsx,   *)
(* the guard against cutting uplinks, and what the monitors write to the     *)
(* same tables.                                                              *)
(*                                                                         *)
(* SSH exchanges of one operation share a session that keeps others out      *)
(* (SshPool); SNMP has none.  A request is the list of statements it has     *)
(* left.                                                                     *)
(***************************************************************************)
EXTENDS Naturals, Sequences

CONSTANTS
    Port,
    Uplink,           \* the port the platform reaches the switch through
    Neighbours,       \* the ports CDP or LLDP shows a neighbour on
    Mapped,           \* the ports in the switch's bridge port table
    VLAN,
    Req,
    None,
    Setups,           \* <<vendor, kinds>>: the vendors, and what is asked for with each,
                      \* of "admin", "cycle", "config"
    AskedVlans,       \* the access VLANs asked for
    AskedLists,       \* the trunk VLAN lists asked for; empty: all VLANs
    MaxAsks,          \* bound: requests
    MaxEvents         \* bound: failures and what others do to the switch and the links

ASSUME PortAssumption ==
    /\ Neighbours \subseteq Port /\ Mapped \subseteq Port
    /\ VLAN \subseteq Nat \ {0} /\ VLAN # {}
    /\ AskedVlans \subseteq VLAN /\ AskedLists \subseteq SUBSET VLAN
ASSUME ActorAssumption == "refresh" \notin Req /\ None \notin Req \cup {"refresh"}
ASSUME SetupAssumption == Setups \subseteq {"ssh", "aruba"} \X SUBSET {"admin", "cycle", "config"}

VARIABLES
    vendor,
    kinds,            \* what users ask for in this behaviour
    off,              \* off: <<p, "admin">> port p is shut, <<p, "power">> without PoE
    egress, untagged, \* static VLAN table: member ports, and the untagged among them
    vlan,             \* vlan[p]: access VLAN (on Aruba the PVID), or Trunked
    rows,             \* rows[p]: admin_up and vlan of the table ports
    links,            \* local ports in topology_links
    manual,           \* local ports in manual_topology_links
    session,          \* who has the switch's SSH session
    todo,
    asks, events,
    signed,           \* history: signed[q]: a manual link has been on q's port all along
    disabled,         \* history: what was asked to be off
    broken,           \* history: what a failure left off
    wanted,           \* history: the memberships the last trunk edits asked for
    mixed             \* history: trunk edits have overlapped or failed

setting == <<vendor, kinds>>
switch == <<off, egress, untagged, vlan>>
tables == <<rows, links, manual>>
history == <<signed, disabled, broken, wanted, mixed>>
vars == <<setting, switch, tables, session, todo, asks, events, history>>

Trunked == 0
Actor == Req \cup {"refresh"}
Row(p) == [admin |-> <<p, "admin">> \notin off, vlan |-> vlan[p]]
Reachable == \A how \in {"admin", "power"} : <<Uplink, how>> \notin off

Init ==
    /\ \E setup \in Setups : vendor = setup[1] /\ kinds = setup[2]
    /\ off = {}
    /\ egress = [v \in VLAN |-> Port] /\ untagged = [v \in VLAN |-> Port]
    /\ vlan = [p \in Port |-> CHOOSE v \in VLAN : TRUE]
    /\ rows = [p \in Port |-> Row(p)]
    /\ links = {} /\ manual = {}
    /\ session = None
    /\ todo = [a \in Actor |-> << >>]
    /\ asks = 0 /\ events = 0
    /\ signed = [q \in Req |-> FALSE]
    /\ disabled = {} /\ broken = {}
    /\ wanted = [egress |-> egress, untagged |-> untagged]
    /\ mixed = FALSE

-----------------------------------------------------------------------------
Do(op, arg) == [op |-> op, arg |-> arg]
At(a, op) == todo[a] # << >> /\ Head(todo[a]).op = op
Arg(a) == Head(todo[a]).arg
Rest(a) == Tail(todo[a])
Continue(a, list) == todo' = [todo EXCEPT ![a] = list]

\* withDeviceSession() around what the SSH vendors do.
TakeSession == Do("take", None)
FreeSession == Do("free", None)

DoGuard(p, force) == Do("guard", [port |-> p, force |-> force])
DoOff(p, how, force, back) == Do("off", [what |-> <<p, how>>, force |-> force, back |-> back])
DoOn(p, how) == Do("on", <<p, how>>)
DoRow(p, field, value) == Do("row", [port |-> p, field |-> field, value |-> value])

PortOn(p) ==
    IF vendor = "ssh" THEN <<TakeSession, DoOn(p, "admin"), FreeSession, DoRow(p, "admin", TRUE)>>
    ELSE <<DoOn(p, "admin"), DoRow(p, "admin", TRUE)>>
PortOff(p, force) ==
    IF vendor = "ssh" THEN <<DoGuard(p, force), TakeSession, DoOff(p, "admin", force, FALSE), FreeSession,
                             DoRow(p, "admin", FALSE)>>
    ELSE <<DoGuard(p, force), DoOff(p, "admin", force, FALSE), DoRow(p, "admin", FALSE)>>

\* Mutant: up first, then down.
CycleSwapped(p, how, force) ==
    IF vendor = "ssh" THEN
       <<DoGuard(p, force), TakeSession, DoOn(p, how), DoOff(p, how, force, TRUE), FreeSession>>
    ELSE <<DoGuard(p, force), DoOn(p, how), DoOff(p, how, force, TRUE)>>

\* bouncePort(), arubaBouncePort(), poeCyclePort(): down, a pause, up.
Cycle(p, how, force) ==
    IF vendor = "ssh" THEN
       <<DoGuard(p, force), TakeSession, DoOff(p, how, force, TRUE), DoOn(p, how), FreeSession>>
    ELSE <<DoGuard(p, force), DoOff(p, how, force, TRUE), DoOn(p, how)>>

\* pushPortConfig() and the route's mirror of the change.
Config(p, v) == <<TakeSession, Do("vlan", [port |-> p, vlan |-> v]), FreeSession, DoRow(p, "vlan", v)>>

\* arubaPortConfig(): a port the bridge table does not have is skipped, and mirrored
\* nevertheless.
Access(p, v) ==
    IF vendor = "ssh" THEN Config(p, v)
    ELSE IF p \in Mapped THEN <<Do("vlan", [port |-> p, vlan |-> v]), DoRow(p, "vlan", v)>>
    ELSE <<DoRow(p, "vlan", v)>>
Trunk(p, allowed) ==
    IF vendor = "ssh" THEN Config(p, Trunked)
    ELSE IF p \in Mapped THEN
       <<Do("vlans", [port |-> p, allowed |-> allowed, left |-> VLAN]), DoRow(p, "vlan", Trunked)>>
    ELSE <<DoRow(p, "vlan", Trunked)>>

\* applyAll() of the bulk panel: one port after the other, past failures.
Bulk(ports, v) == IF ports = {} THEN << >> ELSE <<Do("each", [ports |-> ports, vlan |-> v])>>

OnSwitch == {"off", "on", "vlan", "vlans", "write"}
Trunking(a) == \E i \in DOMAIN todo[a] : todo[a][i].op \in {"vlans", "write"}

Ask(q, p, list) ==
    /\ todo[q] = << >>
    /\ asks < MaxAsks /\ asks' = asks + 1
    /\ Continue(q, list)
    /\ signed' = [signed EXCEPT ![q] = p \in manual]
    /\ UNCHANGED <<setting, switch, tables, session, events, disabled, broken>>

\* POST .../admin, .../bounce, .../poe-cycle (over SSH alone)
AskAdmin(q, p, enabled, force) ==
    Ask(q, p, IF enabled THEN PortOn(p) ELSE PortOff(p, force)) /\ UNCHANGED <<wanted, mixed>>
AskCycle(q, p, how, force) ==
    /\ how = "power" => vendor = "ssh"
    /\ Ask(q, p, Cycle(p, how, force)) /\ UNCHANGED <<wanted, mixed>>

\* POST .../config
AskAccess(q, p, v) == Ask(q, p, Access(p, v)) /\ UNCHANGED <<wanted, mixed>>
AskBulk(q, v) == Ask(q, None, Bulk(Port, v)) /\ UNCHANGED <<wanted, mixed>>

Member(allowed, v) == allowed = {} \/ v \in allowed
With(members, p, yes) == IF yes THEN members \cup {p} ELSE members \ {p}

AskTrunk(q, p, allowed) ==
    /\ Ask(q, p, Trunk(p, allowed))
    /\ IF Trunking(q)' THEN
          /\ wanted' = [egress   |-> [v \in VLAN |-> With(wanted.egress[v], p, Member(allowed, v))],
                        untagged |-> [v \in VLAN |-> wanted.untagged[v] \ {p}]]
          /\ mixed' = (mixed \/ \E a \in Req : Trunking(a))
       ELSE UNCHANGED <<wanted, mixed>>

-----------------------------------------------------------------------------
\* Mutant: manual links are not asked for.
GuardDiscovered(q) ==
    /\ At(q, "guard")
    /\ Continue(q, IF Arg(q).force \/ Arg(q).port \notin links THEN Rest(q) ELSE << >>)
    /\ UNCHANGED <<setting, switch, tables, session, asks, events, history>>

\* assertNotUplink()
Guard(q) ==
    /\ At(q, "guard")
    /\ Continue(q, IF Arg(q).force \/ Arg(q).port \notin links \cup manual THEN Rest(q) ELSE << >>)
    /\ UNCHANGED <<setting, switch, tables, session, asks, events, history>>

Take(a) ==
    /\ At(a, "take") /\ session = None
    /\ session' = a
    /\ Continue(a, Rest(a))
    /\ UNCHANGED <<setting, switch, tables, asks, events, history>>

Free(a) ==
    /\ At(a, "free")
    /\ session' = None
    /\ Continue(a, Rest(a))
    /\ UNCHANGED <<setting, switch, tables, asks, events, history>>

SwitchOff(q) ==
    /\ At(q, "off") /\ Reachable
    /\ off' = off \cup {Arg(q).what}
    /\ disabled' = IF Arg(q).back THEN disabled ELSE disabled \cup {Arg(q).what}
    /\ Continue(q, Rest(q))
    /\ UNCHANGED <<setting, egress, untagged, vlan, tables, session, asks, events,
                   signed, broken, wanted, mixed>>

SwitchOn(q) ==
    /\ At(q, "on") /\ Reachable
    /\ off' = off \ {Arg(q)}
    /\ disabled' = disabled \ {Arg(q)} /\ broken' = broken \ {Arg(q)}
    /\ Continue(q, Rest(q))
    /\ UNCHANGED <<setting, egress, untagged, vlan, tables, session, asks, events,
                   signed, wanted, mixed>>

SetVlan(q) ==
    /\ At(q, "vlan") /\ Reachable
    /\ vlan' = [vlan EXCEPT ![Arg(q).port] = Arg(q).vlan]
    /\ Continue(q, Rest(q))
    /\ UNCHANGED <<setting, off, egress, untagged, tables, session, asks, events, history>>

\* The loop over the switch's VLANs: both bitmaps of the next one are read ...
ReadVlanBitmaps(q) ==
    /\ At(q, "vlans") /\ Reachable
    /\ LET v == CHOOSE x \in Arg(q).left : \A y \in Arg(q).left : x <= y
           write == Do("write", [port |-> Arg(q).port, vlan |-> v, member |-> Member(Arg(q).allowed, v),
                                 egress |-> egress[v], untagged |-> untagged[v]])
           left == Arg(q).left \ {v}
       IN  Continue(q, <<write>>
                       \o (IF left = {} THEN << >> ELSE <<Do("vlans", [Arg(q) EXCEPT !.left = left])>>)
                       \o Rest(q))
    /\ UNCHANGED <<setting, switch, tables, session, asks, events, history>>

\* Mutant: the untagged bitmap is forgotten.
SetVlanBitmapPortEgress(q) ==
    /\ At(q, "write") /\ Reachable
    /\ LET w == Arg(q)
       IN  egress' = [egress EXCEPT ![w.vlan] = With(w.egress, w.port, w.member)]
    /\ Continue(q, Rest(q))
    /\ UNCHANGED <<setting, off, untagged, vlan, tables, session, asks, events, history>>

\* Mutant: a port never leaves a VLAN.
SetVlanBitmapPortAdds(q) ==
    /\ At(q, "write") /\ Reachable
    /\ LET w == Arg(q)
       IN  /\ egress' = [egress EXCEPT ![w.vlan] = w.egress \cup {w.port}]
           /\ untagged' = [untagged EXCEPT ![w.vlan] = w.untagged \ {w.port}]
    /\ Continue(q, Rest(q))
    /\ UNCHANGED <<setting, off, vlan, tables, session, asks, events, history>>

\* ... and both are set in one request, whole: tagged ports only go into the first.
SetVlanBitmapPort(q) ==
    /\ At(q, "write") /\ Reachable
    /\ LET w == Arg(q)
       IN  /\ egress' = [egress EXCEPT ![w.vlan] = With(w.egress, w.port, w.member)]
           /\ untagged' = [untagged EXCEPT ![w.vlan] = w.untagged \ {w.port}]
    /\ Continue(q, Rest(q))
    /\ UNCHANGED <<setting, off, vlan, tables, session, asks, events, history>>

\* The next port of a bulk edit: the users' selection may be in any order.
NextPort(q) ==
    /\ At(q, "each")
    /\ \E p \in Arg(q).ports : Continue(q, Access(p, Arg(q).vlan) \o Bulk(Arg(q).ports \ {p}, Arg(q).vlan))
    /\ UNCHANGED <<setting, switch, tables, session, asks, events, history>>

\* UPDATE ports
UpdateRow(q) ==
    /\ At(q, "row")
    /\ rows' = [rows EXCEPT ![Arg(q).port][Arg(q).field] = Arg(q).value]
    /\ Continue(q, Rest(q))
    /\ UNCHANGED <<setting, switch, links, manual, session, asks, events, history>>

-----------------------------------------------------------------------------
\* Mutant: only the neighbours are read again.
RefreshNeighbours ==
    /\ todo["refresh"] = << >>
    /\ Continue("refresh", IF vendor = "ssh" THEN <<TakeSession, Do("neighbours", None), FreeSession>>
                           ELSE <<Do("neighbours", None)>>)
    /\ UNCHANGED <<setting, switch, tables, session, asks, events, history>>

\* refreshDevice(), as far as ports and neighbours go.
Refresh ==
    /\ todo["refresh"] = << >>
    /\ Continue("refresh",
                IF vendor = "ssh" THEN <<TakeSession, Do("ports", None), Do("neighbours", None), FreeSession>>
                ELSE <<Do("ports", None), Do("neighbours", None)>>)
    /\ UNCHANGED <<setting, switch, tables, session, asks, events, history>>

ReadPorts(a) ==
    /\ At(a, "ports") /\ Reachable
    /\ Continue(a, <<Do("upsert", [p \in Port |-> Row(p)])>> \o Rest(a))
    /\ UNCHANGED <<setting, switch, tables, session, asks, events, history>>

UpsertPorts(a) ==
    /\ At(a, "upsert")
    /\ rows' = Arg(a)
    /\ Continue(a, Rest(a))
    /\ UNCHANGED <<setting, switch, links, manual, session, asks, events, history>>

ReadNeighbours(a) ==
    /\ At(a, "neighbours") /\ Reachable
    /\ Continue(a, <<Do("clear", Neighbours)>> \o Rest(a))
    /\ UNCHANGED <<setting, switch, tables, session, asks, events, history>>

\* A reading that fails is taken for an empty one over SSH, and ends it over SNMP.
NeighboursFail(a) ==
    /\ At(a, "neighbours")
    /\ Continue(a, IF vendor = "ssh" THEN <<Do("clear", {})>> \o Rest(a) ELSE Rest(a))
    /\ Reachable => events < MaxEvents
    /\ events' = IF Reachable THEN events + 1 ELSE events
    /\ UNCHANGED <<setting, switch, tables, session, asks, history>>

Inserts(ports) == IF ports = {} THEN << >> ELSE <<Do("insert", ports)>>

\* DELETE FROM topology_links, then row by row.
ClearLinks(a) ==
    /\ At(a, "clear")
    /\ links' = {}
    /\ Continue(a, Inserts(Arg(a)) \o Rest(a))
    /\ UNCHANGED <<setting, switch, rows, manual, session, asks, events, history>>

InsertLink(a) ==
    /\ At(a, "insert")
    /\ \E p \in Arg(a) : /\ links' = links \cup {p}
                         /\ Continue(a, Inserts(Arg(a) \ {p}) \o Rest(a))
    /\ UNCHANGED <<setting, switch, rows, manual, session, asks, events, history>>

-----------------------------------------------------------------------------
\* What a failure leaves: the next port of a bulk edit, nothing of anything else.
Caught(list) ==
    LET last == list[Len(list)] IN IF last.op = "each" THEN <<last>> ELSE << >>

\* Mutant: the session is not given back.
FailsKeepsSession(a) ==
    /\ \E op \in OnSwitch \cup {"ports"} : At(a, op)
    /\ Reachable => events < MaxEvents
    /\ events' = IF Reachable THEN events + 1 ELSE events
    /\ broken' = IF At(a, "on") /\ Arg(a) \in off THEN broken \cup {Arg(a)} ELSE broken
    /\ mixed' = (mixed \/ Trunking(a))
    /\ Continue(a, Caught(todo[a]))
    /\ UNCHANGED <<setting, switch, tables, session, asks, signed, disabled, wanted>>

\* An exchange fails, without effect; the session is given back.
Fails(a) ==
    /\ \E op \in OnSwitch \cup {"ports"} : At(a, op)
    /\ Reachable => events < MaxEvents
    /\ events' = IF Reachable THEN events + 1 ELSE events
    /\ session' = IF session = a THEN None ELSE session
    /\ broken' = IF At(a, "on") /\ Arg(a) \in off THEN broken \cup {Arg(a)} ELSE broken
    /\ mixed' = (mixed \/ Trunking(a))
    /\ Continue(a, Caught(todo[a]))
    /\ UNCHANGED <<setting, switch, tables, asks, signed, disabled, wanted>>

Happens == events < MaxEvents /\ events' = events + 1

\* POST and DELETE /api/topology/manual-links
ManualLink(p) ==
    /\ Happens
    /\ manual' = IF p \in manual THEN manual \ {p} ELSE manual \cup {p}
    /\ signed' = [q \in Req |-> signed[q] /\ p \in manual']
    /\ UNCHANGED <<setting, switch, rows, links, session, todo, asks, disabled, broken, wanted, mixed>>

\* Someone at the switch.
OnSite ==
    /\ off # {}
    /\ off' = {} /\ disabled' = {} /\ broken' = {}
    /\ Happens
    /\ UNCHANGED <<setting, egress, untagged, vlan, tables, session, todo, asks,
                   signed, wanted, mixed>>

Step(a) ==
    \/ Guard(a) \/ Take(a) \/ Free(a) \/ SwitchOff(a) \/ SwitchOn(a) \/ SetVlan(a)
    \/ ReadVlanBitmaps(a) \/ SetVlanBitmapPort(a) \/ NextPort(a) \/ UpdateRow(a)
    \/ ReadPorts(a) \/ UpsertPorts(a) \/ ReadNeighbours(a) \/ ClearLinks(a) \/ InsertLink(a)
    \/ ~Reachable /\ (Fails(a) \/ NeighboursFail(a))

Next ==
    \/ \E q \in Req, p \in Port, enabled, force \in BOOLEAN :
          "admin" \in kinds /\ AskAdmin(q, p, enabled, force)
    \/ \E q \in Req, p \in Port, how \in {"admin", "power"}, force \in BOOLEAN :
          "cycle" \in kinds /\ AskCycle(q, p, how, force)
    \/ \E q \in Req, p \in Port :
          /\ "config" \in kinds
          /\ \/ \E v \in AskedVlans : AskAccess(q, p, v)
             \/ \E allowed \in AskedLists : AskTrunk(q, p, allowed)
    \/ \E q \in Req, v \in AskedVlans : "config" \in kinds /\ AskBulk(q, v)
    \/ Refresh
    \/ \E a \in Actor : Step(a) \/ Fails(a) \/ NeighboursFail(a)
    \/ \E p \in Port : ManualLink(p)
    \/ OnSite

Spec == Init /\ [][Next]_vars

\* Exchanges end or time out, sessions are handed on, and sweeps come back.
Fairness ==
    /\ \A a \in Actor : SF_vars(Step(a))
    /\ WF_vars(Refresh)

FairSpec == Spec /\ Fairness

-----------------------------------------------------------------------------
TypeOK ==
    /\ <<vendor, kinds>> \in Setups
    /\ off \subseteq Port \X {"admin", "power"}
    /\ egress \in [VLAN -> SUBSET Port] /\ untagged \in [VLAN -> SUBSET Port]
    /\ vlan \in [Port -> VLAN \cup {Trunked}]
    /\ rows \in [Port -> [admin : BOOLEAN, vlan : VLAN \cup {Trunked}]]
    /\ links \subseteq Port /\ manual \subseteq Port
    /\ session \in Actor \cup {None}
    /\ session # None => todo[session] # << >>

\* The switch refuses an untagged port that is no member (aruba/write.ts:183): with
\* stale readings of other requests too, the two bitmaps fit together.
UntaggedIsEgress == \A v \in VLAN : untagged[v] \subseteq egress[v]

\* Trunk edits that neither overlap nor fail leave every VLAN as they asked, and the
\* other ports alone.
SoloTrunkHolds ==
    ~mixed /\ (\A q \in Req : ~Trunking(q)) => wanted = [egress |-> egress, untagged |-> untagged]

\* The type invariant, and that VLAN bitmaps stay consistent: a port is untagged only where
\* it is a member, and a trunk edit with no other beside it is what the switch then does.
BitmapsAreSound == TypeOK /\ UntaggedIsEgress /\ SoloTrunkHolds

\* "the manual link an operator draws for exactly that gap is the only signal"
\* (deviceComms.ts:164): whatever the monitors make of topology_links, no unforced
\* request takes a port down that has had a manual link since it was made.
ManualUplinkIsSpared ==
    \A q \in Req : At(q, "off") /\ ~Arg(q).force => ~signed[q]

\* What is off was asked to be, is about to come back, or a failure has kept it off.
CutPortsReturn ==
    \A what \in off :
        \/ what \in disabled \cup broken
        \/ \E q \in Req : At(q, "on") /\ Arg(q) = what

\* Once the switch can be reached for good, the table comes to say what it does,
\* whatever the requests have mirrored into it.
TablesFollow == <>[]Reachable => <>[](rows = [p \in Port |-> Row(p)])
=============================================================================
