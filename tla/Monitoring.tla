------------------------------ MODULE Monitoring ------------------------------
(***************************************************************************)
(* The watch over one device: the status poll, the full refresh of each    *)
(* vendor, and the alerts both raise and resolve (monitorService.ts, the   *)
(* monitors, alertService.ts).  Devices share none of this state.          *)
(*                                                                         *)
(* A handler is the list of statements it still has to execute, a step     *)
(* executes the first one; what a handler has read and uses later is in    *)
(* the argument of the statements to come.  An empty list is a handler     *)
(* that is not running.                                                    *)
(*                                                                         *)
(* Alert kinds: "cpu_high" stands for all that evaluateHealth() decides;   *)
(* kinds no property tells apart (those of firmware and of rules), metrics, *)
(* clients and topology are left out, and so are the writes to devices     *)
(* made by automation rules.                                               *)
(***************************************************************************)
EXTENDS Integers, Sequences

CONSTANTS
    Poll,       \* calls of pollStatus() that may be under way at once
    Refresh,    \* calls of refreshDevice() that may be under way at once
    Vendors,    \* the kinds of device: SUBSET {"cisco", "routeros", "aruba"}
    FlapLimit,  \* flaps in an hour that make an alert (5 in the code)
    MaxEvents   \* bound: MaxEvents[v], how often the world intervenes at a device of kind v

ASSUME TaskAssumption == Poll \cap Refresh = {}
ASSUME VendorAssumption == Vendors \subseteq {"cisco", "routeros", "aruba"}
ASSUME BoundAssumption == FlapLimit \in Nat \ {0} /\ MaxEvents \in [Vendors -> Nat]

VARIABLES
    vendor,     \* the kind of this device; never changes
    up, hot, link, version, staged,
                \* the device: it answers; unhealthy; state of its port; software it
                \* runs; an update waits for a reboot
    window,     \* a maintenance window covers the device
    status,     \* devices.status
    row,        \* devices.ios_version
    port,       \* the ports row: oper_status, flap_count_1h, last_flap_at within the hour
    open,       \* open[k]: unresolved rows of kind k in alerts
    fw,         \* device:<id>:fwUpdate in Redis
    todo,       \* todo[t]: the statements left to handler t
    events,     \* how often the world has intervened
    flips,      \* history: how often the port has changed
    excused     \* history: an outage alert was suppressed, failed or closed by hand

device == <<up, hot, link, version, staged>>
tables == <<status, row, port, open, fw>>
vars == <<vendor, device, window, tables, todo, events, flips, excused>>

Task == Poll \cup Refresh
Kind == {"device_offline", "cpu_high", "port_flapping"}

Init ==
    /\ vendor \in Vendors
    /\ up = TRUE /\ hot = FALSE /\ link = "connected" /\ version = 0
    /\ staged \in BOOLEAN /\ (staged => vendor = "routeros")
    /\ window = FALSE
    /\ status \in {"unknown", "online"}
    /\ row = 0
    /\ port = [oper |-> "unknown", flaps |-> 0, recent |-> FALSE]
    /\ open = [k \in Kind |-> 0]
    /\ fw = "none"
    /\ todo = [t \in Task |-> << >>]
    /\ events = 0 /\ flips = 0 /\ excused = FALSE

-----------------------------------------------------------------------------
Do(op, arg) == [op |-> op, arg |-> arg]
NoArg == "-"

At(t, op) == todo[t] # << >> /\ Head(todo[t]).op = op
Arg(t) == Head(todo[t]).arg

\* t goes on with list; with what is left after its statement; with x before that.
Continue(t, list) == todo' = [todo EXCEPT ![t] = list]
Rest(t) == Tail(todo[t])
Then(x, list) == <<x>> \o list

\* raiseAlert(): up to three queries, either of the first two may end it.
RaiseAlert(k) == Do("inMaintenanceWindow", k)
ResolveAlert(k) == Do("resolve", k)

-----------------------------------------------------------------------------
(* alertService.ts *)

InMaintenanceWindow(t) ==
    /\ At(t, "inMaintenanceWindow")
    /\ Continue(t, IF window THEN Rest(t) ELSE Then(Do("existing", Arg(t)), Rest(t)))
    /\ excused' = (excused \/ (window /\ Arg(t) = "device_offline"))
    /\ UNCHANGED <<vendor, device, window, tables, events, flips>>

\* Mutant: open alerts are not looked for.
ExistingIgnored(t) ==
    /\ At(t, "existing")
    /\ Continue(t, Then(Do("insert", Arg(t)), Rest(t)))
    /\ UNCHANGED <<vendor, device, window, tables, events, flips, excused>>

Existing(t) ==
    /\ At(t, "existing")
    /\ Continue(t, IF open[Arg(t)] > 0 THEN Rest(t) ELSE Then(Do("insert", Arg(t)), Rest(t)))
    /\ UNCHANGED <<vendor, device, window, tables, events, flips, excused>>

Insert(t) ==
    /\ At(t, "insert")
    /\ open' = [open EXCEPT ![Arg(t)] = @ + 1]
    /\ Continue(t, Rest(t))
    /\ UNCHANGED <<vendor, device, window, status, row, port, fw, events, flips, excused>>

\* Mutant: one row is resolved whether there is one or not.
ResolveOne(t) ==
    /\ At(t, "resolve")
    /\ open' = [open EXCEPT ![Arg(t)] = @ - 1]
    /\ Continue(t, Rest(t))
    /\ UNCHANGED <<vendor, device, window, status, row, port, fw, events, flips, excused>>

Resolve(t) ==
    /\ At(t, "resolve")
    /\ open' = [open EXCEPT ![Arg(t)] = 0]
    /\ Continue(t, Rest(t))
    /\ UNCHANGED <<vendor, device, window, status, row, port, fw, events, flips, excused>>

-----------------------------------------------------------------------------
(* pollStatus() *)

\* The sweep reads the row, to which the outcome will be compared.
PollStart(p) ==
    /\ todo[p] = << >>
    /\ Continue(p, <<Do("probe", status)>>)
    /\ UNCHANGED <<vendor, device, window, tables, events, flips, excused>>

\* Mutant: the alert is raised only for a device that was online.
OutcomeOnlineOnly(was, now) ==
    IF was = now THEN << >>
    ELSE IF now = "online"
         THEN <<Do("status", [status |-> now]), ResolveAlert("device_offline")>>
    ELSE IF was = "online"
         THEN <<Do("status", [status |-> now]), Do("getFw", NoArg), RaiseAlert("device_offline")>>
    ELSE <<Do("status", [status |-> now])>>

\* Mutant: the outcome is compared to nothing but "online".
OutcomeNeverBack(was, now) ==
    IF was # "online" THEN << >>
    ELSE <<Do("status", [status |-> now]), Do("getFw", NoArg), RaiseAlert("device_offline")>>

\* What the poll does about status now when the row said was.
Outcome(was, now) ==
    IF was = now THEN << >>
    ELSE IF now = "offline"
         THEN <<Do("status", [status |-> now]), Do("getFw", NoArg), RaiseAlert("device_offline")>>
    ELSE <<Do("status", [status |-> now]), ResolveAlert("device_offline")>>

\* SNMP, then SSH.
Probe(p) ==
    /\ At(p, "probe")
    /\ Continue(p, Outcome(Arg(p), IF up THEN "online" ELSE "offline"))
    /\ UNCHANGED <<vendor, device, window, tables, events, flips, excused>>

\* UPDATE devices SET status; a refresh sets ios_version as well.
SetStatus(t) ==
    /\ At(t, "status")
    /\ status' = Arg(t).status
    /\ row' = IF t \in Refresh THEN Arg(t).version ELSE row
    /\ excused' = (excused /\ status' # "online")
    /\ Continue(t, Rest(t))
    /\ UNCHANGED <<vendor, device, window, port, open, fw, events, flips>>

\* A staged update and a device that is gone: it is installing.
GetFwUpdate(p) ==
    /\ At(p, "getFw")
    /\ Continue(p, IF fw = "downloaded" THEN Then(Do("setFw", "installing"), Rest(p)) ELSE Rest(p))
    /\ UNCHANGED <<vendor, device, window, tables, events, flips, excused>>

SetFwUpdate(t) ==
    /\ At(t, "setFw")
    /\ fw' = Arg(t)
    /\ Continue(t, Rest(t))
    /\ UNCHANGED <<vendor, device, window, status, row, port, open, events, flips, excused>>

-----------------------------------------------------------------------------
(* refreshDevice() *)

\* The metrics sweep leaves devices alone whose row says offline; a user's request does
\* not ask.  The row is read before the session is had.
RefreshStart(r, sweep) ==
    /\ todo[r] = << >>
    /\ sweep => status # "offline"
    /\ Continue(r, <<Do("session", row)>>)
    /\ UNCHANGED <<vendor, device, window, tables, events, flips, excused>>

\* Mutant: nobody waits for the session.
SessionFreeAlways(r) == TRUE

\* withDeviceSession(); Aruba devices are read over SNMP without one.
SessionFree(r) ==
    vendor = "aruba" \/ \A s \in Refresh \ {r} : todo[s] = << >> \/ At(s, "session")

\* UPDATE devices SET ..., status='online'
Online == Do("status", [status |-> "online", version |-> version])
\* Mutant: the alert of another kind is resolved.
HealthOneWay == IF hot THEN RaiseAlert("cpu_high") ELSE ResolveAlert("port_flapping")

Health == IF hot THEN RaiseAlert("cpu_high") ELSE ResolveAlert("cpu_high")

RefreshCiscoDevice == <<Online, Health, Do("interfaces", NoArg)>>

RefreshRouterOsDevice(was) ==
    <<Online, Do("package", version # was), Health, Do("interfaces", NoArg)>>

RefreshArubaDevice == <<Online, Do("interfaces", NoArg), ResolveAlert("device_offline")>>

\* The first exchanges: identity and health; a device that does not answer ends it.
Session(r) ==
    /\ At(r, "session")
    /\ SessionFree(r)
    /\ Continue(r,
         CASE ~up -> << >>
           [] up /\ vendor = "cisco" -> RefreshCiscoDevice
           [] up /\ vendor = "routeros" -> RefreshRouterOsDevice(Arg(r))
           [] up /\ vendor = "aruba" -> RefreshArubaDevice)
    /\ UNCHANGED <<vendor, device, window, tables, events, flips, excused>>

\* `/system package update print`; without an answer the bootloader version read before
\* may still tell.
ReadPackage(r) ==
    /\ At(r, "package")
    /\ \E s \in IF up THEN {staged} ELSE {FALSE, staged} :
         Continue(r, Then(Do("reconcile", [changed |-> Arg(r), staged |-> s]), Rest(r)))
    /\ UNCHANGED <<vendor, device, window, tables, events, flips, excused>>

\* Mutant: a staged update is not noticed.
ReconcileCleared(changed, isStaged, cur) == IF cur = "none" THEN "keep" ELSE "none"

\* What is written for the flag cur; "keep": nothing is.
Reconciled(changed, isStaged, cur) ==
    IF changed \/ cur = "installing" THEN "none"
    ELSE IF isStaged THEN "downloaded"
    ELSE IF cur # "none" THEN "none"
    ELSE "keep"

Reconcile(r) ==
    /\ At(r, "reconcile")
    /\ LET new == Reconciled(Arg(r).changed, Arg(r).staged, fw)
       IN  Continue(r, IF new = "keep" THEN Rest(r) ELSE Then(Do("setFw", new), Rest(r)))
    /\ UNCHANGED <<vendor, device, window, tables, events, flips, excused>>

\* The port's state is read; RouterOS ports are written without flap detection.
ReadInterfaces(r) ==
    /\ At(r, "interfaces")
    /\ LET next == IF vendor = "routeros" THEN "upsert" ELSE "prevPorts"
       IN  Continue(r, IF up THEN Then(Do(next, [oper |-> link]), Rest(r)) ELSE << >>)
    /\ UNCHANGED <<vendor, device, window, tables, events, flips, excused>>

\* The counter restarts when the last flap is over an hour old.  recent is FALSE as well
\* when there has been no flap, where the counter is 0.
DecidePortFlap(prev, oper) ==
    LET before == IF prev.recent THEN prev.flaps ELSE 0
    IN  IF prev.oper \notin {"unknown", oper}
        THEN [oper |-> oper, flaps |-> before + 1, recent |-> TRUE]
        ELSE [oper |-> oper, flaps |-> before, recent |-> prev.recent]

\* The previous row is read, the new one computed.
PrevPorts(r) ==
    /\ At(r, "prevPorts")
    /\ LET new == DecidePortFlap(port, Arg(r).oper)
           after == IF new.flaps >= FlapLimit THEN Then(RaiseAlert("port_flapping"), Rest(r))
                    ELSE Rest(r)
       IN  Continue(r, Then(Do("upsert", new), after))
    /\ UNCHANGED <<vendor, device, window, tables, events, flips, excused>>

\* INSERT INTO ports ... ON CONFLICT DO UPDATE.
UpsertPorts(r) ==
    /\ At(r, "upsert")
    /\ port' = IF vendor = "routeros" THEN [port EXCEPT !.oper = Arg(r).oper] ELSE Arg(r)
    /\ Continue(r, Rest(r))
    /\ UNCHANGED <<vendor, device, window, status, row, open, fw, events, flips, excused>>

-----------------------------------------------------------------------------
(* Users, and the world. *)

Event == events < MaxEvents[vendor] /\ events' = events + 1

\* A query fails, a session breaks or the replica stops: the rest is not done.
Fails(t) ==
    /\ Event
    /\ todo[t] # << >>
    /\ excused' = (excused \/ (t \in Poll /\ ~At(t, "probe") /\ ~At(t, "status")))
    /\ Continue(t, << >>)
    /\ UNCHANGED <<vendor, device, window, tables, flips>>

\* POST /api/alerts/:id/resolve
ResolveByHand(k) ==
    /\ Event
    /\ open[k] > 0
    /\ open' = [open EXCEPT ![k] = @ - 1]
    /\ excused' = (excused \/ k = "device_offline")
    /\ UNCHANGED <<vendor, device, window, status, row, port, fw, todo, flips>>

\* A window begins, ends or is deleted.
MaintenanceWindow ==
    /\ Event
    /\ window' = ~window
    /\ UNCHANGED <<vendor, device, tables, todo, flips, excused>>

\* The package download, which may not have left anything on the device.
DownloadRouterosPackage ==
    /\ Event
    /\ vendor = "routeros" /\ up
    /\ staged' \in {staged, TRUE}
    /\ fw' = "downloaded"
    /\ UNCHANGED <<vendor, up, hot, link, version, window, status, row, port, open, todo,
                   flips, excused>>

\* The flag is set before the device is told; that it goes down is a step of its own.
RebootRouterosDevice ==
    /\ Event
    /\ vendor = "routeros"
    /\ fw' = "installing"
    /\ UNCHANGED <<vendor, device, window, status, row, port, open, todo, flips, excused>>

FwUpdateExpires ==
    /\ Event
    /\ fw # "none"
    /\ fw' = "none"
    /\ UNCHANGED <<vendor, device, window, status, row, port, open, todo, flips, excused>>

\* The device is cut off or goes down, in which case it installs what was staged.
GoesDown ==
    /\ Event
    /\ up
    /\ up' = FALSE
    /\ \/ UNCHANGED <<version, staged>>
       \/ staged /\ staged' = FALSE /\ version' = version + 1
    /\ UNCHANGED <<vendor, hot, link, window, tables, todo, flips, excused>>

ComesBack ==
    /\ Event
    /\ ~up
    /\ up' = TRUE
    /\ UNCHANGED <<vendor, hot, link, version, staged, window, tables, todo, flips, excused>>

HealthChanges ==
    /\ Event
    /\ hot' = ~hot
    /\ UNCHANGED <<vendor, up, link, version, staged, window, tables, todo, flips, excused>>

PortChanges ==
    /\ Event
    /\ link' = IF link = "connected" THEN "notconnect" ELSE "connected"
    /\ flips' = flips + 1
    /\ UNCHANGED <<vendor, up, hot, version, staged, window, tables, todo, excused>>

HourPasses ==
    /\ port.recent
    /\ port' = [port EXCEPT !.recent = FALSE]
    /\ UNCHANGED <<vendor, device, window, status, row, open, fw, todo, events, flips, excused>>

-----------------------------------------------------------------------------
Raise(t) == InMaintenanceWindow(t) \/ Existing(t) \/ Insert(t)

PollStep(p) ==
    Probe(p) \/ SetStatus(p) \/ GetFwUpdate(p) \/ SetFwUpdate(p) \/ Raise(p) \/ Resolve(p)

RefreshStep(r) ==
    \/ Session(r) \/ SetStatus(r) \/ ReadPackage(r) \/ Reconcile(r) \/ SetFwUpdate(r)
    \/ ReadInterfaces(r) \/ PrevPorts(r) \/ UpsertPorts(r) \/ Raise(r) \/ Resolve(r)

World ==
    \/ \E t \in Task : Fails(t)
    \/ \E k \in Kind : ResolveByHand(k)
    \/ MaintenanceWindow \/ DownloadRouterosPackage \/ RebootRouterosDevice
    \/ FwUpdateExpires \/ GoesDown \/ ComesBack \/ HealthChanges \/ PortChanges
    \/ HourPasses

Polling == \E p \in Poll : PollStart(p) \/ PollStep(p)
Refreshing == \E r \in Refresh : RefreshStart(r, TRUE) \/ RefreshStep(r)

Next == Polling \/ Refreshing \/ (\E r \in Refresh : RefreshStart(r, FALSE)) \/ World

Spec == Init /\ [][Next]_vars

\* The leader's interval timers go on, and queries and exchanges end.  Requests of users
\* and the world are not fair.
FairSpec == Spec /\ WF_vars(Polling) /\ WF_vars(Refreshing)

-----------------------------------------------------------------------------
TypeOK ==
    /\ up \in BOOLEAN /\ hot \in BOOLEAN /\ staged \in BOOLEAN /\ window \in BOOLEAN
    /\ link \in {"connected", "notconnect"}
    /\ version \in Nat /\ row \in Nat
    /\ status \in {"unknown", "online", "offline"}
    /\ port.oper \in {"unknown", "connected", "notconnect"} /\ port.flaps \in Nat
    /\ open \in [Kind -> Nat]
    /\ fw \in {"none", "downloaded", "installing"}

\* "Deduplicates open alerts of the same kind on the same device": raiseAlert() checks
\* before it inserts, and nothing but the session lock keeps two refreshes from doing so
\* at once.  Aruba refreshes have no session and may insert two.
OneOpenAlert == vendor # "aruba" => \A k \in Kind : open[k] <= 1

\* When no poll is between its statements, a device shown as offline has an open
\* device_offline alert, unless a window suppressed it, a failure lost it or a user
\* closed it.  Of an Aruba device, a refresh under way may resolve the alert of an outage
\* that began meanwhile.
OfflineIsAlerted ==
    /\ vendor # "aruba"
    /\ status = "offline"
    /\ ~excused
    /\ \A p \in Poll : todo[p] = << >> \/ At(p, "probe")
    => open["device_offline"] > 0

\* flap_count_1h never exceeds the changes the port has really made, although it is read,
\* computed and written back in separate statements: no false port_flapping alert.
FlapsAreReal == vendor # "aruba" => port.flaps <= flips

\* The type invariant, and that no flap is counted which the port did not make.
PortsAreReal == TypeOK /\ FlapsAreReal

\* Whatever was lost or overtaken before: a device that stays up or stays down is shown
\* as such in the end, and remains so.
StatusFollows ==
    /\ <>[]up => <>[](status = "online")
    /\ <>[](~up) => <>[](status = "offline")

\* A health alert that a window, a failure or a user took away comes back, and one that
\* is over is resolved.
HealthAlertFollows ==
    <>[](up /\ ~window /\ vendor # "aruba") => <>[]((open["cpu_high"] > 0) = hot)

\* The firmware flag comes to agree with the device, whoever staged, installed or called
\* off an update: no RouterOS device is shown as updating for good.
FwFlagFollows ==
    <>[](up /\ vendor = "routeros") => <>[](fw = IF staged THEN "downloaded" ELSE "none")

\* "flips devices online/offline and raises/auto-resolves device_offline": once a device
\* stays up its outage alert is resolved.
OutageAlertResolves == <>[]up => <>[](open["device_offline"] = 0)
=============================================================================
