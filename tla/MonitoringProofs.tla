--------------------------- MODULE MonitoringProofs ---------------------------
(***************************************************************************)
(* Theorems about Monitoring, for any number of refreshes at once, any flap *)
(* limit and any bounds: types and flap counts for any number of polls,     *)
(* the alerts for one poll at a time.                                       *)
(***************************************************************************)
EXTENDS Monitoring, SequenceTheorems, TLAPS

USE TaskAssumption, VendorAssumption, BoundAssumption

-----------------------------------------------------------------------------
(* What a handler may have left to do. *)

Status == {"unknown", "online", "offline"}
Link == {"connected", "notconnect"}
Flag == {"none", "downloaded", "installing"}
PortRow == [oper : {"unknown", "connected", "notconnect"}, flaps : Nat, recent : BOOLEAN]
RefreshKind == {"cpu_high", "port_flapping"}

Outage == "device_offline"

\* What a poll is about to do, and what it has left after that.
PollList(l) ==
    LET x == Head(l)
    IN  \/ l = << >>
        \/ x.op = "probe" /\ x.arg \in Status /\ Tail(l) = << >>
        \/ /\ x.op = "status" /\ x.arg = [status |-> "offline"]
           /\ Tail(l) = <<Do("getFw", NoArg), RaiseAlert(Outage)>>
        \/ x.op = "status" /\ x.arg = [status |-> "online"] /\ Tail(l) = <<ResolveAlert(Outage)>>
        \/ x.op = "getFw" /\ Tail(l) = <<RaiseAlert(Outage)>>
        \/ x.op = "setFw" /\ x.arg = "installing" /\ Tail(l) = <<RaiseAlert(Outage)>>
        \/ /\ x.op \in {"inMaintenanceWindow", "existing", "insert", "resolve"}
           /\ x.arg = Outage /\ Tail(l) = << >>

\* The statements a refresh may have left after its next one ...
Planned ==
    [op : {"package"}, arg : BOOLEAN]
    \cup [op : {"interfaces"}, arg : {NoArg}]
    \cup [op : {"inMaintenanceWindow"}, arg : RefreshKind]
    \cup [op : {"resolve"}, arg : IF vendor = "aruba" THEN Kind ELSE RefreshKind]

\* ... and those it may come to.
Statement ==
    Planned
    \cup [op : {"session"}, arg : Nat]
    \cup [op : {"status"}, arg : [status : {"online"}, version : Nat]]
    \cup [op : {"reconcile"}, arg : [changed : BOOLEAN, staged : BOOLEAN]]
    \cup [op : {"setFw"}, arg : Flag]
    \cup [op : IF vendor = "routeros" THEN {} ELSE {"prevPorts"}, arg : [oper : Link]]
    \cup [op : {"upsert"}, arg : IF vendor = "routeros" THEN [oper : Link] ELSE PortRow]
    \cup [op : {"existing", "insert"}, arg : RefreshKind]

RefreshList(l) == l = << >> \/ (Head(l) \in Statement /\ Tail(l) \in Seq(Planned))

ListsOK ==
    /\ todo = [t \in Task |-> todo[t]]
    /\ \A p \in Poll : PollList(todo[p])
    /\ \A r \in Refresh : RefreshList(todo[r])

RowsOK == TypeOK /\ vendor \in {"cisco", "routeros", "aruba"} /\ port \in PortRow

TypeInv == RowsOK /\ ListsOK

-----------------------------------------------------------------------------
OnePoll == \A p, q \in Poll : p = q

\* A refresh that has not got the session, or does not run.
Idle(r) == todo[r] = << >> \/ At(r, "session")

SessionInv == vendor # "aruba" => \A r, s \in Refresh : r = s \/ Idle(r) \/ Idle(s)

\* Nobody else has raised what a handler is about to raise.
AlertInv ==
    vendor # "aruba" =>
        /\ \A k \in Kind : open[k] <= 1
        /\ \A t \in Task : At(t, "insert") => open[Arg(t)] = 0

\* A poll is between saying that the device is offline and raising the alert.
Alerting(p) ==
    \E op \in {"getFw", "setFw", "inMaintenanceWindow", "existing", "insert"} : At(p, op)

OfflineInv ==
    vendor # "aruba" =>
        /\ status = "offline" /\ ~excused =>
              open["device_offline"] > 0 \/ \E p \in Poll : Alerting(p)
        /\ \A p \in Poll : At(p, "resolve") => status # "offline"

\* A row that says a counts a change when b is written over it.
Changes(a, b) == IF a \notin {"unknown", b} THEN 1 ELSE 0

\* The flaps counted so far and those still to be counted are changes of the port.
FlapInv ==
    /\ flips \in Nat
    /\ vendor = "routeros" => port.flaps = 0
    /\ vendor = "cisco" =>
          /\ port.flaps + Changes(port.oper, link) <= flips
          /\ \A r \in Refresh :
                /\ At(r, "prevPorts") =>
                      port.flaps + Changes(port.oper, Arg(r).oper)
                        + Changes(Arg(r).oper, link) <= flips
                /\ At(r, "upsert") => Arg(r).flaps + Changes(Arg(r).oper, link) <= flips

-----------------------------------------------------------------------------
(* Lists. *)

\* A list that begins with x and goes on with s.
LEMMA Cons ==
    ASSUME NEW S, NEW x \in S, NEW s \in Seq(S)
    PROVE  /\ <<x>> \o s \in Seq(S) /\ <<x>> \o s # << >>
           /\ Head(<<x>> \o s) = x /\ Tail(<<x>> \o s) = s
  <1>0. <<x>> \in Seq(S) /\ Len(<<x>>) = 1 /\ <<x>>[1] = x
    OBVIOUS
  <1>1. /\ <<x>> \o s \in Seq(S)
        /\ Len(<<x>> \o s) = 1 + Len(s)
        /\ \A i \in 1 .. 1 + Len(s) : (<<x>> \o s)[i] = IF i <= 1 THEN x ELSE s[i - 1]
    BY <1>0, ConcatProperties
  <1>2. <<x>> \o s # << >> /\ Len(s) \in Nat
    BY <1>1, EmptySeq, LenProperties
  <1>3. Head(<<x>> \o s) = x
    BY <1>1, <1>2
  <1>4. Tail(<<x>> \o s) = s
    <2>1. /\ Tail(<<x>> \o s) \in Seq(S)
          /\ Len(Tail(<<x>> \o s)) = Len(s)
          /\ \A i \in 1 .. Len(s) : Tail(<<x>> \o s)[i] = (<<x>> \o s)[i + 1]
      BY <1>1, <1>2, HeadTailProperties
    <2>2. \A i \in 1 .. Len(s) : Tail(<<x>> \o s)[i] = s[i]
      BY <1>1, <1>2, <2>1
    <2> QED BY <2>1, <2>2, SeqEqual
  <1> QED BY <1>1, <1>2, <1>3, <1>4

LEMMA ThenPlanned ==
    ASSUME NEW x \in Planned, NEW s \in Seq(Planned)
    PROVE  Then(x, s) \in Seq(Planned)
  BY Cons DEF Then

LEMMA ThenBegins ==
    ASSUME NEW x, NEW R, NEW s \in Seq(R)
    PROVE  Then(x, s) # << >> /\ Head(Then(x, s)) = x /\ Tail(Then(x, s)) = s
  <1> DEFINE S == R \cup {x}
  <1>1. x \in S /\ s \in Seq(S)
    BY SeqDef
  <1> HIDE DEF S
  <1> QED BY <1>1, Cons DEF Then

LEMMA PlannedBegins ==
    ASSUME NEW s \in Seq(Planned)
    PROVE  /\ s # << >> =>
                /\ Head(s) \in Planned /\ Head(s) \in Statement
                /\ Head(s).op \in {"package", "interfaces", "inMaintenanceWindow", "resolve"}
                /\ Tail(s) \in Seq(Planned)
           /\ RefreshList(s)
  <1>1. s # << >> => Head(s) \in Planned /\ Tail(s) \in Seq(Planned)
    BY HeadTailProperties
  <1>2. \A x \in Planned : x.op \in {"package", "interfaces", "inMaintenanceWindow", "resolve"}
    BY DEF Planned
  <1> QED BY <1>1, <1>2 DEF Statement, RefreshList

LEMMA ThenStatement ==
    ASSUME NEW x \in Statement, NEW s \in Seq(Planned)
    PROVE  RefreshList(Then(x, s))
  BY ThenBegins DEF RefreshList

\* The lists a poll goes on with.
LEMMA PollLists ==
    /\ PollList(<< >>)
    /\ \A s \in Status : PollList(<<Do("probe", s)>>)
    /\ PollList(<<Do("status", [status |-> "offline"]), Do("getFw", NoArg), RaiseAlert(Outage)>>)
    /\ PollList(<<Do("status", [status |-> "online"]), ResolveAlert(Outage)>>)
    /\ PollList(<<Do("getFw", NoArg), RaiseAlert(Outage)>>)
    /\ PollList(Then(Do("setFw", "installing"), <<RaiseAlert(Outage)>>))
    /\ PollList(<<RaiseAlert(Outage)>>)
    /\ PollList(Then(Do("existing", Outage), << >>))
    /\ PollList(Then(Do("insert", Outage), << >>))
    /\ PollList(<<ResolveAlert(Outage)>>)
  <1>1. << >> \in Seq({}) /\ <<RaiseAlert(Outage)>> \in Seq({RaiseAlert(Outage)})
    OBVIOUS
  <1>2. \A x : Then(x, << >>) # << >> /\ Head(Then(x, << >>)) = x /\ Tail(Then(x, << >>)) = << >>
    BY <1>1, ThenBegins
  <1>3. \A x : LET s == <<RaiseAlert(Outage)>>
               IN  Then(x, s) # << >> /\ Head(Then(x, s)) = x /\ Tail(Then(x, s)) = s
    BY <1>1, ThenBegins
  <1>4. \A op, arg : Do(op, arg).op = op /\ Do(op, arg).arg = arg
    BY DEF Do
  <1>5. PollList(Then(Do("setFw", "installing"), <<RaiseAlert(Outage)>>))
    BY <1>3, <1>4 DEF PollList
  <1>6. /\ PollList(Then(Do("existing", Outage), << >>))
        /\ PollList(Then(Do("insert", Outage), << >>))
    BY <1>2, <1>4 DEF PollList
  <1>7. PollList(<< >>)
    BY DEF PollList
  <1>8. ASSUME NEW s \in Status PROVE PollList(<<Do("probe", s)>>)
    BY DEF PollList, Do
  <1>9. PollList(<<Do("status", [status |-> "offline"]), Do("getFw", NoArg), RaiseAlert(Outage)>>)
    BY <1>4 DEF PollList
  <1>10. PollList(<<Do("status", [status |-> "online"]), ResolveAlert(Outage)>>)
    BY <1>4 DEF PollList
  <1>11. PollList(<<Do("getFw", NoArg), RaiseAlert(Outage)>>)
    BY <1>4 DEF PollList
  <1>12. PollList(<<RaiseAlert(Outage)>>) /\ PollList(<<ResolveAlert(Outage)>>)
    BY <1>4 DEF PollList, RaiseAlert, ResolveAlert
  <1> QED BY <1>5, <1>6, <1>7, <1>8, <1>9, <1>10, <1>11, <1>12

\* What a refresh does next has arguments of their types.
LEMMA RefreshBegins ==
    ASSUME NEW x \in Statement
    PROVE  /\ x.op = "session" => x.arg \in Nat
           /\ x.op = "status" => x.arg.status = "online" /\ x.arg.version \in Nat
           /\ x.op = "package" => x.arg \in BOOLEAN
           /\ x.op = "reconcile" => x.arg.changed \in BOOLEAN /\ x.arg.staged \in BOOLEAN
           /\ x.op = "setFw" => x.arg \in Flag
           /\ x.op = "prevPorts" => x.arg.oper \in Link /\ vendor # "routeros"
           /\ x.op = "upsert" => /\ vendor = "routeros" => x.arg.oper \in Link
                                 /\ vendor # "routeros" => x.arg \in PortRow
           /\ x.op \in {"inMaintenanceWindow", "existing", "insert"} => x.arg \in RefreshKind
           /\ x.op = "resolve" => x.arg \in Kind /\ (vendor # "aruba" => x.arg \in RefreshKind)
           /\ x.op \notin {"probe", "getFw"}
  BY DEF Statement, Planned, RefreshKind, Kind

LEMMA ListsStep ==
    ASSUME ListsOK, vendor' = vendor, NEW t \in Task, NEW l, Continue(t, l),
           t \in Poll => PollList(l),
           t \in Refresh => RefreshList(l)
    PROVE  ListsOK' /\ todo'[t] = l /\ \A u \in Task : u # t => todo'[u] = todo[u]
  <1>1. /\ todo'[t] = l /\ \A u \in Task : u # t => todo'[u] = todo[u]
        /\ todo' = [u \in Task |-> todo'[u]]
    BY DEF ListsOK, Continue
  <1>2. \A r \in Refresh : RefreshList(todo'[r])
    BY <1>1 DEF ListsOK, Task
  <1>3. \A r \in Refresh : RefreshList(todo[r])'
    BY <1>2 DEF RefreshList, Statement, Planned
  <1> QED BY <1>1, <1>3 DEF ListsOK, Task

Others(t) == \A u \in Task : u # t => todo'[u] = todo[u]

\* A handler with x to do next.
Next1(t, x) == todo'[t] # << >> /\ Head(todo'[t]) = x

\* A handler that is through, or comes to a statement that was planned.
Next0(t) ==
    todo'[t] = << >>
    \/ Head(todo'[t]).op \in {"package", "interfaces", "inMaintenanceWindow", "resolve", "getFw"}

LEMMA RestStep ==
    ASSUME ListsOK, vendor' = vendor, NEW t \in Task, todo[t] # << >>, Continue(t, Rest(t))
    PROVE  ListsOK' /\ Others(t) /\ Next0(t) /\ todo'[t] = Tail(todo[t])
  <1> DEFINE l == todo[t]
  <1>1. CASE t \in Poll
    <2>1. PollList(l) /\ l # << >>
      BY <1>1 DEF ListsOK
    <2>2. Tail(l) \in {<< >>, <<RaiseAlert(Outage)>>, <<ResolveAlert(Outage)>>,
                       <<Do("getFw", NoArg), RaiseAlert(Outage)>>}
      BY <2>1 DEF PollList
    <2>3. PollList(Tail(l))
      BY <2>2, PollLists
    <2>4. ListsOK' /\ Others(t) /\ todo'[t] = Tail(l)
      BY <1>1, <2>3, ListsStep DEF Others, Rest
    <2>5. /\ Head(<<RaiseAlert(Outage)>>).op = "inMaintenanceWindow"
          /\ Head(<<ResolveAlert(Outage)>>).op = "resolve"
          /\ Head(<<Do("getFw", NoArg), RaiseAlert(Outage)>>).op = "getFw"
      BY DEF Do, RaiseAlert, ResolveAlert
    <2>6. Tail(l) = << >> \/ Head(Tail(l)).op \in {"inMaintenanceWindow", "resolve", "getFw"}
      BY <2>2, <2>5
    <2> QED BY <2>4, <2>6 DEF Next0
  <1>2. CASE t \in Refresh
    <2>1. Tail(l) \in Seq(Planned)
      BY <1>2 DEF ListsOK, RefreshList
    <2>2. RefreshList(Tail(l))
      BY <2>1, PlannedBegins
    <2>3. ListsOK' /\ Others(t) /\ todo'[t] = Tail(l)
      BY <1>2, <2>2, ListsStep DEF Others, Rest
    <2> QED BY <2>1, <2>3, PlannedBegins DEF Next0
  <1> QED BY <1>1, <1>2 DEF Task

LEMMA ThenStep ==
    ASSUME ListsOK, vendor' = vendor, NEW r \in Refresh, todo[r] # << >>,
           NEW x \in Statement, Continue(r, Then(x, Rest(r)))
    PROVE  ListsOK' /\ Others(r) /\ Next1(r, x) /\ Tail(todo'[r]) = Tail(todo[r])
  <1>1. Rest(r) \in Seq(Planned)
    BY DEF ListsOK, RefreshList, Rest
  <1>2. RefreshList(Then(x, Rest(r)))
    BY <1>1, ThenStatement
  <1>3. ListsOK' /\ Others(r) /\ todo'[r] = Then(x, Rest(r))
    BY <1>2, ListsStep DEF Others, Task
  <1> QED BY <1>1, <1>3, ThenBegins DEF Next1, Rest

\* What a poll, and what a refresh is about to do.
LEMMA PollAt ==
    ASSUME ListsOK, NEW p \in Poll
    PROVE  /\ At(p, "probe") => Arg(p) \in Status /\ Tail(todo[p]) = << >>
           /\ At(p, "status") =>
                \/ /\ Arg(p).status = "offline"
                   /\ Tail(todo[p]) = <<Do("getFw", NoArg), RaiseAlert(Outage)>>
                \/ Arg(p).status = "online" /\ Tail(todo[p]) = <<ResolveAlert(Outage)>>
           /\ At(p, "getFw") => Tail(todo[p]) = <<RaiseAlert(Outage)>>
           /\ At(p, "setFw") => Arg(p) = "installing" /\ Tail(todo[p]) = <<RaiseAlert(Outage)>>
           /\ \A op \in {"inMaintenanceWindow", "existing", "insert", "resolve"} :
                At(p, op) => Arg(p) = Outage /\ Tail(todo[p]) = << >>
           /\ \A op : At(p, op) => op \in {"probe", "status", "getFw", "setFw",
                                           "inMaintenanceWindow", "existing", "insert", "resolve"}
  <1>1. PollList(todo[p])
    BY DEF ListsOK
  <1> QED BY <1>1 DEF PollList, At, Arg

LEMMA RefreshAt ==
    ASSUME ListsOK, NEW r \in Refresh
    PROVE  /\ At(r, "session") => Arg(r) \in Nat
           /\ At(r, "status") => Arg(r).status = "online" /\ Arg(r).version \in Nat
           /\ At(r, "package") => Arg(r) \in BOOLEAN
           /\ At(r, "reconcile") => Arg(r).changed \in BOOLEAN /\ Arg(r).staged \in BOOLEAN
           /\ At(r, "setFw") => Arg(r) \in Flag
           /\ At(r, "prevPorts") => Arg(r).oper \in Link /\ vendor # "routeros"
           /\ At(r, "upsert") => /\ vendor = "routeros" => Arg(r).oper \in Link
                                 /\ vendor # "routeros" => Arg(r) \in PortRow
           /\ \A op \in {"inMaintenanceWindow", "existing", "insert"} :
                At(r, op) => Arg(r) \in RefreshKind
           /\ At(r, "resolve") => Arg(r) \in Kind /\ (vendor # "aruba" => Arg(r) \in RefreshKind)
           /\ \A op : At(r, op) => op \notin {"probe", "getFw"}
  <1>1. CASE todo[r] = << >>
    BY <1>1 DEF At
  <1>2. CASE todo[r] # << >>
    <2>1. Head(todo[r]) \in Statement
      BY <1>2 DEF ListsOK, RefreshList
    <2> QED BY <1>2, <2>1, RefreshBegins DEF At, Arg
  <1> QED BY <1>1, <1>2

LEMMA AlertStatements ==
    \A k \in RefreshKind : /\ Do("existing", k) \in Statement /\ Do("insert", k) \in Statement
                           /\ RaiseAlert(k) \in Planned /\ ResolveAlert(k) \in Planned
  BY DEF Statement, Planned, Do, RaiseAlert, ResolveAlert, RefreshKind, Kind

-----------------------------------------------------------------------------
(* Types. *)

LEMMA SameRows ==
    ASSUME RowsOK, UNCHANGED <<vendor, device, window, tables>>
    PROVE  RowsOK'
  BY DEF RowsOK, TypeOK, device, tables

LEMMA SameLists ==
    ASSUME ListsOK, vendor' = vendor, todo' = todo
    PROVE  ListsOK'
  <1>1. ASSUME NEW r \in Refresh PROVE RefreshList(todo[r])'
    <2>1. RefreshList(todo[r])
      BY DEF ListsOK
    <2> QED BY <2>1 DEF RefreshList, Statement, Planned
  <1> QED BY <1>1 DEF ListsOK

LEMMA RaiseTypes ==
    ASSUME TypeInv, NEW t \in Task, Raise(t) \/ Resolve(t)
    PROVE  TypeInv'
  <1> USE DEF TypeInv
  <1>0. /\ \A op \in {"inMaintenanceWindow", "existing", "insert", "resolve"} :
               At(t, op) => Arg(t) \in Kind /\ todo[t] # << >>
        /\ \A op \in {"inMaintenanceWindow", "existing", "insert"} :
               /\ At(t, op) /\ t \in Poll => Arg(t) = Outage /\ Rest(t) = << >>
               /\ At(t, op) /\ t \in Refresh => Arg(t) \in RefreshKind
    BY PollAt, RefreshAt DEF Task, Kind, RefreshKind, Outage, At, Rest
  <1>1. CASE InMaintenanceWindow(t)
    <2>0. vendor' = vendor /\ At(t, "inMaintenanceWindow")
      BY <1>1 DEF InMaintenanceWindow
    <2>1. CASE window
      BY <1>0, <1>1, <2>0, <2>1, RestStep, SameRows DEF InMaintenanceWindow
    <2>2. CASE ~window /\ t \in Poll
      <3>1. Continue(t, Then(Do("existing", Outage), << >>))
        BY <1>0, <1>1, <2>0, <2>2 DEF InMaintenanceWindow
      <3>2. ListsOK'
        BY <2>0, <2>2, <3>1, PollLists, ListsStep, TaskAssumption
      <3> QED BY <1>1, <3>2, SameRows DEF InMaintenanceWindow
    <2>3. CASE ~window /\ t \in Refresh
      <3>1. ListsOK'
        BY <1>0, <1>1, <2>0, <2>3, AlertStatements, ThenStep DEF InMaintenanceWindow
      <3> QED BY <1>1, <3>1, SameRows DEF InMaintenanceWindow
    <2> QED BY <2>1, <2>2, <2>3 DEF Task
  <1>2. CASE Existing(t)
    <2>0. vendor' = vendor /\ At(t, "existing")
      BY <1>2 DEF Existing
    <2>1. CASE open[Arg(t)] > 0
      BY <1>0, <1>2, <2>0, <2>1, RestStep, SameRows DEF Existing
    <2>2. CASE ~(open[Arg(t)] > 0) /\ t \in Poll
      <3>1. Continue(t, Then(Do("insert", Outage), << >>))
        BY <1>0, <1>2, <2>0, <2>2 DEF Existing
      <3>2. ListsOK'
        BY <2>0, <2>2, <3>1, PollLists, ListsStep, TaskAssumption
      <3> QED BY <1>2, <3>2, SameRows DEF Existing
    <2>3. CASE ~(open[Arg(t)] > 0) /\ t \in Refresh
      <3>1. ListsOK'
        BY <1>0, <1>2, <2>0, <2>3, AlertStatements, ThenStep DEF Existing
      <3> QED BY <1>2, <3>1, SameRows DEF Existing
    <2> QED BY <2>1, <2>2, <2>3 DEF Task
  <1>3. CASE Insert(t)
    <2>1. ListsOK'
      BY <1>0, <1>3, RestStep DEF Insert
    <2> QED BY <1>0, <1>3, <2>1 DEF Insert, RowsOK, TypeOK, device
  <1>4. CASE Resolve(t)
    <2>1. ListsOK'
      BY <1>0, <1>4, RestStep DEF Resolve
    <2> QED BY <1>0, <1>4, <2>1 DEF Resolve, RowsOK, TypeOK, device
  <1> QED BY <1>1, <1>2, <1>3, <1>4 DEF Raise

LEMMA PollTypes ==
    ASSUME TypeInv, NEW p \in Poll, PollStart(p) \/ Probe(p) \/ GetFwUpdate(p)
    PROVE  TypeInv'
  <1> USE DEF TypeInv
  <1>0. p \in Task /\ p \notin Refresh
    BY DEF Task
  <1>1. CASE PollStart(p)
    <2>0. status \in Status
      BY DEF RowsOK, TypeOK, Status
    <2>1. ListsOK'
      BY <1>0, <1>1, <2>0, PollLists, ListsStep DEF PollStart
    <2> QED BY <1>1, <2>1, SameRows DEF PollStart
  <1>2. CASE Probe(p)
    <2>1. \A was, now : now \in {"online", "offline"} => PollList(Outcome(was, now))
      BY PollLists DEF Outcome, Outage
    <2>2. ListsOK'
      BY <1>0, <1>2, <2>1, ListsStep DEF Probe
    <2> QED BY <1>2, <2>2, SameRows DEF Probe
  <1>3. CASE GetFwUpdate(p)
    <2>1. Rest(p) = <<RaiseAlert(Outage)>>
      BY <1>3, PollAt DEF GetFwUpdate, Rest
    <2>2. PollList(Rest(p)) /\ PollList(Then(Do("setFw", "installing"), Rest(p)))
      BY <2>1, PollLists
    <2>3. ListsOK'
      BY <1>0, <1>3, <2>2, ListsStep DEF GetFwUpdate
    <2> QED BY <1>3, <2>3, SameRows DEF GetFwUpdate
  <1> QED BY <1>1, <1>2, <1>3

LEMMA CommonTypes ==
    ASSUME TypeInv, NEW t \in Task, SetStatus(t) \/ SetFwUpdate(t) \/ Fails(t)
    PROVE  TypeInv'
  <1> USE DEF TypeInv
  <1>1. CASE SetStatus(t)
    <2>1. ListsOK'
      BY <1>1, RestStep DEF SetStatus, At
    <2>2. Arg(t).status \in {"online", "offline"} /\ (t \in Refresh => Arg(t).version \in Nat)
      BY <1>1, PollAt, RefreshAt DEF SetStatus, Task
    <2> QED BY <1>1, <2>1, <2>2 DEF SetStatus, RowsOK, TypeOK, device
  <1>2. CASE SetFwUpdate(t)
    <2>1. ListsOK'
      BY <1>2, RestStep DEF SetFwUpdate, At
    <2>2. Arg(t) \in Flag
      BY <1>2, PollAt, RefreshAt DEF SetFwUpdate, Task, Flag
    <2> QED BY <1>2, <2>1, <2>2 DEF SetFwUpdate, Flag, RowsOK, TypeOK, device
  <1>3. CASE Fails(t)
    <2>1. RefreshList(<< >>)
      BY DEF RefreshList
    <2>2. ListsOK'
      BY <1>3, <2>1, PollLists, ListsStep DEF Fails
    <2> QED BY <1>3, <2>2, SameRows DEF Fails
  <1> QED BY <1>1, <1>2, <1>3

LEMMA RefreshTypes ==
    ASSUME TypeInv, NEW r \in Refresh,
           \/ RefreshStart(r, TRUE) \/ RefreshStart(r, FALSE) \/ Session(r) \/ ReadPackage(r)
           \/ Reconcile(r) \/ ReadInterfaces(r) \/ PrevPorts(r) \/ UpsertPorts(r)
    PROVE  TypeInv'
  <1> USE DEF TypeInv
  <1>0. r \in Task /\ r \notin Poll /\ RefreshList(<< >>)
    BY DEF Task, RefreshList
  <1>1. ASSUME NEW sweep, RefreshStart(r, sweep) PROVE TypeInv'
    <2>1. Do("session", row) \in Statement
      BY DEF RowsOK, TypeOK, Statement, Do
    <2>2. RefreshList(<<Do("session", row)>>)
      BY <2>1 DEF RefreshList
    <2>3. ListsOK'
      BY <1>0, <1>1, <2>2, ListsStep DEF RefreshStart
    <2> QED BY <1>1, <2>3, SameRows DEF RefreshStart
  <1>2. CASE Session(r)
    <2>1. /\ Health \in Planned /\ Do("interfaces", NoArg) \in Planned
          /\ Do("package", TRUE) \in Planned /\ Do("package", FALSE) \in Planned
      <3>1. Health \in Planned
        BY AlertStatements DEF Health, RefreshKind
      <3> QED BY <3>1 DEF Planned, Do
    <2>2. Online \in Statement
      BY DEF Online, Statement, Do, RowsOK, TypeOK
    <2>3. RefreshList(RefreshCiscoDevice)
      <3>1. <<Health, Do("interfaces", NoArg)>> \in Seq(Planned)
        BY <2>1
      <3>2. Head(RefreshCiscoDevice) = Online
            /\ Tail(RefreshCiscoDevice) = <<Health, Do("interfaces", NoArg)>>
        BY DEF RefreshCiscoDevice
      <3> QED BY <2>2, <3>1, <3>2 DEF RefreshList
    <2>4. \A was : RefreshList(RefreshRouterOsDevice(was))
      <3> TAKE was
      <3> DEFINE rest == <<Do("package", version # was), Health, Do("interfaces", NoArg)>>
      <3>0. Do("package", version # was) \in Planned
        <4>1. CASE version = was
          <5>1. (version # was) = FALSE
            BY <4>1
          <5> QED BY <5>1, <2>1
        <4>2. CASE version # was
          <5>1. (version # was) = TRUE
            BY <4>2
          <5> QED BY <5>1, <2>1
        <4> QED BY <4>1, <4>2
      <3>1. rest \in Seq(Planned)
        BY <2>1, <3>0
      <3>2. Head(RefreshRouterOsDevice(was)) = Online /\ Tail(RefreshRouterOsDevice(was)) = rest
        BY DEF RefreshRouterOsDevice
      <3> QED BY <2>2, <3>1, <3>2 DEF RefreshList
    <2>5. vendor = "aruba" => RefreshList(RefreshArubaDevice)
      <3> SUFFICES ASSUME vendor = "aruba" PROVE RefreshList(RefreshArubaDevice)
        OBVIOUS
      <3> DEFINE rest == <<Do("interfaces", NoArg), ResolveAlert("device_offline")>>
      <3>1. ResolveAlert("device_offline") \in Planned
        BY DEF Planned, ResolveAlert, Do, Kind
      <3>2. rest \in Seq(Planned)
        BY <2>1, <3>1
      <3>3. Head(RefreshArubaDevice) = Online /\ Tail(RefreshArubaDevice) = rest
        BY DEF RefreshArubaDevice
      <3> QED BY <2>2, <3>2, <3>3 DEF RefreshList
    <2>6. vendor' = vendor /\ \E l : Continue(r, l) /\ RefreshList(l)
      BY <1>0, <1>2, <2>3, <2>4, <2>5 DEF Session, RowsOK
    <2>7. ListsOK'
      BY <1>0, <2>6, ListsStep
    <2> QED BY <1>2, <2>7, SameRows DEF Session
  <1>3. CASE ReadPackage(r)
    <2>1. PICK s \in BOOLEAN :
            Continue(r, Then(Do("reconcile", [changed |-> Arg(r), staged |-> s]), Rest(r)))
      BY <1>3 DEF ReadPackage, RowsOK, TypeOK
    <2>2. Arg(r) \in BOOLEAN /\ todo[r] # << >> /\ vendor' = vendor
      BY <1>3, RefreshAt DEF ReadPackage, At
    <2>3. Do("reconcile", [changed |-> Arg(r), staged |-> s]) \in Statement
      BY <2>2 DEF Statement, Do
    <2>4. ListsOK'
      BY <2>1, <2>2, <2>3, ThenStep
    <2> QED BY <1>3, <2>4, SameRows DEF ReadPackage
  <1>4. CASE Reconcile(r)
    <2> DEFINE new == Reconciled(Arg(r).changed, Arg(r).staged, fw)
    <2>1. todo[r] # << >> /\ vendor' = vendor
      BY <1>4 DEF Reconcile, At
    <2>2. new # "keep" => Do("setFw", new) \in Statement
      BY DEF Reconciled, Statement, Do, Flag
    <2>3. ListsOK'
      <3>1. CASE new = "keep"
        BY <1>0, <1>4, <2>1, <3>1, RestStep DEF Reconcile
      <3>2. CASE new # "keep"
        BY <1>4, <2>1, <2>2, <3>2, ThenStep DEF Reconcile
      <3> QED BY <3>1, <3>2
    <2> QED BY <1>4, <2>3, SameRows DEF Reconcile
  <1>5. CASE ReadInterfaces(r)
    <2>1. todo[r] # << >> /\ vendor' = vendor
      BY <1>5 DEF ReadInterfaces, At
    <2>2. /\ vendor = "routeros" => Do("upsert", [oper |-> link]) \in Statement
          /\ vendor # "routeros" => Do("prevPorts", [oper |-> link]) \in Statement
      BY DEF Statement, Do, RowsOK, TypeOK, Link
    <2>3. ListsOK'
      <3>1. CASE up
        BY <1>5, <2>1, <2>2, <3>1, ThenStep DEF ReadInterfaces
      <3>2. CASE ~up
        BY <1>0, <1>5, <2>1, <3>2, ListsStep DEF ReadInterfaces
      <3> QED BY <3>1, <3>2
    <2> QED BY <1>5, <2>3, SameRows DEF ReadInterfaces
  <1>6. CASE PrevPorts(r)
    <2> DEFINE new == DecidePortFlap(port, Arg(r).oper)
               after == IF new.flaps >= FlapLimit
                        THEN Then(RaiseAlert("port_flapping"), Rest(r)) ELSE Rest(r)
    <2>1. /\ todo[r] # << >> /\ vendor' = vendor /\ Arg(r).oper \in Link
          /\ Rest(r) \in Seq(Planned)
      BY <1>6, RefreshAt DEF PrevPorts, At, ListsOK, RefreshList, Rest
    <2>2. new \in PortRow
      BY <2>1 DEF DecidePortFlap, PortRow, RowsOK, Link
    <2>3. vendor # "routeros" => Do("upsert", new) \in Statement
      BY <2>2 DEF Statement, Do
    <2>4. vendor # "routeros"
      BY <1>6, RefreshAt DEF PrevPorts
    <2>5. after \in Seq(Planned)
      BY <2>1, AlertStatements, ThenPlanned DEF RefreshKind
    <2>6. ListsOK'
      <3>1. RefreshList(Then(Do("upsert", new), after))
        BY <2>3, <2>4, <2>5, ThenStatement
      <3> QED BY <1>0, <1>6, <2>1, <3>1, ListsStep DEF PrevPorts
    <2> QED BY <1>6, <2>6, SameRows DEF PrevPorts
  <1>7. CASE UpsertPorts(r)
    <2>1. ListsOK'
      BY <1>0, <1>7, RestStep DEF UpsertPorts, At
    <2>2. port' \in PortRow
      <3>1. /\ vendor = "routeros" => Arg(r).oper \in Link
            /\ vendor # "routeros" => Arg(r) \in PortRow
        BY <1>7, RefreshAt DEF UpsertPorts
      <3> QED BY <1>7, <3>1 DEF UpsertPorts, RowsOK, PortRow, Link
    <2> QED BY <1>7, <2>1, <2>2 DEF UpsertPorts, RowsOK, TypeOK, device, PortRow
  <1> QED BY <1>1, <1>2, <1>3, <1>4, <1>5, <1>6, <1>7

LEMMA WorldTypes ==
    ASSUME TypeInv,
           \/ \E k \in Kind : ResolveByHand(k)
           \/ MaintenanceWindow \/ DownloadRouterosPackage \/ RebootRouterosDevice
           \/ FwUpdateExpires \/ GoesDown \/ ComesBack \/ HealthChanges \/ PortChanges
           \/ HourPasses
    PROVE  TypeInv'
  <1> USE DEF TypeInv
  <1>1. vendor' = vendor /\ todo' = todo
    BY DEF ResolveByHand, MaintenanceWindow, DownloadRouterosPackage, RebootRouterosDevice,
           FwUpdateExpires, GoesDown, ComesBack, HealthChanges, PortChanges, HourPasses
  <1>2. ListsOK'
    BY <1>1, SameLists
  <1>3. CASE \E k \in Kind : ResolveByHand(k)
    BY <1>2, <1>3 DEF ResolveByHand, RowsOK, TypeOK, device
  <1>4. CASE MaintenanceWindow
    <2>1. window' \in BOOLEAN
      BY <1>4 DEF MaintenanceWindow
    <2> QED BY <1>2, <1>4, <2>1 DEF MaintenanceWindow, RowsOK, TypeOK, device, tables
  <1>10. CASE DownloadRouterosPackage
    <2>1. staged' \in BOOLEAN
      BY <1>10 DEF DownloadRouterosPackage, RowsOK, TypeOK
    <2> QED BY <1>2, <1>10, <2>1 DEF DownloadRouterosPackage, RowsOK, TypeOK
  <1>11. CASE RebootRouterosDevice \/ FwUpdateExpires
    <2>1. fw' \in Flag
      BY <1>11 DEF RebootRouterosDevice, FwUpdateExpires, Flag
    <2>2. UNCHANGED <<vendor, device, window, status, row, port, open>>
      BY <1>11 DEF RebootRouterosDevice, FwUpdateExpires
    <2> QED BY <1>2, <2>1, <2>2 DEF RowsOK, TypeOK, device, Flag
  <1>5. CASE GoesDown
    <2>1. up' \in BOOLEAN
      BY <1>5 DEF GoesDown
    <2>2. staged' \in BOOLEAN
      BY <1>5 DEF GoesDown, RowsOK, TypeOK
    <2>3. version' \in Nat
      BY <1>5 DEF GoesDown, RowsOK, TypeOK
    <2> QED BY <1>2, <1>5, <2>1, <2>2, <2>3 DEF GoesDown, RowsOK, TypeOK, tables
  <1>8. CASE ComesBack
    <2>1. up' \in BOOLEAN
      BY <1>8 DEF ComesBack
    <2> QED BY <1>2, <1>8, <2>1 DEF ComesBack, RowsOK, TypeOK, tables
  <1>9. CASE PortChanges
    BY <1>2, <1>9 DEF PortChanges, RowsOK, TypeOK, tables
  <1>7. CASE HealthChanges
    <2>1. hot' \in BOOLEAN
      BY <1>7 DEF HealthChanges
    <2> QED BY <1>2, <1>7, <2>1 DEF HealthChanges, RowsOK, TypeOK, tables
  <1>6. CASE HourPasses
    <2>1. port' \in PortRow
      BY <1>6 DEF HourPasses, RowsOK, PortRow
    <2>2. port'.oper = port.oper /\ port'.flaps = port.flaps
      BY <1>6 DEF HourPasses, RowsOK, PortRow
    <2>3. UNCHANGED <<vendor, device, window, status, row, open, fw>>
      BY <1>6 DEF HourPasses
    <2> QED BY <1>2, <2>1, <2>2, <2>3 DEF RowsOK, TypeOK, device
  <1> QED BY <1>3, <1>4, <1>5, <1>6, <1>7, <1>8, <1>9, <1>10, <1>11

LEMMA TypeStep == ASSUME TypeInv, [Next]_vars PROVE TypeInv'
  <1>1. ASSUME NEW p \in Poll, PollStart(p) \/ PollStep(p) PROVE TypeInv'
    BY <1>1, PollTypes, CommonTypes, RaiseTypes DEF PollStep, Task
  <1>2. ASSUME NEW r \in Refresh,
               RefreshStart(r, TRUE) \/ RefreshStart(r, FALSE) \/ RefreshStep(r)
        PROVE  TypeInv'
    BY <1>2, RefreshTypes, CommonTypes, RaiseTypes DEF RefreshStep, Task
  <1>3. CASE World
    BY <1>3, WorldTypes, CommonTypes DEF World
  <1>4. CASE UNCHANGED vars
    <2>1. RowsOK'
      BY <1>4, SameRows DEF vars, TypeInv
    <2>2. ListsOK'
      BY <1>4, SameLists DEF vars, TypeInv
    <2> QED BY <2>1, <2>2 DEF TypeInv
  <1> QED BY <1>1, <1>2, <1>3, <1>4 DEF Next, Polling, Refreshing

LEMMA TypeInvAlways == Spec => []TypeInv
  <1>1. Init => TypeInv
    <2> SUFFICES ASSUME Init PROVE TypeInv
      OBVIOUS
    <2>1. RowsOK
      BY DEF Init, RowsOK, TypeOK, PortRow, Kind
    <2>2. ListsOK
      BY PollLists DEF Init, ListsOK, RefreshList, Task
    <2> QED BY <2>1, <2>2 DEF TypeInv
  <1>2. TypeInv /\ [Next]_vars => TypeInv'
    BY TypeStep
  <1> QED BY <1>1, <1>2, PTL DEF Spec

-----------------------------------------------------------------------------
(* What the handler of a step comes to; the others stay where they are.        *)

LEMMA RaiseHeads ==
    ASSUME TypeInv, NEW t \in Task
    PROVE  /\ InMaintenanceWindow(t) =>
                /\ Others(t)
                /\ \/ window /\ Next0(t)
                   \/ ~window /\ Next1(t, Do("existing", Arg(t)))
           /\ Existing(t) =>
                /\ Others(t)
                /\ \/ open[Arg(t)] > 0 /\ Next0(t)
                   \/ ~(open[Arg(t)] > 0) /\ Next1(t, Do("insert", Arg(t)))
           /\ Insert(t) \/ Resolve(t) => Others(t) /\ Next0(t)
  <1>0. ListsOK
    BY DEF TypeInv
  <1>1. ASSUME NEW op \in {"existing", "insert"}, todo[t] # << >>, vendor' = vendor,
               Continue(t, Then(Do(op, Arg(t)), Rest(t))),
               At(t, "inMaintenanceWindow") \/ At(t, "existing")
        PROVE  Others(t) /\ Next1(t, Do(op, Arg(t)))
    <2>1. CASE t \in Refresh
      <3>1. Arg(t) \in RefreshKind
        BY <1>0, <1>1, <2>1, RefreshAt
      <3>2. Do(op, Arg(t)) \in Statement
        BY <3>1, AlertStatements
      <3> QED BY <1>0, <1>1, <2>1, <3>2, ThenStep
    <2>2. CASE t \in Poll
      <3>1. Arg(t) = Outage /\ Rest(t) = << >>
        BY <1>0, <1>1, <2>2, PollAt DEF Rest
      <3>2. PollList(Then(Do(op, Arg(t)), Rest(t)))
        BY <3>1, PollLists
      <3>3. t \notin Refresh
        BY <2>2
      <3>4. Others(t) /\ todo'[t] = Then(Do(op, Arg(t)), Rest(t))
        BY <1>0, <1>1, <3>2, <3>3, ListsStep DEF Others
      <3>5. << >> \in Seq({})
        OBVIOUS
      <3> QED BY <3>1, <3>4, <3>5, ThenBegins DEF Next1
    <2> QED BY <2>1, <2>2 DEF Task
  <1>2. InMaintenanceWindow(t) =>
            /\ Others(t)
            /\ \/ window /\ Next0(t)
               \/ ~window /\ Next1(t, Do("existing", Arg(t)))
    BY <1>0, <1>1, RestStep DEF InMaintenanceWindow, At
  <1>3. Existing(t) =>
            /\ Others(t)
            /\ \/ open[Arg(t)] > 0 /\ Next0(t)
               \/ ~(open[Arg(t)] > 0) /\ Next1(t, Do("insert", Arg(t)))
    BY <1>0, <1>1, RestStep DEF Existing, At
  <1>4. Insert(t) \/ Resolve(t) => Others(t) /\ Next0(t)
    BY <1>0, RestStep DEF Insert, Resolve, At
  <1> QED BY <1>2, <1>3, <1>4

LEMMA CommonHeads ==
    ASSUME TypeInv, NEW t \in Task
    PROVE  /\ SetStatus(t) \/ SetFwUpdate(t) => Others(t) /\ Next0(t) /\ todo'[t] = Tail(todo[t])
           /\ Fails(t) => Others(t) /\ todo'[t] = << >>
  <1>1. SetStatus(t) \/ SetFwUpdate(t) => Others(t) /\ Next0(t) /\ todo'[t] = Tail(todo[t])
    BY RestStep DEF SetStatus, SetFwUpdate, At, TypeInv
  <1>2. Fails(t) => Others(t) /\ todo'[t] = << >>
    BY DEF Fails, Continue, Others, TypeInv, ListsOK
  <1> QED BY <1>1, <1>2

LEMMA PollHeads ==
    ASSUME TypeInv, NEW p \in Poll
    PROVE  /\ PollStart(p) => Others(p) /\ todo'[p] # << >> /\ Head(todo'[p]).op = "probe"
           /\ Probe(p) => Others(p) /\ (todo'[p] = << >> \/ Head(todo'[p]).op = "status")
           /\ GetFwUpdate(p) => /\ Others(p) /\ todo'[p] # << >>
                                /\ Head(todo'[p]).op \in {"setFw", "inMaintenanceWindow"}
  <1>0. ListsOK /\ p \in Task
    BY DEF TypeInv, Task
  <1>1. ASSUME NEW l, Continue(p, l) PROVE Others(p) /\ todo'[p] = l
    BY <1>0, <1>1 DEF Continue, Others, ListsOK
  <1>2. ASSUME PollStart(p) PROVE Others(p) /\ todo'[p] # << >> /\ Head(todo'[p]).op = "probe"
    <2>1. Others(p) /\ todo'[p] = <<Do("probe", status)>>
      BY <1>1, <1>2 DEF PollStart
    <2> QED BY <2>1 DEF Do
  <1>3. ASSUME Probe(p) PROVE Others(p) /\ (todo'[p] = << >> \/ Head(todo'[p]).op = "status")
    <2>1. Others(p) /\ todo'[p] = Outcome(Arg(p), IF up THEN "online" ELSE "offline")
      BY <1>1, <1>3 DEF Probe
    <2>2. \A was, now : Outcome(was, now) = << >> \/ Head(Outcome(was, now)).op = "status"
      BY DEF Outcome, Do
    <2> QED BY <2>1, <2>2
  <1>4. ASSUME GetFwUpdate(p)
        PROVE  /\ Others(p) /\ todo'[p] # << >>
               /\ Head(todo'[p]).op \in {"setFw", "inMaintenanceWindow"}
    <2>1. Rest(p) = <<RaiseAlert(Outage)>>
      BY <1>0, <1>4, PollAt DEF GetFwUpdate, Rest
    <2>2. Others(p) /\ todo'[p] \in {Rest(p), Then(Do("setFw", "installing"), Rest(p))}
      BY <1>1, <1>4 DEF GetFwUpdate
    <2>3. Rest(p) \in Seq({RaiseAlert(Outage)})
      BY <2>1
    <2>4. LET l == Then(Do("setFw", "installing"), Rest(p))
          IN  l # << >> /\ Head(l) = Do("setFw", "installing")
      BY <2>3, ThenBegins
    <2>5. Rest(p) # << >> /\ Head(Rest(p)).op = "inMaintenanceWindow"
      BY <2>1 DEF RaiseAlert, Do
    <2>6. Do("setFw", "installing").op = "setFw"
      BY DEF Do
    <2> QED BY <2>2, <2>4, <2>5, <2>6
  <1> QED BY <1>2, <1>3, <1>4

LEMMA RefreshHeads ==
    ASSUME TypeInv, NEW r \in Refresh
    PROVE  /\ \A sweep : RefreshStart(r, sweep) =>
                /\ Others(r) /\ todo'[r] # << >> /\ Head(todo'[r]).op = "session"
           /\ Session(r) => Others(r) /\ (todo'[r] = << >> \/ Head(todo'[r]).op = "status")
           /\ ReadPackage(r) =>
                Others(r) /\ todo'[r] # << >> /\ Head(todo'[r]).op = "reconcile"
           /\ Reconcile(r) => Others(r) /\ (Next0(r) \/ Head(todo'[r]).op = "setFw")
           /\ ReadInterfaces(r) =>
                /\ Others(r)
                /\ \/ todo'[r] = << >>
                   \/ vendor = "routeros" /\ Next1(r, Do("upsert", [oper |-> link]))
                   \/ vendor # "routeros" /\ Next1(r, Do("prevPorts", [oper |-> link]))
           /\ PrevPorts(r) =>
                Others(r) /\ Next1(r, Do("upsert", DecidePortFlap(port, Arg(r).oper)))
           /\ UpsertPorts(r) => Others(r) /\ Next0(r)
  <1>0. ListsOK /\ r \in Task /\ \A op, arg : Do(op, arg).op = op
    BY DEF TypeInv, Task, Do
  <1>1. ASSUME NEW l, Continue(r, l) PROVE Others(r) /\ todo'[r] = l
    BY <1>0, <1>1 DEF Continue, Others, ListsOK
  <1>2. ASSUME NEW x, todo[r] # << >>, Continue(r, Then(x, Rest(r)))
        PROVE  Others(r) /\ Next1(r, x)
    <2>1. Rest(r) \in Seq(Planned)
      BY <1>0, <1>2 DEF ListsOK, RefreshList, Rest
    <2> QED BY <1>1, <1>2, <2>1, ThenBegins DEF Next1
  <1>3. ASSUME NEW sweep, RefreshStart(r, sweep)
        PROVE  Others(r) /\ todo'[r] # << >> /\ Head(todo'[r]).op = "session"
    <2>1. Others(r) /\ todo'[r] = <<Do("session", row)>>
      BY <1>1, <1>3 DEF RefreshStart
    <2> QED BY <1>0, <2>1
  <1>4. ASSUME Session(r) PROVE Others(r) /\ (todo'[r] = << >> \/ Head(todo'[r]).op = "status")
    <2>1. /\ Head(RefreshCiscoDevice) = Online /\ Head(RefreshArubaDevice) = Online
          /\ \A was : Head(RefreshRouterOsDevice(was)) = Online
          /\ Online.op = "status"
      BY DEF RefreshCiscoDevice, RefreshArubaDevice, RefreshRouterOsDevice, Online, Do
    <2>2. vendor \in {"cisco", "routeros", "aruba"}
      BY DEF TypeInv, RowsOK
    <2>3. \E l \in {<< >>, RefreshCiscoDevice, RefreshArubaDevice, RefreshRouterOsDevice(Arg(r))} :
            Continue(r, l)
      BY <1>4, <2>2 DEF Session
    <2> QED BY <1>1, <2>1, <2>3
  <1>5. ASSUME ReadPackage(r)
        PROVE  Others(r) /\ todo'[r] # << >> /\ Head(todo'[r]).op = "reconcile"
    <2>1. PICK s : Continue(r, Then(Do("reconcile", [changed |-> Arg(r), staged |-> s]), Rest(r)))
      BY <1>5 DEF ReadPackage
    <2>2. todo[r] # << >>
      BY <1>5 DEF ReadPackage, At
    <2> QED BY <1>0, <1>2, <2>1, <2>2 DEF Next1
  <1>6. ASSUME Reconcile(r) PROVE Others(r) /\ (Next0(r) \/ Head(todo'[r]).op = "setFw")
    <2>1. todo[r] # << >> /\ vendor' = vendor
      BY <1>6 DEF Reconcile, At
    <2>2. Continue(r, Rest(r)) \/ \E new : Continue(r, Then(Do("setFw", new), Rest(r)))
      BY <1>6 DEF Reconcile
    <2>3. CASE Continue(r, Rest(r))
      BY <1>0, <2>1, <2>3, RestStep
    <2>4. ASSUME NEW new, Continue(r, Then(Do("setFw", new), Rest(r)))
          PROVE  Others(r) /\ Head(todo'[r]).op = "setFw"
      BY <1>0, <1>2, <2>1, <2>4 DEF Next1
    <2> QED BY <2>2, <2>3, <2>4
  <1>7. ASSUME ReadInterfaces(r)
        PROVE  /\ Others(r)
               /\ \/ todo'[r] = << >>
                  \/ vendor = "routeros" /\ Next1(r, Do("upsert", [oper |-> link]))
                  \/ vendor # "routeros" /\ Next1(r, Do("prevPorts", [oper |-> link]))
    BY <1>1, <1>2, <1>7 DEF ReadInterfaces, At
  <1>8. ASSUME PrevPorts(r)
        PROVE  Others(r) /\ Next1(r, Do("upsert", DecidePortFlap(port, Arg(r).oper)))
    <2> DEFINE new == DecidePortFlap(port, Arg(r).oper)
               after == IF new.flaps >= FlapLimit
                        THEN Then(RaiseAlert("port_flapping"), Rest(r)) ELSE Rest(r)
    <2>1. Rest(r) \in Seq(Planned)
      BY <1>0, <1>8 DEF ListsOK, RefreshList, Rest, PrevPorts, At
    <2>2. after \in Seq(Planned)
      BY <2>1, AlertStatements, ThenPlanned DEF RefreshKind
    <2>3. Continue(r, Then(Do("upsert", new), after))
      BY <1>8 DEF PrevPorts
    <2> QED BY <1>1, <2>2, <2>3, ThenBegins DEF Next1
  <1>9. ASSUME UpsertPorts(r) PROVE Others(r) /\ Next0(r)
    BY <1>0, <1>9, RestStep DEF UpsertPorts, At
  <1> QED BY <1>3, <1>4, <1>5, <1>6, <1>7, <1>8, <1>9

-----------------------------------------------------------------------------
(* The session. *)

LEMMA IdleStep ==
    ASSUME TypeInv, [Next]_vars, NEW r \in Refresh, Idle(r), ~Idle(r)'
    PROVE  Session(r)
  <1>0. r \in Task /\ r \notin Poll
    BY DEF Task
  <1>1. todo'[r] # todo[r]
    BY DEF Idle, At
  <1>2. ASSUME NEW t \in Task, Others(t) PROVE t = r
    BY <1>0, <1>1, <1>2 DEF Others
  <1>3. ASSUME NEW p \in Poll, PollStart(p) \/ PollStep(p) PROVE FALSE
    <2>1. Others(p)
      BY <1>3, PollHeads, CommonHeads, RaiseHeads DEF PollStep, Raise, Task
    <2> QED BY <1>0, <1>2, <2>1 DEF Task
  <1>4. ASSUME World PROVE FALSE
    <2>1. ASSUME NEW t \in Task, Fails(t) PROVE FALSE
      BY <1>2, <2>1, CommonHeads DEF Idle, At
    <2>2. todo' = todo \/ \E t \in Task : Fails(t)
      BY <1>4 DEF World, ResolveByHand, MaintenanceWindow, DownloadRouterosPackage,
         RebootRouterosDevice, FwUpdateExpires, GoesDown, ComesBack, HealthChanges,
         PortChanges, HourPasses
    <2> QED BY <1>1, <2>1, <2>2
  <1>5. ASSUME NEW s \in Refresh, NEW sweep, RefreshStart(s, sweep) PROVE FALSE
    BY <1>2, <1>5, RefreshHeads DEF Idle, At, Task
  <1>6. ASSUME NEW s \in Refresh, RefreshStep(s) PROVE s = r
    BY <1>2, <1>6, RefreshHeads, CommonHeads, RaiseHeads DEF RefreshStep, Raise, Task
  <1>7. RefreshStep(r) => Session(r)
    BY DEF RefreshStep, Idle, At, SetStatus, ReadPackage, Reconcile, SetFwUpdate,
       ReadInterfaces, PrevPorts, UpsertPorts, Raise, InMaintenanceWindow, Existing, Insert,
       Resolve
  <1> QED BY <1>1, <1>3, <1>4, <1>5, <1>6, <1>7 DEF Next, Polling, Refreshing, vars

LEMMA VendorStays == ASSUME [Next]_vars PROVE vendor' = vendor
  BY DEF Next, Polling, Refreshing, vars, World, PollStart, PollStep, RefreshStart,
       RefreshStep, Raise, Probe, SetStatus, GetFwUpdate, SetFwUpdate, Resolve,
       InMaintenanceWindow, Existing, Insert, Session, ReadPackage, Reconcile,
       ReadInterfaces, PrevPorts, UpsertPorts, Fails, ResolveByHand, MaintenanceWindow,
       DownloadRouterosPackage, RebootRouterosDevice, FwUpdateExpires, GoesDown, ComesBack,
       HealthChanges, PortChanges, HourPasses

LEMMA SessionStep == ASSUME TypeInv, SessionInv, [Next]_vars PROVE SessionInv'
  <1>0. vendor' = vendor
    BY VendorStays
  <1>1. ASSUME vendor # "aruba", NEW r \in Refresh, NEW s \in Refresh, r # s, Idle(r),
               ~Idle(r)', ~Idle(s)'
        PROVE  FALSE
    <2>1. Session(r)
      BY <1>1, IdleStep
    <2>2. Idle(s)
      BY <1>1, <2>1 DEF Session, SessionFree, Idle
    <2>3. Others(r)
      BY <2>1, RefreshHeads
    <2>4. todo'[s] = todo[s]
      BY <1>1, <2>3 DEF Others, Task
    <2> QED BY <1>1, <2>2, <2>4 DEF Idle, At
  <1> QED BY <1>0, <1>1 DEF SessionInv

LEMMA SessionInvAlways == Spec => []SessionInv
  <1>1. Init => SessionInv
    BY DEF Init, SessionInv, Idle, Task
  <1>2. TypeInv /\ SessionInv /\ [Next]_vars => SessionInv'
    BY SessionStep
  <1> QED BY <1>1, <1>2, TypeInvAlways, PTL DEF Spec

-----------------------------------------------------------------------------
(* One open alert of a kind. *)

\* What a step does to the alerts.
LEMMA OpenStep ==
    ASSUME TypeInv, [Next]_vars, NEW k \in Kind
    PROVE  \/ open'[k] <= open[k]
           \/ \E t \in Task : Insert(t) /\ Arg(t) = k /\ open'[k] = open[k] + 1
  <1>0. open \in [Kind -> Nat]
    BY DEF TypeInv, RowsOK, TypeOK
  <1>1. CASE \E t \in Task : Insert(t)
    <2>1. PICK t \in Task : Insert(t)
      BY <1>1
    <2>2. open' = [open EXCEPT ![Arg(t)] = @ + 1]
      BY <2>1 DEF Insert
    <2>3. IF Arg(t) = k THEN open'[k] = open[k] + 1 ELSE open'[k] = open[k]
      BY <1>0, <2>2
    <2> QED BY <1>0, <2>1, <2>3
  <1>2. CASE \E t \in Task : Resolve(t)
    BY <1>0, <1>2 DEF Resolve
  <1>3. CASE \E i \in Kind : ResolveByHand(i)
    BY <1>0, <1>3 DEF ResolveByHand
  <1>4. CASE UNCHANGED open
    BY <1>0, <1>4
  <1>5. \/ \E t \in Task : Insert(t) \/ Resolve(t)
        \/ \E i \in Kind : ResolveByHand(i)
        \/ UNCHANGED open
    BY DEF Next, Polling, Refreshing, vars, tables, Task, World, PollStart, PollStep,
       RefreshStart, RefreshStep, Raise, Probe, SetStatus, GetFwUpdate, SetFwUpdate,
       InMaintenanceWindow, Existing, Session, ReadPackage, Reconcile, ReadInterfaces,
       PrevPorts, UpsertPorts, Fails, MaintenanceWindow, DownloadRouterosPackage,
       RebootRouterosDevice, FwUpdateExpires, GoesDown, ComesBack, HealthChanges,
       PortChanges, HourPasses
  <1> QED BY <1>1, <1>2, <1>3, <1>4, <1>5

\* How a handler comes to an INSERT.
LEMMA InsertStep ==
    ASSUME TypeInv, [Next]_vars, NEW u \in Task, At(u, "insert")'
    PROVE  \/ todo'[u] = todo[u] /\ ~(\E t \in Task : Insert(t) /\ t = u)
           \/ /\ Existing(u) /\ Arg(u)' = Arg(u) /\ open' = open
              /\ ~(open[Arg(u)] > 0)
  <1> DEFINE G == \/ todo'[u] = todo[u] /\ ~(\E t \in Task : Insert(t) /\ t = u)
                  \/ /\ Existing(u) /\ Arg(u)' = Arg(u) /\ open' = open
                     /\ ~(open[Arg(u)] > 0)
             same == todo'[u] = todo[u] /\ ~Insert(u)
  <1>0. todo'[u] # << >> /\ Head(todo'[u]).op = "insert" /\ (u \in Poll => u \notin Refresh)
    BY DEF At
  <1>1. ~Next0(u) /\ \A x : Next1(u, x) => x.op = "insert"
    BY <1>0 DEF Next0, Next1
  <1>2. ASSUME NEW t \in Task, Raise(t) \/ Resolve(t) PROVE G
    <2>1. CASE t = u
      <3>1. /\ Do("existing", Arg(u)).op = "existing" /\ Do("insert", Arg(u)).arg = Arg(u)
        BY DEF Do
      <3>2. Existing(u) /\ Next1(u, Do("insert", Arg(u))) /\ ~(open[Arg(u)] > 0)
        BY <1>1, <1>2, <2>1, <3>1, RaiseHeads DEF Raise
      <3>3. Arg(u)' = Arg(u) /\ open' = open
        BY <3>1, <3>2 DEF Next1, Arg, Existing, tables
      <3> QED BY <3>2, <3>3
    <2>2. CASE t # u
      <3>1. Others(t)
        BY <1>2, RaiseHeads DEF Raise
      <3>2. todo'[u] = todo[u]
        BY <2>2, <3>1 DEF Others
      <3>3. CASE Insert(u)
        <4>1. Next0(u)
          BY <3>3, RaiseHeads
        <4> QED BY <1>1, <4>1
      <3> QED BY <3>2, <3>3
    <2> QED BY <2>1, <2>2
  <1>3. Insert(u) => Next0(u)
    BY RaiseHeads
  <1>4. ~Insert(u)
    BY <1>1, <1>3
  <1>5. ASSUME NEW t \in Task, Others(t),
               t = u => todo'[u] = << >> \/ Head(todo'[u]).op # "insert"
        PROVE  G
    <2>1. t # u
      BY <1>0, <1>5
    <2> QED BY <1>4, <1>5, <2>1 DEF Others
  <1>6. ASSUME NEW t \in Task, SetStatus(t) \/ SetFwUpdate(t) \/ Fails(t) PROVE G
    <2>1. Others(t) /\ (todo'[t] = << >> \/ Head(todo'[t]).op # "insert")
      BY <1>6, CommonHeads DEF Next0
    <2> QED BY <1>5, <2>1
  <1>7. ASSUME NEW p \in Poll, PollStart(p) \/ Probe(p) \/ GetFwUpdate(p) PROVE G
    <2>1. Others(p) /\ (todo'[p] = << >> \/ Head(todo'[p]).op # "insert")
      BY <1>7, PollHeads
    <2> QED BY <1>5, <2>1 DEF Task
  <1>8. ASSUME NEW r \in Refresh,
               \/ RefreshStart(r, TRUE) \/ RefreshStart(r, FALSE) \/ Session(r)
               \/ ReadPackage(r) \/ Reconcile(r) \/ ReadInterfaces(r) \/ PrevPorts(r)
               \/ UpsertPorts(r)
        PROVE  G
    <2>1. \A arg : Do("upsert", arg).op = "upsert" /\ Do("prevPorts", arg).op = "prevPorts"
      BY DEF Do
    <2>2. Others(r) /\ (todo'[r] = << >> \/ Head(todo'[r]).op # "insert")
      BY <1>8, <2>1, RefreshHeads DEF Next0, Next1
    <2> QED BY <1>5, <2>2 DEF Task
  <1>9. CASE todo' = todo
    BY <1>4, <1>9
  <1>10. \/ \E t \in Task : \/ Raise(t) \/ Resolve(t)
                            \/ SetStatus(t) \/ SetFwUpdate(t) \/ Fails(t)
         \/ \E p \in Poll : PollStart(p) \/ Probe(p) \/ GetFwUpdate(p)
         \/ \E r \in Refresh :
               \/ RefreshStart(r, TRUE) \/ RefreshStart(r, FALSE) \/ Session(r)
               \/ ReadPackage(r) \/ Reconcile(r) \/ ReadInterfaces(r) \/ PrevPorts(r)
               \/ UpsertPorts(r)
         \/ todo' = todo
    BY DEF Next, Polling, Refreshing, vars, Task, World, PollStep, RefreshStep,
       ResolveByHand, MaintenanceWindow, DownloadRouterosPackage, RebootRouterosDevice,
       FwUpdateExpires, GoesDown, ComesBack, HealthChanges, PortChanges, HourPasses
  <1> QED BY <1>2, <1>6, <1>7, <1>8, <1>9, <1>10

LEMMA AlertStep ==
    ASSUME OnePoll, TypeInv, SessionInv, AlertInv, [Next]_vars
    PROVE  AlertInv'
  <1>1. vendor' = vendor
    BY VendorStays
  <1> SUFFICES ASSUME vendor # "aruba"
               PROVE  /\ \A k \in Kind : open'[k] <= 1
                      /\ \A t \in Task : At(t, "insert")' => open'[Arg(t)'] = 0
    BY <1>1 DEF AlertInv
  <1>2. open \in [Kind -> Nat] /\ ListsOK /\ open' \in [Kind -> Nat]
    BY TypeStep DEF TypeInv, RowsOK, TypeOK
  <1>3. ASSUME NEW k \in Kind PROVE open'[k] <= 1
    <2>1. CASE open'[k] <= open[k]
      BY <1>2, <2>1 DEF AlertInv
    <2>2. CASE \E t \in Task : Insert(t) /\ Arg(t) = k /\ open'[k] = open[k] + 1
      BY <1>2, <2>2 DEF AlertInv, Insert
    <2> QED BY <2>1, <2>2, OpenStep
  <1>4. \A t \in Task : At(t, "insert") => Arg(t) \in Kind
    BY <1>2, PollAt, RefreshAt DEF Task, Kind, Outage, RefreshKind
  <1>5. ASSUME NEW t \in Task, NEW u \in Task, At(t, "insert"), At(u, "insert"),
               Arg(t) = Arg(u)
        PROVE  t = u
    <2>1. CASE t \in Poll /\ u \in Poll
      BY <2>1 DEF OnePoll
    <2>2. \A v \in Task : /\ At(v, "insert") /\ v \in Poll => Arg(v) = Outage
                          /\ At(v, "insert") /\ v \in Refresh => Arg(v) # Outage
      BY <1>2, PollAt, RefreshAt DEF Outage, RefreshKind
    <2>3. CASE t \in Refresh /\ u \in Refresh
      <3>1. ~Idle(t) /\ ~Idle(u)
        BY <1>5 DEF Idle, At
      <3> QED BY <2>3, <3>1 DEF SessionInv
    <2> QED BY <1>5, <2>1, <2>2, <2>3 DEF Task
  <1>6. ASSUME NEW u \in Task, At(u, "insert")' PROVE open'[Arg(u)'] = 0
    <2>1. CASE todo'[u] = todo[u] /\ ~(\E t \in Task : Insert(t) /\ t = u)
      <3>1. At(u, "insert") /\ Arg(u)' = Arg(u)
        BY <1>6, <2>1 DEF At, Arg
      <3>2. open[Arg(u)] = 0 /\ Arg(u) \in Kind
        BY <1>4, <3>1 DEF AlertInv
      <3>3. ~(\E t \in Task : Insert(t) /\ Arg(t) = Arg(u))
        BY <1>5, <2>1, <3>1 DEF Insert
      <3>4. open'[Arg(u)] <= open[Arg(u)]
        BY <3>2, <3>3, OpenStep
      <3> QED BY <1>2, <3>1, <3>2, <3>4
    <2>2. CASE /\ Existing(u) /\ Arg(u)' = Arg(u) /\ open' = open
               /\ ~(open[Arg(u)] > 0)
      <3>1. Arg(u) \in Kind
        BY <1>2, <2>2, PollAt, RefreshAt DEF Existing, Task, Kind, Outage, RefreshKind
      <3> QED BY <1>2, <2>2, <3>1
    <2> QED BY <1>6, <2>1, <2>2, InsertStep
  <1> QED BY <1>3, <1>6

\* An alert of a kind is never open twice: in whatever way the statements of the status
\* poll and of any number of refreshes are interleaved, two handlers do not both find no
\* open alert and both insert one.  Of a device without sessions (Aruba) it is not said.
THEOREM OneAlertIsOpen == ASSUME OnePoll PROVE Spec => []OneOpenAlert
  <1>1. Init => AlertInv
    BY DEF Init, AlertInv, At, Task
  <1>2. TypeInv /\ SessionInv /\ AlertInv /\ [Next]_vars => AlertInv'
    BY AlertStep
  <1>3. AlertInv => OneOpenAlert
    BY DEF AlertInv, OneOpenAlert
  <1> QED BY <1>1, <1>2, <1>3, TypeInvAlways, SessionInvAlways, PTL DEF Spec

-----------------------------------------------------------------------------
(* Every outage is alerted. *)

\* What a poll comes to.
LEMMA PollNext ==
    ASSUME TypeInv, NEW p \in Poll
    PROVE  /\ SetStatus(p) =>
                \/ Arg(p).status = "offline" /\ At(p, "getFw")'
                \/ Arg(p).status = "online" /\ At(p, "resolve")'
           /\ SetFwUpdate(p) => At(p, "inMaintenanceWindow")'
           /\ GetFwUpdate(p) => At(p, "setFw")' \/ At(p, "inMaintenanceWindow")'
           /\ InMaintenanceWindow(p) =>
                /\ Arg(p) = Outage
                /\ (window /\ todo'[p] = << >>) \/ (~window /\ At(p, "existing")')
           /\ Existing(p) =>
                /\ Arg(p) = Outage
                /\ \/ open[Outage] > 0 /\ todo'[p] = << >>
                   \/ At(p, "insert")'
           /\ Insert(p) \/ Resolve(p) => Arg(p) = Outage /\ todo'[p] = << >>
  <1>0. ListsOK /\ p \in Task /\ \A op, arg : Do(op, arg).op = op
    BY DEF TypeInv, Task, Do
  <1>1. /\ Head(<<RaiseAlert(Outage)>>).op = "inMaintenanceWindow"
        /\ Head(<<ResolveAlert(Outage)>>).op = "resolve"
        /\ Head(<<Do("getFw", NoArg), RaiseAlert(Outage)>>).op = "getFw"
        /\ \A x, y : <<x>> # << >> /\ <<x, y>> # << >>
    BY DEF Do, RaiseAlert, ResolveAlert
  <1> HIDE DEF Do
  <1>2. SetStatus(p) =>
            \/ Arg(p).status = "offline" /\ At(p, "getFw")'
            \/ Arg(p).status = "online" /\ At(p, "resolve")'
    <2> SUFFICES ASSUME SetStatus(p)
                 PROVE  \/ Arg(p).status = "offline" /\ At(p, "getFw")'
                        \/ Arg(p).status = "online" /\ At(p, "resolve")'
      OBVIOUS
    <2>1. todo'[p] = Tail(todo[p])
      BY <1>0, CommonHeads
    <2>2. At(p, "status")
      BY DEF SetStatus
    <2>3. \/ /\ Arg(p).status = "offline"
             /\ todo'[p] = <<Do("getFw", NoArg), RaiseAlert(Outage)>>
          \/ Arg(p).status = "online" /\ todo'[p] = <<ResolveAlert(Outage)>>
      BY <1>0, <2>1, <2>2, PollAt
    <2>4. /\ todo'[p] = <<Do("getFw", NoArg), RaiseAlert(Outage)>> => At(p, "getFw")'
          /\ todo'[p] = <<ResolveAlert(Outage)>> => At(p, "resolve")'
      BY <1>1 DEF At
    <2> QED BY <2>3, <2>4
  <1>3. SetFwUpdate(p) => At(p, "inMaintenanceWindow")'
    <2> SUFFICES ASSUME SetFwUpdate(p) PROVE At(p, "inMaintenanceWindow")'
      OBVIOUS
    <2>1. todo'[p] = Tail(todo[p])
      BY <1>0, CommonHeads
    <2>2. At(p, "setFw")
      BY DEF SetFwUpdate
    <2>3. todo'[p] = <<RaiseAlert(Outage)>>
      BY <1>0, <2>1, <2>2, PollAt
    <2> QED BY <1>1, <2>3 DEF At
  <1>4. GetFwUpdate(p) => At(p, "setFw")' \/ At(p, "inMaintenanceWindow")'
    BY PollHeads DEF At
  <1>5. ASSUME NEW op \in {"inMaintenanceWindow", "existing", "insert", "resolve"}, At(p, op)
        PROVE  /\ Arg(p) = Outage /\ todo[p] # << >>
               /\ Continue(p, Rest(p)) => todo'[p] = << >>
    BY <1>0, <1>5, PollAt DEF At, Continue, Rest, ListsOK
  <1>6. InMaintenanceWindow(p) =>
            /\ Arg(p) = Outage
            /\ (window /\ todo'[p] = << >>) \/ (~window /\ At(p, "existing")')
    <2> SUFFICES ASSUME InMaintenanceWindow(p)
                 PROVE  /\ Arg(p) = Outage
                        /\ (window /\ todo'[p] = << >>) \/ (~window /\ At(p, "existing")')
      OBVIOUS
    <2>1. At(p, "inMaintenanceWindow") /\ (window => Continue(p, Rest(p)))
      BY DEF InMaintenanceWindow
    <2>2. ~window => Next1(p, Do("existing", Arg(p)))
      BY <1>0, RaiseHeads
    <2>3. ~window => At(p, "existing")'
      BY <1>0, <2>2 DEF Next1, At
    <2> QED BY <1>5, <2>1, <2>3
  <1>7. Existing(p) =>
            /\ Arg(p) = Outage
            /\ \/ open[Outage] > 0 /\ todo'[p] = << >>
               \/ At(p, "insert")'
    <2> SUFFICES ASSUME Existing(p)
                 PROVE  /\ Arg(p) = Outage
                        /\ \/ open[Outage] > 0 /\ todo'[p] = << >>
                           \/ At(p, "insert")'
      OBVIOUS
    <2>1. At(p, "existing") /\ (open[Arg(p)] > 0 => Continue(p, Rest(p)))
      BY DEF Existing
    <2> QED BY <1>0, <1>5, <2>1, RaiseHeads DEF Next1, At
  <1>8. Insert(p) \/ Resolve(p) => Arg(p) = Outage /\ todo'[p] = << >>
    BY <1>5 DEF Insert, Resolve
  <1> QED BY <1>2, <1>3, <1>4, <1>6, <1>7, <1>8

\* Of the steps, those a poll's next statement, the status, the open outage alerts or
\* the excuse depend on.
LEMMA Steps ==
    ASSUME [Next]_vars
    PROVE  \/ \E t \in Task : SetStatus(t) \/ SetFwUpdate(t) \/ Raise(t) \/ Resolve(t) \/ Fails(t)
           \/ /\ status' = status /\ open' = open /\ excused' = excused
              /\ \/ todo' = todo
                 \/ \E p \in Poll : PollStart(p) \/ Probe(p) \/ GetFwUpdate(p)
                 \/ \E r \in Refresh :
                       \/ RefreshStart(r, TRUE) \/ RefreshStart(r, FALSE) \/ Session(r)
                       \/ ReadPackage(r) \/ Reconcile(r) \/ ReadInterfaces(r)
                       \/ PrevPorts(r) \/ UpsertPorts(r)
           \/ /\ status' = status /\ todo' = todo
              /\ \E k \in Kind : ResolveByHand(k)
  <1> DEFINE Quiet == status' = status /\ open' = open /\ excused' = excused
  <1>1. ASSUME NEW p \in Poll, PollStart(p) \/ Probe(p) \/ GetFwUpdate(p) PROVE Quiet
    BY <1>1 DEF PollStart, Probe, GetFwUpdate, tables
  <1>2. ASSUME NEW r \in Refresh,
               \/ RefreshStart(r, TRUE) \/ RefreshStart(r, FALSE) \/ Session(r)
               \/ ReadPackage(r) \/ Reconcile(r) \/ ReadInterfaces(r) \/ PrevPorts(r)
               \/ UpsertPorts(r)
        PROVE  Quiet
    BY <1>2 DEF RefreshStart, Session, ReadPackage, Reconcile, ReadInterfaces, PrevPorts,
       UpsertPorts, tables
  <1>3. CASE \/ MaintenanceWindow \/ DownloadRouterosPackage \/ RebootRouterosDevice
             \/ FwUpdateExpires \/ GoesDown \/ ComesBack \/ HealthChanges \/ PortChanges
             \/ HourPasses \/ UNCHANGED vars
    <2>1. Quiet /\ todo' = todo
      BY <1>3 DEF MaintenanceWindow, DownloadRouterosPackage, RebootRouterosDevice,
         FwUpdateExpires, GoesDown, ComesBack, HealthChanges, PortChanges, HourPasses,
         tables, vars
    <2> QED BY <2>1
  <1>4. \A k \in Kind : ResolveByHand(k) => status' = status /\ todo' = todo
    BY DEF ResolveByHand
  <1> QED BY <1>1, <1>2, <1>3, <1>4
          DEF Next, Polling, Refreshing, PollStep, RefreshStep, World, Task

LEMMA OfflineStep ==
    ASSUME OnePoll, TypeInv, OfflineInv, [Next]_vars
    PROVE  OfflineInv'
  <1>1. vendor' = vendor
    BY VendorStays
  <1>2. open \in [Kind -> Nat] /\ ListsOK
    BY DEF TypeInv, RowsOK, TypeOK
  <1> DEFINE Shown == open[Outage] > 0 \/ \E p \in Poll : Alerting(p)
             Resolving == \E p \in Poll : At(p, "resolve")
  <1> SUFFICES ASSUME vendor # "aruba",
                      status = "offline" /\ ~excused => Shown,
                      Resolving => status # "offline"
               PROVE  /\ status' = "offline" /\ ~excused' => Shown'
                      /\ Resolving' => status' # "offline"
    BY <1>1 DEF OfflineInv, Outage
  <1>3. \A p \in Poll : p \in Task /\ p \notin Refresh
    BY DEF Task
  <1>4. ASSUME NEW t \in Task, Others(t), NEW p \in Poll, p # t
        PROVE  todo'[p] = todo[p]
    BY <1>3, <1>4 DEF Others
  <1>5. ASSUME NEW p \in Poll, todo'[p] = todo[p]
        PROVE  /\ Alerting(p) => Alerting(p)'
               /\ \A op : At(p, op)' <=> At(p, op)
    BY <1>5 DEF Alerting, At
  <1>6. ASSUME NEW p \in Poll, NEW q \in Poll PROVE p = q
    BY DEF OnePoll
  <1>7. ASSUME NEW t \in Task, SetStatus(t)
        PROVE  /\ status' = "offline" /\ ~excused' => Shown'
               /\ Resolving' => status' # "offline"
    <2>1. CASE t \in Refresh
      <3>1. status' = "online"
        BY <1>2, <1>7, <2>1, RefreshAt DEF SetStatus
      <3> QED BY <3>1
    <2>2. CASE t \in Poll
      <3>1. status' = Arg(t).status
        BY <1>7 DEF SetStatus
      <3>2. CASE Arg(t).status = "offline" /\ At(t, "getFw")'
        <4>1. ~Resolving'
          BY <1>6, <2>2, <3>2 DEF At
        <4>2. Alerting(t)'
          BY <3>2 DEF Alerting
        <4> QED BY <2>2, <4>1, <4>2
      <3>3. CASE Arg(t).status = "online"
        BY <3>1, <3>3
      <3> QED BY <1>7, <2>2, <3>2, <3>3, PollNext
    <2> QED BY <2>1, <2>2 DEF Task
  <1>8. ASSUME status' = status, excused => excused', Shown /\ ~excused' => Shown',
               Resolving' => Resolving
        PROVE  /\ status' = "offline" /\ ~excused' => Shown'
               /\ Resolving' => status' # "offline"
    BY <1>8
  <1>9. ASSUME NEW p \in Poll, At(p, "getFw")' \/ At(p, "setFw")' \/ At(p, "inMaintenanceWindow")'
                               \/ At(p, "existing")' \/ At(p, "insert")'
        PROVE  Shown' /\ ~Resolving'
    <2>1. Alerting(p)'
      BY <1>9 DEF Alerting
    <2>2. ~Resolving'
      BY <1>6, <1>9 DEF At
    <2> QED BY <2>1, <2>2
  <1>10. ASSUME NEW p \in Poll, todo'[p] = << >> PROVE ~Resolving'
    BY <1>6, <1>10 DEF At
  <1>11. ASSUME NEW t \in Task, SetFwUpdate(t) \/ Raise(t) \/ Resolve(t) \/ Fails(t)
         PROVE  /\ status' = status /\ (excused => excused')
                /\ Shown /\ ~excused' /\ status = "offline" => Shown'
                /\ Resolving' => Resolving
    <2>1. status' = status /\ (excused => excused')
      <3>1. CASE SetFwUpdate(t) \/ Existing(t) \/ Insert(t) \/ Resolve(t)
        BY <3>1 DEF SetFwUpdate, Existing, Insert, Resolve, tables
      <3>2. CASE InMaintenanceWindow(t)
        <4>1. status' = status /\ excused' = (excused \/ (window /\ Arg(t) = "device_offline"))
          BY <3>2 DEF InMaintenanceWindow, tables
        <4> QED BY <4>1
      <3>3. CASE Fails(t)
        <4>1. /\ status' = status
              /\ excused' = (excused \/ (t \in Poll /\ ~At(t, "probe") /\ ~At(t, "status")))
          BY <3>3 DEF Fails, tables
        <4> QED BY <4>1
      <3> QED BY <1>11, <3>1, <3>2, <3>3 DEF Raise
    <2>2. Others(t)
      BY <1>11, CommonHeads, RaiseHeads DEF Raise
    <2>3. CASE t \in Refresh
      <3>1. \A p \in Poll : todo'[p] = todo[p]
        BY <1>3, <1>4, <2>2, <2>3
      <3>2. open'[Outage] >= open[Outage]
        <4>1. CASE Resolve(t)
          <5>1. Arg(t) # Outage
            BY <1>2, <2>3, <4>1, RefreshAt DEF Resolve, Outage, RefreshKind
          <5> QED BY <1>2, <4>1, <5>1 DEF Resolve, Kind, Outage
        <4>2. CASE Insert(t)
          BY <1>2, <4>2 DEF Insert, Kind, Outage
        <4>3. CASE open' = open
          BY <1>2, <4>3 DEF Kind, Outage
        <4> QED BY <1>11, <4>1, <4>2, <4>3
                DEF SetFwUpdate, Raise, InMaintenanceWindow, Existing, Fails, tables
      <3>3. open'[Outage] \in Nat /\ open[Outage] \in Nat
        BY <1>2, TypeStep DEF TypeInv, RowsOK, TypeOK, Kind, Outage
      <3>4. Shown => Shown'
        BY <1>5, <3>1, <3>2, <3>3
      <3>5. Resolving' => Resolving
        BY <1>5, <3>1
      <3> QED BY <2>1, <3>4, <3>5
    <2>4. CASE t \in Poll
      <3>1. CASE SetFwUpdate(t)
        BY <1>9, <2>1, <2>4, <3>1, PollNext
      <3>2. CASE InMaintenanceWindow(t)
        <4>1. window => excused'
          BY <2>4, <3>2, PollNext DEF InMaintenanceWindow, Outage
        <4>2. window => ~Resolving'
          BY <1>10, <2>4, <3>2, PollNext
        <4>3. ~window => Shown' /\ ~Resolving'
          BY <1>9, <2>4, <3>2, PollNext
        <4> QED BY <2>1, <4>1, <4>2, <4>3
      <3>3. CASE Existing(t)
        <4>1. open' = open
          BY <3>3 DEF Existing, tables
        <4>2. CASE open[Outage] > 0 /\ todo'[t] = << >>
          BY <1>10, <2>1, <2>4, <4>1, <4>2
        <4>3. CASE At(t, "insert")'
          BY <1>9, <2>1, <2>4, <4>3
        <4> QED BY <2>4, <3>3, <4>2, <4>3, PollNext
      <3>4. CASE Insert(t)
        <4>1. Arg(t) = Outage /\ todo'[t] = << >>
          BY <2>4, <3>4, PollNext
        <4>2. open'[Outage] > 0
          BY <1>2, <3>4, <4>1 DEF Insert, Kind, Outage
        <4> QED BY <1>10, <2>1, <2>4, <4>1, <4>2
      <3>5. CASE Resolve(t)
        <4>1. status # "offline"
          BY <2>4, <3>5 DEF Resolve
        <4>2. ~Resolving'
          BY <1>10, <2>4, <3>5, PollNext
        <4> QED BY <2>1, <4>1, <4>2
      <3>6. CASE Fails(t)
        <4>1. todo'[t] = << >>
          BY <3>6, CommonHeads
        <4>2. open' = open
          BY <3>6 DEF Fails, tables
        <4>3. Alerting(t) => excused'
          BY <2>4, <3>6 DEF Fails, Alerting, At
        <4>4. (\E p \in Poll : Alerting(p)) => Alerting(t)
          BY <1>6, <2>4
        <4> QED BY <1>10, <2>1, <2>4, <4>1, <4>2, <4>3, <4>4
      <3> QED BY <1>11, <3>1, <3>2, <3>3, <3>4, <3>5, <3>6 DEF Raise
    <2> QED BY <2>3, <2>4 DEF Task
  <1>12. ASSUME status' = status, open' = open, excused' = excused,
                \A p \in Poll : todo'[p] = todo[p]
         PROVE  /\ Shown => Shown'
                /\ Resolving' => Resolving
    BY <1>5, <1>12
  <1>13. ASSUME NEW p \in Poll, PollStart(p) \/ Probe(p) \/ GetFwUpdate(p)
         PROVE  /\ Shown => Shown'
                /\ ~Resolving'
    <2>1. open' = open
      BY <1>13 DEF PollStart, Probe, GetFwUpdate, tables
    <2>2. CASE GetFwUpdate(p)
      BY <1>9, <2>2, PollNext
    <2>3. CASE PollStart(p) \/ Probe(p)
      <3>1. ~Alerting(p)
        BY <2>3 DEF PollStart, Probe, Alerting, At
      <3>2. ~Resolving'
        BY <1>6, <2>3, PollHeads DEF At
      <3>3. ~\E q \in Poll : Alerting(q)
        BY <1>6, <3>1
      <3> QED BY <2>1, <3>2, <3>3
    <2> QED BY <1>13, <2>2, <2>3
  <1>14. ASSUME NEW k \in Kind, ResolveByHand(k), status' = status, todo' = todo
         PROVE  /\ excused => excused'
                /\ Shown /\ ~excused' => Shown'
                /\ Resolving' => Resolving
    <2>1. excused' = (excused \/ k = Outage)
      BY <1>14 DEF ResolveByHand, Outage
    <2>2. k # Outage => open'[Outage] = open[Outage]
      BY <1>2, <1>14 DEF ResolveByHand, Kind, Outage
    <2> QED BY <1>5, <1>14, <2>1, <2>2
  <1>15. ASSUME NEW r \in Refresh,
                \/ RefreshStart(r, TRUE) \/ RefreshStart(r, FALSE) \/ Session(r)
                \/ ReadPackage(r) \/ Reconcile(r) \/ ReadInterfaces(r)
                \/ PrevPorts(r) \/ UpsertPorts(r)
         PROVE  \A p \in Poll : todo'[p] = todo[p]
    <2>1. Others(r)
      BY <1>15, RefreshHeads
    <2> QED BY <1>3, <1>4, <2>1 DEF Task
  <1> QED BY <1>7, <1>11, <1>12, <1>13, <1>14, <1>15, Steps

\* A device shown as offline has an open device_offline alert once the poll is through,
\* unless a window suppressed it, a failure lost it or a user closed it; refreshes in any
\* number run meanwhile.  Needs one poll at a time: each sweep ends within the interval.
THEOREM OutagesAreAlerted == ASSUME OnePoll PROVE Spec => []OfflineIsAlerted
  <1>1. Init => OfflineInv
    BY DEF Init, OfflineInv, At, Task
  <1>2. TypeInv /\ OfflineInv /\ [Next]_vars => OfflineInv'
    BY OfflineStep
  <1>3. OfflineInv => OfflineIsAlerted
    <2> SUFFICES ASSUME OfflineInv, vendor # "aruba", status = "offline", ~excused,
                        \A p \in Poll : todo[p] = << >> \/ At(p, "probe")
                 PROVE  open["device_offline"] > 0
      BY DEF OfflineIsAlerted
    <2>1. \A p \in Poll : ~Alerting(p)
      BY DEF Alerting, At
    <2> QED BY <2>1 DEF OfflineInv
  <1> QED BY <1>1, <1>2, <1>3, TypeInvAlways, PTL DEF Spec

-----------------------------------------------------------------------------
(* Flaps. *)

\* What a step does to the ports row, the link and what has been read of them.
LEMMA FlapSteps ==
    ASSUME [Next]_vars
    PROVE  \/ /\ UNCHANGED <<port, link, flips>>
              /\ \/ todo' = todo
                 \/ \E p \in Poll : PollStart(p) \/ Probe(p) \/ GetFwUpdate(p)
                 \/ \E t \in Task :
                       SetStatus(t) \/ SetFwUpdate(t) \/ Raise(t) \/ Resolve(t) \/ Fails(t)
                 \/ \E r \in Refresh :
                       \/ RefreshStart(r, TRUE) \/ RefreshStart(r, FALSE) \/ Session(r)
                       \/ ReadPackage(r) \/ Reconcile(r) \/ ReadInterfaces(r) \/ PrevPorts(r)
           \/ \E r \in Refresh : UpsertPorts(r)
           \/ PortChanges
           \/ HourPasses
  <1> DEFINE Quiet == UNCHANGED <<port, link, flips>>
  <1>1. ASSUME NEW p \in Poll, PollStart(p) \/ Probe(p) \/ GetFwUpdate(p) PROVE Quiet
    BY <1>1 DEF PollStart, Probe, GetFwUpdate, tables, device
  <1>2. ASSUME NEW r \in Refresh,
               \/ RefreshStart(r, TRUE) \/ RefreshStart(r, FALSE) \/ Session(r)
               \/ ReadPackage(r) \/ Reconcile(r) \/ ReadInterfaces(r) \/ PrevPorts(r)
        PROVE  Quiet
    BY <1>2 DEF RefreshStart, Session, ReadPackage, Reconcile, ReadInterfaces, PrevPorts,
       tables, device
  <1>3. ASSUME NEW t \in Task, SetStatus(t) \/ SetFwUpdate(t) \/ Raise(t) \/ Resolve(t) \/ Fails(t)
        PROVE  Quiet
    BY <1>3 DEF SetStatus, SetFwUpdate, Raise, InMaintenanceWindow, Existing, Insert, Resolve,
       Fails, tables, device
  <1>4. CASE \/ MaintenanceWindow \/ DownloadRouterosPackage \/ RebootRouterosDevice
             \/ FwUpdateExpires \/ GoesDown \/ ComesBack \/ HealthChanges
             \/ UNCHANGED vars \/ (\E k \in Kind : ResolveByHand(k))
    <2>1. Quiet /\ todo' = todo
      BY <1>4 DEF MaintenanceWindow, DownloadRouterosPackage, RebootRouterosDevice,
         FwUpdateExpires, GoesDown, ComesBack, HealthChanges, ResolveByHand, tables, device,
         vars
    <2> QED BY <2>1
  <1> QED BY <1>1, <1>2, <1>3, <1>4
          DEF Next, Polling, Refreshing, PollStep, RefreshStep, World, Task

\* How a refresh comes to what counts a flap.
Counting(r) == At(r, "prevPorts") \/ At(r, "upsert")

LEMMA CountingStep ==
    ASSUME TypeInv, [Next]_vars, NEW r \in Refresh, Counting(r)'
    PROVE  \/ todo'[r] = todo[r] /\ ~UpsertPorts(r)
           \/ ReadInterfaces(r) /\ vendor # "routeros" /\ Next1(r, Do("prevPorts", [oper |-> link]))
           \/ vendor = "routeros"
           \/ PrevPorts(r) /\ Next1(r, Do("upsert", DecidePortFlap(port, Arg(r).oper)))
  <1>0. todo'[r] # << >> /\ Head(todo'[r]).op \in {"prevPorts", "upsert"} /\ r \notin Poll
        /\ r \in Task
    BY DEF Counting, At, Task
  <1>1. ~Next0(r) /\ \A x : Next1(r, x) => x.op \in {"prevPorts", "upsert"}
    BY <1>0 DEF Next0, Next1
  <1>2. ~UpsertPorts(r)
    BY <1>1, RefreshHeads
  <1>3. ASSUME NEW t \in Task, Others(t),
               t = r => todo'[r] = << >> \/ Head(todo'[r]).op \notin {"prevPorts", "upsert"}
        PROVE  todo'[r] = todo[r]
    BY <1>0, <1>3 DEF Others
  <1>4. ASSUME NEW t \in Task, SetStatus(t) \/ SetFwUpdate(t) \/ Fails(t)
        PROVE  todo'[r] = todo[r]
    <2>1. Others(t) /\ (todo'[t] = << >> \/ Head(todo'[t]).op \notin {"prevPorts", "upsert"})
      BY <1>4, CommonHeads DEF Next0
    <2> QED BY <1>3, <2>1
  <1>5. ASSUME NEW t \in Task, Raise(t) \/ Resolve(t)
        PROVE  todo'[r] = todo[r]
    <2>1. \A arg : Do("existing", arg).op = "existing" /\ Do("insert", arg).op = "insert"
      BY DEF Do
    <2>2. Others(t) /\ (todo'[t] = << >> \/ Head(todo'[t]).op \notin {"prevPorts", "upsert"})
      BY <1>5, <2>1, RaiseHeads DEF Raise, Next0, Next1
    <2> QED BY <1>3, <2>2
  <1>6. ASSUME NEW p \in Poll, PollStart(p) \/ Probe(p) \/ GetFwUpdate(p)
        PROVE  todo'[r] = todo[r]
    <2>1. Others(p)
      BY <1>6, PollHeads
    <2> QED BY <1>0, <1>3, <2>1 DEF Task
  <1>7. ASSUME NEW s \in Refresh,
               \/ RefreshStart(s, TRUE) \/ RefreshStart(s, FALSE) \/ Session(s)
               \/ ReadPackage(s) \/ Reconcile(s)
        PROVE  todo'[r] = todo[r]
    <2>1. Others(s) /\ (todo'[s] = << >> \/ Head(todo'[s]).op \notin {"prevPorts", "upsert"})
      BY <1>7, RefreshHeads DEF Next0
    <2> QED BY <1>3, <2>1 DEF Task
  <1>8. ASSUME NEW s \in Refresh, ReadInterfaces(s) \/ PrevPorts(s) \/ UpsertPorts(s), s # r
        PROVE  todo'[r] = todo[r]
    <2>1. Others(s)
      BY <1>8, RefreshHeads
    <2> QED BY <1>3, <1>8, <2>1 DEF Task
  <1>9. ASSUME PortChanges \/ HourPasses PROVE todo' = todo
    BY <1>9 DEF PortChanges, HourPasses
  <1>10. ReadInterfaces(r) \/ PrevPorts(r) => 
            \/ ReadInterfaces(r) /\ vendor # "routeros" /\ Next1(r, Do("prevPorts", [oper |-> link]))
            \/ vendor = "routeros"
            \/ PrevPorts(r) /\ Next1(r, Do("upsert", DecidePortFlap(port, Arg(r).oper)))
    BY <1>0, RefreshHeads
  <1> QED BY <1>2, <1>4, <1>5, <1>6, <1>7, <1>8, <1>9, <1>10, FlapSteps

\* A report that comes after another.
LEMMA ChangesAdd ==
    ASSUME NEW a, NEW b \in Link, NEW c \in Link
    PROVE  /\ Changes(a, c) \in 0 .. 1
           /\ Changes(b, b) = 0
           /\ Changes(a, c) <= Changes(a, b) + Changes(b, c)
           /\ b # c => Changes(a, c) <= Changes(a, b) + 1
  BY DEF Changes, Link

\* A row that has been read and compared.
LEMMA DecidePortFlapCounts ==
    ASSUME NEW prev \in PortRow, NEW oper \in Link
    PROVE  LET new == DecidePortFlap(prev, oper)
           IN  new \in PortRow /\ new.oper = oper /\ new.flaps <= prev.flaps + Changes(prev.oper, oper)
  <1>1. prev.flaps \in Nat /\ prev.recent \in BOOLEAN
    BY DEF PortRow
  <1>2. CASE prev.recent
    BY <1>1, <1>2 DEF DecidePortFlap, Changes, PortRow, Link
  <1>3. CASE ~prev.recent
    BY <1>1, <1>3 DEF DecidePortFlap, Changes, PortRow, Link
  <1> QED BY <1>1, <1>2, <1>3

\* The parts of FlapInv for one refresh.
ReadBound(r) ==
    At(r, "prevPorts") =>
        port.flaps + Changes(port.oper, Arg(r).oper) + Changes(Arg(r).oper, link) <= flips
WriteBound(r) ==
    At(r, "upsert") => Arg(r).flaps + Changes(Arg(r).oper, link) <= flips

LEMMA FlapStep ==
    ASSUME TypeInv, SessionInv, FlapInv, [Next]_vars
    PROVE  FlapInv'
  <1>0. /\ vendor' = vendor /\ vendor \in {"cisco", "routeros", "aruba"} /\ ListsOK
        /\ port \in PortRow /\ link \in Link /\ link' \in Link
    BY VendorStays, TypeStep DEF TypeInv, RowsOK, TypeOK, Link
  <1>1. flips' \in Nat
    <2>1. CASE \E r \in Refresh : UpsertPorts(r)
      BY <2>1 DEF FlapInv, UpsertPorts
    <2>2. CASE PortChanges \/ HourPasses
      BY <2>2 DEF FlapInv, PortChanges, HourPasses
    <2>3. CASE flips' = flips
      BY <2>3 DEF FlapInv
    <2> QED BY <2>1, <2>2, <2>3, FlapSteps
  <1>2. CASE vendor = "routeros"
    <2>1. CASE \E r \in Refresh : UpsertPorts(r)
      BY <1>0, <1>1, <1>2, <2>1 DEF FlapInv, UpsertPorts, PortRow
    <2>2. CASE HourPasses
      BY <1>0, <1>1, <1>2, <2>2 DEF FlapInv, HourPasses, PortRow
    <2>3. CASE port' = port
      BY <1>0, <1>1, <1>2, <2>3 DEF FlapInv
    <2>4. PortChanges => port' = port
      BY DEF PortChanges, tables
    <2> QED BY <2>1, <2>2, <2>3, <2>4, FlapSteps
  <1>3. CASE vendor = "aruba"
    BY <1>0, <1>1, <1>3 DEF FlapInv
  <1>4. CASE vendor = "cisco"
    <2>0. /\ flips \in Nat /\ port.flaps \in Nat
          /\ port.flaps + Changes(port.oper, link) <= flips
          /\ \A r \in Refresh : ReadBound(r) /\ WriteBound(r)
      BY <1>0, <1>4 DEF FlapInv, ReadBound, WriteBound, PortRow
    <2> SUFFICES /\ port'.flaps + Changes(port'.oper, link') <= flips'
                 /\ \A r \in Refresh : ReadBound(r)' /\ WriteBound(r)'
      BY <1>0, <1>1, <1>4 DEF FlapInv, ReadBound, WriteBound
    <2>1. ASSUME UNCHANGED <<port, link, flips>>, NEW r \in Refresh, ~UpsertPorts(r)
          PROVE  ReadBound(r)' /\ WriteBound(r)'
      <3> SUFFICES ASSUME Counting(r)' PROVE ReadBound(r)' /\ WriteBound(r)'
        BY DEF Counting, ReadBound, WriteBound
      <3>1. CASE todo'[r] = todo[r]
        BY <2>0, <2>1, <3>1 DEF ReadBound, WriteBound, At, Arg
      <3>2. CASE ReadInterfaces(r) /\ Next1(r, Do("prevPorts", [oper |-> link]))
        <4>1. Head(todo'[r]) = [op |-> "prevPorts", arg |-> [oper |-> link]]
          BY <3>2 DEF Next1, Do
        <4>2. ~At(r, "upsert")' /\ Arg(r)'.oper = link
          BY <4>1 DEF At, Arg
        <4>3. Changes(link, link) = 0 /\ Changes(port.oper, link) \in 0 .. 1
          BY <1>0, ChangesAdd
        <4> QED BY <2>0, <2>1, <4>2, <4>3 DEF ReadBound, WriteBound
      <3>3. CASE PrevPorts(r) /\ Next1(r, Do("upsert", DecidePortFlap(port, Arg(r).oper)))
        <4> DEFINE new == DecidePortFlap(port, Arg(r).oper)
        <4>1. At(r, "prevPorts") /\ Arg(r).oper \in Link
          BY <1>0, <3>3, RefreshAt DEF PrevPorts
        <4>2. new \in PortRow /\ new.oper = Arg(r).oper
              /\ new.flaps <= port.flaps + Changes(port.oper, Arg(r).oper)
          BY <1>0, <4>1, DecidePortFlapCounts
        <4>3. port.flaps + Changes(port.oper, Arg(r).oper) + Changes(Arg(r).oper, link) <= flips
          BY <2>0, <4>1 DEF ReadBound
        <4>4. Next1(r, Do("upsert", new))
          BY <3>3
        <4> HIDE DEF new
        <4>5. Head(todo'[r]) = [op |-> "upsert", arg |-> new]
          BY <4>4 DEF Next1, Do
        <4>6. ~At(r, "prevPorts")' /\ Arg(r)' = new
          BY <4>5 DEF At, Arg
        <4>7. /\ new.flaps \in Nat /\ Changes(Arg(r).oper, link) \in 0 .. 1
              /\ Changes(port.oper, Arg(r).oper) \in 0 .. 1
          BY <1>0, <4>1, <4>2, ChangesAdd DEF PortRow
        <4>8. new.flaps + Changes(new.oper, link) <= flips
          BY <2>0, <4>2, <4>3, <4>7
        <4> QED BY <2>1, <4>6, <4>8 DEF ReadBound, WriteBound
      <3> QED BY <1>4, <3>1, <3>2, <3>3, CountingStep
    <2>2. ASSUME NEW s \in Refresh, UpsertPorts(s)
          PROVE  /\ port'.flaps + Changes(port'.oper, link') <= flips'
                 /\ \A r \in Refresh : ReadBound(r)' /\ WriteBound(r)'
      <3>1. /\ At(s, "upsert") /\ port' = Arg(s) /\ UNCHANGED <<link, flips>>
        BY <1>4, <2>2 DEF UpsertPorts, device
      <3>2. ASSUME NEW r \in Refresh PROVE ~Counting(r)'
        <4> SUFFICES ASSUME Counting(r)' PROVE FALSE
          OBVIOUS
        <4>1. \/ todo'[r] = todo[r] /\ ~UpsertPorts(r)
              \/ ReadInterfaces(r) \/ PrevPorts(r)
          BY <1>4, CountingStep
        <4>2. ~Idle(r)
          BY <4>1 DEF Counting, Idle, At, ReadInterfaces, PrevPorts
        <4>3. ~Idle(s)
          BY <3>1 DEF Idle, At
        <4>4. r = s
          BY <1>4, <4>2, <4>3 DEF SessionInv
        <4> QED BY <2>2, <3>1, <4>1, <4>4 DEF At, ReadInterfaces, PrevPorts
      <3>3. port'.flaps + Changes(port'.oper, link') <= flips'
        BY <2>0, <3>1 DEF WriteBound
      <3> QED BY <3>2, <3>3 DEF Counting, ReadBound, WriteBound
    <2>3. CASE PortChanges
      <3>1. /\ port' = port /\ todo' = todo /\ flips' = flips + 1 /\ link' # link
        BY <1>0, <2>3 DEF PortChanges, tables, Link
      <3>2. \A a : /\ Changes(a, link) \in 0 .. 1 /\ Changes(a, link') \in 0 .. 1
                   /\ Changes(a, link') <= Changes(a, link) + 1
        BY <1>0, <3>1, ChangesAdd
      <3>3. port'.flaps + Changes(port'.oper, link') <= flips'
        BY <2>0, <3>1, <3>2
      <3>4. ASSUME NEW r \in Refresh PROVE ReadBound(r)' /\ WriteBound(r)'
        <4>1. At(r, "prevPorts") => Arg(r).oper \in Link
          BY <1>0, RefreshAt
        <4>2. At(r, "upsert") => Arg(r).flaps \in Nat
          BY <1>0, <1>4, RefreshAt DEF PortRow
        <4>3. At(r, "prevPorts") => Changes(port.oper, Arg(r).oper) \in 0 .. 1
          BY <4>1, ChangesAdd
        <4>4. ReadBound(r)'
          <5>1. At(r, "prevPorts")' <=> At(r, "prevPorts")
            BY <3>1 DEF At
          <5>2. Arg(r)' = Arg(r)
            BY <3>1 DEF Arg
          <5> QED BY <2>0, <3>1, <3>2, <4>3, <5>1, <5>2 DEF ReadBound
        <4>5. WriteBound(r)'
          <5>1. At(r, "upsert")' <=> At(r, "upsert")
            BY <3>1 DEF At
          <5>2. Arg(r)' = Arg(r)
            BY <3>1 DEF Arg
          <5> QED BY <2>0, <3>1, <3>2, <4>2, <5>1, <5>2 DEF WriteBound
        <4> QED BY <4>4, <4>5
      <3> QED BY <3>3, <3>4
    <2>4. CASE HourPasses
      <3>1. /\ port'.flaps = port.flaps /\ port'.oper = port.oper
            /\ todo' = todo /\ flips' = flips /\ link' = link
        BY <1>0, <2>4 DEF HourPasses, device, PortRow
      <3> QED BY <2>0, <3>1 DEF ReadBound, WriteBound, At, Arg
    <2>5. ASSUME UNCHANGED <<port, link, flips>>, ~(\E s \in Refresh : UpsertPorts(s))
          PROVE  /\ port'.flaps + Changes(port'.oper, link') <= flips'
                 /\ \A r \in Refresh : ReadBound(r)' /\ WriteBound(r)'
      BY <2>0, <2>1, <2>5
    <2> QED BY <2>2, <2>3, <2>4, <2>5, FlapSteps
  <1> QED BY <1>0, <1>2, <1>3, <1>4

\* No flap is counted that the port did not make, for any number of polls and refreshes
\* that read, compute and write back, with the rows of their types.  The session is what
\* keeps a refresh from writing over what another one has read.
THEOREM FlapsAreCounted == Spec => []PortsAreReal
  <1>1. Init => FlapInv
    <2> SUFFICES ASSUME Init PROVE FlapInv
      OBVIOUS
    <2>1. \A r \in Refresh : ~At(r, "prevPorts") /\ ~At(r, "upsert")
      BY DEF Init, At, Task
    <2>2. port.flaps = 0 /\ Changes(port.oper, link) = 0 /\ flips = 0
      BY DEF Init, Changes
    <2> QED BY <2>1, <2>2 DEF FlapInv
  <1>2. TypeInv /\ SessionInv /\ FlapInv /\ [Next]_vars => FlapInv'
    BY FlapStep
  <1>3. TypeInv /\ FlapInv => PortsAreReal
    <2> SUFFICES ASSUME TypeInv, FlapInv PROVE PortsAreReal
      OBVIOUS
    <2>1. vendor \in {"cisco", "routeros", "aruba"} /\ TypeOK /\ port \in PortRow /\ link \in Link
      BY DEF TypeInv, RowsOK, TypeOK, Link
    <2>2. Changes(port.oper, link) \in 0 .. 1 /\ port.flaps \in Nat
      BY <2>1, ChangesAdd DEF PortRow
    <2>3. vendor # "aruba" => port.flaps <= flips
      BY <2>1, <2>2 DEF FlapInv
    <2> QED BY <2>1, <2>3 DEF PortsAreReal, FlapsAreReal
  <1> QED BY <1>1, <1>2, <1>3, TypeInvAlways, SessionInvAlways, PTL DEF Spec

=============================================================================
