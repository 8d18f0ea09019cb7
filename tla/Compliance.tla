------------------------------- MODULE Compliance -------------------------------
(***************************************************************************)
(* Compliance and drift of one device: complianceService.ts, checkDrift()   *)
(* of configService.ts, the sweeps of scheduler.ts and the routes that      *)
(* evaluate, remediate and edit (routes/compliance.ts, routes/configs.ts).  *)
(*                                                                         *)
(* A configuration is the set of its lines; a rule wants one line present   *)
(* or absent, and its remediation adds or removes it.  Backups and their    *)
(* history are in ConfigHistory: evaluation looks at the newest one alone.  *)
(*                                                                         *)
(* An actor is the list of statements it has left; what it has read goes    *)
(* along in their arguments.                                                *)
(***************************************************************************)
EXTENDS Naturals, Sequences

CONSTANTS
    Line,
    Rule,
    Actor,            \* "sweep", "drift" and what users have under way
    NULL,
    LineOf,           \* LineOf[r]: the line rule r is about
    Wanted,           \* the rules that want their line (the others forbid it)
    AutoRules,        \* the rules with auto_remediate
    MasterSwitch,     \* COMPLIANCE_AUTO_REMEDIATE
    BaselineAuto,     \* auto_remediate of the baselines that are set
    RestoreOnFail,    \* TRUE: an automation rule restores the baseline on compliance_fail
    MaxEvents         \* bound: things that happen from outside

ASSUME RuleAssumption == LineOf \in [Rule -> Line] /\ Wanted \subseteq Rule /\ AutoRules \subseteq Rule
ASSUME ActorAssumption == {"sweep", "drift"} \subseteq Actor
ASSUME ModeAssumption == {MasterSwitch, BaselineAuto, RestoreOnFail} \subseteq BOOLEAN

VARIABLES
    live,             \* the device's running configuration
    latest,           \* its newest config_backups row, NULL: none
    results,          \* results[r]: compliance_results, "none": no row
    enabled,          \* the enabled rules
    base,             \* config_baselines: NULL or the configuration pinned
    window,           \* a maintenance window of the device is open
    up,               \* the device answers
    drifted,          \* a config_drift alert is open
    todo,             \* todo[a]: the statements left to actor a
    events,           \* things that have happened from outside
    closed            \* history: closed[a]: no window was open at some time since a began

world == <<live, window, up>>
tables == <<latest, results, enabled, base, drifted>>
vars == <<world, tables, todo, events, closed>>

Init ==
    /\ live \in SUBSET Line
    /\ latest = NULL /\ base = NULL
    /\ results = [r \in Rule |-> "none"]
    /\ enabled = Rule
    /\ window = FALSE /\ up = TRUE /\ drifted = FALSE
    /\ todo = [a \in Actor |-> << >>]
    /\ events = 0
    /\ closed = [a \in Actor |-> FALSE]

-----------------------------------------------------------------------------
Do(op, arg) == <<[op |-> op, arg |-> arg]>>
At(a, op) == todo[a] # << >> /\ Head(todo[a]).op = op
Arg(a) == Head(todo[a]).arg
Rest(a) == Tail(todo[a])
Continue(a, list) == todo' = [todo EXCEPT ![a] = list]
Free(a) == todo[a] = << >>

\* evaluateRule()
Verdict(r, config) == IF (LineOf[r] \in config) = (r \in Wanted) THEN "pass" ELSE "fail"
\* Mutant: "no <line>" is taken for a line to add.
FixedLiteral(r, config) == config \cup {IF r \in Wanted THEN LineOf[r] ELSE "no"}

\* A remediation's effect on the device.
Fixed(r, config) == IF r \in Wanted THEN config \cup {LineOf[r]} ELSE config \ {LineOf[r]}

\* Mutant: no backup after the push.
RemedyUnseen(r) == Do("read", NULL) \o Do("push", r) \o Do("latest", NULL)

BackupList == Do("read", NULL)
EvaluateList == Do("latest", NULL)
\* remediate()
Remedy(r) == BackupList \o Do("push", r) \o BackupList \o EvaluateList

Begin(a, list) ==
    /\ Free(a)
    /\ Continue(a, list)
    /\ closed' = [closed EXCEPT ![a] = ~window]
    /\ UNCHANGED <<world, tables>>

\* evaluateAllCompliance({fresh: true}) for this device; `online` is what the sweep's
\* SELECT says of it.
Sweep(online) ==
    /\ Begin("sweep", IF online THEN BackupList \o EvaluateList \o Do("select", NULL)
                      ELSE EvaluateList)
    /\ UNCHANGED events
DriftCheck == Begin("drift", Do("drift", NULL)) /\ UNCHANGED events

Happens == events < MaxEvents /\ events' = events + 1

UserEvaluates(a, fresh) ==
    Happens /\ Begin(a, IF fresh THEN BackupList \o EvaluateList ELSE EvaluateList)
UserRemediates(a, r) == Happens /\ Begin(a, Remedy(r))

-----------------------------------------------------------------------------
\* backupDevice(): the device is read, the row stored unless it equals the newest.
ReadDevice(a) ==
    /\ At(a, "read") /\ up
    /\ Continue(a, Do("store", live) \o Rest(a))
    /\ UNCHANGED <<world, tables, events, closed>>

StoreBackup(a) ==
    /\ At(a, "store")
    /\ latest' = Arg(a)
    /\ Continue(a, Rest(a))
    /\ UNCHANGED <<world, results, enabled, base, drifted, events, closed>>

\* evaluateDevice(): the newest backup, the rules and the results before.
ReadLatest(a) ==
    /\ At(a, "latest")
    /\ Continue(a, IF latest = NULL THEN Rest(a)
                   ELSE Do("rules", [config |-> latest, rules |-> enabled, prior |-> results]) \o Rest(a))
    /\ UNCHANGED <<world, tables, events, closed>>

\* One rule after the other.  On a pass that has become a fail the automation runs first.
Trigger(a) ==
    /\ At(a, "rules")
    /\ \E r \in Arg(a).rules :
          /\ Verdict(r, Arg(a).config) = "fail" /\ Arg(a).prior[r] = "pass"
          /\ LET after == Do("rules", [Arg(a) EXCEPT !.prior[r] = "fail"]) \o Rest(a)
             IN  Continue(a, IF RestoreOnFail /\ ~window THEN Do("drift", NULL) \o after ELSE after)
    /\ UNCHANGED <<world, tables, events, closed>>

\* The upsert.  The row of a rule disabled meanwhile is dropped below.
EvaluateRule(a) ==
    /\ At(a, "rules")
    /\ \E r \in Arg(a).rules :
          LET verdict == Verdict(r, Arg(a).config)
          IN  /\ verdict = "pass" \/ Arg(a).prior[r] # "pass"
              /\ results' = [results EXCEPT ![r] = verdict]
              /\ Continue(a, Do("rules", [Arg(a) EXCEPT !.rules = @ \ {r}]) \o Rest(a))
    /\ UNCHANGED <<world, latest, enabled, base, drifted, events, closed>>

\* Mutant: results of rules that no longer apply are kept.
DropStaleNone(a) ==
    /\ At(a, "rules") /\ Arg(a).rules = {}
    /\ Continue(a, Rest(a))
    /\ UNCHANGED <<world, tables, events, closed>>

DropStale(a) ==
    /\ At(a, "rules") /\ Arg(a).rules = {}
    /\ results' = [r \in Rule |-> IF r \in enabled THEN results[r] ELSE "none"]
    /\ Continue(a, Rest(a))
    /\ UNCHANGED <<world, latest, enabled, base, drifted, events, closed>>

-----------------------------------------------------------------------------
\* Mutant: the rules without auto_remediate.
SelectFailedOthers(a) ==
    /\ At(a, "select")
    /\ LET failed == {r \in enabled \ AutoRules : results[r] = "fail"}
       IN  Continue(a, IF MasterSwitch /\ failed # {} THEN Do("window", failed) ELSE << >>)
    /\ UNCHANGED <<world, tables, events, closed>>

\* autoRemediateDevice(): the failed rules, then the window, once.
SelectFailed(a) ==
    /\ At(a, "select")
    /\ LET failed == {r \in enabled \cap AutoRules : results[r] = "fail"}
       IN  Continue(a, IF MasterSwitch /\ failed # {} THEN Do("window", failed) ELSE << >>)
    /\ UNCHANGED <<world, tables, events, closed>>

\* Mutant: nobody looks at the maintenance windows.
AskWindowNot(a) ==
    /\ At(a, "window")
    /\ Continue(a, Do("remedies", Arg(a)))
    /\ UNCHANGED <<world, tables, events, closed>>

AskWindow(a) ==
    /\ At(a, "window")
    /\ Continue(a, IF window THEN << >> ELSE Do("remedies", Arg(a)))
    /\ UNCHANGED <<world, tables, events, closed>>

NextRemedy(a) ==
    /\ At(a, "remedies")
    /\ IF Arg(a) = {} THEN Continue(a, << >>)
       ELSE \E r \in Arg(a) : Continue(a, Remedy(r) \o Do("remedies", Arg(a) \ {r}))
    /\ UNCHANGED <<world, tables, events, closed>>

PushRemedy(a) ==
    /\ At(a, "push") /\ up
    /\ live' = Fixed(Arg(a), live)
    /\ Continue(a, Rest(a))
    /\ UNCHANGED <<window, up, tables, events, closed>>

-----------------------------------------------------------------------------
\* checkDrift(): the baseline, then the device.
Compare(a) ==
    /\ At(a, "drift") /\ up
    /\ Continue(a, IF base = NULL \/ base = live THEN Rest(a)
                   ELSE Do("alert", NULL) \o (IF BaselineAuto THEN Do("restore", base) \o Do("alert", NULL)
                                              ELSE << >>) \o Rest(a))
    /\ UNCHANGED <<world, tables, events, closed>>

\* raiseAlert(): one open alert of the kind, none in a maintenance window.
RaiseDrift(a) ==
    /\ At(a, "alert")
    /\ drifted' = (drifted \/ ~window)
    /\ Continue(a, Rest(a))
    /\ UNCHANGED <<world, latest, results, enabled, base, events, closed>>

\* Mutant: comment lines end the replay.
RestoreSome(a) ==
    /\ At(a, "restore") /\ up
    /\ \E lines \in SUBSET Arg(a) : lines # Arg(a) /\ live' = live \cup lines
    /\ Continue(a, Rest(a))
    /\ UNCHANGED <<window, up, tables, events, closed>>

\* The baseline's lines are replayed: what has been added since stays.
RestoreBaseline(a) ==
    /\ At(a, "restore") /\ up
    /\ live' = live \cup Arg(a)
    /\ Continue(a, Rest(a))
    /\ UNCHANGED <<window, up, tables, events, closed>>

-----------------------------------------------------------------------------
\* An exchange with the device fails.  In the loop of remedies, and in a trigger's
\* drift check, the error is logged and what follows goes on; else it ends the device's turn.
Catches == {"remedies", "rules"}
Caught(list) ==
    LET stops == {i \in 2..Len(list) : list[i].op \in Catches}
    IN  IF stops = {} THEN << >>
        ELSE SubSeq(list, CHOOSE i \in stops : \A k \in stops : i <= k, Len(list))

ExchangeFails(a) ==
    /\ \E op \in {"read", "push", "drift", "restore"} : At(a, op)
    /\ ~up
    /\ Continue(a, Caught(todo[a]))
    /\ UNCHANGED <<world, tables, events, closed>>

\* The row of a rule deleted meanwhile is refused (its foreign key).
RuleIsGone(a) ==
    /\ At(a, "rules") /\ Arg(a).rules \ enabled # {}
    /\ Continue(a, Caught(todo[a]))
    /\ UNCHANGED <<world, tables, events, closed>>

OutOfBand(config) ==
    /\ Happens /\ config # live
    /\ live' = config
    /\ UNCHANGED <<window, up, tables, todo, closed>>

Window ==
    /\ Happens
    /\ window' = ~window
    /\ closed' = [a \in Actor |-> closed[a] \/ ~window']
    /\ UNCHANGED <<live, up, tables, todo>>

UpDown ==
    /\ Happens
    /\ up' = ~up
    /\ UNCHANGED <<live, window, tables, todo, closed>>

\* PUT and DELETE /api/compliance/rules/:id (a deleted rule takes its results along).
EditRule(r) ==
    /\ Happens
    /\ enabled' = IF r \in enabled THEN enabled \ {r} ELSE enabled \cup {r}
    /\ \/ UNCHANGED results
       \/ r \in enabled /\ results' = [results EXCEPT ![r] = "none"]
    /\ UNCHANGED <<world, latest, base, drifted, todo, closed>>

\* PUT /api/devices/:id/baseline
SetBaseline ==
    /\ Happens /\ latest # NULL
    /\ base' = latest
    /\ UNCHANGED <<world, latest, results, enabled, drifted, todo, closed>>

\* The alert is resolved by an operator; no code does it.
ResolveDrift ==
    /\ Happens /\ drifted
    /\ drifted' = FALSE
    /\ UNCHANGED <<world, latest, results, enabled, base, todo, closed>>

ActorStep(a) ==
    \/ ReadDevice(a) \/ StoreBackup(a) \/ ReadLatest(a) \/ Trigger(a) \/ EvaluateRule(a) \/ DropStale(a)
    \/ SelectFailed(a) \/ AskWindow(a) \/ NextRemedy(a) \/ PushRemedy(a)
    \/ Compare(a) \/ RaiseDrift(a) \/ RestoreBaseline(a) \/ ExchangeFails(a) \/ RuleIsGone(a)

Next ==
    \/ \E a \in Actor : ActorStep(a)
    \/ \E online \in BOOLEAN : Sweep(online)
    \/ DriftCheck
    \/ \E a \in Actor \ {"sweep", "drift"} :
          \/ \E fresh \in BOOLEAN : UserEvaluates(a, fresh)
          \/ \E r \in Rule : UserRemediates(a, r)
    \/ \E config \in SUBSET Line : OutOfBand(config)
    \/ Window \/ UpDown \/ SetBaseline \/ ResolveDrift
    \/ \E r \in Rule : EditRule(r)

Spec == Init /\ [][Next]_vars

\* The cron of the sweeps comes back, again and again with a status that says online
\* (StatusFollows of Monitoring); commands end.
Fairness ==
    /\ \A a \in Actor : WF_vars(ActorStep(a))
    /\ SF_vars(Sweep(TRUE)) /\ WF_vars(DriftCheck)

FairSpec == Spec /\ Fairness

-----------------------------------------------------------------------------
TypeOK ==
    /\ live \subseteq Line
    /\ latest \in (SUBSET Line) \cup {NULL} /\ base \in (SUBSET Line) \cup {NULL}
    /\ results \in [Rule -> {"none", "pass", "fail"}]
    /\ enabled \subseteq Rule
    /\ window \in BOOLEAN /\ up \in BOOLEAN /\ drifted \in BOOLEAN

Judged(r) == IF r \in enabled THEN Verdict(r, live) ELSE "none"

\* While the device answers and after the last change, the results come to say what
\* the device runs: the backup of the sweep, the dedicated evaluation after each push
\* and the removal of stale rows together leave no wrong answer behind.
Settled == \A r \in Rule : results[r] = Judged(r)
ResultsSettle == <>[]up => <>[]Settled

\* What may be remediated automatically is, once no window is in the way.
FailuresFixed == \A r \in enabled \cap AutoRules : Verdict(r, live) = "pass"
FailuresGetFixed == <>[](up /\ ~window /\ MasterSwitch) => <>[]FailuresFixed

\* A baseline with auto_remediate gets its lines back.
BaselineLines == base # NULL => base \subseteq live
BaselineLinesReturn == <>[](up /\ BaselineAuto) => <>[]BaselineLines

\* Automatic remediation of rules does not touch a device whose maintenance window has
\* been open since before its turn in the sweep.
SweepSparesWindow ==
    [][At("sweep", "push") /\ live' # live => closed["sweep"]]_vars

\* "maintenance-window suppression (never touch a device someone is actively working
\* on)" (complianceService.ts:154): the loop starts no remedy in an open window.
RemediesSpareWindow ==
    [][At("sweep", "remedies") /\ Arg("sweep") # {} /\ todo'["sweep"] # todo["sweep"]
          => ~window]_vars
=============================================================================
