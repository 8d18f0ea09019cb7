-------------------------- MODULE ComplianceProofs --------------------------
(***************************************************************************)
(* Theorems about Compliance for any lines, rules and users: the types,    *)
(* the statements of every actor's list included, and that the sweep       *)
(* remedies only outside maintenance windows and only what it may.  And    *)
(* about Notify, for any number of traps and receivers: that alerts show   *)
(* the link they are about.                                                *)
(***************************************************************************)
EXTENDS MCCompliance, SequenceTheorems, WellFoundedInduction, TLAPS

USE RuleAssumption, ActorAssumption, ModeAssumption

-----------------------------------------------------------------------------
(* Lists of statements. *)

LEMMA DoIsList ==
    ASSUME NEW S, NEW op, NEW arg, [op |-> op, arg |-> arg] \in S
    PROVE  Do(op, arg) \in Seq(S)
  BY DEF Do

\* What is put before the rest of a list.
LEMMA Before ==
    ASSUME NEW S, NEW op, NEW arg, [op |-> op, arg |-> arg] \in S, NEW list \in Seq(S)
    PROVE  Do(op, arg) \o list \in Seq(S)
  BY DoIsList, ConcatProperties

LEMMA AtHead ==
    ASSUME NEW S, NEW a, todo[a] \in Seq(S), NEW op, At(a, op)
    PROVE  /\ Head(todo[a]) \in S /\ Head(todo[a]).op = op
           /\ Rest(a) \in Seq(S) /\ << >> \in Seq(S)
  BY HeadTailProperties DEF At, Rest

LEMMA Smallest ==
    ASSUME NEW T, T \subseteq Nat, T # {}
    PROVE  \E i \in T : \A k \in T : i <= k
  <1>1. PICK i \in T : \A k \in T : <<k, i>> \notin OpToRel(<, Nat)
    BY NatLessThanWellFounded, WFMin
  <1>2. \A k \in T : ~(k < i)
    BY <1>1 DEF OpToRel
  <1> QED BY <1>2

\* What goes on after a failure was in the list before.
LEMMA CaughtIsList ==
    ASSUME NEW S, NEW list \in Seq(S)
    PROVE  Caught(list) \in Seq(S)
  <1> DEFINE stops == {i \in 2 .. Len(list) : list[i].op \in Catches}
             first == CHOOSE i \in stops : \A k \in stops : i <= k
  <1>1. CASE stops = {}
    BY <1>1 DEF Caught
  <1>2. CASE stops # {}
    <2>1. Len(list) \in Nat
      BY LenProperties
    <2>2. stops \subseteq Nat
      BY <2>1
    <2>3. \E i \in stops : \A k \in stops : i <= k
      BY <1>2, <2>2, Smallest
    <2>4. first \in stops
      <3> HIDE DEF stops
      <3> QED BY <2>3
    <2>5. first \in 2 .. Len(list)
      BY <2>4
    <2>6. SubSeq(list, first, Len(list)) \in Seq(S)
      <3> HIDE DEF first
      <3>1. \A i \in first .. Len(list) : list[i] \in S
        BY <2>1, <2>5, ElementOfSeq
      <3> QED BY <2>1, <2>5, <3>1, SubSeqProperties
    <2>7. Caught(list) = SubSeq(list, first, Len(list))
      BY <1>2 DEF Caught
    <2> QED BY <2>6, <2>7
  <1> QED BY <1>1, <1>2

LEMMA RemedyIsList ==
    ASSUME NEW S, NEW r, [op |-> "push", arg |-> r] \in S,
           [op |-> "read", arg |-> NULL] \in S, [op |-> "latest", arg |-> NULL] \in S
    PROVE  Remedy(r) \in Seq(S)
  <1>1. /\ Do("read", NULL) \in Seq(S) /\ Do("push", r) \in Seq(S) /\ Do("latest", NULL) \in Seq(S)
    BY DoIsList
  <1>2. Do("read", NULL) \o Do("push", r) \in Seq(S)
    BY <1>1, ConcatProperties
  <1>3. Do("read", NULL) \o Do("push", r) \o Do("read", NULL) \in Seq(S)
    BY <1>1, <1>2, ConcatProperties
  <1> QED BY <1>1, <1>3, ConcatProperties DEF Remedy, BackupList, EvaluateList

-----------------------------------------------------------------------------
(* Types. *)

Outcome == {"none", "pass", "fail"}
Reading == [config : SUBSET Line, rules : SUBSET Rule, prior : [Rule -> Outcome]]

\* The statements that touch no device by way of a remedy ...
Plain ==
    [op : {"read", "latest", "select", "drift", "alert"}, arg : {NULL}]
    \cup [op : {"store", "restore"}, arg : SUBSET Line]
    \cup [op : {"rules"}, arg : Reading]

\* ... and those of remediation.
Statement ==
    Plain \cup [op : {"window", "remedies"}, arg : SUBSET Rule] \cup [op : {"push"}, arg : Rule]

TypeInv ==
    /\ TypeOK
    /\ todo \in [Actor -> Seq(Statement)]
    /\ closed \in [Actor -> BOOLEAN]

LEMMA ArgTypes ==
    ASSUME NEW s \in Statement
    PROVE  /\ s.op \in {"store", "restore"} => s.arg \in SUBSET Line
           /\ s.op = "rules" => s.arg \in Reading
           /\ s.op \in {"window", "remedies"} => s.arg \in SUBSET Rule
           /\ s.op = "push" => s.arg \in Rule
           /\ s = [op |-> s.op, arg |-> s.arg]
  BY DEF Statement, Plain

LEMMA ArgOf ==
    ASSUME NEW op, NEW arg, [op |-> op, arg |-> arg] \in Statement
    PROVE  /\ op \in {"store", "restore"} => arg \in SUBSET Line
           /\ op = "rules" => arg \in Reading
           /\ op \in {"window", "remedies"} => arg \in SUBSET Rule
           /\ op = "push" => arg \in Rule
  BY DEF Statement, Plain

LEMMA PlainStatements ==
    /\ \A op \in {"read", "latest", "select", "drift", "alert"} : [op |-> op, arg |-> NULL] \in Plain
    /\ \A op \in {"store", "restore"}, lines \in SUBSET Line : [op |-> op, arg |-> lines] \in Plain
    /\ \A reading \in Reading : [op |-> "rules", arg |-> reading] \in Plain
  BY DEF Plain

LEMMA VerdictType == \A r, config : Verdict(r, config) \in Outcome
  BY DEF Verdict, Outcome

\* A set S of statements that every step of an actor stays in: S takes the plain
\* statements, and each remedial statement with what it leads to.
Leads(S) ==
    /\ Plain \subseteq S /\ S \subseteq Statement
    /\ MasterSwitch => \A rules \in SUBSET AutoRules : [op |-> "window", arg |-> rules] \in S
    /\ ~window => \A rules : [op |-> "window", arg |-> rules] \in S => [op |-> "remedies", arg |-> rules] \in S
    /\ \A rules : [op |-> "remedies", arg |-> rules] \in S =>
          \A r \in rules : /\ [op |-> "push", arg |-> r] \in S
                           /\ [op |-> "remedies", arg |-> rules \ {r}] \in S

LEMMA ListStep ==
    ASSUME TypeInv, NEW a \in Actor, ActorStep(a), NEW S, Leads(S), todo[a] \in Seq(S)
    PROVE  todo'[a] \in Seq(S)
  <1>0. /\ \A list : Continue(a, list) => todo'[a] = list
        /\ << >> \in Seq(S) /\ Caught(todo[a]) \in Seq(S)
        /\ Plain \subseteq S /\ S \subseteq Statement
    BY CaughtIsList DEF TypeInv, Continue, Leads
  <1>1. \A op : At(a, op) => /\ Rest(a) \in Seq(S) /\ [op |-> op, arg |-> Arg(a)] \in S
                             /\ [op |-> op, arg |-> Arg(a)] \in Statement
    <2> SUFFICES ASSUME NEW op, At(a, op)
                 PROVE  /\ Rest(a) \in Seq(S) /\ [op |-> op, arg |-> Arg(a)] \in S
                        /\ [op |-> op, arg |-> Arg(a)] \in Statement
      OBVIOUS
    <2>1. Head(todo[a]) \in S /\ Head(todo[a]).op = op /\ Rest(a) \in Seq(S)
      BY AtHead
    <2>2. Head(todo[a]) \in Statement
      BY <1>0, <2>1
    <2>3. Head(todo[a]) = [op |-> op, arg |-> Arg(a)]
      BY <2>1, <2>2, ArgTypes DEF Arg
    <2> QED BY <2>1, <2>2, <2>3
  <1>2. At(a, "rules") => Arg(a) \in Reading
    BY <1>1, ArgOf
  <1>3. CASE ReadDevice(a)
    <2>1. [op |-> "store", arg |-> live] \in S
      BY <1>0, PlainStatements DEF TypeInv, TypeOK
    <2> QED BY <1>0, <1>1, <1>3, <2>1, Before DEF ReadDevice
  <1>4. CASE StoreBackup(a) \/ PushRemedy(a) \/ RaiseDrift(a) \/ RestoreBaseline(a)
    BY <1>0, <1>1, <1>4 DEF StoreBackup, PushRemedy, RaiseDrift, RestoreBaseline
  <1>5. CASE ReadLatest(a)
    <2>1. CASE latest = NULL
      BY <1>0, <1>1, <1>5, <2>1 DEF ReadLatest
    <2>2. CASE latest # NULL
      <3>0. latest \in SUBSET Line /\ enabled \in SUBSET Rule /\ results \in [Rule -> Outcome]
        BY <2>2 DEF Outcome, TypeInv, TypeOK
      <3>1. [config |-> latest, rules |-> enabled, prior |-> results] \in Reading
        BY <3>0 DEF Reading
      <3>2. [op |-> "rules", arg |-> [config |-> latest, rules |-> enabled, prior |-> results]] \in S
        BY <1>0, <3>1, PlainStatements
      <3> QED BY <1>0, <1>1, <1>5, <2>2, <3>2, Before DEF ReadLatest
    <2> QED BY <2>1, <2>2
  <1>6. CASE Trigger(a)
    <2>1. PICK r \in Arg(a).rules :
             LET after == Do("rules", [Arg(a) EXCEPT !.prior[r] = "fail"]) \o Rest(a)
             IN  Continue(a, IF RestoreOnFail /\ ~window THEN Do("drift", NULL) \o after ELSE after)
      BY <1>6 DEF Trigger
    <2> DEFINE reading == [Arg(a) EXCEPT !.prior[r] = "fail"]
               after == Do("rules", reading) \o Rest(a)
    <2>2. reading \in Reading
      BY <1>2, <1>6 DEF Trigger, Reading, Outcome
    <2>3. [op |-> "rules", arg |-> reading] \in S /\ [op |-> "drift", arg |-> NULL] \in S
      BY <1>0, <2>2, PlainStatements
    <2> HIDE DEF reading
    <2>4. after \in Seq(S)
      BY <1>1, <1>6, <2>3, Before DEF Trigger
    <2>5. Do("drift", NULL) \o after \in Seq(S)
      BY <2>3, <2>4, Before
    <2>6. todo'[a] \in {after, Do("drift", NULL) \o after}
      BY <1>0, <2>1 DEF reading
    <2> QED BY <2>4, <2>5, <2>6
  <1>7. CASE EvaluateRule(a)
    <2>1. PICK r \in Arg(a).rules :
             Continue(a, Do("rules", [Arg(a) EXCEPT !.rules = @ \ {r}]) \o Rest(a))
      BY <1>7 DEF EvaluateRule
    <2>2. [Arg(a) EXCEPT !.rules = @ \ {r}] \in Reading
      BY <1>2, <1>7 DEF EvaluateRule, Reading
    <2>3. [op |-> "rules", arg |-> [Arg(a) EXCEPT !.rules = @ \ {r}]] \in S
      BY <1>0, <2>2, PlainStatements
    <2>4. Rest(a) \in Seq(S)
      BY <1>1, <1>7 DEF EvaluateRule
    <2>5. Do("rules", [Arg(a) EXCEPT !.rules = @ \ {r}]) \o Rest(a) \in Seq(S)
      BY <2>3, <2>4, Before
    <2> QED BY <1>0, <2>1, <2>5
  <1>8. CASE DropStale(a)
    BY <1>0, <1>1, <1>8 DEF DropStale
  <1>9. CASE SelectFailed(a)
    <2> DEFINE failed == {r \in enabled \cap AutoRules : results[r] = "fail"}
    <2>1. MasterSwitch => Do("window", failed) \in Seq(S)
      BY DoIsList DEF Leads
    <2>2. todo'[a] \in {<< >>, Do("window", failed)} /\ (todo'[a] # << >> => MasterSwitch)
      BY <1>0, <1>9 DEF SelectFailed
    <2> QED BY <1>0, <2>1, <2>2
  <1>10. CASE AskWindow(a)
    <2>1. ~window => Do("remedies", Arg(a)) \in Seq(S)
      BY <1>1, <1>10, DoIsList DEF AskWindow, Leads
    <2> QED BY <1>0, <1>10, <2>1 DEF AskWindow
  <1>11. CASE NextRemedy(a)
    <2>1. CASE Arg(a) = {}
      BY <1>0, <1>11, <2>1 DEF NextRemedy
    <2>2. CASE Arg(a) # {}
      <3>1. PICK r \in Arg(a) : Continue(a, Remedy(r) \o Do("remedies", Arg(a) \ {r}))
        BY <1>11, <2>2 DEF NextRemedy
      <3>2. /\ [op |-> "push", arg |-> r] \in S /\ [op |-> "remedies", arg |-> Arg(a) \ {r}] \in S
            /\ [op |-> "read", arg |-> NULL] \in S /\ [op |-> "latest", arg |-> NULL] \in S
        BY <1>0, <1>1, <1>11, PlainStatements DEF NextRemedy, Leads
      <3>3. Do("remedies", Arg(a) \ {r}) \in Seq(S)
        BY <3>2, DoIsList
      <3>4. Remedy(r) \in Seq(S)
        BY <3>2, RemedyIsList
      <3>5. Remedy(r) \o Do("remedies", Arg(a) \ {r}) \in Seq(S)
        BY <3>3, <3>4, ConcatProperties
      <3> QED BY <1>0, <3>1, <3>5
    <2> QED BY <2>1, <2>2
  <1>12. CASE Compare(a)
    <2>1. CASE base = NULL \/ base = live
      BY <1>0, <1>1, <1>12, <2>1 DEF Compare
    <2>2. CASE ~(base = NULL \/ base = live)
      <3> DEFINE fix == IF BaselineAuto THEN Do("restore", base) \o Do("alert", NULL) ELSE << >>
      <3>0. base \in SUBSET Line
        BY <2>2 DEF TypeInv, TypeOK
      <3>1. [op |-> "alert", arg |-> NULL] \in S /\ [op |-> "restore", arg |-> base] \in S
        BY <1>0, <3>0, PlainStatements
      <3>2. Do("alert", NULL) \in Seq(S)
        BY <3>1, DoIsList
      <3>3. Do("restore", base) \o Do("alert", NULL) \in Seq(S)
        BY <3>1, <3>2, Before
      <3>4. fix \in Seq(S)
        BY <1>0, <3>3
      <3>5. todo'[a] = Do("alert", NULL) \o fix \o Rest(a)
        BY <1>0, <1>12, <2>2 DEF Compare
      <3>6. Rest(a) \in Seq(S)
        BY <1>1, <1>12 DEF Compare
      <3> HIDE DEF fix
      <3>7. Do("alert", NULL) \o fix \in Seq(S)
        BY <3>2, <3>4, ConcatProperties
      <3> QED BY <3>5, <3>6, <3>7, ConcatProperties
    <2> QED BY <2>1, <2>2
  <1>13. CASE ExchangeFails(a) \/ RuleIsGone(a)
    BY <1>0, <1>13 DEF ExchangeFails, RuleIsGone
  <1> QED
    BY <1>3, <1>4, <1>5, <1>6, <1>7, <1>8, <1>9, <1>10, <1>11, <1>12, <1>13 DEF ActorStep

\* Whoever does not move keeps its list.
LEMMA OthersWait ==
    ASSUME TypeInv, NEW a \in Actor, NEW b \in Actor \ {a}, ActorStep(a)
    PROVE  todo'[b] = todo[b] /\ closed' = closed /\ window' = window
  BY DEF TypeInv, ActorStep, Continue, ReadDevice, StoreBackup, ReadLatest, Trigger, EvaluateRule,
     DropStale, SelectFailed, AskWindow, NextRemedy, PushRemedy, Compare, RaiseDrift,
     RestoreBaseline, ExchangeFails, RuleIsGone, world

\* What an actor does to the device and the tables keeps their types.
LEMMA TablesStep ==
    ASSUME TypeInv, NEW a \in Actor, ActorStep(a)
    PROVE  TypeOK'
  <1>0. \A op : At(a, op) => [op |-> op, arg |-> Arg(a)] \in Statement
    <2> SUFFICES ASSUME NEW op, At(a, op) PROVE [op |-> op, arg |-> Arg(a)] \in Statement
      OBVIOUS
    <2>1. Head(todo[a]) \in Statement /\ Head(todo[a]).op = op
      BY AtHead DEF TypeInv
    <2> QED BY <2>1, ArgTypes DEF Arg
  <1>1. TypeOK
    BY DEF TypeInv
  <1>2. CASE UNCHANGED <<world, tables>>
    BY <1>1, <1>2 DEF TypeOK, world, tables
  <1>3. CASE StoreBackup(a)
    <2>1. Arg(a) \in SUBSET Line
      BY <1>0, <1>3, ArgOf DEF StoreBackup
    <2> QED BY <1>1, <1>3, <2>1 DEF StoreBackup, TypeOK, world
  <1>4. CASE EvaluateRule(a)
    <2>1. PICK r \in Arg(a).rules : results' = [results EXCEPT ![r] = Verdict(r, Arg(a).config)]
      BY <1>4 DEF EvaluateRule
    <2>2. results' \in [Rule -> {"none", "pass", "fail"}]
      BY <1>1, <2>1, VerdictType DEF TypeOK, Outcome
    <2> QED BY <1>1, <1>4, <2>2 DEF EvaluateRule, TypeOK, world
  <1>5. CASE DropStale(a)
    <2>1. results' \in [Rule -> {"none", "pass", "fail"}]
      BY <1>1, <1>5 DEF DropStale, TypeOK
    <2> QED BY <1>1, <1>5, <2>1 DEF DropStale, TypeOK, world
  <1>6. CASE PushRemedy(a)
    <2>1. Arg(a) \in Rule
      BY <1>0, <1>6, ArgOf DEF PushRemedy
    <2>2. live' \subseteq Line
      BY <1>1, <1>6, <2>1 DEF PushRemedy, Fixed, TypeOK
    <2> QED BY <1>1, <1>6, <2>2 DEF PushRemedy, TypeOK, tables
  <1>7. CASE RaiseDrift(a)
    <2>1. drifted' \in BOOLEAN
      BY <1>7 DEF RaiseDrift
    <2> QED BY <1>1, <1>7, <2>1 DEF RaiseDrift, TypeOK, world
  <1>8. CASE RestoreBaseline(a)
    <2>1. Arg(a) \in SUBSET Line
      BY <1>0, <1>8, ArgOf DEF RestoreBaseline
    <2>2. live' \subseteq Line
      BY <1>1, <1>8, <2>1 DEF RestoreBaseline, TypeOK
    <2> QED BY <1>1, <1>8, <2>2 DEF RestoreBaseline, TypeOK, tables
  <1> QED
    BY <1>2, <1>3, <1>4, <1>5, <1>6, <1>7, <1>8
    DEF ActorStep, ReadDevice, ReadLatest, Trigger, SelectFailed, AskWindow, NextRemedy, Compare,
        ExchangeFails, RuleIsGone

LEMMA StatementLeads == Leads(Statement)
  <1>1. Plain \subseteq Statement
    BY DEF Statement
  <1>2. \A rules \in SUBSET Rule : /\ [op |-> "window", arg |-> rules] \in Statement
                                   /\ [op |-> "remedies", arg |-> rules] \in Statement
    BY DEF Statement
  <1>3. \A r \in Rule : [op |-> "push", arg |-> r] \in Statement
    BY DEF Statement
  <1>4. \A rules : [op |-> "window", arg |-> rules] \in Statement \/ [op |-> "remedies", arg |-> rules] \in Statement
           => rules \in SUBSET Rule
    BY ArgOf
  <1>5. \A rules \in SUBSET AutoRules : rules \in SUBSET Rule
    OBVIOUS
  <1> QED BY <1>1, <1>2, <1>3, <1>4, <1>5 DEF Leads

\* The lists actors begin with.
LEMMA FirstLists ==
    /\ BackupList \o EvaluateList \in Seq(Plain) /\ EvaluateList \in Seq(Plain)
    /\ BackupList \o EvaluateList \o Do("select", NULL) \in Seq(Plain)
    /\ Do("drift", NULL) \in Seq(Plain)
    /\ \A r \in Rule : Remedy(r) \in Seq(Statement)
  <1>1. \A op \in {"read", "latest", "select", "drift"} : Do(op, NULL) \in Seq(Plain)
    BY PlainStatements, DoIsList
  <1>2. BackupList \o EvaluateList \in Seq(Plain)
    BY <1>1, ConcatProperties DEF BackupList, EvaluateList
  <1>3. BackupList \o EvaluateList \o Do("select", NULL) \in Seq(Plain)
    BY <1>1, <1>2, ConcatProperties
  <1>4. ASSUME NEW r \in Rule PROVE Remedy(r) \in Seq(Statement)
    <2>1. /\ [op |-> "push", arg |-> r] \in Statement
          /\ [op |-> "read", arg |-> NULL] \in Statement /\ [op |-> "latest", arg |-> NULL] \in Statement
      BY PlainStatements DEF Statement
    <2> QED BY <2>1, RemedyIsList
  <1> QED BY <1>1, <1>2, <1>3, <1>4 DEF EvaluateList

LEMMA BeginTypes ==
    ASSUME TypeInv, NEW a \in Actor, NEW list \in Seq(Statement), Begin(a, list)
    PROVE  TypeInv'
  <1>1. TypeOK' /\ window \in BOOLEAN
    BY DEF TypeInv, TypeOK, Begin, world, tables
  <1>2. todo' \in [Actor -> Seq(Statement)]
    BY DEF TypeInv, Begin, Continue
  <1>3. closed' \in [Actor -> BOOLEAN]
    <2>1. closed' = [closed EXCEPT ![a] = ~window] /\ closed \in [Actor -> BOOLEAN]
      BY DEF TypeInv, Begin
    <2>2. (~window) \in BOOLEAN
      OBVIOUS
    <2> QED BY <2>1, <2>2
  <1> QED BY <1>1, <1>2, <1>3 DEF TypeInv

LEMMA TypeStep == ASSUME TypeInv, [Next]_vars PROVE TypeInv'
  <1>0. Plain \subseteq Statement
    BY DEF Statement
  <1>1. ASSUME NEW a \in Actor, ActorStep(a) PROVE TypeInv'
    <2>1. todo' = [todo EXCEPT ![a] = todo'[a]] /\ closed' = closed
      BY <1>1 DEF TypeInv, ActorStep, Continue, ReadDevice, StoreBackup, ReadLatest, Trigger,
         EvaluateRule, DropStale, SelectFailed, AskWindow, NextRemedy, PushRemedy, Compare,
         RaiseDrift, RestoreBaseline, ExchangeFails, RuleIsGone
    <2>2. todo'[a] \in Seq(Statement)
      BY <1>1, ListStep, StatementLeads DEF TypeInv
    <2>3. todo' \in [Actor -> Seq(Statement)]
      BY <2>1, <2>2 DEF TypeInv
    <2> QED BY <1>1, <2>1, <2>3, TablesStep DEF TypeInv
  <1>2. ASSUME NEW online \in BOOLEAN, Sweep(online) PROVE TypeInv'
    BY <1>0, <1>2, BeginTypes, FirstLists, SeqMonotonic DEF Sweep
  <1>3. CASE DriftCheck
    BY <1>0, <1>3, BeginTypes, FirstLists, SeqMonotonic DEF DriftCheck
  <1>4. ASSUME NEW a \in Actor, NEW fresh \in BOOLEAN, UserEvaluates(a, fresh) PROVE TypeInv'
    BY <1>0, <1>4, BeginTypes, FirstLists, SeqMonotonic DEF UserEvaluates
  <1>5. ASSUME NEW a \in Actor, NEW r \in Rule, UserRemediates(a, r) PROVE TypeInv'
    BY <1>5, BeginTypes, FirstLists DEF UserRemediates
  <1>6. ASSUME NEW config \in SUBSET Line, OutOfBand(config) PROVE TypeInv'
    BY <1>6 DEF TypeInv, TypeOK, OutOfBand, tables
  <1>7. CASE Window
    <2>1. TypeOK'
      <3>1. window' \in BOOLEAN
        BY <1>7 DEF Window
      <3> QED BY <1>7, <3>1 DEF Window, TypeInv, TypeOK, tables
    <2>2. closed' \in [Actor -> BOOLEAN]
      BY <1>7 DEF Window
    <2> QED BY <1>7, <2>1, <2>2 DEF Window, TypeInv
  <1>8. CASE UpDown
    <2>1. up' \in BOOLEAN
      BY <1>8 DEF UpDown
    <2> QED BY <1>8, <2>1 DEF UpDown, TypeInv, TypeOK, tables
  <1>9. CASE SetBaseline
    BY <1>9 DEF SetBaseline, TypeInv, TypeOK, world
  <1>10. CASE ResolveDrift
    BY <1>10 DEF ResolveDrift, TypeInv, TypeOK, world
  <1>11. ASSUME NEW r \in Rule, EditRule(r) PROVE TypeInv'
    <2>1. results' \in [Rule -> {"none", "pass", "fail"}] /\ enabled' \subseteq Rule
      BY <1>11 DEF EditRule, TypeInv, TypeOK
    <2> QED BY <1>11, <2>1 DEF EditRule, TypeInv, TypeOK, world
  <1>12. CASE UNCHANGED vars
    BY <1>12 DEF vars, world, tables, TypeInv, TypeOK
  <1> QED
    BY <1>1, <1>2, <1>3, <1>4, <1>5, <1>6, <1>7, <1>8, <1>9, <1>10, <1>11, <1>12 DEF Next

\* The device, the tables and every actor's list keep their types: a statement always
\* finds an argument it can work on.
THEOREM ComplianceTypes == Spec => []TypeInv
  <1>1. Init => TypeInv
    <2> SUFFICES ASSUME Init PROVE TypeInv
      OBVIOUS
    <2>1. TypeOK
      BY DEF Init, TypeOK
    <2>2. << >> \in Seq(Statement)
      BY EmptySeq
    <2>3. todo \in [Actor -> Seq(Statement)]
      BY <2>2 DEF Init
    <2>4. closed \in [Actor -> BOOLEAN]
      BY DEF Init
    <2> QED BY <2>1, <2>3, <2>4 DEF TypeInv
  <1>2. TypeInv /\ [Next]_vars => TypeInv'
    BY TypeStep
  <1> QED BY <1>1, <1>2, PTL DEF Spec

-----------------------------------------------------------------------------
(* The sweep and the maintenance windows. *)

\* A remedy the sweep has on its list is allowed: the master switch is on, the rule has
\* auto_remediate, and the window was seen closed.
Allowed(s) ==
    /\ s.op \in {"window", "remedies"} => MasterSwitch /\ s.arg \subseteq AutoRules
    /\ s.op = "push" => MasterSwitch /\ s.arg \in AutoRules
    /\ s.op \in {"remedies", "push"} => closed["sweep"]

AllowedStatement == {s \in Statement : Allowed(s)}

SweepInv ==
    /\ todo["sweep"] \in Seq(AllowedStatement)
    /\ todo["sweep"] # << >> /\ ~window => closed["sweep"]

LEMMA PlainIsAllowed == Plain \subseteq AllowedStatement
  BY DEF Plain, Statement, AllowedStatement, Allowed

LEMMA AllowedLeads ==
    ASSUME TypeInv, SweepInv, todo["sweep"] # << >>
    PROVE  Leads(AllowedStatement)
  <1>1. ~window => closed["sweep"]
    BY DEF SweepInv
  <1>2. /\ Plain \subseteq Statement
        /\ \A rules \in SUBSET Rule : /\ [op |-> "window", arg |-> rules] \in Statement
                                      /\ [op |-> "remedies", arg |-> rules] \in Statement
        /\ \A r \in Rule : [op |-> "push", arg |-> r] \in Statement
    BY DEF Statement
  <1>3. MasterSwitch => \A rules \in SUBSET AutoRules : [op |-> "window", arg |-> rules] \in AllowedStatement
    BY <1>2 DEF AllowedStatement, Allowed
  <1>4. ASSUME ~window, NEW rules, [op |-> "window", arg |-> rules] \in AllowedStatement
        PROVE  [op |-> "remedies", arg |-> rules] \in AllowedStatement
    <2>1. MasterSwitch /\ rules \subseteq AutoRules
      BY <1>4 DEF AllowedStatement, Allowed
    <2> QED BY <1>1, <1>2, <1>4, <2>1 DEF AllowedStatement, Allowed
  <1>5. ASSUME NEW rules, [op |-> "remedies", arg |-> rules] \in AllowedStatement, NEW r \in rules
        PROVE  /\ [op |-> "push", arg |-> r] \in AllowedStatement
               /\ [op |-> "remedies", arg |-> rules \ {r}] \in AllowedStatement
    <2>1. MasterSwitch /\ rules \subseteq AutoRules /\ closed["sweep"]
      BY <1>5 DEF AllowedStatement, Allowed
    <2> QED BY <1>2, <1>5, <2>1 DEF AllowedStatement, Allowed
  <1> QED BY <1>2, <1>3, <1>4, <1>5, PlainIsAllowed DEF Leads, AllowedStatement

\* A window that closes takes nothing off the list.
LEMMA SweepWaits ==
    ASSUME SweepInv, todo'["sweep"] = todo["sweep"],
           closed["sweep"] => closed'["sweep"],
           window' = window \/ (~window' => closed'["sweep"])
    PROVE  SweepInv'
  <1>1. AllowedStatement \subseteq AllowedStatement'
    BY DEF AllowedStatement, Allowed
  <1>2. todo'["sweep"] \in Seq(AllowedStatement')
    BY <1>1, SeqMonotonic DEF SweepInv
  <1> QED BY <1>2 DEF SweepInv

LEMMA BeginElse ==
    ASSUME TypeInv, SweepInv, NEW a \in Actor \ {"sweep"}, NEW list, Begin(a, list)
    PROVE  SweepInv'
  <1>1. todo'["sweep"] = todo["sweep"] /\ closed'["sweep"] = closed["sweep"] /\ window' = window
    BY DEF TypeInv, Begin, Continue, world
  <1> QED BY <1>1, SweepWaits

LEMMA SweepStep == ASSUME TypeInv, SweepInv, [Next]_vars PROVE SweepInv'
  <1>1. CASE ActorStep("sweep")
    <2>1. todo["sweep"] # << >>
      BY <1>1 DEF ActorStep, At, ReadDevice, StoreBackup, ReadLatest, Trigger, EvaluateRule,
         DropStale, SelectFailed, AskWindow, NextRemedy, PushRemedy, Compare, RaiseDrift,
         RestoreBaseline, ExchangeFails, RuleIsGone
    <2>2. todo'["sweep"] \in Seq(AllowedStatement)
      BY <1>1, <2>1, AllowedLeads, ListStep DEF SweepInv
    <2>3. closed' = closed /\ window' = window
      BY <1>1 DEF ActorStep, ReadDevice, StoreBackup, ReadLatest, Trigger, EvaluateRule,
         DropStale, SelectFailed, AskWindow, NextRemedy, PushRemedy, Compare, RaiseDrift,
         RestoreBaseline, ExchangeFails, RuleIsGone, world
    <2>4. AllowedStatement' = AllowedStatement
      BY <2>3 DEF AllowedStatement, Allowed
    <2> QED BY <2>1, <2>2, <2>3, <2>4 DEF SweepInv
  <1>2. ASSUME NEW a \in Actor \ {"sweep"}, ActorStep(a) PROVE SweepInv'
    <2>1. todo'["sweep"] = todo["sweep"] /\ closed' = closed /\ window' = window
      BY <1>2, OthersWait
    <2> QED BY <2>1, SweepWaits
  <1>3. ASSUME NEW online \in BOOLEAN, Sweep(online) PROVE SweepInv'
    <2>1. /\ todo'["sweep"] \in Seq(Plain) /\ window' = window
          /\ closed' = [closed EXCEPT !["sweep"] = ~window]
      BY <1>3, FirstLists DEF Sweep, Begin, Continue, TypeInv, world
    <2>2. ~window' => closed'["sweep"]
      BY <2>1 DEF TypeInv
    <2>3. Plain \subseteq AllowedStatement'
      BY DEF Plain, Statement, AllowedStatement, Allowed
    <2> QED BY <2>1, <2>2, <2>3, SeqMonotonic DEF SweepInv
  <1>4. CASE DriftCheck
    BY <1>4, BeginElse DEF DriftCheck
  <1>5. ASSUME NEW a \in Actor \ {"sweep", "drift"},
               \/ \E fresh \in BOOLEAN : UserEvaluates(a, fresh)
               \/ \E r \in Rule : UserRemediates(a, r)
        PROVE  SweepInv'
    BY <1>5, BeginElse DEF UserEvaluates, UserRemediates
  <1>6. CASE Window
    <2>1. todo' = todo /\ \A a \in Actor : closed'[a] = (closed[a] \/ ~window')
      BY <1>6 DEF Window
    <2>2. closed'["sweep"] = (closed["sweep"] \/ ~window')
      BY <2>1
    <2> QED BY <2>1, <2>2, SweepWaits
  <1>7. CASE UNCHANGED <<todo, closed, window>>
    BY <1>7, SweepWaits
  <1>8. /\ \A config \in SUBSET Line : OutOfBand(config) => UNCHANGED <<todo, closed, window>>
        /\ UpDown \/ SetBaseline \/ ResolveDrift => UNCHANGED <<todo, closed, window>>
        /\ \A r \in Rule : EditRule(r) => UNCHANGED <<todo, closed, window>>
        /\ UNCHANGED vars => UNCHANGED <<todo, closed, window>>
    BY DEF OutOfBand, UpDown, SetBaseline, ResolveDrift, EditRule, vars, world
  <1> QED BY <1>1, <1>2, <1>3, <1>4, <1>5, <1>6, <1>7, <1>8 DEF Next

LEMMA SweepIsAllowed == Spec => [](TypeInv /\ SweepInv)
  <1>1. Init => SweepInv
    BY EmptySeq DEF Init, SweepInv
  <1>2. TypeInv /\ SweepInv /\ [Next]_vars => SweepInv'
    BY SweepStep
  <1> QED BY <1>1, <1>2, ComplianceTypes, PTL DEF Spec

LEMMA PushesAreAllowed ==
    ASSUME TypeInv, SweepInv, At("sweep", "push")
    PROVE  MasterSwitch /\ Arg("sweep") \in AutoRules /\ closed["sweep"]
  <1>1. Head(todo["sweep"]) \in AllowedStatement /\ Head(todo["sweep"]).op = "push"
    BY AtHead DEF SweepInv
  <1> QED BY <1>1 DEF AllowedStatement, Allowed, Arg

\* The sweep pushes remedies of rules with auto_remediate alone, and none without
\* COMPLIANCE_AUTO_REMEDIATE (autoRemediateDevice()).
THEOREM SweepPushesAutoRules ==
    Spec => [](At("sweep", "push") => MasterSwitch /\ Arg("sweep") \in AutoRules)
  <1>1. TypeInv /\ SweepInv => (At("sweep", "push") => MasterSwitch /\ Arg("sweep") \in AutoRules)
    BY PushesAreAllowed
  <1> QED BY <1>1, SweepIsAllowed, PTL

\* Automatic remediation touches no device whose maintenance window has been open since
\* before its turn in the sweep, however long the loop of pushes takes and whatever
\* users and the drift check do beside it.
THEOREM SweepSparesWindows == Spec => SweepSparesWindow
  <1>1. TypeInv /\ SweepInv => (At("sweep", "push") /\ live' # live => closed["sweep"])
    BY PushesAreAllowed
  <1> QED BY <1>1, SweepIsAllowed, PTL DEF SweepSparesWindow

-----------------------------------------------------------------------------
(* Alerts of traps. *)

\* The statements a handler may have left, before and after the alert is raised or closed.
ToAsk    == <<"window", "existing", "insert", "fanout", "notify">>
ToLook   == <<"existing", "insert", "fanout", "notify">>
ToInsert == <<"insert", "fanout", "notify">>
ToFanOut == <<"fanout", "notify">>
Early == {<<"lookup">>, <<"resolve">>, ToAsk, ToLook, ToInsert}
Late == {<< >>, ToFanOut, <<"notify">>}

Sending == [tries : 0..MaxAttempts, state : {"trying", "ok", "gave up"}]

TrapTypes ==
    /\ handling \in [Trap -> Early \cup Late]
    /\ came \in Trap \cup {0} /\ says \in [Trap -> {"down", "up"}]
    /\ device \in {None, "known", "unknown"}
    /\ open \in SUBSET (1..came) /\ resolved \in SUBSET (1..came) /\ open \cap resolved = {}
    /\ sends \in [Trap -> [Receiver -> Sending \cup {None}]]
    /\ subscribed \in {"on", "off"} /\ subs \in {None, "on", "off"}
    /\ asking \in [Trap -> {None, "asked", "on", "off"}]
    /\ mixed \in BOOLEAN /\ quiet \in BOOLEAN
    /\ \A t \in Trap : handling[t] # << >> => t \in 1..came

\* A trap raises one alert, what is sent is an alert's, and tries are left while it is tried.
Announced ==
    \A a \in Trap :
        /\ handling[a] \in Early => a \notin open \cup resolved
        /\ handling[a] \in {ToFanOut, <<"notify">>} \/ asking[a] # None => a \in open \cup resolved
        /\ \A r \in Receiver : sends[a][r] # None =>
             /\ a \in open \cup resolved
             /\ sends[a][r].state = "trying" => sends[a][r].tries < MaxAttempts

\* One alert is open if trap c said "down", and none if it said "up" or there was none.
Matches(c) == IF c > 0 /\ says[c] = "down" THEN \E a \in Trap : open = {a} ELSE open = {}

\* Traps that are handled one after the other.
InTurn ==
    ~mixed =>
        /\ \A t \in Trap : handling[t] # << >> => t = came
        /\ came = 0 => open = {}
        /\ came > 0 =>
             /\ handling[came] = <<"resolve">> => says[came] = "up"
             /\ handling[came] \in {ToAsk, ToLook, ToInsert, ToFanOut} => says[came] = "down"
             /\ handling[came] = ToInsert => open = {}
             /\ IF handling[came] \in Early THEN Matches(came - 1) ELSE Matches(came)

TrapInv == TrapTypes /\ Announced /\ InTurn

LEMMA ListsDiffer ==
    /\ Head(<<"lookup">>) = "lookup" /\ Head(<<"resolve">>) = "resolve" /\ Tail(<<"resolve">>) = << >>
    /\ Head(ToAsk) = "window" /\ Tail(ToAsk) = ToLook
    /\ Head(ToLook) = "existing" /\ Tail(ToLook) = ToInsert
    /\ Head(ToInsert) = "insert" /\ Tail(ToInsert) = ToFanOut
    /\ Head(ToFanOut) = "fanout" /\ Tail(ToFanOut) = <<"notify">>
    /\ Head(<<"notify">>) = "notify"
    /\ << >> \notin Early /\ ToFanOut \notin Early /\ <<"notify">> \notin Early
    /\ ToFanOut # << >> /\ <<"notify">> # << >>
  BY DEF ToAsk, ToLook, ToInsert, ToFanOut, Early

\* The head of a list tells which list it is.
LEMMA AtIs ==
    ASSUME TrapTypes, NEW t \in Trap
    PROVE  /\ Traps!At(t, "lookup") => handling[t] = <<"lookup">>
           /\ Traps!At(t, "resolve") => handling[t] = <<"resolve">> /\ Tail(handling[t]) = << >>
           /\ Traps!At(t, "window") => handling[t] = ToAsk /\ Tail(handling[t]) = ToLook
           /\ Traps!At(t, "existing") => handling[t] = ToLook /\ Tail(handling[t]) = ToInsert
           /\ Traps!At(t, "insert") => handling[t] = ToInsert /\ Tail(handling[t]) = ToFanOut
           /\ Traps!At(t, "fanout") => handling[t] = ToFanOut /\ Tail(handling[t]) = <<"notify">>
           /\ Traps!At(t, "notify") => handling[t] = <<"notify">>
  <1>1. handling[t] \in Early \cup Late
    BY DEF TrapTypes
  <1> QED BY <1>1, ListsDiffer DEF Traps!At, Traps!Busy, Early, Late

LEMMA ListsApart ==
    /\ ToAsk # ToLook /\ ToAsk # ToInsert /\ ToAsk # ToFanOut /\ ToLook # ToInsert
    /\ ToLook # ToFanOut /\ ToInsert # ToFanOut
    /\ \A l \in {ToAsk, ToLook, ToInsert, ToFanOut} :
          l # <<"lookup">> /\ l # <<"resolve">> /\ l # <<"notify">> /\ l # << >>
    /\ <<"lookup">> # <<"resolve">> /\ <<"lookup">> # <<"notify">> /\ <<"resolve">> # <<"notify">>
    /\ <<"lookup">> # << >> /\ <<"resolve">> # << >> /\ <<"notify">> # << >>
  BY DEF ToAsk, ToLook, ToInsert, ToFanOut

LEMMA Numbers == Trap \subseteq Nat \ {0} /\ \A t \in Trap : 1..t \subseteq Trap
  <1>1. PICK n \in Nat : Trap = 1..n
    BY NotifyAssumption
  <1> QED BY <1>1

\* While traps are handled in turn, the one under way is the last to have come.
LEMMA OneAtWork ==
    ASSUME TrapTypes, InTurn, ~mixed, NEW t \in Trap, handling[t] # << >>
    PROVE  /\ t = came /\ came > 0 /\ came \in Nat
           /\ handling[t] \in Early => Matches(came - 1)
           /\ handling[t] \notin Early => Matches(came)
           /\ \A u \in Trap \ {t} : handling[u] = << >>
  <1>1. t = came
    BY DEF InTurn
  <1>2. t \in Nat /\ t > 0
    BY Numbers
  <1> QED BY <1>1, <1>2 DEF InTurn

LEMMA TurnGoesOn ==
    ASSUME NEW t \in Trap, t = came', came' > 0, NEW l, handling'[t] = l,
           \A u \in Trap \ {t} : handling'[u] = << >>,
           l = <<"resolve">> => says'[t] = "up",
           l \in {ToAsk, ToLook, ToInsert, ToFanOut} => says'[t] = "down",
           l = ToInsert => open' = {},
           IF l \in Early THEN (Matches(came - 1))' ELSE Matches(came)'
    PROVE  InTurn'
  BY DEF InTurn

\* A handler goes on.
LEMMA Goes ==
    ASSUME TrapTypes, NEW t \in Trap, NEW l \in Early \cup Late, Traps!Continue(t, l),
           handling[t] # << >>
    PROVE  /\ handling' \in [Trap -> Early \cup Late] /\ handling'[t] = l
           /\ \A u \in Trap \ {t} : handling'[u] = handling[u]
           /\ \A u \in Trap : handling'[u] # << >> => u \in 1..came
  BY DEF TrapTypes, Traps!Continue

\* Steps after which nothing more is sent.
LEMMA AnnouncedKept ==
    ASSUME TrapInv, open \cup resolved \subseteq open' \cup resolved', sends' = sends,
           \A a \in Trap : handling'[a] \in Early => a \notin open' \cup resolved',
           \A a \in Trap : asking'[a] # None => asking[a] # None \/ a \in open' \cup resolved',
           \A a \in Trap : handling'[a] \in {ToFanOut, <<"notify">>} =>
               handling[a] \in {ToFanOut, <<"notify">>} \/ a \in open' \cup resolved'
    PROVE  Announced'
  BY DEF TrapInv, Announced

LEMMA AttributeHolds ==
    ASSUME TrapInv, NEW t \in Trap, Traps!Attribute(t)
    PROVE  TrapInv'
  <1> DEFINE l == IF device = "unknown" THEN << >> ELSE IF says[t] = "up" THEN <<"resolve">> ELSE ToAsk
  <1>0. TrapTypes /\ Announced /\ InTurn
    BY DEF TrapInv
  <1>1. handling[t] = <<"lookup">> /\ handling[t] # << >>
    BY <1>0, AtIs, ListsApart DEF Traps!Attribute
  <1>2. l \in Early \cup Late
    BY DEF Early, Late
  <1>3. Traps!Continue(t, l) /\ mixed' = (IF device = "unknown" THEN TRUE ELSE mixed)
    BY DEF Traps!Attribute, Traps!Decided, ToAsk
  <1>4. /\ device' = IF device = None THEN "known" ELSE device
        /\ UNCHANGED <<came, says, open, resolved, sends, subscribed, subs, asking, quiet>>
    BY DEF Traps!Attribute, Traps!alerts, Traps!delivery, Traps!hooks, Traps!world
  <1> HIDE DEF l
  <1>5. /\ handling' \in [Trap -> Early \cup Late] /\ handling'[t] = l
        /\ \A u \in Trap \ {t} : handling'[u] = handling[u]
        /\ \A u \in Trap : handling'[u] # << >> => u \in 1..came
    BY <1>0, <1>1, <1>2, <1>3, Goes
  <1>6. TrapTypes'
    BY <1>0, <1>3, <1>4, <1>5 DEF TrapTypes
  <1>7. Announced'
    <2>1. \A a \in Trap : handling'[a] \in Early => a \notin open' \cup resolved'
      BY <1>0, <1>1, <1>4, <1>5 DEF Announced, Early
    <2> QED BY <1>4, <1>5, <2>1, AnnouncedKept, ListsApart DEF l
  <1>8. InTurn'
    <2> SUFFICES ASSUME ~mixed' PROVE InTurn'
      BY DEF InTurn
    <2>1. /\ ~mixed /\ t = came /\ came > 0 /\ Matches(came - 1)
          /\ \A u \in Trap \ {t} : handling[u] = << >>
          /\ says[t] \in {"down", "up"}
      <3>1. ~mixed /\ handling[t] \in Early
        BY <1>0, <1>1, <1>3 DEF TrapTypes, Early
      <3> QED BY <1>0, <1>1, <3>1, OneAtWork DEF TrapTypes
    <2>2. l = (IF says[t] = "up" THEN <<"resolve">> ELSE ToAsk) /\ l \in Early
      BY <1>3 DEF l, Early
    <2>3. (Matches(came - 1))'
      BY <1>4, <2>1 DEF Matches
    <2> QED BY <1>0, <1>4, <1>5, <2>1, <2>2, <2>3, ListsApart, TurnGoesOn
  <1> QED BY <1>6, <1>7, <1>8 DEF TrapInv

LEMMA AskWindowHolds ==
    ASSUME TrapInv, NEW t \in Trap, Traps!AskWindow(t)
    PROVE  TrapInv'
  <1> DEFINE l == IF quiet THEN << >> ELSE ToLook
  <1>0. TrapTypes /\ Announced /\ InTurn
    BY DEF TrapInv
  <1>1. handling[t] = ToAsk /\ handling[t] # << >>
    BY <1>0, AtIs, ListsApart DEF Traps!AskWindow
  <1>2. l \in Early \cup Late
    BY DEF Early, Late
  <1>3. Traps!Continue(t, l) /\ mixed' = (mixed \/ quiet)
    BY <1>0, AtIs DEF Traps!AskWindow, Traps!Rest
  <1>4. UNCHANGED <<came, says, device, open, resolved, sends, subscribed, subs, asking, quiet>>
    BY DEF Traps!AskWindow, Traps!alerts, Traps!delivery, Traps!hooks, Traps!world
  <1> HIDE DEF l
  <1>5. /\ handling' \in [Trap -> Early \cup Late] /\ handling'[t] = l
        /\ \A u \in Trap \ {t} : handling'[u] = handling[u]
        /\ \A u \in Trap : handling'[u] # << >> => u \in 1..came
    BY <1>0, <1>1, <1>2, <1>3, Goes
  <1>6. TrapTypes'
    BY <1>0, <1>3, <1>4, <1>5 DEF TrapTypes
  <1>7. Announced'
    <2>1. \A a \in Trap : handling'[a] \in Early => a \notin open' \cup resolved'
      BY <1>0, <1>1, <1>3, <1>4, <1>5, ListsDiffer DEF Announced, Early
    <2> QED BY <1>3, <1>4, <1>5, <2>1, AnnouncedKept, ListsApart DEF l
  <1>8. InTurn'
    <2> SUFFICES ASSUME ~mixed' PROVE InTurn'
      BY DEF InTurn
    <2>1. ~mixed
      BY <1>0, <1>3, <1>4 DEF TrapTypes
    <2>2. /\ t = came /\ came > 0 /\ came \in Nat
          /\ handling[t] \in Early => Matches(came - 1)
          /\ handling[t] \notin Early => Matches(came)
          /\ \A u \in Trap \ {t} : handling[u] = << >>
      BY <1>0, <1>1, <2>1, OneAtWork
    <2>3. l = ToLook /\ ToLook \in Early /\ ToAsk \in Early
      BY <1>0, <1>3 DEF l, TrapTypes, Early
    <2>4. (Matches(came - 1))' /\ says[came] = "down"
      BY <1>0, <1>1, <1>4, <2>1, <2>2, <2>3 DEF Matches, InTurn
    <2> QED BY <1>4, <1>5, <2>2, <2>3, <2>4, ListsApart, TurnGoesOn
  <1> QED BY <1>6, <1>7, <1>8 DEF TrapInv

LEMMA ExistingHolds ==
    ASSUME TrapInv, NEW t \in Trap, Traps!Existing(t)
    PROVE  TrapInv'
  <1> DEFINE l == IF open # {} THEN << >> ELSE ToInsert
  <1>0. TrapTypes /\ Announced /\ InTurn
    BY DEF TrapInv
  <1>1. handling[t] = ToLook /\ handling[t] # << >>
    BY <1>0, AtIs, ListsApart DEF Traps!Existing
  <1>2. l \in Early \cup Late
    BY DEF Early, Late
  <1>3. Traps!Continue(t, l)
    BY <1>0, AtIs DEF Traps!Existing, Traps!Rest
  <1>4. UNCHANGED <<came, says, device, open, resolved, sends, subscribed, subs, asking, quiet, mixed>>
    BY DEF Traps!Existing, Traps!alerts, Traps!delivery, Traps!hooks, Traps!world
  <1> HIDE DEF l
  <1>5. /\ handling' \in [Trap -> Early \cup Late] /\ handling'[t] = l
        /\ \A u \in Trap \ {t} : handling'[u] = handling[u]
        /\ \A u \in Trap : handling'[u] # << >> => u \in 1..came
    BY <1>0, <1>1, <1>2, <1>3, Goes
  <1>6. TrapTypes'
    BY <1>0, <1>3, <1>4, <1>5 DEF TrapTypes
  <1>7. Announced'
    <2>1. \A a \in Trap : handling'[a] \in Early => a \notin open' \cup resolved'
      BY <1>0, <1>1, <1>3, <1>4, <1>5, ListsDiffer DEF Announced, Early
    <2> QED BY <1>3, <1>4, <1>5, <2>1, AnnouncedKept, ListsApart DEF l
  <1>8. InTurn'
    <2> SUFFICES ASSUME ~mixed' PROVE InTurn'
      BY DEF InTurn
    <2>1. ~mixed
      BY <1>0, <1>3, <1>4 DEF TrapTypes
    <2>2. /\ t = came /\ came > 0 /\ came \in Nat
          /\ handling[t] \in Early => Matches(came - 1)
          /\ handling[t] \notin Early => Matches(came)
          /\ \A u \in Trap \ {t} : handling[u] = << >>
      BY <1>0, <1>1, <2>1, OneAtWork
    <2>3. /\ l = (IF open # {} THEN << >> ELSE ToInsert)
          /\ << >> \notin Early /\ ToInsert \in Early /\ ToLook \in Early
      BY ListsDiffer DEF l, Early
    <2>4. says[came] = "down" /\ Matches(came - 1)
      BY <1>0, <1>1, <2>1, <2>2, <2>3 DEF InTurn
    <2>5. IF l \in Early THEN (Matches(came - 1))' ELSE Matches(came)'
      BY <1>4, <2>2, <2>3, <2>4 DEF Matches
    <2> QED BY <1>4, <1>5, <2>2, <2>3, <2>4, <2>5, ListsApart, TurnGoesOn
  <1> QED BY <1>6, <1>7, <1>8 DEF TrapInv

LEMMA InsertHolds ==
    ASSUME TrapInv, NEW t \in Trap, Traps!InsertAlert(t)
    PROVE  TrapInv'
  <1> DEFINE l == ToFanOut
  <1>0. TrapTypes /\ Announced /\ InTurn
    BY DEF TrapInv
  <1>1. handling[t] = ToInsert /\ handling[t] # << >>
    BY <1>0, AtIs, ListsApart DEF Traps!InsertAlert
  <1>2. l \in Early \cup Late
    BY DEF Early, Late
  <1>3. Traps!Continue(t, l) /\ open' = open \cup {t}
    BY <1>0, AtIs DEF Traps!InsertAlert, Traps!Rest
  <1>4. UNCHANGED <<came, says, device, resolved, sends, subscribed, subs, asking, quiet, mixed>>
    BY DEF Traps!InsertAlert, Traps!alerts, Traps!delivery, Traps!hooks, Traps!world
  <1> HIDE DEF l
  <1>5. /\ handling' \in [Trap -> Early \cup Late] /\ handling'[t] = l
        /\ \A u \in Trap \ {t} : handling'[u] = handling[u]
        /\ \A u \in Trap : handling'[u] # << >> => u \in 1..came
    BY <1>0, <1>1, <1>2, <1>3, Goes
  <1>n. t \notin resolved /\ t \in 1..came
    BY <1>0, <1>1 DEF Announced, TrapTypes, Early
  <1>6. TrapTypes'
    BY <1>0, <1>3, <1>4, <1>5, <1>n DEF TrapTypes
  <1>7. Announced'
    <2>1. \A a \in Trap : handling'[a] \in Early => a \notin open' \cup resolved'
      BY <1>0, <1>3, <1>4, <1>5, ListsDiffer DEF Announced, l
    <2> QED BY <1>3, <1>4, <1>5, <2>1, AnnouncedKept
  <1>8. InTurn'
    <2> SUFFICES ASSUME ~mixed' PROVE InTurn'
      BY DEF InTurn
    <2>1. ~mixed
      BY <1>0, <1>3, <1>4 DEF TrapTypes
    <2>2. /\ t = came /\ came > 0 /\ came \in Nat
          /\ handling[t] \in Early => Matches(came - 1)
          /\ handling[t] \notin Early => Matches(came)
          /\ \A u \in Trap \ {t} : handling[u] = << >>
      BY <1>0, <1>1, <2>1, OneAtWork
    <2>3. l = ToFanOut /\ ToFanOut \notin Early /\ ToInsert \in Early
      BY ListsDiffer DEF l, Early
    <2>4. says[came] = "down" /\ open = {}
      BY <1>0, <1>1, <2>1, <2>2 DEF InTurn
    <2>5. Matches(came)'
      BY <1>3, <1>4, <2>2, <2>4 DEF Matches
    <2> QED BY <1>4, <1>5, <2>2, <2>3, <2>4, <2>5, ListsApart, TurnGoesOn
  <1> QED BY <1>6, <1>7, <1>8 DEF TrapInv

LEMMA ResolveHolds ==
    ASSUME TrapInv, NEW t \in Trap, Traps!Resolve(t)
    PROVE  TrapInv'
  <1> DEFINE l == << >>
  <1>0. TrapTypes /\ Announced /\ InTurn
    BY DEF TrapInv
  <1>1. handling[t] = <<"resolve">> /\ handling[t] # << >>
    BY <1>0, AtIs, ListsApart DEF Traps!Resolve
  <1>2. l \in Early \cup Late
    BY DEF Early, Late
  <1>3. Traps!Continue(t, l) /\ open' = {} /\ resolved' = resolved \cup open
    BY <1>0, AtIs DEF Traps!Resolve, Traps!Rest
  <1>4. UNCHANGED <<came, says, device, sends, subscribed, subs, asking, quiet, mixed>>
    BY DEF Traps!Resolve, Traps!alerts, Traps!delivery, Traps!hooks, Traps!world
  <1> HIDE DEF l
  <1>5. /\ handling' \in [Trap -> Early \cup Late] /\ handling'[t] = l
        /\ \A u \in Trap \ {t} : handling'[u] = handling[u]
        /\ \A u \in Trap : handling'[u] # << >> => u \in 1..came
    BY <1>0, <1>1, <1>2, <1>3, Goes
  <1>6. TrapTypes'
    BY <1>0, <1>3, <1>4, <1>5 DEF TrapTypes
  <1>7. Announced'
    <2>1. \A a \in Trap : handling'[a] \in Early => a \notin open' \cup resolved'
      BY <1>0, <1>1, <1>3, <1>4, <1>5, ListsDiffer DEF Announced, Early
    <2> QED BY <1>3, <1>4, <1>5, <2>1, AnnouncedKept, ListsApart DEF l
  <1>8. InTurn'
    <2> SUFFICES ASSUME ~mixed' PROVE InTurn'
      BY DEF InTurn
    <2>1. ~mixed
      BY <1>0, <1>3, <1>4 DEF TrapTypes
    <2>2. /\ t = came /\ came > 0 /\ came \in Nat
          /\ handling[t] \in Early => Matches(came - 1)
          /\ handling[t] \notin Early => Matches(came)
          /\ \A u \in Trap \ {t} : handling[u] = << >>
      BY <1>0, <1>1, <2>1, OneAtWork
    <2>3. l = << >> /\ << >> \notin Early
      BY ListsDiffer DEF l
    <2>4. says[came] = "up"
      BY <1>0, <1>1, <2>1, <2>2 DEF InTurn
    <2>5. Matches(came)'
      BY <1>3, <1>4, <2>2, <2>4 DEF Matches
    <2> QED BY <1>3, <1>4, <1>5, <2>2, <2>3, <2>4, <2>5, ListsApart, TurnGoesOn
  <1> QED BY <1>6, <1>7, <1>8 DEF TrapInv

LEMMA TurnKept ==
    ASSUME TrapInv, UNCHANGED <<handling, came, says, open, mixed>>
    PROVE  InTurn'
  BY DEF TrapInv, InTurn, Matches

LEMMA FreshIs ==
    /\ Traps!Fresh \in Sending /\ Traps!Fresh.state = "trying" /\ Traps!Fresh.tries < MaxAttempts
    /\ None \notin Sending
  <1>0. MaxAttempts \in Nat \ {0}
    BY Zenon, NotifyAssumption
  <1>1. 0 \in 0..MaxAttempts /\ 0 < MaxAttempts
    BY <1>0
  <1>2. Traps!Fresh \in Sending /\ Traps!Fresh.state = "trying" /\ Traps!Fresh.tries = 0
    BY <1>1 DEF Traps!Fresh, Sending
  <1>3. None \notin Sending
    BY NotifyAssumption DEF Sending
  <1> QED BY <1>1, <1>2, <1>3

\* What is sent of one alert changes.
LEMMA SendingHolds ==
    ASSUME TrapInv, NEW a \in Trap, NEW f \in [Receiver -> Sending \cup {None}],
           sends' = [sends EXCEPT ![a] = f], a \in open \cup resolved,
           \A r \in Receiver : f[r] # None /\ f[r].state = "trying" => f[r].tries < MaxAttempts,
           UNCHANGED <<open, resolved>>,
           \A b \in Trap : asking'[b] # None => asking[b] # None,
           \A b \in Trap : handling'[b] \in Early => handling[b] \in Early,
           \A b \in Trap : handling'[b] \in {ToFanOut, <<"notify">>} =>
               handling[b] \in {ToFanOut, <<"notify">>}
    PROVE  sends' \in [Trap -> [Receiver -> Sending \cup {None}]] /\ Announced'
  <1>1. sends \in [Trap -> [Receiver -> Sending \cup {None}]]
    BY DEF TrapInv, TrapTypes
  <1>2. sends' \in [Trap -> [Receiver -> Sending \cup {None}]]
        /\ \A b \in Trap : sends'[b] = IF b = a THEN f ELSE sends[b]
    BY <1>1
  <1> QED BY <1>2 DEF TrapInv, Announced

LEMMA FanOutHolds ==
    ASSUME TrapInv, NEW t \in Trap, Traps!FanOut(t)
    PROVE  TrapInv'
  <1>0. TrapTypes /\ Announced /\ InTurn
    BY DEF TrapInv
  <1>1. handling[t] = ToFanOut /\ handling[t] # << >> /\ t \in open \cup resolved
    BY <1>0, AtIs, ListsApart DEF Traps!FanOut, Announced
  <1>2. Traps!Continue(t, <<"notify">>) /\ Traps!FireWebhooks(t)
    BY <1>0, AtIs DEF Traps!FanOut, Traps!Rest
  <1>3. UNCHANGED <<came, says, device, open, resolved, subscribed, subs, quiet, mixed>>
    BY DEF Traps!FanOut, Traps!alerts, Traps!world
  <1>4. <<"notify">> \in Late /\ <<"notify">> \notin Early /\ ToFanOut \notin Early
    BY ListsDiffer DEF Late
  <1>5. /\ handling' \in [Trap -> Early \cup Late] /\ handling'[t] = <<"notify">>
        /\ \A u \in Trap \ {t} : handling'[u] = handling[u]
        /\ \A u \in Trap : handling'[u] # << >> => u \in 1..came
    BY <1>0, <1>1, <1>2, <1>4, Goes
  <1>6. /\ asking' \in [Trap -> {None, "asked", "on", "off"}]
        /\ sends' \in [Trap -> [Receiver -> Sending \cup {None}]] /\ Announced'
    <2>0. \A a \in Trap : handling'[a] \in Early => handling[a] \in Early
      BY <1>4, <1>5
    <2>1. CASE subs = None
      <3>1. asking' = [asking EXCEPT ![t] = "asked"] /\ sends' = sends
        BY <1>2, <2>1 DEF Traps!FireWebhooks
      <3>2. asking' \in [Trap -> {None, "asked", "on", "off"}]
            /\ \A a \in Trap \ {t} : asking'[a] = asking[a]
        BY <1>0, <3>1 DEF TrapTypes
      <3>3. Announced'
        BY <1>0, <1>1, <1>3, <1>4, <1>5, <2>0, <3>1, <3>2, AnnouncedKept DEF Announced
      <3> QED BY <1>0, <3>1, <3>2, <3>3 DEF TrapTypes
    <2>2. CASE subs # None
      <3> DEFINE f == [sends[t] EXCEPT ![Hook] = IF subs = "on" THEN Traps!Fresh ELSE @]
      <3>1. sends' = [sends EXCEPT ![t] = f] /\ asking' = asking
        BY <1>2, <2>2 DEF Traps!FireWebhooks
      <3>2. sends[t] \in [Receiver -> Sending \cup {None}]
        BY <1>0 DEF TrapTypes
      <3>3. /\ f \in [Receiver -> Sending \cup {None}]
            /\ \A r \in Receiver : f[r] = sends[t][r] \/ f[r] = Traps!Fresh
        BY <3>2, FreshIs
      <3> HIDE DEF f
      <3>4. \A r \in Receiver : f[r] # None /\ f[r].state = "trying" => f[r].tries < MaxAttempts
        BY <1>0, <3>3, FreshIs DEF Announced
      <3>5. \A b \in Trap : handling'[b] \in {ToFanOut, <<"notify">>} =>
                handling[b] \in {ToFanOut, <<"notify">>}
        BY <1>1, <1>5
      <3>6. sends' \in [Trap -> [Receiver -> Sending \cup {None}]] /\ Announced'
        BY <1>1, <1>3, <2>0, <3>1, <3>3, <3>4, <3>5, SendingHolds
      <3> QED BY <1>0, <3>1, <3>6 DEF TrapTypes
    <2> QED BY <2>1, <2>2
  <1>7. TrapTypes'
    BY <1>0, <1>3, <1>5, <1>6 DEF TrapTypes
  <1>8. InTurn'
    <2> SUFFICES ASSUME ~mixed' PROVE InTurn'
      BY DEF InTurn
    <2>1. ~mixed
      BY <1>3
    <2>2. /\ t = came /\ came > 0 /\ Matches(came)
          /\ \A u \in Trap \ {t} : handling[u] = << >>
      BY <1>0, <1>1, <1>4, <2>1, OneAtWork
    <2>3. Matches(came)'
      BY <1>3, <2>2 DEF Matches
    <2> QED BY <1>3, <1>4, <1>5, <2>2, <2>3, ListsApart, TurnGoesOn
  <1> QED BY <1>6, <1>7, <1>8 DEF TrapInv

LEMMA NotifiedHolds ==
    ASSUME TrapInv, NEW t \in Trap, Traps!Notified(t)
    PROVE  TrapInv'
  <1>0. TrapTypes /\ Announced /\ InTurn
    BY DEF TrapInv
  <1>1. handling[t] = <<"notify">> /\ handling[t] # << >>
    BY <1>0, AtIs, ListsApart DEF Traps!Notified
  <1>2. Traps!Continue(t, << >>)
    BY DEF Traps!Notified
  <1>3. UNCHANGED <<came, says, device, open, resolved, sends, subscribed, subs, asking, quiet, mixed>>
    BY DEF Traps!Notified, Traps!alerts, Traps!delivery, Traps!hooks, Traps!world
  <1>4. << >> \in Late /\ << >> \notin Early /\ <<"notify">> \notin Early
    BY ListsDiffer DEF Late
  <1>5. /\ handling' \in [Trap -> Early \cup Late] /\ handling'[t] = << >>
        /\ \A u \in Trap \ {t} : handling'[u] = handling[u]
        /\ \A u \in Trap : handling'[u] # << >> => u \in 1..came
    BY <1>0, <1>1, <1>2, <1>4, Goes
  <1>6. TrapTypes'
    BY <1>0, <1>3, <1>5 DEF TrapTypes
  <1>7. Announced'
    <2>1. \A a \in Trap : handling'[a] \in Early => a \notin open' \cup resolved'
      BY <1>0, <1>3, <1>4, <1>5 DEF Announced
    <2> QED BY <1>3, <1>5, <2>1, AnnouncedKept, ListsApart
  <1>8. InTurn'
    <2> SUFFICES ASSUME ~mixed' PROVE InTurn'
      BY DEF InTurn
    <2>1. ~mixed
      BY <1>3
    <2>2. /\ t = came /\ came > 0 /\ Matches(came)
          /\ \A u \in Trap \ {t} : handling[u] = << >>
      BY <1>0, <1>1, <1>4, <2>1, OneAtWork
    <2>3. Matches(came)'
      BY <1>3, <2>2 DEF Matches
    <2> QED BY <1>3, <1>4, <1>5, <2>2, <2>3, ListsApart, TurnGoesOn
  <1> QED BY <1>6, <1>7, <1>8 DEF TrapInv

LEMMA DispatchHolds ==
    ASSUME TrapInv, NEW t \in Trap, Traps!Dispatch(t)
    PROVE  TrapInv'
  <1> DEFINE f == [r \in Receiver |-> IF r = Hook THEN sends[t][r] ELSE Traps!Fresh]
  <1>0. TrapTypes /\ Announced /\ InTurn
    BY DEF TrapInv
  <1>1. handling[t] = <<"notify">> /\ t \in open \cup resolved
    BY <1>0, AtIs DEF Traps!Dispatch, Announced
  <1>2. /\ sends' = [sends EXCEPT ![t] = f]
        /\ UNCHANGED <<handling, came, says, device, open, resolved, subscribed, subs, asking, quiet, mixed>>
    BY DEF Traps!Dispatch, Traps!alerts, Traps!hooks, Traps!world
  <1>3. /\ f \in [Receiver -> Sending \cup {None}]
        /\ \A r \in Receiver : f[r] = sends[t][r] \/ f[r] = Traps!Fresh
    BY <1>0, FreshIs DEF TrapTypes
  <1> HIDE DEF f
  <1>4. \A r \in Receiver : f[r] # None /\ f[r].state = "trying" => f[r].tries < MaxAttempts
    BY <1>0, <1>3, FreshIs DEF Announced
  <1>5. sends' \in [Trap -> [Receiver -> Sending \cup {None}]] /\ Announced'
    BY <1>1, <1>2, <1>3, <1>4, SendingHolds
  <1>6. TrapTypes'
    BY <1>0, <1>2, <1>5 DEF TrapTypes
  <1> QED BY <1>2, <1>5, <1>6, TurnKept DEF TrapInv

LEMMA AttemptHolds ==
    ASSUME TrapInv, NEW a \in Trap, NEW r \in Receiver, NEW late \in BOOLEAN, Traps!Attempt(a, r, late)
    PROVE  TrapInv'
  <1> DEFINE tries == sends[a][r].tries + 1
             ends == Traps!Ends(works[r] = "up" /\ ~late, tries, works[r])
             x == [tries |-> tries, state |-> ends]
             f == [sends[a] EXCEPT ![r] = x]
  <1>0. TrapTypes /\ Announced /\ InTurn
    BY DEF TrapInv
  <1>1. sends[a][r] \in Sending /\ sends[a][r].state = "trying" /\ a \in open \cup resolved
    BY <1>0 DEF Traps!Attempt, TrapTypes, Announced
  <1>2. sends[a][r].tries < MaxAttempts /\ sends[a][r].tries \in 0..MaxAttempts /\ MaxAttempts \in Nat
    BY <1>0, <1>1, FreshIs, NotifyAssumption DEF Announced, Sending
  <1>3. tries \in 0..MaxAttempts
    BY <1>2
  <1>4. ends \in {"trying", "ok", "gave up"} /\ (ends = "trying" => tries < MaxAttempts)
    BY <1>2, <1>3 DEF Traps!Ends
  <1>5. /\ sends' = [sends EXCEPT ![a] = f]
        /\ UNCHANGED <<handling, came, says, device, open, resolved, subscribed, subs, asking, quiet, mixed>>
    BY DEF Traps!Attempt, Traps!alerts, Traps!hooks
  <1> HIDE DEF tries, ends
  <1>6. x \in Sending /\ (x.state = "trying" => x.tries < MaxAttempts)
    BY <1>3, <1>4 DEF Sending
  <1> HIDE DEF x
  <1>7. /\ f \in [Receiver -> Sending \cup {None}]
        /\ \A s \in Receiver : f[s] = sends[a][s] \/ f[s] = x
    BY <1>0, <1>6 DEF TrapTypes
  <1> HIDE DEF f
  <1>8. \A s \in Receiver : f[s] # None /\ f[s].state = "trying" => f[s].tries < MaxAttempts
    BY <1>0, <1>6, <1>7 DEF Announced
  <1>9. sends' \in [Trap -> [Receiver -> Sending \cup {None}]] /\ Announced'
    BY <1>1, <1>5, <1>7, <1>8, SendingHolds
  <1>10. TrapTypes'
    BY <1>0, <1>5, <1>9 DEF TrapTypes
  <1> QED BY <1>5, <1>9, <1>10, TurnKept DEF TrapInv

\* The read of the subscriptions goes on, or fails.
LEMMA SubsHold ==
    ASSUME TrapInv, NEW a \in Trap, Traps!ReadSubs(a) \/ Traps!SubsFail(a)
    PROVE  TrapInv'
  <1>0. TrapTypes /\ Announced /\ InTurn
    BY DEF TrapInv
  <1>1. /\ asking[a] = "asked"
        /\ asking' = [asking EXCEPT ![a] = subscribed] \/ asking' = [asking EXCEPT ![a] = "off"]
        /\ UNCHANGED <<handling, came, says, device, open, resolved, sends, subscribed, subs, quiet, mixed>>
    BY DEF Traps!ReadSubs, Traps!SubsFail, Traps!alerts, Traps!delivery, Traps!world
  <1>2. asking' \in [Trap -> {None, "asked", "on", "off"}]
        /\ \A b \in Trap \ {a} : asking'[b] = asking[b]
    BY <1>0, <1>1 DEF TrapTypes
  <1>3. asking[a] # None
    BY <1>1, NotifyAssumption
  <1>4. TrapTypes'
    BY <1>0, <1>1, <1>2 DEF TrapTypes
  <1>5. Announced'
    BY <1>0, <1>1, <1>2, <1>3, AnnouncedKept DEF Announced
  <1> QED BY <1>1, <1>4, <1>5, TurnKept DEF TrapInv

LEMMA HaveSubsHolds ==
    ASSUME TrapInv, NEW a \in Trap, Traps!HaveSubs(a)
    PROVE  TrapInv'
  <1> DEFINE f == [sends[a] EXCEPT ![Hook] = IF asking[a] = "on" THEN Traps!Fresh ELSE @]
  <1>0. TrapTypes /\ Announced /\ InTurn
    BY DEF TrapInv
  <1>1. /\ asking[a] \notin {None, "asked"} /\ subs' = asking[a]
        /\ asking' = [asking EXCEPT ![a] = None] /\ sends' = [sends EXCEPT ![a] = f]
        /\ UNCHANGED <<handling, came, says, device, open, resolved, subscribed, quiet, mixed>>
    BY DEF Traps!HaveSubs, Traps!alerts, Traps!world
  <1>2. /\ asking' \in [Trap -> {None, "asked", "on", "off"}]
        /\ \A b \in Trap : asking'[b] # None => asking[b] # None
        /\ asking[a] \in {"on", "off"}
    BY <1>0, <1>1 DEF TrapTypes
  <1>3. a \in open \cup resolved
    BY <1>0, <1>1 DEF Announced
  <1>4. /\ f \in [Receiver -> Sending \cup {None}]
        /\ \A r \in Receiver : f[r] = sends[a][r] \/ f[r] = Traps!Fresh
    <2>1. sends[a] \in [Receiver -> Sending \cup {None}]
      BY <1>0 DEF TrapTypes
    <2> QED BY <2>1, FreshIs
  <1> HIDE DEF f
  <1>5. \A r \in Receiver : f[r] # None /\ f[r].state = "trying" => f[r].tries < MaxAttempts
    BY <1>0, <1>4, FreshIs DEF Announced
  <1>6. sends' \in [Trap -> [Receiver -> Sending \cup {None}]] /\ Announced'
    BY <1>1, <1>2, <1>3, <1>4, <1>5, SendingHolds
  <1>7. TrapTypes'
    BY <1>0, <1>1, <1>2, <1>6 DEF TrapTypes
  <1> QED BY <1>1, <1>6, <1>7, TurnKept DEF TrapInv

\* What the handlers of traps only look at.
LEMMA WorldHolds ==
    ASSUME TrapInv,
           \/ Traps!EditSubscription \/ Traps!CachesExpire \/ Traps!WindowChanges
           \/ \E r \in Receiver : Traps!ReceiverChanges(r)
    PROVE  TrapInv'
  <1>0. TrapTypes /\ Announced /\ InTurn
    BY DEF TrapInv
  <1>1. /\ UNCHANGED <<handling, came, says, open, resolved, sends, asking, mixed>>
        /\ subscribed' \in {"on", "off"} /\ subs' \in {None, "on", "off"}
        /\ device' \in {None, "known", "unknown"} /\ quiet' \in BOOLEAN
    BY <1>0 DEF Traps!EditSubscription, Traps!CachesExpire, Traps!WindowChanges, TrapTypes,
       Traps!ReceiverChanges, Traps!alerts, Traps!delivery, Traps!hooks, Traps!world
  <1>2. TrapTypes'
    BY <1>0, <1>1 DEF TrapTypes
  <1>3. Announced'
    BY <1>0, <1>1 DEF Announced
  <1> QED BY <1>1, <1>2, <1>3, TurnKept DEF TrapInv

LEMMA ByHandHolds ==
    ASSUME TrapInv, NEW a \in Trap, Traps!ResolvedByHand(a)
    PROVE  TrapInv'
  <1>0. TrapTypes /\ Announced
    BY DEF TrapInv
  <1>1. /\ a \in open /\ open' = open \ {a} /\ resolved' = resolved \cup {a} /\ mixed' = TRUE
        /\ UNCHANGED <<handling, came, says, device, sends, subscribed, subs, asking, quiet>>
    BY DEF Traps!ResolvedByHand, Traps!delivery, Traps!hooks
  <1>2. open' \cup resolved' = open \cup resolved
    BY <1>1
  <1>3. TrapTypes'
    BY <1>0, <1>1 DEF TrapTypes
  <1>4. Announced'
    BY <1>0, <1>1, <1>2 DEF Announced
  <1> QED BY <1>1, <1>3, <1>4 DEF TrapInv, InTurn

LEMMA FailureHolds ==
    ASSUME TrapInv, NEW t \in Trap, Traps!StatementFails(t)
    PROVE  TrapInv'
  <1>0. TrapTypes /\ Announced
    BY DEF TrapInv
  <1>1. /\ handling[t] # << >> /\ Traps!Continue(t, << >>) /\ mixed' = TRUE
        /\ device' \in {device, "unknown"}
        /\ UNCHANGED <<came, says, open, resolved, sends, subscribed, subs, asking, quiet>>
    BY DEF Traps!StatementFails, Traps!Busy, Traps!alerts, Traps!delivery, Traps!hooks
  <1>2. << >> \in Late /\ << >> \notin Early
    BY ListsDiffer DEF Late
  <1>3. /\ handling' \in [Trap -> Early \cup Late] /\ handling'[t] = << >>
        /\ \A u \in Trap \ {t} : handling'[u] = handling[u]
        /\ \A u \in Trap : handling'[u] # << >> => u \in 1..came
    BY <1>0, <1>1, <1>2, Goes
  <1>4. TrapTypes'
    BY <1>0, <1>1, <1>3 DEF TrapTypes
  <1>5. Announced'
    <2>1. \A a \in Trap : handling'[a] \in Early => a \notin open' \cup resolved'
      BY <1>0, <1>1, <1>2, <1>3 DEF Announced
    <2> QED BY <1>1, <1>3, <2>1, AnnouncedKept, ListsApart
  <1> QED BY <1>1, <1>4, <1>5 DEF TrapInv, InTurn

LEMMA TrapHolds ==
    ASSUME TrapInv, NEW what \in {"down", "up"}, Traps!TrapComes(what)
    PROVE  TrapInv'
  <1> DEFINE t == came + 1
  <1>0. TrapTypes /\ Announced /\ InTurn
    BY DEF TrapInv
  <1>1. /\ t \in Trap /\ came' = t /\ says' = [says EXCEPT ![t] = what]
        /\ handling' = [handling EXCEPT ![t] = <<"lookup">>]
        /\ mixed' = (mixed \/ \E u \in Trap : handling[u] # << >>)
        /\ UNCHANGED <<device, open, resolved, sends, subscribed, subs, asking, quiet>>
    BY DEF Traps!TrapComes, Traps!Busy, Traps!alerts, Traps!delivery, Traps!hooks, Traps!world
  <1>2. came \in Nat /\ t > 0 /\ t \in Nat /\ came = t - 1 /\ t \notin 1..came /\ 1..came \subseteq 1..t
    BY <1>0, Numbers DEF TrapTypes
  <1>3. <<"lookup">> \in Early
    BY DEF Early
  <1> HIDE DEF t
  <1>4. /\ handling' \in [Trap -> Early \cup Late] /\ handling'[t] = <<"lookup">>
        /\ \A u \in Trap \ {t} : handling'[u] = handling[u] /\ says'[u] = says[u]
        /\ says' \in [Trap -> {"down", "up"}]
    BY <1>0, <1>1, <1>3 DEF TrapTypes
  <1>5. \A u \in Trap : handling'[u] # << >> => u \in 1..t
    BY <1>0, <1>1, <1>2, <1>4 DEF TrapTypes
  <1>6. TrapTypes'
    BY <1>0, <1>1, <1>2, <1>4, <1>5 DEF TrapTypes
  <1>7. Announced'
    <2>1. \A a \in Trap : handling'[a] \in Early => a \notin open' \cup resolved'
      BY <1>0, <1>1, <1>2, <1>4 DEF Announced, TrapTypes
    <2> QED BY <1>1, <1>4, <2>1, AnnouncedKept, ListsApart
  <1>8. InTurn'
    <2> SUFFICES ASSUME ~mixed' PROVE InTurn'
      BY DEF InTurn
    <2>1. ~mixed /\ \A u \in Trap : handling[u] = << >>
      BY <1>0, <1>1 DEF TrapTypes
    <2>2. Matches(came)
      <3>1. CASE came = 0
        BY <1>0, <2>1, <3>1 DEF InTurn, Matches
      <3>2. CASE came > 0
        <4>1. came \in Trap /\ handling[came] \notin Early
          BY <1>0, <2>1, <3>2, ListsDiffer DEF TrapTypes
        <4> QED BY <1>0, <2>1, <3>2, <4>1 DEF InTurn
      <3> QED BY <1>2, <3>1, <3>2
    <2>3. (Matches(came - 1))'
      <3>1. came > 0 => came \in Trap \ {t}
        BY <1>0, <1>2 DEF TrapTypes
      <3>2. (came - 1)' = came
        BY <1>1, <1>2
      <3> QED BY <1>1, <1>2, <1>4, <2>2, <3>1, <3>2 DEF Matches
    <2> QED BY <1>1, <1>2, <1>3, <1>4, <2>1, <2>3, ListsApart, TurnGoesOn
  <1> QED BY <1>6, <1>7, <1>8 DEF TrapInv

LEMMA TrapInit == PartInit => TrapInv
  <1> SUFFICES ASSUME PartInit PROVE TrapInv
    OBVIOUS
  <1>1. /\ handling = [t \in Trap |-> << >>] /\ came = 0 /\ says = [t \in Trap |-> "down"]
        /\ device = None /\ quiet = FALSE /\ open = {} /\ resolved = {}
        /\ sends = [a \in Trap |-> [r \in Receiver |-> None]]
        /\ subscribed \in {"on", "off"} /\ subs = None /\ asking = [a \in Trap |-> None]
        /\ mixed = FALSE
    BY DEF PartInit, Traps!Init, Traps!Alert
  <1>2. << >> \in Late /\ << >> \notin Early
    BY ListsDiffer DEF Late
  <1>3. TrapTypes
    BY <1>1, <1>2 DEF TrapTypes
  <1>4. Announced
    BY <1>1, <1>2, ListsApart DEF Announced
  <1>5. InTurn
    BY <1>1 DEF InTurn
  <1> QED BY <1>3, <1>4, <1>5 DEF TrapInv

LEMMA TrapSame == ASSUME TrapInv, UNCHANGED trapVars PROVE TrapInv'
  <1>1. UNCHANGED <<handling, came, says, device, quiet, open, resolved, sends, subscribed, subs,
                    asking, mixed>>
    BY DEF trapVars
  <1>2. TrapTypes' /\ Announced'
    BY <1>1 DEF TrapInv, TrapTypes, Announced
  <1> QED BY <1>1, <1>2, TurnKept DEF TrapInv

LEMMA TrapStep == ASSUME TrapInv, Traps!Next PROVE TrapInv'
  <1>1. ASSUME NEW t \in Trap, Traps!Handle(t) PROVE TrapInv'
    BY <1>1, AttributeHolds, AskWindowHolds, ExistingHolds, InsertHolds, FanOutHolds,
       DispatchHolds, NotifiedHolds, ResolveHolds DEF Traps!Handle
  <1> QED
    BY <1>1, TrapHolds, FailureHolds, SubsHold, HaveSubsHolds, AttemptHolds, ByHandHolds,
       WorldHolds DEF Traps!Next

LEMMA TrapImplies == ASSUME TrapInv PROVE AlertShowsLink
  <1>0. TrapTypes /\ Announced /\ InTurn
    BY DEF TrapInv
  <1>1. Traps!TypeOK
    <2>1. ASSUME NEW a \in Trap, NEW r \in Receiver, sends[a][r] # None
          PROVE  sends[a][r].tries \in 0..MaxAttempts /\ a \in open \cup resolved
      <3>1. sends[a][r] \in Sending
        BY <1>0, <2>1 DEF TrapTypes
      <3> QED BY <1>0, <2>1, <3>1 DEF Announced, Sending
    <2> QED BY <1>0, <2>1 DEF Traps!TypeOK, Traps!Alert, TrapTypes
  <1>2. Traps!AlertShowsLink
    <2> SUFFICES ASSUME ~mixed, came > 0, \A t \in Trap : handling[t] = << >>
                 PROVE  IF says[came] = "down" THEN \E a \in Trap : open = {a} ELSE open = {}
      BY DEF Traps!AlertShowsLink, Traps!Busy, Traps!Alert
    <2>1. came \in Trap
      BY <1>0 DEF TrapTypes
    <2>2. Matches(came)
      BY <1>0, <2>1, ListsDiffer DEF InTurn
    <2> QED BY <2>2 DEF Matches
  <1> QED BY <1>1, <1>2 DEF AlertShowsLink

\* With traps of a port handled one after the other, none of them failed or suppressed, one
\* alert is open exactly when the last said linkDown (snmpTrapService.ts:78-88), whatever
\* receivers and subscriptions do, and no message is sent but for an alert that was raised.
THEOREM AlertsShowTheLink == PartSpec => []AlertShowsLink
  <1>1. TrapInv /\ [PartNext]_all => TrapInv'
    BY TrapStep, TrapSame DEF PartNext, all
  <1>2. TrapInv => AlertShowsLink
    BY TrapImplies
  <1> QED BY <1>1, <1>2, TrapInit, PTL DEF PartSpec

=============================================================================
