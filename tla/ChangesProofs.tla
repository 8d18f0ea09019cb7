---------------------------- MODULE ChangesProofs ----------------------------
(***************************************************************************)
(* Theorems about changes of configurations, of any size.                  *)
(*                                                                         *)
(* CommitConfirm, for any pushes, accept calls and times and both kinds of *)
(* device: the types; that a change nobody accepted reverts; that a        *)
(* confirmed change sticks.  The last two take an exchange with the device *)
(* to last less than a tick, and one change at a time (Meanwhile without   *)
(* "push" and "accept").  The first allows for reboots of the device, the  *)
(* second for other writes of the platform.                                *)
(*                                                                         *)
(* ConfigHistory, for any devices, lines and failures: that the history is *)
(* true, with one backup of a device at a time.                            *)
(***************************************************************************)
EXTENDS MCChanges, SequenceTheorems, TLAPS

USE PushAssumption, VendorAssumption, TimeAssumption, ModeAssumption

-----------------------------------------------------------------------------
(* Types. *)

LEMMA DeviceTimerType == DeviceTimer \in Nat
  <1>1. (Seconds + Minute - 1) \div Minute \in Nat
    OBVIOUS
  <1> QED BY <1>1 DEF DeviceTimer

LEMMA Division ==
    ASSUME NEW a \in Nat, NEW m \in Nat \ {0}
    PROVE  a = m * (a \div m) + (a % m) /\ a % m \in 0 .. (m - 1)
  OBVIOUS

\* Whole minutes are never less than the seconds asked for.
LEMMA DeviceTimerLasts == DeviceTimer >= Seconds /\ DeviceTimer > 0
  <1> DEFINE a == Seconds + Minute - 1
  <1>1. a \in Nat /\ Minute \in Nat \ {0}
    OBVIOUS
  <1>2. a = Minute * (a \div Minute) + (a % Minute) /\ a % Minute \in 0 .. (Minute - 1)
    BY <1>1, Division
  <1>3. a \div Minute \in Nat
    BY <1>1
  <1> DEFINE x == Minute * (a \div Minute)
  <1>4. x \in Nat
    BY <1>3
  <1>5. x = a - (a % Minute)
    <2> HIDE DEF a
    <2> QED BY <1>1, <1>2, <1>4
  <1>6. x >= Seconds
    BY <1>2, <1>4, <1>5
  <1>7. DeviceTimer = IF vendor = "cisco" THEN x ELSE Seconds
    BY DEF DeviceTimer
  <1> HIDE DEF x
  <1> QED BY <1>4, <1>6, <1>7

DeviceOK ==
    /\ vendor \in Vendors
    /\ running \subseteq Push /\ startup \subseteq Push
    /\ timer \in [Push -> Nat]
    /\ file \in [Push -> Backup \cup {None}]
    /\ boot \in Nat

\* The exchanges with the device keep its types.
LEMMA ArmTypes ==
    ASSUME DeviceOK, NEW p \in Push, NEW n \in 0 .. 3, ArmRevert(p, n)
    PROVE  DeviceOK'
  <1> DEFINE swept == [q \in Push |-> None]
             now   == [cfg |-> running, entries |-> {q \in Push : timer[q] > 0}]
  <1>1. now \in Backup /\ swept \in [Push -> Backup \cup {None}]
    BY DEF DeviceOK, Backup
  <1>2. file' \in [Push -> Backup \cup {None}]
    BY <1>1 DEF ArmRevert, DeviceOK
  <1>3. timer' \in [Push -> Nat]
    <2>1. vendor \in {"cisco", "routeros"}
      BY DEF DeviceOK
    <2>2. CASE n < 3
      BY <2>2 DEF ArmRevert, DeviceOK
    <2>3. CASE n = 3
      BY <2>1, <2>3, DeviceTimerType DEF ArmRevert, DeviceOK
    <2> QED BY <2>2, <2>3
  <1> QED BY <1>2, <1>3 DEF ArmRevert, DeviceOK

LEMMA DisarmTypes ==
    ASSUME DeviceOK, NEW p, NEW n \in 0 .. 2, DisarmRevert(p, n)
    PROVE  DeviceOK'
  <1>0. vendor \in {"cisco", "routeros"}
    BY DEF DeviceOK
  <1>1. timer' \in [Push -> Nat]
    <2>1. CASE n = 0
      BY <2>1 DEF DisarmRevert, DeviceOK
    <2>2. CASE n > 0 /\ vendor = "cisco"
      BY <2>2 DEF DisarmRevert, DeviceOK
    <2>3. CASE n > 0 /\ vendor = "routeros"
      BY <2>3 DEF DisarmRevert, DeviceOK
    <2> QED BY <1>0, <2>1, <2>2, <2>3
  <1>2. file' \in [Push -> Backup \cup {None}]
    BY DEF DisarmRevert, DeviceOK
  <1> QED BY <1>1, <1>2 DEF DisarmRevert, DeviceOK

LEMMA SaveTypes == ASSUME DeviceOK, SaveConfig PROVE DeviceOK'
  BY DEF SaveConfig, DeviceOK

LEMMA FireTypes ==
    ASSUME DeviceOK, NEW p \in Push, Fire(p), UNCHANGED <<vendor, startup, file>>,
           vendor = "routeros" /\ file[p] = None => UNCHANGED boot
    PROVE  DeviceOK'
  <1>1. file[p] # None => file[p].cfg \subseteq Push
    BY DEF DeviceOK, Backup
  <1>2. running' \subseteq Push
    BY <1>1 DEF Fire, DeviceOK
  <1>3. timer' \in [Push -> Nat]
    BY DEF Fire, DeviceOK
  <1>4. boot' \in Nat
    BY DEF Fire, DeviceOK
  <1> QED BY <1>2, <1>3, <1>4 DEF DeviceOK

LEMMA SameDevice == ASSUME DeviceOK, UNCHANGED device PROVE DeviceOK'
  BY DEF DeviceOK, device

\* The rest of the state: keys in Redis, pushes and accept calls.
RestOK ==
    /\ accepted \subseteq Push
    /\ budget \in [Push -> Nat]
    /\ flag \in Nat /\ tokenTtl \in Nat
    /\ token \in Push \cup {None}
    /\ pc \in [Push -> PC] /\ apc \in [Acceptor -> APC]
    /\ manual \subseteq Push
    /\ outcome \in [Push -> {"none", "armed", "reverting", "confirmed", "error"}]
    /\ held \in [Acceptor -> Push \cup {None}]
    /\ subject \in [Acceptor -> SUBSET Push]

LEMMA TypeParts == TypeOK => DeviceOK /\ RestOK
  BY DEF TypeOK, DeviceOK, RestOK

LEMMA TypesNext == DeviceOK' /\ RestOK' => TypeOK'
  BY DEF TypeOK, DeviceOK, RestOK

LEMMA PushTypes ==
    ASSUME TypeOK, NEW p \in Push, PushConfigWithRevert(p) \/ PushStep(p)
    PROVE  TypeOK'
  <1>0. DeviceOK /\ RestOK
    BY TypeParts
  <1>1. DeviceOK'
    <2>1. CASE Arm(p)
      BY <1>0, <2>1, ArmTypes DEF Arm
    <2>2. CASE ArmFails(p)
      BY <1>0, <2>2, ArmTypes, SameDevice DEF ArmFails
    <2>3. CASE Apply(p)
      BY <1>0, <2>3 DEF Apply, DeviceOK
    <2>4. CASE ApplyFails(p)
      BY <1>0, <2>4 DEF ApplyFails, DeviceOK
    <2>5. CASE Disarm(p)
      BY <1>0, <2>5, DisarmTypes DEF Disarm
    <2>6. CASE Save(p)
      BY <1>0, <2>6, SaveTypes DEF Save
    <2>7. CASE DisarmFails(p)
      BY <1>0, <2>7, DisarmTypes, SaveTypes, SameDevice DEF DisarmFails
    <2>8. CASE UNCHANGED device
      BY <1>0, <2>8, SameDevice
    <2> QED
      BY <2>1, <2>2, <2>3, <2>4, <2>5, <2>6, <2>7, <2>8
      DEF PushStep, PushConfigWithRevert, SetFlag, SetToken, Probe, ProbeAnswered,
          ProbeUnanswered, GiveUp, ClearFlag, Crash
  <1>2. RestOK'
    <2> USE <1>0 DEF RestOK, accepts, keys, PC, Goto, Tell
    <2>1. CASE PushConfigWithRevert(p)
      BY <2>1 DEF PushConfigWithRevert
    <2>2. CASE Arm(p)
      BY <2>2 DEF Arm
    <2>3. CASE ArmFails(p)
      BY <2>3 DEF ArmFails
    <2>4. CASE SetFlag(p)
      BY <2>4 DEF SetFlag
    <2>5. CASE Apply(p)
      BY <2>5 DEF Apply
    <2>6. CASE ApplyFails(p)
      BY <2>6 DEF ApplyFails
    <2>7. CASE SetToken(p)
      BY <2>7 DEF SetToken
    <2>8. CASE Probe(p) \/ ProbeAnswered(p) \/ ProbeUnanswered(p)
      BY <2>8 DEF Probe, ProbeAnswered, ProbeUnanswered
    <2>9. CASE GiveUp(p) \/ Crash(p)
      BY <2>9 DEF GiveUp, Crash
    <2>10. CASE Disarm(p) \/ Save(p)
      BY <2>10 DEF Disarm, Save
    <2>11. CASE DisarmFails(p)
      BY <2>11 DEF DisarmFails
    <2>12. CASE ClearFlag(p)
      BY <2>12 DEF ClearFlag
    <2> QED
      BY <2>1, <2>2, <2>3, <2>4, <2>5, <2>6, <2>7, <2>8, <2>9, <2>10, <2>11, <2>12
      DEF PushStep
  <1> QED BY <1>1, <1>2, TypesNext

LEMMA AcceptTypes ==
    ASSUME TypeOK, NEW a \in Acceptor, ConfirmArmedChange(a) \/ AcceptStep(a)
    PROVE  TypeOK'
  <1>0. DeviceOK /\ RestOK
    BY TypeParts
  <1>1. DeviceOK'
    <2>1. CASE AcceptDisarm(a)
      BY <1>0, <2>1, DisarmTypes DEF AcceptDisarm
    <2>2. CASE AcceptSave(a)
      BY <1>0, <2>2, SaveTypes DEF AcceptSave
    <2>3. CASE AcceptFails(a)
      BY <1>0, <2>3, DisarmTypes, SaveTypes, SameDevice DEF AcceptFails
    <2>4. CASE UNCHANGED device
      BY <1>0, <2>4, SameDevice
    <2> QED
      BY <2>1, <2>2, <2>3, <2>4 DEF AcceptStep, ConfirmArmedChange, ReadToken, AcceptDelete
  <1>2. RestOK'
    <2> USE <1>0 DEF RestOK, pushes, keys, APC, AGoto
    <2>0. CalledOff(a) \subseteq Push
      BY DEF CalledOff, DeviceOK
    <2>1. CASE ConfirmArmedChange(a)
      BY <2>1 DEF ConfirmArmedChange
    <2>2. CASE ReadToken(a)
      BY <2>2 DEF ReadToken
    <2>3. CASE AcceptDisarm(a)
      BY <2>0, <2>3 DEF AcceptDisarm
    <2>4. CASE AcceptSave(a)
      BY <2>4 DEF AcceptSave
    <2>5. CASE AcceptFails(a)
      BY <2>0, <2>5 DEF AcceptFails
    <2>6. CASE AcceptDelete(a)
      BY <2>6 DEF AcceptDelete
    <2> QED BY <2>1, <2>2, <2>3, <2>4, <2>5, <2>6 DEF AcceptStep
  <1> QED BY <1>1, <1>2, TypesNext

LEMMA OtherTypes ==
    ASSUME TypeOK, PushLines \/ RebootDevice \/ Tick \/ UNCHANGED vars
    PROVE  TypeOK'
  <1>0. DeviceOK /\ RestOK
    BY TypeParts
  <1>1. CASE PushLines
    <2>1. DeviceOK'
      BY <1>0, <1>1, SaveTypes DEF PushLines
    <2>2. RestOK'
      BY <1>0, <1>1 DEF PushLines, RestOK, keys, pushes, accepts
    <2> QED BY <2>1, <2>2, TypesNext
  <1>2. CASE RebootDevice
    <2>1. timer' \in [Push -> Nat]
      BY <1>0, <1>2 DEF RebootDevice, DeviceOK
    <2>2. DeviceOK'
      BY <1>0, <1>2, <2>1 DEF RebootDevice, DeviceOK
    <2>3. RestOK'
      BY <1>0, <1>2 DEF RebootDevice, RestOK, keys, pushes, accepts
    <2> QED BY <2>2, <2>3, TypesNext
  <1>3. CASE Tick
    <2>1. \A n \in Nat : Elapse(n) \in Nat
      BY DEF Elapse
    <2>2. DeviceOK'
      <3>1. CASE boot > 0 /\ boot' = boot - 1 /\ UNCHANGED <<running, timer>>
        BY <1>0, <1>3, <3>1 DEF Tick, DeviceOK
      <3>2. CASE timer' = [p \in Push |-> Elapse(timer[p])] /\ UNCHANGED <<running, boot>>
        BY <1>0, <1>3, <2>1, <3>2 DEF Tick, DeviceOK
      <3>3. ASSUME NEW p \in Push, Fire(p) PROVE DeviceOK'
        BY <1>0, <1>3, <3>3, FireTypes DEF Tick, Fire
      <3> QED BY <1>3, <3>1, <3>2, <3>3 DEF Tick, Due
    <2>3. RestOK'
      BY <1>0, <1>3, <2>1 DEF Tick, RestOK, accepts
    <2> QED BY <2>2, <2>3, TypesNext
  <1>4. CASE UNCHANGED vars
    <2>1. DeviceOK'
      BY <1>0, <1>4, SameDevice DEF vars, device
    <2>2. RestOK'
      BY <1>0, <1>4 DEF vars, RestOK
    <2> QED BY <2>1, <2>2, TypesNext
  <1> QED BY <1>1, <1>2, <1>3, <1>4

LEMMA TypeStep == ASSUME TypeOK, [Next]_vars PROVE TypeOK'
  BY PushTypes, AcceptTypes, OtherTypes DEF Next

LEMMA TypeInit == Init => TypeOK
  BY DEF Init, TypeOK, PC, APC, Backup

\* The device, the keys, the pushes and the accept calls keep their types.
THEOREM SafeApplyTypes == Spec => []TypeOK
  <1>1. Init => TypeOK
    BY TypeInit
  <1>2. TypeOK /\ [Next]_vars => TypeOK'
    BY TypeStep
  <1> QED BY <1>1, <1>2, PTL DEF Spec

-----------------------------------------------------------------------------
(* One change at a time. *)

OneChange == Meanwhile \cap {"push", "accept"} = {}

\* A push is under way, or its revert is scheduled; an accept call is under way.
Busy(p) == pc[p] \notin {"idle", "done"} \/ timer[p] > 0
Accepting(a) == apc[a] \in {"token", "disarm", "save", "delete"}

\* Nothing holds a line of p yet.
Fresh(p) ==
    /\ p \notin running /\ p \notin startup /\ p \notin accepted
    /\ \A q \in Push : file[q] # None => p \notin file[q].cfg

\* A scheduled revert keeps other pushes out, and no backup holds a scheduler entry.
Alone ==
    /\ \A p, q \in Push : Busy(p) /\ Busy(q) => p = q
    /\ \A a \in Acceptor : Accepting(a) => \A p \in Push : pc[p] \in {"idle", "done"}
    /\ \A p \in Push : pc[p] \in {"idle", "arm"} => timer[p] = 0
    /\ \A p \in Push : pc[p] \in {"idle", "arm", "flag", "apply"} => Fresh(p)
    /\ \A p \in Push : file[p] # None => file[p].entries = {}

Armed == {q \in Push : timer[q] > 0}

\* What the exchanges do to the device.
LEMMA ArmEffects ==
    ASSUME TypeOK, NEW p \in Push, NEW n \in 0 .. 3, ArmRevert(p, n)
    PROVE  /\ UNCHANGED <<vendor, running, startup, boot>> /\ Reachable
           /\ \A q \in Push \ {p} : timer'[q] \in {0, timer[q]} /\ file'[q] \in {None, file[q]}
           /\ file'[p] \in {None, file[p], [cfg |-> running, entries |-> Armed]}
           /\ n < 3 => timer' = timer
           /\ n = 3 => /\ timer'[p] = DeviceTimer
                       /\ vendor = "routeros" => file'[p] = [cfg |-> running, entries |-> Armed]
  <1>0. vendor \in {"cisco", "routeros"} /\ timer \in [Push -> Nat]
        /\ file \in [Push -> Backup \cup {None}]
    BY DEF TypeOK
  <1>1. \A q \in Push \ {p} : timer'[q] \in {0, timer[q]}
    <2>1. CASE n < 3
      BY <2>1 DEF ArmRevert
    <2>2. CASE n = 3 /\ vendor = "cisco"
      BY <2>2 DEF ArmRevert
    <2>3. CASE n = 3 /\ vendor = "routeros"
      BY <1>0, <2>3 DEF ArmRevert
    <2> QED BY <1>0, <2>1, <2>2, <2>3
  <1>2. \A q \in Push \ {p} : file'[q] \in {None, file[q]}
    BY DEF ArmRevert
  <1>3. /\ file'[p] \in {None, file[p], [cfg |-> running, entries |-> Armed]}
        /\ n = 3 /\ vendor = "routeros" => file'[p] = [cfg |-> running, entries |-> Armed]
    BY DEF ArmRevert, Armed
  <1>4. n = 3 => timer'[p] = DeviceTimer
    BY <1>0 DEF ArmRevert
  <1>5. UNCHANGED <<vendor, running, startup, boot>> /\ Reachable
    BY DEF ArmRevert
  <1>6. n < 3 => timer' = timer
    BY DEF ArmRevert
  <1> QED BY <1>1, <1>2, <1>3, <1>4, <1>5, <1>6

LEMMA DisarmEffects ==
    ASSUME TypeOK, NEW p, NEW n \in 0 .. 2, DisarmRevert(p, n)
    PROVE  /\ UNCHANGED <<vendor, running, startup, boot>> /\ Reachable
           /\ \A q \in Push : timer'[q] \in {0, timer[q]} /\ file'[q] \in {None, file[q]}
           /\ n = 0 => UNCHANGED device
           /\ n > 0 /\ vendor = "cisco" => \A q \in Push : timer'[q] = 0
           /\ n > 0 /\ vendor = "routeros" =>
                 \A q \in Push : IF q = p THEN timer'[q] = 0
                                ELSE timer'[q] = timer[q] /\ file'[q] = file[q]
  <1>0. vendor \in {"cisco", "routeros"} /\ timer \in [Push -> Nat]
        /\ file \in [Push -> Backup \cup {None}]
    BY DEF TypeOK
  <1>1. UNCHANGED <<vendor, running, startup, boot>> /\ Reachable
    BY DEF DisarmRevert
  <1>2. \A q \in Push : file'[q] \in {None, file[q]} /\ (q # p => file'[q] = file[q])
    BY <1>0 DEF DisarmRevert
  <1>3. CASE n = 0
    <2>1. timer' = timer /\ file' = file
      BY <1>3 DEF DisarmRevert
    <2> QED BY <1>1, <1>2, <1>3, <2>1 DEF device
  <1>4. CASE n > 0 /\ vendor = "cisco"
    <2>1. \A q \in Push : timer'[q] = 0
      BY <1>4 DEF DisarmRevert
    <2> QED BY <1>1, <1>2, <1>4, <2>1
  <1>5. CASE n > 0 /\ vendor = "routeros"
    <2>1. timer' = [timer EXCEPT ![p] = 0]
      BY <1>5 DEF DisarmRevert
    <2>2. \A q \in Push : IF q = p THEN timer'[q] = 0 ELSE timer'[q] = timer[q]
      BY <1>0, <2>1
    <2> QED BY <1>1, <1>2, <1>5, <2>2
  <1> QED BY <1>0, <1>3, <1>4, <1>5

\* What the steps of a push do.
LEMMA PushEffects ==
    ASSUME TypeOK, NEW p \in Push, PushStep(p)
    PROVE  /\ vendor' = vendor /\ apc' = apc /\ subject' = subject
           /\ pc[p] \notin {"idle", "done"} /\ pc'[p] \notin {"idle", "arm"}
           /\ \A q \in Push \ {p} : pc'[q] = pc[q] /\ timer'[q] \in {0, timer[q]}
           /\ running' \in {running, running \cup {p}}
           /\ startup' \in {startup, running}
           /\ accepted' \subseteq accepted \cup ({p} \cap running) /\ accepted \subseteq accepted'
           /\ \A q \in Push : \/ file'[q] \in {None, file[q]}
                            \/ /\ pc[p] = "arm" /\ q = p
                               /\ file'[q] = [cfg |-> running, entries |-> Armed]
           /\ vendor = "routeros" /\ timer'[p] > 0 =>
                 timer[p] > 0 \/ file'[p] = [cfg |-> running, entries |-> Armed]
           /\ pc'[p] \in {"flag", "apply"} =>
                 /\ pc[p] \in {"arm", "flag"}
                 /\ UNCHANGED <<running, startup, accepted>>
  <1>0. /\ pc \in [Push -> PC] /\ running \subseteq Push /\ timer \in [Push -> Nat]
        /\ \A at : Goto(p, at) => /\ pc'[p] = at
                                  /\ \A q \in Push \ {p} : pc'[q] = pc[q]
        /\ \A what : Tell(p, what) => /\ pc'[p] = "done"
                                     /\ \A q \in Push \ {p} : pc'[q] = pc[q]
    BY DEF TypeOK, Goto, Tell
  <1>1. CASE Arm(p)
    BY <1>0, <1>1, ArmEffects DEF Arm, accepts
  <1>2. CASE ArmFails(p)
    BY <1>0, <1>2, ArmEffects DEF ArmFails, accepts, device
  <1>3. CASE SetFlag(p)
    BY <1>0, <1>3 DEF SetFlag, accepts, device
  <1>4. CASE Apply(p)
    BY <1>0, <1>4 DEF Apply, accepts
  <1>5. CASE ApplyFails(p)
    BY <1>0, <1>5 DEF ApplyFails, accepts
  <1>6. CASE SetToken(p)
    BY <1>0, <1>6 DEF SetToken, accepts, device
  <1>7. CASE Probe(p) \/ ProbeAnswered(p) \/ ProbeUnanswered(p)
    BY <1>0, <1>7 DEF Probe, ProbeAnswered, ProbeUnanswered, accepts, device
  <1>8. CASE GiveUp(p) \/ Crash(p)
    BY <1>0, <1>8 DEF GiveUp, Crash, accepts, device
  <1>9. CASE Disarm(p)
    BY <1>0, <1>9, DisarmEffects DEF Disarm, accepts
  <1>10. CASE Save(p)
    BY <1>0, <1>10 DEF Save, SaveConfig, accepts
  <1>11. CASE DisarmFails(p)
    <2>1. ASSUME NEW n \in 0 .. 2, DisarmRevert(p, n), pc[p] = "disarm",
                 accepted' = IF n > 0 THEN accepted \cup ({p} \cap running) ELSE accepted
          PROVE  /\ UNCHANGED <<vendor, running, startup>>
                 /\ \A q \in Push : timer'[q] \in {0, timer[q]} /\ file'[q] \in {None, file[q]}
                 /\ accepted \subseteq accepted' /\ accepted' \subseteq accepted \cup ({p} \cap running)
      BY <2>1, DisarmEffects
    <2>2. CASE pc[p] = "save" /\ SaveConfig /\ UNCHANGED accepted
      BY <1>0, <1>11, <2>2 DEF DisarmFails, SaveConfig, accepts
    <2>3. CASE pc[p] \in {"disarm", "save"} /\ UNCHANGED <<device, accepted>>
      BY <1>0, <1>11, <2>3 DEF DisarmFails, device, accepts
    <2> QED BY <1>0, <1>11, <2>1, <2>2, <2>3 DEF DisarmFails, accepts
  <1>12. CASE ClearFlag(p)
    BY <1>0, <1>12 DEF ClearFlag, accepts, device
  <1> QED
    BY <1>1, <1>2, <1>3, <1>4, <1>5, <1>6, <1>7, <1>8, <1>9, <1>10, <1>11, <1>12 DEF PushStep

\* What all other steps do: they only take timers and backups away.
LEMMA AcceptEffects ==
    ASSUME OneChange, TypeOK, NEW a \in Acceptor, ConfirmArmedChange(a) \/ AcceptStep(a)
    PROVE  /\ UNCHANGED <<vendor, running, pc>>
           /\ startup' \in {startup, running}
           /\ \A p \in Push : timer'[p] \in {0, timer[p]} /\ file'[p] \in {None, file[p]}
           /\ accepted \subseteq accepted' /\ accepted' \subseteq accepted \cup running
           /\ \A b \in Acceptor :
                 Accepting(b)' => Accepting(b) \/ \A p \in Push : pc[p] \in {"idle", "done"}
  <1>0. /\ apc \in [Acceptor -> APC]
        /\ \A at : AGoto(a, at) => /\ apc'[a] = at
                                   /\ \A b \in Acceptor \ {a} : apc'[b] = apc[b]
        /\ CalledOff(a) \subseteq running
    BY DEF TypeOK, AGoto, CalledOff
  <1>1. CASE ConfirmArmedChange(a)
    BY <1>0, <1>1 DEF ConfirmArmedChange, device, pushes, OneChange, Accepting
  <1>2. CASE ReadToken(a) \/ AcceptDelete(a)
    BY <1>0, <1>2 DEF ReadToken, AcceptDelete, device, pushes, Accepting
  <1>3. CASE AcceptDisarm(a)
    BY <1>0, <1>3, DisarmEffects DEF AcceptDisarm, pushes, Accepting
  <1>4. CASE AcceptSave(a)
    BY <1>0, <1>4 DEF AcceptSave, SaveConfig, pushes, Accepting
  <1>5. CASE AcceptFails(a)
    <2>1. ASSUME NEW n \in 1 .. 2, DisarmRevert(held[a], n), accepted' = accepted \cup CalledOff(a)
          PROVE  /\ UNCHANGED <<vendor, running, startup>>
                 /\ \A q \in Push : timer'[q] \in {0, timer[q]} /\ file'[q] \in {None, file[q]}
                 /\ accepted \subseteq accepted' /\ accepted' \subseteq accepted \cup running
      BY <1>0, <2>1, DisarmEffects
    <2>2. CASE SaveConfig /\ UNCHANGED accepted
      BY <1>0, <1>5, <2>2 DEF AcceptFails, SaveConfig, pushes, Accepting
    <2>3. CASE UNCHANGED <<device, accepted>>
      BY <1>0, <1>5, <2>3 DEF AcceptFails, device, pushes, Accepting
    <2> QED BY <1>0, <1>5, <2>1, <2>2, <2>3 DEF AcceptFails, pushes, Accepting
  <1> QED BY <1>1, <1>2, <1>3, <1>4, <1>5 DEF AcceptStep

LEMMA OtherEffects ==
    ASSUME TypeOK, Alone, PushLines \/ RebootDevice \/ Tick
    PROVE  /\ UNCHANGED <<vendor, pc, apc, accepted, file, outcome, subject>>
           /\ startup' \in {startup, running}
           /\ \A p \in Push : timer'[p] > 0 => timer[p] > 0
           /\ \/ running' = running
              \/ vendor = "cisco" /\ running' = startup
              \/ \E p \in Push : vendor = "routeros" /\ timer[p] > 0 /\ file[p] # None /\ running' = file[p].cfg
  <1>0. timer \in [Push -> Nat]
    BY DEF TypeOK
  <1>1. CASE PushLines
    BY <1>1 DEF PushLines, SaveConfig, pushes, accepts
  <1>2. CASE RebootDevice
    <2>1. \A p \in Push : timer'[p] > 0 => timer[p] > 0
      BY <1>0, <1>2 DEF RebootDevice
    <2> QED BY <1>2, <2>1 DEF RebootDevice, pushes, accepts
  <1>3. CASE Tick
    <2>1. UNCHANGED <<vendor, pc, apc, accepted, file, outcome, subject, startup>>
      BY <1>3 DEF Tick, accepts
    <2>2. CASE UNCHANGED <<running, timer>>
      BY <2>1, <2>2
    <2>3. CASE timer' = [p \in Push |-> Elapse(timer[p])] /\ UNCHANGED <<running, boot>>
      BY <1>0, <2>1, <2>3 DEF Elapse
    <2>4. ASSUME NEW p \in Due, Fire(p)
          PROVE  /\ \A q \in Push : timer'[q] > 0 => timer[q] > 0
                 /\ \/ running' = running
                    \/ vendor = "cisco" /\ running' = startup
                    \/ vendor = "routeros" /\ timer[p] > 0 /\ file[p] # None /\ running' = file[p].cfg
      <3>1. p \in Push /\ timer[p] > 0
        BY <2>4 DEF Due
      <3>2. CASE /\ vendor = "cisco" /\ running' = startup
                 /\ timer' = [q \in Push |-> 0]
        BY <3>2
      <3>3. CASE /\ vendor = "routeros" /\ file[p] # None /\ running' = file[p].cfg
                 /\ timer' = [q \in Push |-> IF q \in file[p].entries THEN Seconds ELSE 0]
        BY <3>1, <3>3 DEF Alone
      <3>4. CASE timer' = [timer EXCEPT ![p] = Seconds] /\ UNCHANGED running
        BY <1>0, <3>1, <3>4
      <3> QED BY <2>4, <3>2, <3>3, <3>4 DEF Fire
    <2> QED BY <1>3, <2>1, <2>2, <2>3, <2>4 DEF Tick, Due
  <1> QED BY <1>1, <1>2, <1>3

LEMMA AloneInit == Init => Alone
  BY DEF Init, Alone, Busy, Accepting, Fresh

LEMMA AlonePush ==
    ASSUME TypeOK, Alone, NEW p \in Push, PushStep(p)
    PROVE  Alone'
  <1>0. /\ pc[p] \notin {"idle", "done"} /\ pc'[p] \notin {"idle", "arm"}
        /\ \A q \in Push \ {p} : pc'[q] = pc[q] /\ timer'[q] \in {0, timer[q]}
        /\ \A q \in Push \ {p} : pc[q] \in {"idle", "done"} /\ timer[q] = 0
        /\ apc' = apc
    <2>1. timer \in [Push -> Nat]
      BY DEF TypeOK
    <2> QED BY <2>1, PushEffects DEF Alone, Busy
  <1>1. \A q, r \in Push : Busy(q)' /\ Busy(r)' => q = r
    BY <1>0 DEF Busy
  <1>2. \A a \in Acceptor : ~Accepting(a)'
    BY <1>0 DEF Alone, Accepting
  <1>3. \A q \in Push : pc'[q] \in {"idle", "arm"} => timer'[q] = 0
    BY <1>0
  <1>4. \A q \in Push : pc'[q] \in {"idle", "arm", "flag", "apply"} => Fresh(q)'
    <2> SUFFICES ASSUME NEW q \in Push, pc'[q] \in {"idle", "arm", "flag", "apply"}
                 PROVE  Fresh(q)'
      OBVIOUS
    <2>1. Fresh(q)
      BY <1>0, PushEffects DEF Alone
    <2>2. q \notin running' /\ q \notin startup' /\ q \notin accepted'
      BY <2>1, PushEffects DEF Fresh
    <2>3. ASSUME NEW r \in Push, file'[r] # None PROVE q \notin file'[r].cfg
      BY <2>1, <2>3, PushEffects DEF Fresh
    <2> QED BY <2>2, <2>3 DEF Fresh
  <1>5. \A q \in Push : file'[q] # None => file'[q].entries = {}
    <2>1. pc[p] = "arm" => Armed = {}
      BY <1>0 DEF Alone, Armed
    <2> QED BY <2>1, PushEffects DEF Alone
  <1> QED BY <1>1, <1>2, <1>3, <1>4, <1>5 DEF Alone

LEMMA AloneStart ==
    ASSUME OneChange, TypeOK, Alone, NEW p \in Push, PushConfigWithRevert(p)
    PROVE  Alone'
  <1>0. /\ \A q \in Push : pc[q] \in {"idle", "done"} /\ timer[q] = 0
        /\ \A a \in Acceptor : ~Accepting(a)
    <2>1. timer \in [Push -> Nat] /\ ~WindowOpen
      BY DEF TypeOK, PushConfigWithRevert, OneChange
    <2> QED BY <2>1 DEF WindowOpen, Accepting
  <1>1. /\ pc[p] = "idle" /\ pc'[p] = "arm" /\ \A q \in Push \ {p} : pc'[q] = pc[q]
        /\ UNCHANGED <<running, startup, timer, file, accepted, apc>>
    BY DEF PushConfigWithRevert, Goto, device, accepts, TypeOK
  <1>2. \A q, r \in Push : Busy(q)' /\ Busy(r)' => q = r
    BY <1>0, <1>1 DEF Busy
  <1>3. \A a \in Acceptor : ~Accepting(a)'
    BY <1>0, <1>1 DEF Accepting
  <1>4. \A q \in Push : pc'[q] \in {"idle", "arm", "flag", "apply"} => Fresh(q)'
    BY <1>0, <1>1 DEF Alone, Fresh
  <1> QED BY <1>0, <1>1, <1>2, <1>3, <1>4 DEF Alone

LEMMA AloneElse ==
    ASSUME TypeOK, Alone, UNCHANGED pc,
           \A p \in Push : (timer'[p] > 0 => timer[p] > 0) /\ file'[p] \in {None, file[p]},
           \A p \in Push : Fresh(p) => p \notin running' /\ p \notin startup' /\ p \notin accepted',
           timer' \in [Push -> Nat],
           \A b \in Acceptor : Accepting(b)' => Accepting(b) \/ \A p \in Push : pc[p] \in {"idle", "done"}
    PROVE  Alone'
  <1>1. \A q, r \in Push : Busy(q)' /\ Busy(r)' => q = r
    BY DEF Alone, Busy
  <1>2. \A a \in Acceptor : Accepting(a)' => \A p \in Push : pc'[p] \in {"idle", "done"}
    BY DEF Alone
  <1>3. \A q \in Push : pc'[q] \in {"idle", "arm"} => timer'[q] = 0
    <2>1. timer \in [Push -> Nat]
      BY DEF TypeOK
    <2> QED BY <2>1 DEF Alone
  <1>4. \A q \in Push : pc'[q] \in {"idle", "arm", "flag", "apply"} => Fresh(q)'
    BY DEF Alone, Fresh
  <1>5. \A q \in Push : file'[q] # None => file'[q].entries = {}
    BY DEF Alone
  <1> QED BY <1>1, <1>2, <1>3, <1>4, <1>5 DEF Alone

LEMMA AloneStep ==
    ASSUME OneChange, TypeOK, Alone, [Next]_vars
    PROVE  Alone'
  <1>0. timer \in [Push -> Nat] /\ timer' \in [Push -> Nat]
    BY TypeStep DEF TypeOK
  <1>1. ASSUME NEW p \in Push, PushConfigWithRevert(p) PROVE Alone'
    BY <1>1, AloneStart
  <1>2. ASSUME NEW p \in Push, PushStep(p) PROVE Alone'
    BY <1>2, AlonePush
  <1>3. ASSUME NEW a \in Acceptor, ConfirmArmedChange(a) \/ AcceptStep(a) PROVE Alone'
    <2>1. \A p \in Push : Fresh(p) => p \notin running' /\ p \notin startup' /\ p \notin accepted'
      BY <1>3, AcceptEffects DEF Fresh
    <2>2. \A p \in Push : (timer'[p] > 0 => timer[p] > 0) /\ file'[p] \in {None, file[p]}
      BY <1>0, <1>3, AcceptEffects
    <2>3. /\ UNCHANGED pc
          /\ \A b \in Acceptor :
                Accepting(b)' => Accepting(b) \/ \A p \in Push : pc[p] \in {"idle", "done"}
      BY <1>3, AcceptEffects
    <2> QED BY <1>0, <2>1, <2>2, <2>3, AloneElse
  <1>4. CASE PushLines \/ RebootDevice \/ Tick
    <2>1. \A p \in Push : Fresh(p) => p \notin running' /\ p \notin startup' /\ p \notin accepted'
      BY <1>4, OtherEffects DEF Fresh
    <2>2. /\ \A p \in Push : (timer'[p] > 0 => timer[p] > 0) /\ file'[p] \in {None, file[p]}
          /\ UNCHANGED <<pc, apc>>
      BY <1>4, OtherEffects
    <2>3. \A b \in Acceptor : Accepting(b)' => Accepting(b)
      BY <2>2 DEF Accepting
    <2> QED BY <1>0, <2>1, <2>2, <2>3, AloneElse
  <1>5. CASE UNCHANGED vars
    BY <1>5 DEF vars, Alone, Busy, Accepting, Fresh
  <1> QED BY <1>1, <1>2, <1>3, <1>4, <1>5 DEF Next

\* Without a second push and without an early accept, one change is on its way at a time.
LEMMA OneChangeIsAlone ==
    ASSUME OneChange
    PROVE  Spec => [](TypeOK /\ Alone)
  <1>1. TypeOK /\ Alone /\ [Next]_vars => Alone'
    BY AloneStep
  <1> QED BY <1>1, SafeApplyTypes, AloneInit, PTL DEF Spec

-----------------------------------------------------------------------------
(* The net: the changes nobody accepted are taken back.  Only a reboot may come *)
(* in between.                                                                 *)

OnlyReboots == Prompt = TRUE /\ Meanwhile \subseteq {"reboot"}

NetInv ==
    /\ startup \subseteq accepted
    /\ \A p \in Push : file[p] # None => file[p].cfg \subseteq accepted
    /\ NetHolds
    /\ \A p \in Push : pc[p] \in {"flag", "apply"} => boot > 0 \/ WillRevert(p)
    /\ SessionFree \/ \A p \in Push : timer[p] = 0

LEMMA RebootsLeaveOneChange == OnlyReboots => OneChange
  BY DEF OnlyReboots, OneChange

LEMMA NetInit == Init => NetInv
  BY DEF Init, NetInv, NetHolds, SessionFree

\* A step that leaves the device alone.
LEMMA NetSame ==
    ASSUME NetInv, UNCHANGED device, accepted \subseteq accepted',
           \A p \in Push : pc'[p] \in {"flag", "apply"} => pc[p] \in {"flag", "apply"},
           SessionFree => SessionFree'
    PROVE  NetInv'
  <1>1. UNCHANGED <<vendor, running, startup, timer, file, boot>>
    BY DEF device
  <1>2. \A p \in Push : WillRevert(p) => WillRevert(p)'
    BY <1>1 DEF WillRevert
  <1>3. NetHolds'
    <2>1. \A p \in running' \ accepted' : p \in running \ accepted
      BY <1>1
    <2>2. \A p \in running \ accepted : WillRevert(p)'
      BY <1>1 DEF WillRevert, NetInv, NetHolds
    <2> QED BY <2>1, <2>2 DEF NetHolds
  <1>4. \A p \in Push : pc'[p] \in {"flag", "apply"} => boot' > 0 \/ WillRevert(p)'
    BY <1>1, <1>2 DEF NetInv
  <1>5. SessionFree' \/ \A p \in Push : timer'[p] = 0
    BY <1>1 DEF NetInv
  <1>6. startup' \subseteq accepted' /\ \A p \in Push : file'[p] # None => file'[p].cfg \subseteq accepted'
    BY <1>1 DEF NetInv
  <1> QED BY <1>3, <1>4, <1>5, <1>6 DEF NetInv

\* While a push is under way, nobody else's change waits for its revert.
LEMMA OnlyMine ==
    ASSUME TypeOK, Alone, NetHolds, NEW p \in Push, pc[p] \notin {"idle", "done"}
    PROVE  /\ running \subseteq accepted \cup {p}
           /\ pc[p] = "arm" => running \subseteq accepted
           /\ \A q \in Push \ {p} : pc[q] \in {"idle", "done"} /\ timer[q] = 0
           /\ \A a \in Acceptor : ~Accepting(a)
  <1>1. timer \in [Push -> Nat] /\ running \subseteq Push
    BY DEF TypeOK
  <1>2. \A q \in Push \ {p} : pc[q] \in {"idle", "done"} /\ timer[q] = 0
    BY <1>1 DEF Alone, Busy
  <1>3. \A a \in Acceptor : ~Accepting(a)
    BY DEF Alone
  <1>4. \A q \in Push : timer[q] = 0 => q \notin running \/ q \in accepted
    BY DEF NetHolds, WillRevert
  <1>5. running \subseteq accepted \cup {p}
    BY <1>1, <1>2, <1>4
  <1>6. pc[p] = "arm" => running \subseteq accepted
    BY <1>1, <1>2, <1>4 DEF Alone
  <1> QED BY <1>2, <1>3, <1>5, <1>6

\* Arming: everything that runs is accepted, and the new revert brings back just that.
LEMMA NetArm ==
    ASSUME TypeOK, Alone, NetInv, NEW p \in Push, Arm(p) \/ ArmFails(p)
    PROVE  NetInv'
  <1>0. pc[p] = "arm" /\ SessionFree /\ UNCHANGED <<accepted, apc>>
    BY DEF Arm, ArmFails, accepts
  <1>1. /\ pc' \in {[pc EXCEPT ![p] = "flag"], [pc EXCEPT ![p] = "done"]}
        /\ pc'[p] \in {"flag", "done"} /\ \A q \in Push \ {p} : pc'[q] = pc[q]
    BY DEF TypeOK, Arm, ArmFails, Goto, Tell
  <1>2. SessionFree'
    BY <1>0, <1>1 DEF SessionFree
  <1>3. /\ running \subseteq accepted
        /\ \A q \in Push \ {p} : pc[q] \in {"idle", "done"}
    BY <1>0, OnlyMine DEF NetInv
  <1>4. CASE UNCHANGED device /\ Tell(p, "error")
    <2>1. \A q \in Push : pc'[q] \in {"flag", "apply"} => pc[q] \in {"flag", "apply"}
      BY <1>0, <1>4 DEF TypeOK, Tell, Goto
    <2> QED BY <1>0, <1>2, <1>4, <2>1, NetSame
  <1>5. ASSUME NEW n \in 0 .. 3, ArmRevert(p, n), n = 3 \/ Tell(p, "error")
        PROVE  NetInv'
    <2>1. running' = running /\ startup' = startup /\ vendor' = vendor
      BY <1>5, ArmEffects
    <2>2. startup' \subseteq accepted' /\ NetHolds'
      BY <1>0, <1>3, <2>1 DEF NetInv, NetHolds
    <2>3. \A q \in Push : file'[q] # None => file'[q].cfg \subseteq accepted'
      <3>1. \A q \in Push : file'[q] \in {None, file[q], [cfg |-> running, entries |-> Armed]}
        BY <1>5, ArmEffects
      <3> QED BY <1>0, <1>3, <3>1 DEF NetInv
    <2>4. pc'[p] = "flag" => WillRevert(p)'
      <3> SUFFICES ASSUME pc'[p] = "flag" PROVE WillRevert(p)'
        OBVIOUS
      <3>1. n = 3
        BY <1>5 DEF TypeOK, Tell, Goto
      <3>2. timer'[p] > 0
        BY <1>5, <3>1, ArmEffects, DeviceTimerLasts
      <3>3. p \notin startup' /\ p \notin running
        BY <1>0, <2>1 DEF Alone, Fresh
      <3>4. vendor = "routeros" => file'[p] # None /\ p \notin file'[p].cfg
        <4>1. vendor = "routeros" => file'[p] = [cfg |-> running, entries |-> Armed]
          BY <1>5, <3>1, ArmEffects
        <4>2. [cfg |-> running, entries |-> Armed] # None
          <5>1. [cfg |-> running, entries |-> Armed] \in Backup
            BY DEF TypeOK, Backup, Armed
          <5> QED BY <5>1
        <4> QED BY <3>3, <4>1, <4>2
      <3> QED BY <2>1, <3>2, <3>3, <3>4 DEF WillRevert
    <2>5. \A q \in Push : pc'[q] \in {"flag", "apply"} => boot' > 0 \/ WillRevert(q)'
      BY <1>1, <1>3, <2>4
    <2> QED BY <1>2, <2>2, <2>3, <2>5 DEF NetInv
  <1> QED BY <1>4, <1>5 DEF Arm, ArmFails

\* A disarm: what it calls off is accepted, what it leaves alone keeps its revert.
LEMMA NetDisarmed ==
    ASSUME TypeOK, NetInv, NEW p, NEW n \in 0 .. 2, DisarmRevert(p, n),
           accepted \subseteq accepted',
           n > 0 => \A q \in running : vendor = "cisco" \/ q = p => timer[q] = 0 \/ q \in accepted',
           \A q \in Push : pc'[q] \notin {"flag", "apply"},
           SessionFree' \/ (n = 2 /\ vendor = "cisco")
    PROVE  NetInv'
  <1>0. vendor \in {"cisco", "routeros"} /\ running \subseteq Push
    BY DEF TypeOK
  <1>1. /\ UNCHANGED <<vendor, running, startup, boot>>
        /\ \A q \in Push : timer'[q] \in {0, timer[q]} /\ file'[q] \in {None, file[q]}
    BY DisarmEffects
  <1>2. startup' \subseteq accepted' /\ \A q \in Push : file'[q] # None => file'[q].cfg \subseteq accepted'
    BY <1>1 DEF NetInv
  <1>3. \A q \in running' \ accepted' : WillRevert(q)'
    <2> SUFFICES ASSUME NEW q \in running' \ accepted' PROVE WillRevert(q)'
      OBVIOUS
    <2>1. q \in Push /\ q \in running /\ q \notin accepted'
      BY <1>0, <1>1
    <2>2. WillRevert(q) /\ timer[q] # 0
      BY <2>1 DEF NetInv, NetHolds, WillRevert
    <2>3. timer'[q] = timer[q] /\ file'[q] = file[q]
      <3>1. CASE n = 0
        BY <3>1, DisarmEffects DEF device
      <3>2. CASE n > 0
        <4>1. vendor = "routeros" /\ q # p
          BY <1>0, <2>1, <2>2, <3>2
        <4> QED BY <2>1, <3>2, <4>1, DisarmEffects
      <3> QED BY <3>1, <3>2
    <2> QED BY <1>1, <2>2, <2>3 DEF WillRevert
  <1>4. SessionFree' \/ \A q \in Push : timer'[q] = 0
    BY DisarmEffects
  <1>5. NetHolds'
    BY <1>3 DEF NetHolds
  <1> QED BY <1>2, <1>4, <1>5 DEF NetInv

\* `write memory` runs when no revert is pending: what it keeps has been accepted.
LEMMA NetSaved ==
    ASSUME TypeOK, NetInv, SaveConfig, UNCHANGED accepted, \A q \in Push : timer[q] = 0,
           \A q \in Push : pc'[q] \notin {"flag", "apply"}
    PROVE  NetInv'
  <1>1. running \subseteq accepted
    BY DEF TypeOK, NetInv, NetHolds, WillRevert
  <1>2. running' = running /\ startup' \in {startup, running} /\ timer' = timer /\ file' = file
    BY DEF SaveConfig
  <1>3. NetHolds'
    BY <1>1, <1>2 DEF NetHolds
  <1>4. startup' \subseteq accepted' /\ \A q \in Push : file'[q] # None => file'[q].cfg \subseteq accepted'
    BY <1>1, <1>2 DEF NetInv
  <1> QED BY <1>2, <1>3, <1>4 DEF NetInv

LEMMA NetApply ==
    ASSUME TypeOK, Alone, NetInv, NEW p \in Push, Apply(p) \/ ApplyFails(p)
    PROVE  NetInv'
  <1>0. /\ pc[p] = "apply" /\ UNCHANGED <<vendor, startup, timer, file, boot, accepted, apc>>
        /\ running' = running \/ (boot = 0 /\ running' = running \cup {p})
    BY DEF Apply, ApplyFails, accepts, Reachable
  <1>1. pc'[p] \in {"token", "probe", "done"} /\ \A q \in Push \ {p} : pc'[q] = pc[q]
    BY DEF TypeOK, Apply, ApplyFails, Goto, Tell
  <1>2. SessionFree => SessionFree'
    BY <1>0, <1>1 DEF SessionFree
  <1>3. \A q \in Push : WillRevert(q) => WillRevert(q)'
    BY <1>0 DEF WillRevert
  <1>4. \A q \in running' \ accepted' : WillRevert(q)'
    <2>1. boot = 0 => WillRevert(p)
      BY <1>0 DEF NetInv, TypeOK
    <2>2. \A q \in running \ accepted : WillRevert(q) /\ q \in Push
      BY DEF NetInv, NetHolds, TypeOK
    <2> QED BY <1>0, <1>3, <2>1, <2>2
  <1>5. \A q \in Push : pc'[q] \in {"flag", "apply"} => boot' > 0 \/ WillRevert(q)'
    BY <1>0, <1>1, <1>3 DEF NetInv
  <1>6. SessionFree' \/ \A q \in Push : timer'[q] = 0
    BY <1>0, <1>2 DEF NetInv
  <1>7. startup' \subseteq accepted' /\ \A q \in Push : file'[q] # None => file'[q].cfg \subseteq accepted'
    BY <1>0 DEF NetInv
  <1>8. NetHolds'
    BY <1>4 DEF NetHolds
  <1> QED BY <1>5, <1>6, <1>7, <1>8 DEF NetInv

LEMMA NetPush ==
    ASSUME TypeOK, Alone, NetInv, NEW p \in Push, PushStep(p)
    PROVE  NetInv'
  <1>0. /\ pc \in [Push -> PC]
        /\ \A at : Goto(p, at) => pc'[p] = at /\ \A q \in Push \ {p} : pc'[q] = pc[q]
        /\ \A what : Tell(p, what) => pc'[p] = "done" /\ \A q \in Push \ {p} : pc'[q] = pc[q]
    BY DEF TypeOK, Goto, Tell
  <1>1. CASE Arm(p) \/ ArmFails(p)
    BY <1>1, NetArm
  <1>2. CASE Apply(p) \/ ApplyFails(p)
    BY <1>2, NetApply
  <1>3. CASE /\ UNCHANGED <<device, accepted, apc>>
             /\ \/ pc[p] = "flag" /\ Goto(p, "apply")
                \/ Goto(p, "probing") \/ Goto(p, "probe") \/ Goto(p, "disarm")
                \/ \E what : Tell(p, what)
    <2>1. \A q \in Push : pc'[q] \in {"flag", "apply"} => pc[q] \in {"flag", "apply"}
      BY <1>0, <1>3
    <2>2. SessionFree => SessionFree'
      BY <1>0, <1>3 DEF SessionFree
    <2> QED BY <1>3, <2>1, <2>2, NetSame
  <1>4. CASE pc[p] \in {"disarm", "save"}
    <2>0. /\ \A q \in Push \ {p} : pc[q] \in {"idle", "done"} /\ timer[q] = 0
          /\ \A a \in Acceptor : ~Accepting(a)
      BY <1>4, OnlyMine DEF NetInv
    <2>1. CASE Disarm(p)
      <3>1. DisarmRevert(p, 2) /\ accepted' = accepted \cup ({p} \cap running) /\ apc' = apc
            /\ Goto(p, IF vendor = "cisco" THEN "save" ELSE "clear")
        BY <2>1 DEF Disarm, accepts
      <3>2. \A q \in Push : pc'[q] \notin {"flag", "apply"}
        BY <1>0, <2>0, <3>1
      <3>3. \A q \in running : timer[q] = 0 \/ q \in accepted'
        BY <2>0, <3>1 DEF TypeOK
      <3>4. vendor # "cisco" => SessionFree'
        BY <1>0, <2>0, <3>1 DEF SessionFree, Accepting
      <3> QED BY <3>1, <3>2, <3>3, <3>4, NetDisarmed
    <2>2. CASE Save(p)
      <3>1. SaveConfig /\ pc[p] = "save" /\ accepted' = accepted /\ Goto(p, "clear")
        BY <2>2 DEF Save
      <3>2. \A q \in Push : pc'[q] \notin {"flag", "apply"}
        BY <1>0, <2>0, <3>1
      <3>3. \A q \in Push : timer[q] = 0
        BY <3>1 DEF NetInv, SessionFree
      <3> QED BY <3>1, <3>2, <3>3, NetSaved
    <2>3. CASE DisarmFails(p)
      <3>1. Tell(p, "error") /\ apc' = apc
        BY <2>3 DEF DisarmFails, accepts
      <3>2. \A q \in Push : pc'[q] \notin {"flag", "apply", "save"}
        BY <1>0, <2>0, <3>1
      <3>3. SessionFree'
        BY <2>0, <3>1, <3>2 DEF SessionFree, Accepting
      <3>4. ASSUME NEW n \in 0 .. 2, DisarmRevert(p, n),
                   accepted' = IF n > 0 THEN accepted \cup ({p} \cap running) ELSE accepted
            PROVE  NetInv'
        <4>1. n > 0 => \A q \in running : timer[q] = 0 \/ q \in accepted'
          BY <2>0, <3>4 DEF TypeOK
        <4>2. accepted \subseteq accepted'
          BY <3>4
        <4> QED BY <3>2, <3>3, <3>4, <4>1, <4>2, NetDisarmed
      <3>5. CASE pc[p] = "save" /\ SaveConfig /\ UNCHANGED accepted
        <4>1. \A q \in Push : timer[q] = 0
          BY <3>5 DEF NetInv, SessionFree
        <4> QED BY <3>2, <3>5, <4>1, NetSaved
      <3>6. CASE UNCHANGED <<device, accepted>>
        BY <3>2, <3>3, <3>6, NetSame
      <3> QED BY <2>3, <3>4, <3>5, <3>6 DEF DisarmFails
    <2>4. CASE Crash(p)
      BY <1>3, <2>4 DEF Crash, accepts
    <2> QED
      BY <1>4, <2>1, <2>2, <2>3, <2>4 DEF PushStep, Arm, ArmFails, SetFlag, Apply, ApplyFails,
         SetToken, Probe, ProbeAnswered, ProbeUnanswered, GiveUp, ClearFlag
  <1> QED
    BY <1>1, <1>2, <1>3, <1>4
    DEF PushStep, SetFlag, SetToken, Probe, ProbeAnswered, ProbeUnanswered, GiveUp, ClearFlag,
        Crash, Disarm, Save, DisarmFails, accepts

LEMMA NetStart ==
    ASSUME OnlyReboots, TypeOK, NetInv, NEW p \in Push, PushConfigWithRevert(p)
    PROVE  NetInv'
  <1>1. UNCHANGED <<device, accepted, apc>> /\ pc' = [pc EXCEPT ![p] = "arm"] /\ pc \in [Push -> PC]
    BY DEF PushConfigWithRevert, Goto, accepts, TypeOK
  <1>2. \A q \in Push : pc'[q] \in {"flag", "apply"} => pc[q] \in {"flag", "apply"}
    BY <1>1
  <1>3. SessionFree => SessionFree'
    BY <1>1 DEF SessionFree
  <1> QED BY <1>1, <1>2, <1>3, NetSame

\* An accept call finds no push under way.
LEMMA NetAccept ==
    ASSUME TypeOK, Alone, NetInv, NEW a \in Acceptor, ConfirmArmedChange(a) \/ AcceptStep(a)
    PROVE  NetInv'
  <1>0. /\ pc' = pc /\ apc \in [Acceptor -> APC]
        /\ \A at : AGoto(a, at) => apc'[a] = at /\ \A b \in Acceptor \ {a} : apc'[b] = apc[b]
    BY DEF TypeOK, AGoto, ConfirmArmedChange, AcceptStep, ReadToken, AcceptDisarm, AcceptSave,
           AcceptFails, AcceptDelete, pushes
  <1>1. CASE /\ UNCHANGED <<device, accepted>>
             /\ AGoto(a, "refused") \/ AGoto(a, "token") \/ AGoto(a, "disarm")
                \/ AGoto(a, "accepted") \/ AGoto(a, "failed")
    <2>1. SessionFree => SessionFree'
      BY <1>0, <1>1 DEF SessionFree
    <2> QED BY <1>0, <1>1, <2>1, NetSame
  <1>2. CASE apc[a] \in {"disarm", "save"}
    <2>0. \A q \in Push : pc'[q] \in {"idle", "done"} /\ pc[q] \in {"idle", "done"}
      BY <1>0, <1>2 DEF Alone, Accepting
    <2>1. CASE AcceptDisarm(a)
      <3>1. /\ DisarmRevert(held[a], 2) /\ accepted' = accepted \cup CalledOff(a) /\ SessionFree
            /\ AGoto(a, IF vendor = "cisco" THEN "save" ELSE "delete")
        BY <2>1 DEF AcceptDisarm
      <3>2. vendor # "cisco" => SessionFree'
        BY <1>0, <2>0, <3>1 DEF SessionFree
      <3>3. \A q \in running : vendor = "cisco" \/ q = held[a] => timer[q] = 0 \/ q \in accepted'
        BY <3>1 DEF CalledOff, TypeOK
      <3> QED BY <2>0, <3>1, <3>2, <3>3, NetDisarmed
    <2>2. CASE AcceptSave(a)
      <3>1. apc[a] = "save" /\ SaveConfig /\ UNCHANGED accepted
        BY <2>2 DEF AcceptSave
      <3>2. \A q \in Push : timer[q] = 0
        BY <3>1 DEF NetInv, SessionFree
      <3> QED BY <2>0, <3>1, <3>2, NetSaved
    <2>3. CASE AcceptFails(a)
      <3>1. ASSUME apc[a] = "disarm", SessionFree, NEW n \in 1 .. 2, DisarmRevert(held[a], n),
                   accepted' = accepted \cup CalledOff(a)
            PROVE  NetInv'
        <4>1. \A q \in running : vendor = "cisco" \/ q = held[a] => timer[q] = 0 \/ q \in accepted'
          BY <3>1 DEF CalledOff, TypeOK
        <4>2. SessionFree'
          BY <1>0, <2>0, <2>3, <3>1 DEF SessionFree, AcceptFails
        <4> QED BY <2>0, <3>1, <4>1, <4>2, NetDisarmed
      <3>2. CASE apc[a] = "save" /\ SaveConfig /\ UNCHANGED accepted
        <4>1. \A q \in Push : timer[q] = 0
          BY <3>2 DEF NetInv, SessionFree
        <4> QED BY <2>0, <3>2, <4>1, NetSaved
      <3>3. CASE UNCHANGED <<device, accepted>>
        BY <1>1, <2>3, <3>3 DEF AcceptFails
      <3> QED BY <2>3, <3>1, <3>2, <3>3 DEF AcceptFails
    <2> QED
      BY <1>2, <2>1, <2>2, <2>3 DEF AcceptStep, ConfirmArmedChange, ReadToken, AcceptDelete
  <1> QED
    BY <1>1, <1>2 DEF AcceptStep, ConfirmArmedChange, ReadToken, AcceptDelete, AcceptDisarm,
       AcceptSave, AcceptFails

\* Between two exchanges: another write waits, the device may reboot, time passes.
LEMMA NetWrite ==
    ASSUME OnlyReboots, TypeOK, NetInv, PushLines
    PROVE  NetInv'
  <1>1. ~WindowOpen /\ SaveConfig /\ UNCHANGED <<pc, accepted>>
    BY DEF OnlyReboots, PushLines, pushes
  <1>2. \A q \in Push : pc'[q] \notin {"flag", "apply"} /\ timer[q] = 0
    BY <1>1 DEF WindowOpen, TypeOK
  <1> QED BY <1>1, <1>2, NetSaved

LEMMA NetReboot ==
    ASSUME TypeOK, NetInv, RebootDevice
    PROVE  NetInv'
  <1>0. /\ UNCHANGED <<vendor, startup, file, pc, apc, accepted>> /\ boot' > 0
        /\ vendor \in {"cisco", "routeros"}
    BY DEF RebootDevice, pushes, accepts, TypeOK
  <1>1. CASE vendor = "cisco"
    <2>1. running' = startup
      BY <1>1 DEF RebootDevice
    <2> QED BY <1>0, <2>1 DEF NetInv, NetHolds, RebootDevice, SessionFree
  <1>2. CASE vendor = "routeros"
    <2>1. running' = running
      BY <1>2 DEF RebootDevice
    <2>2. \A q \in Push : (timer[q] > 0 => timer'[q] > 0) /\ (timer[q] = 0 => timer'[q] = 0)
      BY <1>2 DEF RebootDevice, TypeOK
    <2>3. \A q \in Push : WillRevert(q) => WillRevert(q)'
      BY <1>0, <2>2 DEF WillRevert
    <2>4. NetHolds'
      BY <1>0, <2>1, <2>3 DEF NetInv, NetHolds, TypeOK
    <2>5. SessionFree' \/ \A q \in Push : timer'[q] = 0
      BY <1>0, <2>2 DEF NetInv, SessionFree
    <2> QED BY <1>0, <2>4, <2>5 DEF NetInv
  <1> QED BY <1>0, <1>1, <1>2

LEMMA NetTick ==
    ASSUME OnlyReboots, TypeOK, NetInv, Tick
    PROVE  NetInv'
  <1>0. /\ UNCHANGED <<vendor, startup, file, pc, apc, accepted>> /\ ~Exchanging
        /\ timer \in [Push -> Nat] /\ running \subseteq Push
    BY DEF OnlyReboots, Tick, accepts, TypeOK
  <1>1. /\ SessionFree'
        /\ \A q \in Push : pc'[q] \notin {"flag", "apply"}
    BY <1>0 DEF Exchanging, SessionFree
  <1>2. NetHolds'
    <2>1. CASE UNCHANGED <<running, timer>>
      BY <1>0, <2>1 DEF NetInv, NetHolds, WillRevert
    <2>2. CASE Due = {} /\ timer' = [q \in Push |-> Elapse(timer[q])] /\ UNCHANGED running
      <3>1. \A q \in Push : timer[q] > 0 => timer'[q] > 0
        BY <1>0, <2>2 DEF Due, Elapse
      <3>2. \A q \in Push : WillRevert(q) => WillRevert(q)'
        BY <1>0, <3>1 DEF WillRevert
      <3> QED BY <1>0, <2>2, <3>2 DEF NetInv, NetHolds
    <2>3. ASSUME NEW p \in Due, Fire(p)
          PROVE  NetHolds'
      <3>0. p \in Push
        BY <2>3 DEF Due
      <3>1. CASE running' = startup \/ (file[p] # None /\ running' = file[p].cfg)
        BY <1>0, <3>0, <3>1 DEF NetInv, NetHolds
      <3>2. CASE timer' = [timer EXCEPT ![p] = Seconds] /\ UNCHANGED running
        <4>1. \A q \in Push : timer[q] > 0 => timer'[q] > 0
          BY <1>0, <3>2
        <4>2. \A q \in Push : WillRevert(q) => WillRevert(q)'
          BY <1>0, <4>1 DEF WillRevert
        <4> QED BY <1>0, <3>2, <4>2 DEF NetInv, NetHolds
      <3> QED BY <2>3, <3>1, <3>2 DEF Fire
    <2> QED BY <2>1, <2>2, <2>3 DEF Tick
  <1> QED BY <1>0, <1>1, <1>2 DEF NetInv

LEMMA NetStep ==
    ASSUME OnlyReboots, TypeOK, Alone, NetInv, [Next]_vars
    PROVE  NetInv'
  <1>1. CASE UNCHANGED vars
    <2>1. UNCHANGED <<device, accepted, pc, apc>>
      BY <1>1 DEF vars, device
    <2>2. SessionFree => SessionFree'
      BY <2>1 DEF SessionFree
    <2> QED BY <2>1, <2>2, NetSame
  <1> QED BY <1>1, NetStart, NetPush, NetAccept, NetWrite, NetReboot, NetTick DEF Next

\* "Arm the revert first, so even a disconnect mid-apply still auto-reverts": whatever
\* step fails and whenever the platform dies, a change on the device that nobody
\* accepted is one the device will take back by itself.
THEOREM UnacceptedChangesRevert ==
    ASSUME OnlyReboots
    PROVE  Spec => []NetHolds
  <1>1. NetInv /\ TypeOK /\ Alone /\ [Next]_vars => NetInv'
    BY NetStep
  <1>2. OneChange
    BY RebootsLeaveOneChange
  <1>3. Spec => [](TypeOK /\ Alone)
    BY <1>2, OneChangeIsAlone
  <1>4. NetInv => NetHolds
    BY DEF NetInv
  <1> QED BY <1>1, <1>3, <1>4, NetInit, PTL DEF Spec

-----------------------------------------------------------------------------
(* What the operator is told.  Other writes may come in between, reboots may not. *)
(* routes/configs.ts takes no confirmSeconds under 60; the margin is ten seconds. *)

OnlyWrites == Prompt = TRUE /\ Meanwhile \subseteq {"write"} /\ Seconds > Margin

Sticks(p) ==
    /\ p \in running
    /\ vendor = "cisco" => p \in startup
    /\ vendor = "routeros" =>
         \A q \in Push : timer[q] > 0 /\ file[q] # None => p \in file[q].cfg

\* The device cannot revert p while the platform still probes.
Probing(p) == pc[p] \in {"probe", "probing"} /\ budget[p] > 0

PushInv(p) ==
    /\ pc[p] \in {"flag", "apply"} => timer[p] >= Seconds
    /\ pc[p] = "probing" => budget[p] > 0
    /\ Probing(p) => p \in running /\ timer[p] > budget[p]
    /\ pc[p] \in {"disarm", "save"} => p \in running
    /\ pc[p] = "save" => vendor = "cisco"
    /\ pc[p] = "clear" \/ outcome[p] = "confirmed" => Sticks(p)

CallInv(a) ==
    /\ apc[a] = "save" => vendor = "cisco" /\ subject[a] \subseteq running
    /\ apc[a] = "delete" => \A p \in subject[a] : Sticks(p)

ConfirmInv == (\A p \in Push : PushInv(p)) /\ (\A a \in Acceptor : CallInv(a))

LEMMA ConfirmInit == Init => ConfirmInv
  BY DEF Init, ConfirmInv, PushInv, CallInv, Probing

LEMMA SticksKept ==
    ASSUME NEW p, Sticks(p), vendor' = vendor,
           p \in running', startup' \in {startup, running},
           vendor = "routeros" => \A q \in Push : timer'[q] > 0 /\ file'[q] # None =>
               (timer[q] > 0 /\ file'[q] = file[q]) \/ file'[q].cfg = running
    PROVE  Sticks(p)'
  BY DEF Sticks

\* What sticks keeps sticking, whatever comes next.
LEMMA SticksStep ==
    ASSUME OneChange, TypeOK, Alone, [Next]_vars, NEW p \in Push, Sticks(p)
    PROVE  Sticks(p)'
  <1>0. timer \in [Push -> Nat] /\ p \in running
    BY DEF TypeOK, Sticks
  <1>1. ASSUME NEW q \in Push, PushConfigWithRevert(q) PROVE Sticks(p)'
    BY <1>0, <1>1, SticksKept DEF PushConfigWithRevert, device
  <1>2. ASSUME NEW q \in Push, PushStep(q) PROVE Sticks(p)'
    <2>1. vendor' = vendor /\ p \in running' /\ startup' \in {startup, running}
      BY <1>0, <1>2, PushEffects
    <2>2. ASSUME NEW r \in Push, vendor = "routeros", timer'[r] > 0, file'[r] # None
          PROVE  (timer[r] > 0 /\ file'[r] = file[r]) \/ file'[r].cfg = running
      <3>1. file'[r] = file[r] \/ file'[r].cfg = running
        BY <1>2, <2>2, PushEffects
      <3>2. timer[r] > 0 \/ file'[r].cfg = running
        <4>1. CASE r = q
          BY <1>2, <2>2, <4>1, PushEffects
        <4>2. CASE r # q
          BY <1>0, <1>2, <2>2, <4>2, PushEffects
        <4> QED BY <4>1, <4>2
      <3> QED BY <3>1, <3>2
    <2> QED BY <2>1, <2>2, SticksKept
  <1>3. ASSUME NEW a \in Acceptor, ConfirmArmedChange(a) \/ AcceptStep(a) PROVE Sticks(p)'
    <2>1. vendor' = vendor /\ p \in running' /\ startup' \in {startup, running}
      BY <1>0, <1>3, AcceptEffects
    <2>2. \A r \in Push : timer'[r] > 0 /\ file'[r] # None => timer[r] > 0 /\ file'[r] = file[r]
      BY <1>0, <1>3, AcceptEffects
    <2> QED BY <2>1, <2>2, SticksKept
  <1>4. CASE PushLines \/ RebootDevice \/ Tick
    <2>1. vendor' = vendor /\ file' = file /\ startup' \in {startup, running}
          /\ \A r \in Push : timer'[r] > 0 => timer[r] > 0
      BY <1>4, OtherEffects
    <2>2. p \in running'
      BY <1>0, <1>4, OtherEffects DEF Sticks
    <2> QED BY <2>1, <2>2, SticksKept
  <1>5. CASE UNCHANGED vars
    BY <1>0, <1>5, SticksKept DEF vars
  <1> QED BY <1>1, <1>2, <1>3, <1>4, <1>5 DEF Next

\* Nothing is said of a push that is not under way, but for what the operator knows.
LEMMA PushIsOver ==
    ASSUME NEW p \in Push, pc'[p] \in {"idle", "arm", "token", "done"},
           outcome'[p] = "confirmed" => Sticks(p)'
    PROVE  PushInv(p)'
  BY DEF PushInv, Probing

LEMMA ConfirmPush ==
    ASSUME OnlyWrites, TypeOK, Alone, ConfirmInv, NEW p \in Push, PushStep(p)
    PROVE  PushInv(p)'
  <1>0. /\ pc \in [Push -> PC] /\ outcome \in [Push -> {"none", "armed", "reverting", "confirmed", "error"}]
        /\ \A at : Goto(p, at) => pc'[p] = at
        /\ \A what : Tell(p, what) => pc'[p] = "done" /\ outcome'[p] = what
        /\ budget \in [Push -> Nat] /\ timer \in [Push -> Nat]
        /\ vendor \in {"cisco", "routeros"}
    BY DEF TypeOK, Goto, Tell
  <1>1. PushInv(p) /\ (Sticks(p) => Sticks(p)')
    <2>1. OneChange /\ [Next]_vars
      BY DEF OnlyWrites, OneChange, Next
    <2> QED BY <2>1, SticksStep DEF ConfirmInv
  <1>2. outcome' = outcome => (outcome'[p] = "confirmed" => Sticks(p)')
    BY <1>1 DEF PushInv
  <1>3. CASE \E what \in {"error", "reverting", "armed"} : Tell(p, what)
    BY <1>0, <1>3, PushIsOver
  <1>4. CASE Arm(p)
    <2>1. timer'[p] >= Seconds /\ outcome' = outcome /\ pc'[p] = "flag"
      BY <1>0, <1>4, ArmEffects, DeviceTimerLasts DEF Arm
    <2> QED BY <1>2, <2>1 DEF PushInv, Probing
  <1>5. CASE SetFlag(p)
    <2>1. timer' = timer /\ outcome' = outcome /\ pc[p] = "flag" /\ pc'[p] = "apply"
      BY <1>0, <1>5 DEF SetFlag, device
    <2> QED BY <1>1, <1>2, <2>1 DEF PushInv, Probing
  <1>6. CASE Apply(p)
    <2>1. timer'[p] >= Seconds /\ outcome' = outcome /\ p \in running'
      BY <1>1, <1>6 DEF Apply, PushInv
    <2>2. CASE p \in manual
      BY <1>0, <1>2, <1>6, <2>1, <2>2, PushIsOver DEF Apply
    <2>3. CASE p \notin manual
      <3>1. pc'[p] = "probe" /\ budget'[p] = IF Seconds >= 2 * Margin THEN Seconds - Margin ELSE Margin
        BY <1>0, <1>6, <2>3 DEF Apply
      <3>2. timer'[p] > budget'[p]
        <4>1. timer'[p] \in Nat
          BY <1>0, <1>6 DEF Apply
        <4> QED BY <2>1, <3>1, <4>1 DEF OnlyWrites
      <3> QED BY <1>2, <2>1, <3>1, <3>2 DEF PushInv, Probing
    <2> QED BY <2>2, <2>3
  <1>7. CASE Probe(p) \/ ProbeUnanswered(p)
    <2>1. /\ UNCHANGED <<budget, timer, outcome, running>> /\ pc'[p] \in {"probe", "probing"}
          /\ pc[p] \in {"probe", "probing"} /\ (pc'[p] = "probing" => budget[p] > 0)
      BY <1>0, <1>7 DEF Probe, ProbeUnanswered, device
    <2>2. Probing(p)' => p \in running' /\ timer'[p] > budget'[p]
      BY <1>1, <2>1 DEF PushInv, Probing
    <2> QED BY <1>2, <2>1, <2>2 DEF PushInv
  <1>8. CASE ProbeAnswered(p)
    <2>1. UNCHANGED <<outcome, running>> /\ pc[p] = "probing" /\ pc'[p] = "disarm"
      BY <1>0, <1>8 DEF ProbeAnswered, device
    <2> QED BY <1>1, <1>2, <2>1 DEF PushInv, Probing
  <1>9. CASE Disarm(p)
    <2>1. UNCHANGED <<outcome, running, vendor>> /\ p \in running
          /\ pc'[p] = IF vendor = "cisco" THEN "save" ELSE "clear"
      BY <1>0, <1>1, <1>9, DisarmEffects DEF Disarm, PushInv
    <2>2. vendor = "routeros" => Sticks(p)'
      <3>1. \A q \in Push \ {p} : timer[q] = 0
        BY <1>0, <1>9 DEF Alone, Busy, Disarm
      <3>2. vendor = "routeros" => \A q \in Push : timer'[q] = 0
        BY <1>9, <3>1, DisarmEffects DEF Disarm
      <3> QED BY <2>1, <3>2 DEF Sticks
    <2> QED BY <1>0, <1>2, <2>1, <2>2 DEF PushInv, Probing
  <1>10. CASE Save(p)
    <2>1. /\ UNCHANGED <<outcome, running, vendor>> /\ p \in running /\ vendor = "cisco"
          /\ startup' = running /\ pc'[p] = "clear"
      BY <1>0, <1>1, <1>10 DEF Save, SaveConfig, PushInv
    <2>2. Sticks(p)'
      BY <2>1 DEF Sticks
    <2> QED BY <2>1, <2>2 DEF PushInv, Probing
  <1>11. CASE ClearFlag(p)
    <2>1. Sticks(p)' /\ pc'[p] = "done"
      BY <1>0, <1>1, <1>11 DEF ClearFlag, PushInv
    <2> QED BY <2>1, PushIsOver
  <1> QED
    BY <1>3, <1>4, <1>5, <1>6, <1>7, <1>8, <1>9, <1>10, <1>11
    DEF PushStep, ArmFails, ApplyFails, SetToken, GiveUp, DisarmFails, Crash

LEMMA ConfirmCall ==
    ASSUME OnlyWrites, TypeOK, Alone, ConfirmInv, NEW a \in Acceptor,
           ConfirmArmedChange(a) \/ AcceptStep(a)
    PROVE  CallInv(a)'
  <1>0. /\ apc \in [Acceptor -> APC] /\ subject \in [Acceptor -> SUBSET Push]
        /\ \A at : AGoto(a, at) => apc'[a] = at
        /\ vendor \in {"cisco", "routeros"} /\ timer \in [Push -> Nat] /\ CallInv(a)
    BY DEF TypeOK, AGoto, ConfirmInv
  <1>1. CASE \E at \in {"token", "disarm", "refused", "accepted", "failed"} : AGoto(a, at)
    BY <1>0, <1>1 DEF CallInv
  <1>2. CASE AcceptDisarm(a)
    <2>1. /\ UNCHANGED <<running, vendor>> /\ subject'[a] = CalledOff(a)
          /\ apc'[a] = IF vendor = "cisco" THEN "save" ELSE "delete"
          /\ CalledOff(a) \subseteq running
      BY <1>0, <1>2, DisarmEffects DEF AcceptDisarm, CalledOff
    <2>2. ASSUME vendor = "routeros", NEW p \in CalledOff(a) PROVE Sticks(p)'
      <3>1. p \in Push /\ timer[p] > 0 /\ p = held[a]
        BY <2>2 DEF CalledOff, TypeOK
      <3>2. \A q \in Push \ {p} : timer[q] = 0
        BY <1>0, <3>1 DEF Alone, Busy
      <3>3. \A q \in Push : timer'[q] = 0
        BY <1>2, <2>2, <3>1, <3>2, DisarmEffects DEF AcceptDisarm
      <3> QED BY <2>1, <2>2, <3>3 DEF Sticks
    <2> QED BY <1>0, <2>1, <2>2 DEF CallInv
  <1>3. CASE AcceptSave(a)
    <2>1. /\ UNCHANGED <<running, vendor, subject>> /\ vendor = "cisco" /\ subject[a] \subseteq running
          /\ startup' = running /\ apc'[a] = "delete"
      BY <1>0, <1>3 DEF AcceptSave, SaveConfig, CallInv
    <2>2. \A p \in subject'[a] : Sticks(p)'
      BY <2>1 DEF Sticks
    <2> QED BY <2>1, <2>2 DEF CallInv
  <1> QED
    BY <1>1, <1>2, <1>3 DEF ConfirmArmedChange, AcceptStep, ReadToken, AcceptFails, AcceptDelete

LEMMA ConfirmStart ==
    ASSUME OnlyWrites, TypeOK, Alone, ConfirmInv, NEW p \in Push, PushConfigWithRevert(p)
    PROVE  ConfirmInv'
  <1>0. OneChange /\ [Next]_vars
    BY DEF OnlyWrites, OneChange, Next
  <1>1. /\ UNCHANGED <<vendor, running, timer, budget, outcome, apc, subject>>
        /\ pc'[p] = "arm" /\ \A q \in Push \ {p} : pc'[q] = pc[q]
        /\ \A a \in Acceptor : ~Accepting(a)
    BY <1>0 DEF PushConfigWithRevert, Goto, TypeOK, device, accepts, OneChange, WindowOpen, Accepting
  <1>2. \A q \in Push : Sticks(q) => Sticks(q)'
    BY <1>0, SticksStep
  <1>3. ASSUME NEW q \in Push PROVE PushInv(q)'
    BY <1>1, <1>2 DEF ConfirmInv, PushInv, Probing
  <1>4. ASSUME NEW a \in Acceptor PROVE CallInv(a)'
    BY <1>1 DEF CallInv, Accepting
  <1> QED BY <1>3, <1>4 DEF ConfirmInv

LEMMA ConfirmOnPush ==
    ASSUME OnlyWrites, TypeOK, Alone, ConfirmInv, NEW p \in Push, PushStep(p)
    PROVE  ConfirmInv'
  <1>0. OneChange /\ [Next]_vars /\ timer \in [Push -> Nat]
    BY DEF OnlyWrites, OneChange, Next, TypeOK
  <1>1. /\ apc' = apc /\ pc[p] \notin {"idle", "done"}
        /\ \A q \in Push \ {p} : pc'[q] = pc[q]
    BY PushEffects
  <1>2. \A q \in Push \ {p} : pc[q] \in {"idle", "done"}
    BY <1>0, <1>1 DEF Alone, Busy
  <1>3. \A q \in Push \ {p} : outcome'[q] = outcome[q]
    BY DEF TypeOK, PushStep, Arm, ArmFails, SetFlag, Apply, ApplyFails, SetToken, Probe,
       ProbeAnswered, ProbeUnanswered, GiveUp, Disarm, Save, DisarmFails, ClearFlag, Crash, Tell
  <1>4. ASSUME NEW q \in Push \ {p} PROVE PushInv(q)'
    <2>1. outcome'[q] = "confirmed" => Sticks(q)'
      BY <1>0, <1>3, SticksStep DEF ConfirmInv, PushInv
    <2> QED BY <1>1, <1>2, <2>1, PushIsOver
  <1>5. PushInv(p)'
    BY ConfirmPush
  <1>6. ASSUME NEW a \in Acceptor PROVE CallInv(a)'
    BY <1>1 DEF CallInv, Accepting, Alone
  <1> QED BY <1>4, <1>5, <1>6 DEF ConfirmInv

LEMMA ConfirmOnCall ==
    ASSUME OnlyWrites, TypeOK, Alone, ConfirmInv, NEW a \in Acceptor,
           ConfirmArmedChange(a) \/ AcceptStep(a)
    PROVE  ConfirmInv'
  <1>0. OneChange /\ [Next]_vars
    BY DEF OnlyWrites, OneChange, Next
  <1>1. \A q \in Push : Sticks(q) => Sticks(q)'
    BY <1>0, SticksStep
  <1>2. /\ UNCHANGED <<vendor, running, pc, budget>>
    BY <1>0, AcceptEffects DEF ConfirmArmedChange, AcceptStep, ReadToken, AcceptDisarm, AcceptSave,
       AcceptFails, AcceptDelete, pushes
  <1>3. ASSUME NEW b \in Acceptor \ {a} PROVE CallInv(b)'
    <2>1. apc'[b] = apc[b] /\ subject'[b] = subject[b] /\ subject[b] \subseteq Push
      BY DEF TypeOK, ConfirmArmedChange, AcceptStep, ReadToken, AcceptDisarm, AcceptSave,
         AcceptFails, AcceptDelete, AGoto
    <2> QED BY <1>1, <1>2, <2>1 DEF ConfirmInv, CallInv
  <1>4. CallInv(a)'
    BY ConfirmCall
  <1>5. ASSUME NEW q \in Push PROVE PushInv(q)'
    <2>1. CASE UNCHANGED <<outcome, timer>>
      BY <1>1, <1>2, <2>1 DEF ConfirmInv, PushInv, Probing
    <2>2. CASE apc[a] \in {"disarm", "save", "delete"}
      <3>1. pc'[q] \in {"idle", "done"}
        BY <1>2, <2>2 DEF Alone, Accepting
      <3>2. outcome'[q] = outcome[q] \/ (apc[a] = "delete" /\ q \in subject[a])
        BY DEF ConfirmArmedChange, AcceptStep, ReadToken, AcceptDisarm, AcceptSave, AcceptFails,
           AcceptDelete, pushes, TypeOK
      <3>3. outcome'[q] = "confirmed" => Sticks(q)
        BY <3>2 DEF ConfirmInv, PushInv, CallInv
      <3> QED BY <1>1, <3>1, <3>3, PushIsOver
    <2> QED
      BY <2>1, <2>2 DEF ConfirmArmedChange, AcceptStep, ReadToken, AcceptDisarm, AcceptSave,
         AcceptFails, AcceptDelete, pushes, device
  <1> QED BY <1>3, <1>4, <1>5 DEF ConfirmInv

LEMMA ConfirmOnWrite ==
    ASSUME OnlyWrites, TypeOK, Alone, ConfirmInv, PushLines
    PROVE  ConfirmInv'
  <1>0. OneChange /\ [Next]_vars
    BY DEF OnlyWrites, OneChange, Next
  <1>1. \A q \in Push : Sticks(q) => Sticks(q)'
    BY <1>0, SticksStep
  <1>2. UNCHANGED <<vendor, running, timer, pc, budget, outcome, apc, subject>>
    BY DEF PushLines, SaveConfig, pushes, accepts
  <1>3. ASSUME NEW q \in Push PROVE PushInv(q)'
    BY <1>1, <1>2 DEF ConfirmInv, PushInv, Probing
  <1>4. ASSUME NEW a \in Acceptor PROVE CallInv(a)'
    BY <1>1, <1>2 DEF ConfirmInv, CallInv, TypeOK
  <1> QED BY <1>3, <1>4 DEF ConfirmInv

LEMMA ConfirmOnReboot ==
    ASSUME OnlyWrites, TypeOK, Alone, ConfirmInv, RebootDevice
    PROVE  ConfirmInv'
  <1>0. OneChange /\ [Next]_vars
    BY DEF OnlyWrites, OneChange, Next
  <1>1. \A q \in Push : Sticks(q) => Sticks(q)'
    BY <1>0, SticksStep
  <1>2. UNCHANGED <<pc, budget, outcome, apc, subject>> /\ ~WindowOpen
    BY DEF OnlyWrites, RebootDevice, pushes, accepts
  <1>3. ASSUME NEW q \in Push PROVE PushInv(q)'
    BY <1>1, <1>2, PushIsOver DEF ConfirmInv, PushInv, WindowOpen
  <1>4. ASSUME NEW a \in Acceptor PROVE CallInv(a)'
    BY <1>2 DEF CallInv, WindowOpen
  <1> QED BY <1>3, <1>4 DEF ConfirmInv

\* Time: the scheduled revert is always later than the end of the probing.
LEMMA ConfirmOnTick ==
    ASSUME OnlyWrites, TypeOK, Alone, ConfirmInv, Tick
    PROVE  ConfirmInv'
  <1>0. OneChange /\ [Next]_vars /\ timer \in [Push -> Nat] /\ budget \in [Push -> Nat]
    BY DEF OnlyWrites, OneChange, Next, TypeOK
  <1>1. \A q \in Push : Sticks(q) => Sticks(q)'
    BY <1>0, SticksStep
  <1>2. UNCHANGED <<pc, outcome, apc, subject>> /\ ~Exchanging
        /\ budget' = [p \in Push |-> Elapse(budget[p])]
    BY DEF OnlyWrites, Tick, accepts
  <1>3. ASSUME NEW q \in Push, Probing(q)' PROVE q \in running' /\ timer'[q] > budget'[q]
    <2>1. budget'[q] = budget[q] - 1 /\ budget[q] > 0 /\ pc[q] \in {"probe", "probing"}
      BY <1>0, <1>2, <1>3 DEF Probing, Elapse
    <2>2. q \in running /\ timer[q] > budget[q] /\ timer[q] > 1
      BY <1>0, <2>1 DEF ConfirmInv, PushInv, Probing
    <2>3. CASE UNCHANGED <<running, timer>>
      BY <1>0, <2>1, <2>2, <2>3
    <2>4. CASE timer' = [p \in Push |-> Elapse(timer[p])] /\ UNCHANGED running
      BY <1>0, <2>1, <2>2, <2>4 DEF Elapse
    <2>5. Due = {}
      <3>1. \A p \in Push \ {q} : timer[p] = 0
        BY <1>0, <2>1 DEF Alone, Busy
      <3> QED BY <2>2, <3>1 DEF Due
    <2> QED BY <2>3, <2>4, <2>5 DEF Tick
  <1>4. ASSUME NEW q \in Push PROVE PushInv(q)'
    <2>1. pc'[q] \in {"idle", "arm", "probe", "done"}
      BY <1>0, <1>2 DEF Exchanging, TypeOK, PC
    <2>2. outcome'[q] = "confirmed" => Sticks(q)'
      BY <1>1, <1>2 DEF ConfirmInv, PushInv
    <2> QED BY <1>3, <2>1, <2>2 DEF PushInv
  <1>5. ASSUME NEW a \in Acceptor PROVE CallInv(a)'
    BY <1>2 DEF CallInv, Exchanging
  <1> QED BY <1>4, <1>5 DEF ConfirmInv

LEMMA ConfirmStep ==
    ASSUME OnlyWrites, TypeOK, Alone, ConfirmInv, [Next]_vars
    PROVE  ConfirmInv'
  <1>1. CASE UNCHANGED vars
    BY <1>1 DEF vars, ConfirmInv, PushInv, CallInv, Probing, Sticks
  <1> QED
    BY <1>1, ConfirmStart, ConfirmOnPush, ConfirmOnCall, ConfirmOnWrite, ConfirmOnReboot,
       ConfirmOnTick DEF Next

\* A change reported as confirmed is on the device, is kept across a reload, and is
\* part of whatever a pending revert brings back (deviceComms.ts, the "confirmed"
\* outcome of an automatic confirmation and of an accept).
THEOREM ConfirmedChangesStick ==
    ASSUME OnlyWrites
    PROVE  Spec => []ConfirmedSticks
  <1>1. ConfirmInv /\ TypeOK /\ Alone /\ [Next]_vars => ConfirmInv'
    BY ConfirmStep
  <1>2. OneChange
    BY DEF OnlyWrites, OneChange
  <1>3. Spec => [](TypeOK /\ Alone)
    BY <1>2, OneChangeIsAlone
  <1>4. ConfirmInv => ConfirmedSticks
    BY DEF ConfirmInv, PushInv, Sticks, ConfirmedSticks
  <1> QED BY <1>1, <1>3, <1>4, ConfirmInit, PTL DEF Spec

-----------------------------------------------------------------------------
(* The history of configurations, for devices with one backup at a time. *)

HistPC == {"idle", "read", "compare", "write", "add", "status", "commit", "revParse", "insert", "push"}
HasRead == {"compare", "write", "add", "status", "commit", "revParse", "insert", "push"}
Before == {"idle", "read", "compare", "write", "push"}

Content == History!Config \cup {NULL}
Sha == Nat \cup {NULL}
Caller == [pc : HistPC, content : Content, sha : Sha, push : SUBSET Line]
BackupRow == [content : History!Config, sha : Sha]
GitCommit == [dev : Device, tree : [Device -> Content]]

CallerOf(d) == req[<<d, 1>>]

HistTypes ==
    /\ live \in [Device -> History!Config]
    /\ rows \in [Device -> Seq(BackupRow)]
    /\ disk \in [Device -> Content] /\ index \in [Device -> Content]
    /\ commits \in Seq(GitCommit)
    /\ req \in [Device \X {1} -> Caller]
    /\ was \in [Device -> SUBSET History!Config]
    /\ spoiled \in BOOLEAN

\* A SHA that stands for content `c` of device d.
Shows(sha, d, c) == sha # NULL => sha \in 1 .. Len(commits) /\ commits[sha].tree[d] = c

InHand(d) ==
    LET c == CallerOf(d)
    IN  /\ c.pc \in HasRead => c.content \in was[d]
        /\ c.pc = "push" => c.push # {} /\ c.content \in History!Contents(d)
        /\ c.push = {} \/ (\E l \in Line : c.push = {l}) \/ c.push \in was[d]
        /\ c.pc # "insert" /\ c.pc # "push" => c.sha = NULL
        /\ c.pc = "insert" => Shows(c.sha, d, c.content)
        /\ c.pc = "push" => c.sha = NULL \/ c.sha \in 1 .. Len(commits)
        /\ c.pc \in {"add", "status", "commit", "revParse"} => disk[d] = c.content
        /\ c.pc \in {"status", "commit", "revParse"} => index[d] = c.content
        /\ c.pc = "revParse" => History!Head_[d] = c.content

Stored(d) ==
    /\ live[d] \in was[d]
    /\ \A i \in 1 .. Len(rows[d]) :
          rows[d][i].content \in was[d] /\ Shows(rows[d][i].sha, d, rows[d][i].content)
    /\ \A k \in 1 .. Len(commits) : commits[k].tree[d] \in was[d] \cup {NULL}
    /\ disk[d] \in was[d] \cup {NULL} /\ index[d] \in was[d] \cup {NULL}

\* What git and the table have of d, unless something has failed.
InStep(d) ==
    ~spoiled =>
        /\ CallerOf(d).pc \in Before =>
              /\ History!Head_[d] = History!Latest(d) /\ index[d] = History!Latest(d)
              /\ disk[d] = History!Latest(d)
        /\ CallerOf(d).pc = "add" => History!Head_[d] = History!Latest(d) /\ index[d] = History!Latest(d)
        /\ CallerOf(d).pc = "insert" =>
              /\ History!Head_[d] = CallerOf(d).content /\ index[d] = CallerOf(d).content
              /\ disk[d] = CallerOf(d).content

Held(d) == InHand(d) /\ Stored(d) /\ InStep(d)
HistInv == HistTypes /\ \A d \in Device : Held(d)

\* What a step for d leaves alone of the other devices.
SparesOthers(d) ==
    /\ \A o \in Device \ {d} :
          /\ CallerOf(o)' = CallerOf(o)
          /\ live'[o] = live[o] /\ was'[o] = was[o] /\ rows'[o] = rows[o]
          /\ disk'[o] = disk[o] /\ index'[o] = index[o]
    /\ spoiled => spoiled'
    /\ \/ commits' = commits
       \/ \E x \in GitCommit : x.tree = index /\ commits' = Append(commits, x)

-----------------------------------------------------------------------------
LEMMA Paths == History!File = Device /\ \A d \in Device : History!PathOf(d) = d
  BY DEF History!File, History!PathOf

LEMMA HeadIs ==
    ASSUME HistTypes
    PROVE  /\ commits = << >> => History!Head_ = [d \in Device |-> NULL]
           /\ commits # << >> => Len(commits) \in 1 .. Len(commits)
                                 /\ History!Head_ = commits[Len(commits)].tree
  BY Paths DEF HistTypes, History!Head_, History!NoFile, History!Last

\* What a step leaves alone of a device keeps what is known of it, although another
\* device's commit may take its file along.
LEMMA Elsewhere ==
    ASSUME HistTypes, HistTypes', NEW d \in Device, InHand(d), Stored(d), InStep(d),
           NEW e \in Device \ {d}, SparesOthers(e)
    PROVE  InHand(d)' /\ Stored(d)' /\ InStep(d)'
  <1>0. /\ CallerOf(d)' = CallerOf(d)
        /\ live'[d] = live[d] /\ was'[d] = was[d] /\ rows'[d] = rows[d]
        /\ disk'[d] = disk[d] /\ index'[d] = index[d]
        /\ spoiled => spoiled'
    BY DEF SparesOthers
  <1>1. CASE commits' = commits
    <2>1. History!Head_' = History!Head_
      BY <1>1 DEF History!Head_, History!NoFile, History!File, History!PathOf
    <2>2. History!Contents(d)' = History!Contents(d) /\ History!Latest(d)' = History!Latest(d)
      BY <1>0 DEF History!Contents, History!Latest
    <2>3. \A sha, c : Shows(sha, d, c)' = Shows(sha, d, c)
      BY <1>1 DEF Shows
    <2>4. InHand(d)'
      BY <1>0, <1>1, <2>1, <2>2, <2>3 DEF InHand
    <2>5. Stored(d)'
      BY <1>0, <1>1, <2>3 DEF Stored
    <2>6. InStep(d)'
      BY <1>0, <2>1, <2>2 DEF InStep
    <2> QED BY <2>4, <2>5, <2>6
  <1>2. ASSUME NEW x \in GitCommit, x.tree = index, commits' = Append(commits, x)
        PROVE  InHand(d)' /\ Stored(d)' /\ InStep(d)'
    <2>0. Len(commits)' = Len(commits) + 1 /\ commits' # << >> /\ commits'[Len(commits)'] = x
          /\ Len(commits) \in Nat
          /\ \A k \in 1 .. Len(commits) : commits'[k] = commits[k]
      <3>1. commits \in Seq(GitCommit)
        BY DEF HistTypes
      <3> QED BY <1>2, <3>1, AppendProperties
    <2>1. History!Head_' = index
      BY <1>2, <2>0 DEF History!Head_, History!Last
    <2>2. History!Contents(d)' = History!Contents(d) /\ History!Latest(d)' = History!Latest(d)
      BY <1>0 DEF History!Contents, History!Latest
    <2>3. \A sha, c : Shows(sha, d, c) => Shows(sha, d, c)'
      BY <2>0 DEF Shows, HistTypes
    <2>4. InHand(d)'
      BY <1>0, <2>0, <2>1, <2>2, <2>3 DEF InHand, HistTypes
    <2>5. Stored(d)'
      BY <1>0, <1>2, <2>0, <2>3 DEF Stored, HistTypes
    <2>6. InStep(d)'
      BY <1>0, <2>1, <2>2 DEF InStep, InHand
    <2> QED BY <2>4, <2>5, <2>6
  <1> QED BY <1>1, <1>2 DEF SparesOthers

LEMMA Together ==
    ASSUME HistInv, HistTypes', NEW e \in Device, SparesOthers(e), Held(e)'
    PROVE  HistInv'
  <1>1. ASSUME NEW d \in Device \ {e} PROVE Held(d)'
    BY Elsewhere DEF HistInv, Held
  <1> QED BY <1>1 DEF HistInv

\* A step that edits the caller alone.
LEMMA CallerMoves ==
    ASSUME HistInv, NEW d \in Device, NEW c \in Caller,
           req' = [req EXCEPT ![<<d, 1>>] = c], UNCHANGED <<live, rows, disk, index, commits, was>>,
           spoiled' \in BOOLEAN, spoiled => spoiled'
    PROVE  /\ HistTypes' /\ SparesOthers(d) /\ Stored(d)' /\ CallerOf(d)' = c
           /\ History!Head_' = History!Head_
           /\ History!Latest(d)' = History!Latest(d) /\ History!Contents(d)' = History!Contents(d)
           /\ \A sha, x : Shows(sha, d, x)' = Shows(sha, d, x)
  <1>1. /\ req' \in [Device \X {1} -> Caller] /\ CallerOf(d)' = c
        /\ \A o \in Device \ {d} : CallerOf(o)' = CallerOf(o)
    BY DEF HistInv, HistTypes, CallerOf
  <1>2. HistTypes'
    BY <1>1 DEF HistInv, HistTypes
  <1>3. SparesOthers(d)
    BY <1>1 DEF SparesOthers
  <1>4. History!Head_' = History!Head_
    BY DEF History!Head_, History!NoFile, History!File, History!PathOf
  <1>5. History!Latest(d)' = History!Latest(d) /\ History!Contents(d)' = History!Contents(d)
    BY DEF History!Contents, History!Latest
  <1>6. \A sha, x : Shows(sha, d, x)' = Shows(sha, d, x)
    BY DEF Shows
  <1>7. Stored(d)'
    BY <1>6 DEF Stored, HistInv, Held
  <1> QED BY <1>1, <1>2, <1>3, <1>4, <1>5, <1>6, <1>7

LEMMA CallerType ==
    ASSUME HistTypes, NEW d \in Device
    PROVE  CallerOf(d) \in Caller /\ live[d] \in History!Config
  BY DEF HistTypes, CallerOf

LEMMA Callers ==
    ASSUME Overlap = 1
    PROVE  /\ History!Request = Device \X {1}
           /\ \A d \in Device : History!Dev(<<d, 1>>) = d
           /\ \A r \in History!Request : \E d \in Device : r = <<d, 1>>
  BY DEF History!Request, History!Dev

LEMMA NoShaShows == \A d, x : Shows(NULL, d, x)
  BY DEF Shows

LEMMA ConfigsAreNotNull == NULL \notin History!Config
  BY HistoryAssumption DEF History!Config

\* Asked for a backup, and perhaps a write.
LEMMA AskHolds ==
    ASSUME HistInv, NEW d \in Device, NEW lines \in SUBSET Line, History!Ask(<<d, 1>>, lines),
           lines = {} \/ (\E l \in Line : lines = {l}) \/ lines \in was[d]
    PROVE  HistTypes' /\ SparesOthers(d) /\ Held(d)'
  <1> DEFINE c == [History!Idle EXCEPT !.pc = "read", !.push = lines]
  <1>0. History!Idle \in Caller /\ History!Idle.sha = NULL
    BY DEF Caller, HistPC, Content, Sha, History!Idle
  <1>1. c \in Caller /\ c.pc = "read" /\ c.push = lines /\ c.sha = NULL
    BY <1>0 DEF Caller, HistPC
  <1>a. req' = [req EXCEPT ![<<d, 1>>] = c] /\ CallerOf(d).pc = "idle"
    BY DEF History!Ask, CallerOf
  <1>2. UNCHANGED <<live, rows, disk, index, commits, was, spoiled>>
    BY DEF History!Ask, History!repo
  <1>3. spoiled' \in BOOLEAN
    BY <1>2 DEF HistInv, HistTypes
  <1> HIDE DEF c
  <1>4. /\ HistTypes' /\ SparesOthers(d) /\ Stored(d)' /\ CallerOf(d)' = c
        /\ History!Head_' = History!Head_ /\ History!Latest(d)' = History!Latest(d)
    BY <1>1, <1>a, <1>2, <1>3, CallerMoves
  <1>5. InHand(d)'
    BY <1>1, <1>2, <1>4 DEF InHand, HasRead
  <1>6. InStep(d)'
    BY <1>1, <1>a, <1>2, <1>4 DEF InStep, Before, HistInv, Held
  <1> QED BY <1>4, <1>5, <1>6 DEF Held

LEMMA ReadHolds ==
    ASSUME Overlap = 1, HistInv, NEW d \in Device, History!ReadConfig(<<d, 1>>)
    PROVE  HistTypes' /\ SparesOthers(d) /\ Held(d)'
  <1> DEFINE c == [CallerOf(d) EXCEPT !.pc = "compare", !.content = live[d]]
  <1>0. CallerOf(d) \in Caller /\ live[d] \in History!Config /\ CallerOf(d).pc = "read"
    BY CallerType DEF HistInv, History!ReadConfig, CallerOf
  <1>1. c \in Caller /\ req' = [req EXCEPT ![<<d, 1>>] = c]
    BY <1>0, Callers DEF Caller, HistPC, Content, History!ReadConfig, CallerOf, HistInv, HistTypes
  <1>2. UNCHANGED <<live, rows, disk, index, commits, was, spoiled>>
    BY DEF History!ReadConfig, History!repo
  <1>3. spoiled' \in BOOLEAN
    BY <1>2 DEF HistInv, HistTypes
  <1>c. c.pc = "compare" /\ c.content = live[d] /\ c.sha = CallerOf(d).sha /\ c.push = CallerOf(d).push
    BY <1>0 DEF Caller
  <1> HIDE DEF c
  <1>4. /\ HistTypes' /\ SparesOthers(d) /\ Stored(d)' /\ CallerOf(d)' = c
        /\ History!Head_' = History!Head_ /\ History!Latest(d)' = History!Latest(d)
    BY <1>1, <1>2, <1>3, CallerMoves
  <1>5. InHand(d)'
    BY <1>0, <1>2, <1>4, <1>c DEF InHand, HasRead, HistInv, Held, Stored
  <1>6. InStep(d)'
    BY <1>0, <1>2, <1>4, <1>c DEF InStep, Before, HistInv, Held
  <1> QED BY <1>4, <1>5, <1>6 DEF Held

LEMMA RevParseHolds ==
    ASSUME Overlap = 1, HistInv, NEW d \in Device, History!RevParse(<<d, 1>>)
    PROVE  HistTypes' /\ SparesOthers(d) /\ Held(d)'
  <1> DEFINE c == [CallerOf(d) EXCEPT !.pc = "insert", !.sha = Len(commits)]
  <1>0. CallerOf(d) \in Caller /\ CallerOf(d).pc = "revParse"
    BY CallerType, Callers DEF HistInv, History!RevParse, CallerOf
  <1>a. Len(commits) \in Nat
    BY DEF HistInv, HistTypes
  <1>1. c \in Caller /\ req' = [req EXCEPT ![<<d, 1>>] = c]
    BY <1>0, <1>a DEF Caller, HistPC, Sha, History!RevParse, CallerOf, HistInv, HistTypes
  <1>2. UNCHANGED <<live, rows, disk, index, commits, was, spoiled>>
    BY DEF History!RevParse, History!repo
  <1>3. spoiled' \in BOOLEAN /\ (spoiled => spoiled')
    BY <1>2 DEF HistInv, HistTypes
  <1>4. /\ c.pc = "insert" /\ c.sha = Len(commits)
        /\ c.content = CallerOf(d).content /\ c.push = CallerOf(d).push
    BY <1>0 DEF Caller
  <1> HIDE DEF c
  <1>5. /\ HistTypes' /\ SparesOthers(d) /\ Stored(d)' /\ CallerOf(d)' = c
        /\ History!Head_' = History!Head_ /\ History!Latest(d)' = History!Latest(d)
        /\ History!Contents(d)' = History!Contents(d)
        /\ \A sha, x : Shows(sha, d, x)' = Shows(sha, d, x)
    BY <1>1, <1>2, <1>3, CallerMoves
  <1>k. HistTypes /\ InHand(d) /\ Stored(d) /\ InStep(d)
    BY DEF HistInv, Held
  <1>s. Shows(Len(commits), d, CallerOf(d).content)
    <2>1. commits # << >>
      BY <1>0, <1>k, HeadIs, Paths, ConfigsAreNotNull DEF InHand, HasRead, HistTypes
    <2> QED BY <1>0, <1>k, <2>1, HeadIs DEF InHand, Shows
  <1>6. InHand(d)'
    BY <1>0, <1>2, <1>4, <1>5, <1>k, <1>s DEF InHand, HasRead
  <1>7. InStep(d)'
    BY <1>0, <1>2, <1>4, <1>5, <1>k DEF InStep, Before, InHand
  <1> QED BY <1>5, <1>6, <1>7 DEF Held

LEMMA NothingHolds ==
    ASSUME Overlap = 1, HistInv, NEW d \in Device, History!NothingToCommit(<<d, 1>>)
    PROVE  HistTypes' /\ SparesOthers(d) /\ Held(d)'
  <1> DEFINE c == [CallerOf(d) EXCEPT !.pc = "insert"]
  <1>0. CallerOf(d) \in Caller /\ CallerOf(d).pc = "commit" /\ index = History!Head_
    BY CallerType, Callers DEF HistInv, History!NothingToCommit, CallerOf, History!Step
  <1>1. c \in Caller /\ req' = [req EXCEPT ![<<d, 1>>] = c]
    BY <1>0, Callers DEF Caller, HistPC, Content, Sha, History!NothingToCommit, CallerOf, HistInv,
           HistTypes, History!Step
  <1>2. UNCHANGED <<live, rows, disk, index, commits, was, spoiled>>
    BY DEF History!NothingToCommit, History!repo
  <1>3. spoiled' \in BOOLEAN /\ (spoiled => spoiled')
    BY <1>2 DEF HistInv, HistTypes
  <1>4. /\ c.pc = "insert" /\ c.sha = CallerOf(d).sha
        /\ c.content = CallerOf(d).content /\ c.push = CallerOf(d).push
    BY <1>0 DEF Caller
  <1> HIDE DEF c
  <1>5. /\ HistTypes' /\ SparesOthers(d) /\ Stored(d)' /\ CallerOf(d)' = c
        /\ History!Head_' = History!Head_ /\ History!Latest(d)' = History!Latest(d)
        /\ History!Contents(d)' = History!Contents(d)
        /\ \A sha, x : Shows(sha, d, x)' = Shows(sha, d, x)
    BY <1>1, <1>2, <1>3, CallerMoves
  <1>k. HistTypes /\ InHand(d) /\ Stored(d) /\ InStep(d)
    BY DEF HistInv, Held
  <1>6. InHand(d)'
    BY <1>0, <1>2, <1>4, <1>5, <1>k, NoShaShows DEF InHand, HasRead
  <1>7. InStep(d)'
    BY <1>0, <1>2, <1>4, <1>5, <1>k DEF InStep, Before, InHand
  <1> QED BY <1>5, <1>6, <1>7 DEF Held

LEMMA GitFailHolds ==
    ASSUME Overlap = 1, HistInv, NEW d \in Device, History!GitFails(<<d, 1>>)
    PROVE  HistTypes' /\ SparesOthers(d) /\ Held(d)'
  <1> DEFINE c == [CallerOf(d) EXCEPT !.pc = "insert", !.sha = NULL]
  <1>0. CallerOf(d) \in Caller /\ CallerOf(d).pc \in {"write", "add", "status", "commit", "revParse"}
       /\ spoiled' = TRUE
    BY CallerType, Callers DEF HistInv, History!GitFails, CallerOf
  <1>1. c \in Caller /\ req' = [req EXCEPT ![<<d, 1>>] = c]
    BY <1>0, Callers DEF Caller, HistPC, Content, Sha, History!GitFails, CallerOf, HistInv, HistTypes
  <1>2. UNCHANGED <<live, rows, disk, index, commits, was>>
    BY DEF History!GitFails, History!repo
  <1>3. spoiled' \in BOOLEAN /\ (spoiled => spoiled')
    BY <1>2 DEF HistInv, HistTypes, History!GitFails
  <1>4. /\ c.pc = "insert" /\ c.sha = NULL
        /\ c.content = CallerOf(d).content /\ c.push = CallerOf(d).push
    BY <1>0 DEF Caller
  <1> HIDE DEF c
  <1>5. /\ HistTypes' /\ SparesOthers(d) /\ Stored(d)' /\ CallerOf(d)' = c
        /\ History!Head_' = History!Head_ /\ History!Latest(d)' = History!Latest(d)
        /\ History!Contents(d)' = History!Contents(d)
        /\ \A sha, x : Shows(sha, d, x)' = Shows(sha, d, x)
    BY <1>1, <1>2, <1>3, CallerMoves
  <1>k. HistTypes /\ InHand(d) /\ Stored(d) /\ InStep(d)
    BY DEF HistInv, Held
  <1>6. InHand(d)'
    BY <1>0, <1>2, <1>4, <1>5, <1>k, NoShaShows DEF InHand, HasRead
  <1>7. InStep(d)'
    BY <1>0, <1>2, <1>4, <1>5, <1>k DEF InStep, Before, InHand
  <1> QED BY <1>5, <1>6, <1>7 DEF Held

LEMMA StatusHolds ==
    ASSUME Overlap = 1, HistInv, NEW d \in Device, History!Status(<<d, 1>>)
    PROVE  HistTypes' /\ SparesOthers(d) /\ Held(d)'
  <1> DEFINE c == [CallerOf(d) EXCEPT
                    !.pc = IF index[d] = History!Head_[d] /\ disk[d] = index[d] THEN "insert" ELSE "commit"]
  <1>0. CallerOf(d) \in Caller /\ CallerOf(d).pc = "status"
    BY CallerType, Callers DEF HistInv, History!Status, CallerOf
  <1>1. c \in Caller /\ req' = [req EXCEPT ![<<d, 1>>] = c]
    BY <1>0, Callers DEF Caller, HistPC, Content, Sha, History!Status, CallerOf, HistInv,
           HistTypes, History!PathOf
  <1>2. UNCHANGED <<live, rows, disk, index, commits, was, spoiled>>
    BY DEF History!Status, History!repo
  <1>3. spoiled' \in BOOLEAN /\ (spoiled => spoiled')
    BY <1>2 DEF HistInv, HistTypes
  <1>4. /\ c.pc = "commit" \/ (c.pc = "insert" /\ index[d] = History!Head_[d] /\ disk[d] = index[d])
        /\ c.sha = CallerOf(d).sha
        /\ c.content = CallerOf(d).content /\ c.push = CallerOf(d).push
    BY <1>0 DEF Caller, History!PathOf
  <1> HIDE DEF c
  <1>5. /\ HistTypes' /\ SparesOthers(d) /\ Stored(d)' /\ CallerOf(d)' = c
        /\ History!Head_' = History!Head_ /\ History!Latest(d)' = History!Latest(d)
        /\ History!Contents(d)' = History!Contents(d)
        /\ \A sha, x : Shows(sha, d, x)' = Shows(sha, d, x)
    BY <1>1, <1>2, <1>3, CallerMoves
  <1>k. HistTypes /\ InHand(d) /\ Stored(d) /\ InStep(d)
    BY DEF HistInv, Held
  <1>6. InHand(d)'
    BY <1>0, <1>2, <1>4, <1>5, <1>k, NoShaShows DEF InHand, HasRead
  <1>7. InStep(d)'
    BY <1>0, <1>2, <1>4, <1>5, <1>k DEF InStep, Before, InHand
  <1> QED BY <1>5, <1>6, <1>7 DEF Held

\* What the caller goes on with once the backup is stored.
LEMMA AfterIs ==
    ASSUME HistTypes, NEW d \in Device
    PROVE  /\ History!After(<<d, 1>>) \in Caller
           /\ \/ History!After(<<d, 1>>) = History!Idle
              \/ /\ CallerOf(d).push # {}
                 /\ History!After(<<d, 1>>).pc = "push"
                 /\ History!After(<<d, 1>>).content = CallerOf(d).content
                 /\ History!After(<<d, 1>>).sha = CallerOf(d).sha
                 /\ History!After(<<d, 1>>).push = CallerOf(d).push
  <1>1. CallerOf(d) \in Caller /\ History!Idle \in Caller
    BY CallerType DEF Caller, HistPC, Content, Sha, History!Idle
  <1> DEFINE c == [CallerOf(d) EXCEPT !.pc = "push"]
  <1>2. /\ c \in Caller /\ c.pc = "push" /\ c.content = CallerOf(d).content
        /\ c.sha = CallerOf(d).sha /\ c.push = CallerOf(d).push
    BY <1>1 DEF Caller, HistPC
  <1>3. History!After(<<d, 1>>) = IF CallerOf(d).push = {} THEN History!Idle ELSE c
    BY DEF History!After, CallerOf
  <1> HIDE DEF c
  <1> QED BY <1>1, <1>2, <1>3

LEMMA IdleIs ==
    /\ History!Idle \in Caller /\ History!Idle.pc = "idle"
    /\ History!Idle.sha = NULL /\ History!Idle.push = {}
  BY DEF Caller, HistPC, Content, Sha, History!Idle

LEMMA LatestIsStored ==
    ASSUME HistTypes, NEW d \in Device, History!Latest(d) # NULL
    PROVE  History!Latest(d) \in History!Contents(d)
  <1>1. rows[d] \in Seq(BackupRow) /\ rows[d] # << >>
    BY DEF HistTypes, History!Latest
  <1>2. Len(rows[d]) \in DOMAIN rows[d]
    BY <1>1
  <1> QED BY <1>1, <1>2 DEF History!Latest, History!Contents, History!Last

LEMMA CompareHolds ==
    ASSUME Overlap = 1, HistInv, NEW d \in Device, History!Compare(<<d, 1>>)
    PROVE  HistTypes' /\ SparesOthers(d) /\ Held(d)'
  <1> DEFINE c == IF History!Latest(d) = CallerOf(d).content THEN History!After(<<d, 1>>)
                  ELSE [CallerOf(d) EXCEPT !.pc = "write"]
  <1>0. HistTypes /\ InHand(d) /\ Stored(d) /\ InStep(d)
    BY DEF HistInv, Held
  <1>1. CallerOf(d) \in Caller /\ CallerOf(d).pc = "compare"
    BY <1>0, CallerType DEF History!Compare, CallerOf
  <1>2. c \in Caller
    BY <1>0, <1>1, AfterIs DEF Caller, HistPC
  <1>3. req' = [req EXCEPT ![<<d, 1>>] = c]
    BY Callers DEF History!Compare, CallerOf
  <1>4. UNCHANGED <<live, rows, disk, index, commits, was, spoiled>>
    BY DEF History!Compare, History!repo
  <1>5. spoiled' \in BOOLEAN /\ (spoiled => spoiled')
    BY <1>0, <1>4 DEF HistTypes
  <1>6. \/ c = History!Idle
        \/ /\ c.pc = "write" /\ c.content = CallerOf(d).content
           /\ c.sha = CallerOf(d).sha /\ c.push = CallerOf(d).push
        \/ /\ c.pc = "push" /\ c.push # {} /\ c.content = CallerOf(d).content
           /\ c.sha = CallerOf(d).sha /\ c.push = CallerOf(d).push
           /\ CallerOf(d).content = History!Latest(d)
    <2> DEFINE w == [CallerOf(d) EXCEPT !.pc = "write"]
    <2>1. /\ w.pc = "write" /\ w.content = CallerOf(d).content
          /\ w.sha = CallerOf(d).sha /\ w.push = CallerOf(d).push
      BY <1>1 DEF Caller
    <2>2. c = IF History!Latest(d) = CallerOf(d).content THEN History!After(<<d, 1>>) ELSE w
      OBVIOUS
    <2> HIDE DEF c, w
    <2> QED BY <1>0, <2>1, <2>2, AfterIs
  <1> HIDE DEF c
  <1>7. /\ HistTypes' /\ SparesOthers(d) /\ Stored(d)' /\ CallerOf(d)' = c
        /\ History!Head_' = History!Head_ /\ History!Latest(d)' = History!Latest(d)
        /\ History!Contents(d)' = History!Contents(d)
    BY <1>2, <1>3, <1>4, <1>5, CallerMoves
  <1>8. c.pc = "push" => c.content \in History!Contents(d)
    <2>1. CallerOf(d).content # NULL
      BY <1>0, <1>1, ConfigsAreNotNull DEF InHand, HasRead, HistTypes
    <2> QED BY <1>0, <1>6, <2>1, LatestIsStored, IdleIs
  <1>9. InHand(d)'
    BY <1>0, <1>1, <1>4, <1>6, <1>7, <1>8, IdleIs DEF InHand, HasRead
  <1>10. InStep(d)'
    BY <1>0, <1>1, <1>4, <1>6, <1>7, IdleIs DEF InStep, Before
  <1> QED BY <1>7, <1>9, <1>10 DEF Held

LEMMA RequestFailHolds ==
    ASSUME Overlap = 1, HistInv, NEW d \in Device, History!RequestFails(<<d, 1>>)
    PROVE  HistTypes' /\ SparesOthers(d) /\ Held(d)'
  <1>0. HistTypes /\ InHand(d) /\ Stored(d) /\ InStep(d)
    BY DEF HistInv, Held
  <1>1. /\ req' = [req EXCEPT ![<<d, 1>>] = History!Idle]
        /\ spoiled' = (spoiled \/ CallerOf(d).pc \notin {"read", "compare", "write", "push"})
    BY DEF History!RequestFails, CallerOf
  <1>2. UNCHANGED <<live, rows, disk, index, commits, was>>
    BY DEF History!RequestFails, History!repo
  <1>3. spoiled' \in BOOLEAN /\ (spoiled => spoiled')
    BY <1>0, <1>1 DEF HistTypes
  <1>4. /\ HistTypes' /\ SparesOthers(d) /\ Stored(d)' /\ CallerOf(d)' = History!Idle
        /\ History!Head_' = History!Head_ /\ History!Latest(d)' = History!Latest(d)
    BY <1>1, <1>2, <1>3, IdleIs, CallerMoves
  <1>5. InHand(d)'
    BY <1>4, IdleIs DEF InHand, HasRead
  <1>6. InStep(d)'
    BY <1>0, <1>1, <1>2, <1>4, IdleIs DEF InStep, Before
  <1> QED BY <1>4, <1>5, <1>6 DEF Held

LEMMA CallerChanges ==
    ASSUME HistTypes, NEW d \in Device, NEW c \in Caller, req' = [req EXCEPT ![<<d, 1>>] = c]
    PROVE  /\ req' \in [Device \X {1} -> Caller] /\ CallerOf(d)' = c
           /\ \A o \in Device \ {d} : CallerOf(o)' = CallerOf(o)
  BY DEF HistTypes, CallerOf

LEMMA SameCommits ==
    ASSUME commits' = commits
    PROVE  /\ History!Head_' = History!Head_
           /\ \A sha, d, x : Shows(sha, d, x)' = Shows(sha, d, x)
  BY DEF History!Head_, History!NoFile, History!File, History!PathOf, Shows

LEMMA SameRows ==
    ASSUME rows' = rows, NEW d \in Device
    PROVE  History!Latest(d)' = History!Latest(d) /\ History!Contents(d)' = History!Contents(d)
  BY DEF History!Contents, History!Latest

LEMMA WriteHolds ==
    ASSUME Overlap = 1, HistInv, NEW d \in Device, History!WriteFile(<<d, 1>>)
    PROVE  HistTypes' /\ SparesOthers(d) /\ Held(d)'
  <1> DEFINE c == [CallerOf(d) EXCEPT !.pc = "add"]
  <1>0. HistTypes /\ InHand(d) /\ Stored(d) /\ InStep(d)
    BY DEF HistInv, Held
  <1>1. CallerOf(d) \in Caller /\ CallerOf(d).pc = "write"
    BY <1>0, CallerType DEF History!WriteFile, History!Step, CallerOf
  <1>2. /\ c \in Caller /\ c.pc = "add" /\ c.content = CallerOf(d).content
        /\ c.sha = CallerOf(d).sha /\ c.push = CallerOf(d).push
    BY <1>1 DEF Caller, HistPC
  <1>3. req' = [req EXCEPT ![<<d, 1>>] = c]
    BY DEF History!WriteFile, History!Step, CallerOf
  <1>4. /\ disk' = [disk EXCEPT ![d] = CallerOf(d).content]
        /\ UNCHANGED <<live, rows, index, commits, was, spoiled>>
    BY Callers, Paths DEF History!WriteFile, CallerOf
  <1> HIDE DEF c
  <1>5. /\ req' \in [Device \X {1} -> Caller] /\ CallerOf(d)' = c
        /\ \A o \in Device \ {d} : CallerOf(o)' = CallerOf(o)
    BY <1>0, <1>2, <1>3, CallerChanges
  <1>6. CallerOf(d).content \in was[d] /\ CallerOf(d).content \in Content
    BY <1>0, <1>1 DEF InHand, HasRead, Caller
  <1>7. HistTypes'
    BY <1>0, <1>4, <1>5, <1>6 DEF HistTypes
  <1>8. SparesOthers(d)
    BY <1>0, <1>4, <1>5 DEF SparesOthers, HistTypes
  <1>9. disk'[d] = CallerOf(d).content
    BY <1>0, <1>4 DEF HistTypes
  <1>10. /\ History!Head_' = History!Head_ /\ History!Latest(d)' = History!Latest(d)
         /\ \A sha, x : Shows(sha, d, x)' = Shows(sha, d, x)
    BY <1>4, SameCommits, SameRows
  <1>11. Stored(d)'
    BY <1>0, <1>4, <1>6, <1>9, <1>10 DEF Stored
  <1>12. InHand(d)'
    BY <1>0, <1>1, <1>2, <1>4, <1>5, <1>6, <1>9 DEF InHand, HasRead
  <1>13. InStep(d)'
    BY <1>0, <1>1, <1>2, <1>4, <1>5, <1>10 DEF InStep, Before
  <1> QED BY <1>7, <1>8, <1>11, <1>12, <1>13 DEF Held

LEMMA AddHolds ==
    ASSUME Overlap = 1, HistInv, NEW d \in Device, History!Add(<<d, 1>>)
    PROVE  HistTypes' /\ SparesOthers(d) /\ Held(d)'
  <1> DEFINE c == [CallerOf(d) EXCEPT !.pc = "status"]
  <1>0. HistTypes /\ InHand(d) /\ Stored(d) /\ InStep(d)
    BY DEF HistInv, Held
  <1>1. CallerOf(d) \in Caller /\ CallerOf(d).pc = "add"
    BY <1>0, CallerType DEF History!Add, History!Step, CallerOf
  <1>2. /\ c \in Caller /\ c.pc = "status" /\ c.content = CallerOf(d).content
        /\ c.sha = CallerOf(d).sha /\ c.push = CallerOf(d).push
    BY <1>1 DEF Caller, HistPC
  <1>3. req' = [req EXCEPT ![<<d, 1>>] = c]
    BY DEF History!Add, History!Step, CallerOf
  <1>4. /\ index' = [index EXCEPT ![d] = disk[d]]
        /\ UNCHANGED <<live, rows, disk, commits, was, spoiled>>
    BY Callers, Paths DEF History!Add
  <1> HIDE DEF c
  <1>5. /\ req' \in [Device \X {1} -> Caller] /\ CallerOf(d)' = c
        /\ \A o \in Device \ {d} : CallerOf(o)' = CallerOf(o)
    BY <1>0, <1>2, <1>3, CallerChanges
  <1>6. CallerOf(d).content \in was[d] /\ disk[d] = CallerOf(d).content
    BY <1>0, <1>1 DEF InHand, HasRead
  <1>7. HistTypes'
    BY <1>0, <1>4, <1>5 DEF HistTypes
  <1>8. SparesOthers(d)
    BY <1>0, <1>4, <1>5 DEF SparesOthers, HistTypes
  <1>9. index'[d] = CallerOf(d).content
    BY <1>0, <1>4, <1>6 DEF HistTypes
  <1>10. \A sha, x : Shows(sha, d, x)' = Shows(sha, d, x)
    BY <1>4, SameCommits
  <1>11. Stored(d)'
    BY <1>0, <1>4, <1>6, <1>9, <1>10 DEF Stored
  <1>12. InHand(d)'
    BY <1>0, <1>1, <1>2, <1>4, <1>5, <1>6, <1>9 DEF InHand, HasRead
  <1>13. InStep(d)'
    BY <1>2, <1>5 DEF InStep, Before
  <1> QED BY <1>7, <1>8, <1>11, <1>12, <1>13 DEF Held

LEMMA CommitHolds ==
    ASSUME Overlap = 1, HistInv, NEW d \in Device, History!Commit(<<d, 1>>)
    PROVE  HistTypes' /\ SparesOthers(d) /\ Held(d)'
  <1> DEFINE c == [CallerOf(d) EXCEPT !.pc = "revParse"]
             x == [dev |-> d, tree |-> index]
  <1>0. HistTypes /\ InHand(d) /\ Stored(d) /\ InStep(d)
    BY DEF HistInv, Held
  <1>1. CallerOf(d) \in Caller /\ CallerOf(d).pc = "commit"
    BY <1>0, CallerType DEF History!Commit, History!Step, CallerOf
  <1>2. /\ c \in Caller /\ c.pc = "revParse" /\ c.content = CallerOf(d).content
        /\ c.sha = CallerOf(d).sha /\ c.push = CallerOf(d).push
    BY <1>1 DEF Caller, HistPC
  <1>3. req' = [req EXCEPT ![<<d, 1>>] = c]
    BY DEF History!Commit, History!Step, CallerOf
  <1>4. /\ commits' = Append(commits, x)
        /\ UNCHANGED <<live, rows, disk, index, was, spoiled>>
    BY Callers DEF History!Commit
  <1>5. x \in GitCommit /\ x.tree = index /\ commits \in Seq(GitCommit)
    BY <1>0 DEF HistTypes, GitCommit
  <1> HIDE DEF c, x
  <1>6. /\ req' \in [Device \X {1} -> Caller] /\ CallerOf(d)' = c
        /\ \A o \in Device \ {d} : CallerOf(o)' = CallerOf(o)
    BY <1>0, <1>2, <1>3, CallerChanges
  <1>7. /\ commits' \in Seq(GitCommit) /\ Len(commits)' = Len(commits) + 1
        /\ commits' # << >> /\ Len(commits) \in Nat /\ commits'[Len(commits)'] = x
        /\ \A k \in 1 .. Len(commits) : commits'[k] = commits[k]
    BY <1>4, <1>5, AppendProperties
  <1>8. HistTypes'
    BY <1>0, <1>4, <1>6, <1>7 DEF HistTypes
  <1>9. SparesOthers(d)
    BY <1>4, <1>5, <1>6 DEF SparesOthers
  <1>10. History!Head_' = index
    BY <1>5, <1>7 DEF History!Head_, History!Last
  <1>11. \A sha, y : Shows(sha, d, y) => Shows(sha, d, y)'
    BY <1>7 DEF Shows
  <1>12. Stored(d)'
    BY <1>0, <1>4, <1>5, <1>7, <1>11 DEF Stored
  <1>13. InHand(d)'
    BY <1>0, <1>1, <1>2, <1>4, <1>6, <1>10 DEF InHand, HasRead
  <1>14. InStep(d)'
    BY <1>2, <1>6 DEF InStep, Before
  <1> QED BY <1>8, <1>9, <1>12, <1>13, <1>14 DEF Held

LEMMA InsertHolds ==
    ASSUME Overlap = 1, HistInv, NEW d \in Device, History!InsertRow(<<d, 1>>)
    PROVE  HistTypes' /\ SparesOthers(d) /\ Held(d)'
  <1> DEFINE c == History!After(<<d, 1>>)
             y == [content |-> CallerOf(d).content, sha |-> CallerOf(d).sha]
  <1>0. HistTypes /\ InHand(d) /\ Stored(d) /\ InStep(d)
    BY DEF HistInv, Held
  <1>1. CallerOf(d) \in Caller /\ CallerOf(d).pc = "insert"
    BY <1>0, CallerType DEF History!InsertRow, CallerOf
  <1>2. /\ c \in Caller
        /\ \/ c = History!Idle
           \/ /\ c.pc = "push" /\ c.push # {} /\ c.content = CallerOf(d).content
              /\ c.sha = CallerOf(d).sha /\ c.push = CallerOf(d).push
    BY <1>0, AfterIs
  <1>3. req' = [req EXCEPT ![<<d, 1>>] = c]
    BY DEF History!InsertRow
  <1>4. /\ rows' = [rows EXCEPT ![d] = Append(rows[d], y)]
        /\ UNCHANGED <<live, disk, index, commits, was, spoiled>>
    BY Callers DEF History!InsertRow, CallerOf, History!repo
  <1>5. CallerOf(d).content \in was[d] /\ Shows(CallerOf(d).sha, d, CallerOf(d).content)
    BY <1>0, <1>1 DEF InHand, HasRead
  <1>6. /\ y \in BackupRow /\ y.content = CallerOf(d).content /\ y.sha = CallerOf(d).sha
        /\ rows[d] \in Seq(BackupRow)
    BY <1>0, <1>1, <1>5 DEF HistTypes, BackupRow, Caller
  <1> HIDE DEF c, y
  <1>7. /\ req' \in [Device \X {1} -> Caller] /\ CallerOf(d)' = c
        /\ \A o \in Device \ {d} : CallerOf(o)' = CallerOf(o)
    BY <1>0, <1>2, <1>3, CallerChanges
  <1>8. rows'[d] = Append(rows[d], y)
    BY <1>0, <1>4 DEF HistTypes
  <1>9. /\ rows'[d] \in Seq(BackupRow) /\ rows'[d] # << >> /\ Len(rows[d]) \in Nat
        /\ Len(rows'[d]) = Len(rows[d]) + 1 /\ rows'[d][Len(rows'[d])] = y
        /\ \A i \in 1 .. Len(rows[d]) : rows'[d][i] = rows[d][i]
    BY <1>6, <1>8, AppendProperties
  <1>10. HistTypes'
    BY <1>0, <1>4, <1>7, <1>8, <1>9 DEF HistTypes
  <1>11. SparesOthers(d)
    BY <1>0, <1>4, <1>7 DEF SparesOthers, HistTypes
  <1>12. /\ History!Head_' = History!Head_
         /\ \A sha, x : Shows(sha, d, x)' = Shows(sha, d, x)
    BY <1>4, SameCommits
  <1>13. History!Latest(d)' = CallerOf(d).content
    BY <1>6, <1>9 DEF History!Latest, History!Last
  <1>14. CallerOf(d).content \in History!Contents(d)'
    BY <1>6, <1>9 DEF History!Contents
  <1>15. Stored(d)'
    BY <1>0, <1>4, <1>5, <1>6, <1>9, <1>12 DEF Stored
  <1>16. CallerOf(d).sha = NULL \/ CallerOf(d).sha \in 1 .. Len(commits)
    BY <1>5 DEF Shows
  <1>17. InHand(d)'
    BY <1>0, <1>1, <1>2, <1>4, <1>5, <1>7, <1>14, <1>16, IdleIs DEF InHand, HasRead
  <1>18. InStep(d)'
    BY <1>0, <1>1, <1>2, <1>4, <1>7, <1>12, <1>13, IdleIs DEF InStep, Before
  <1> QED BY <1>10, <1>11, <1>15, <1>17, <1>18 DEF Held

\* The configuration of a device changes, and its caller does not, or comes to rest.
LEMMA ChangeHolds ==
    ASSUME HistInv, NEW d \in Device, NEW config \in History!Config, History!Changed(d, config),
           UNCHANGED <<rows, disk, index, commits, spoiled>>,
           \/ req' = req
           \/ req' = [req EXCEPT ![<<d, 1>>] = History!Idle] /\ CallerOf(d).pc = "push"
    PROVE  HistTypes' /\ SparesOthers(d) /\ Held(d)'
  <1>0. HistTypes /\ InHand(d) /\ Stored(d) /\ InStep(d)
    BY DEF HistInv, Held
  <1>1. /\ req' \in [Device \X {1} -> Caller]
        /\ CallerOf(d)' = CallerOf(d) \/ (CallerOf(d)' = History!Idle /\ CallerOf(d).pc = "push")
        /\ \A o \in Device \ {d} : CallerOf(o)' = CallerOf(o)
    BY <1>0, IdleIs, CallerChanges DEF CallerOf, HistTypes
  <1>2. /\ live' \in [Device -> History!Config] /\ was' \in [Device -> SUBSET History!Config]
        /\ live'[d] = config /\ was'[d] = was[d] \cup {config}
        /\ \A o \in Device \ {d} : live'[o] = live[o] /\ was'[o] = was[o]
    BY <1>0 DEF History!Changed, HistTypes
  <1>3. HistTypes'
    BY <1>0, <1>1, <1>2 DEF HistTypes
  <1>4. SparesOthers(d)
    BY <1>1, <1>2 DEF SparesOthers
  <1>5. /\ History!Head_' = History!Head_ /\ History!Latest(d)' = History!Latest(d)
        /\ History!Contents(d)' = History!Contents(d)
        /\ \A sha, x : Shows(sha, d, x)' = Shows(sha, d, x)
    BY SameCommits, SameRows
  <1>6. Stored(d)'
    BY <1>0, <1>2, <1>5 DEF Stored
  <1>7. InHand(d)'
    BY <1>0, <1>1, <1>2, <1>5, IdleIs DEF InHand, HasRead
  <1>8. InStep(d)'
    BY <1>0, <1>1, <1>5, IdleIs DEF InStep, Before
  <1> QED BY <1>3, <1>4, <1>6, <1>7, <1>8 DEF Held

LEMMA PushConfigHolds ==
    ASSUME Overlap = 1, HistInv, NEW d \in Device, History!DevicePushConfig(<<d, 1>>)
    PROVE  HistTypes' /\ SparesOthers(d) /\ Held(d)'
  <1>1. CallerOf(d) \in Caller /\ live[d] \in History!Config
    BY CallerType DEF HistInv
  <1>2. PICK done \in SUBSET CallerOf(d).push : History!Changed(d, live[d] \cup done)
    BY Callers DEF History!DevicePushConfig, CallerOf
  <1>3. live[d] \cup done \in History!Config
    BY <1>1, <1>2 DEF History!Config, Caller
  <1>4. /\ CallerOf(d).pc = "push" /\ req' = [req EXCEPT ![<<d, 1>>] = History!Idle]
        /\ UNCHANGED <<rows, disk, index, commits, spoiled>>
    BY DEF History!DevicePushConfig, History!repo, CallerOf
  <1> QED BY <1>2, <1>3, <1>4, ChangeHolds

LEMMA OutOfBandHolds ==
    ASSUME HistInv, NEW d \in Active, NEW config \in History!Config, History!OutOfBand(d, config)
    PROVE  HistTypes' /\ SparesOthers(d) /\ Held(d)'
  <1>1. d \in Device
    BY HistoryAssumption
  <1> QED BY <1>1, ChangeHolds DEF History!OutOfBand, History!repo

\* Whatever a write is asked for with, it is lines of this kind.
LEMMA AsksHold ==
    ASSUME Overlap = 1, HistInv, NEW d \in Device,
           \/ History!Backup(<<d, 1>>) \/ History!PushConfig(<<d, 1>>)
           \/ History!Restore(<<d, 1>>) \/ History!Rollback(<<d, 1>>)
    PROVE  HistTypes' /\ SparesOthers(d) /\ Held(d)'
  <1>0. HistTypes /\ InHand(d) /\ Stored(d)
    BY DEF HistInv, Held
  <1>1. CASE History!Backup(<<d, 1>>)
    BY <1>1, AskHolds DEF History!Backup
  <1>2. CASE History!PushConfig(<<d, 1>>)
    BY <1>2, AskHolds DEF History!PushConfig
  <1>3. CASE History!Restore(<<d, 1>>)
    <2>1. PICK c \in History!Contents(d) : History!Ask(<<d, 1>>, c)
      BY <1>3, Callers DEF History!Restore
    <2>2. c \in was[d]
      <3>1. PICK i \in DOMAIN rows[d] : c = rows[d][i].content
        BY <2>1 DEF History!Contents
      <3>2. i \in 1 .. Len(rows[d])
        BY <1>0, <3>1 DEF HistTypes
      <3> QED BY <1>0, <3>1, <3>2 DEF Stored
    <2>3. c \in SUBSET Line
      BY <1>0, <2>2 DEF HistTypes, History!Config
    <2> QED BY <2>1, <2>2, <2>3, AskHolds
  <1>4. CASE History!Rollback(<<d, 1>>)
    <2>1. PICK k \in DOMAIN commits : /\ commits[k].tree[d] # NULL
                                      /\ History!Ask(<<d, 1>>, commits[k].tree[d])
      BY <1>4, Callers, Paths DEF History!Rollback
    <2> DEFINE c == commits[k].tree[d]
    <2>2. c \in was[d]
      <3>1. k \in 1 .. Len(commits)
        BY <1>0, <2>1 DEF HistTypes
      <3> QED BY <1>0, <2>1, <3>1 DEF Stored
    <2>3. c \in SUBSET Line
      BY <1>0, <2>2 DEF HistTypes, History!Config
    <2> HIDE DEF c
    <2>4. History!Ask(<<d, 1>>, c)
      BY <2>1 DEF c
    <2> QED BY <2>2, <2>3, <2>4, AskHolds
  <1> QED BY <1>1, <1>2, <1>3, <1>4

LEMMA HistInit == Overlap = 1 /\ History!Init => HistInv
  <1> SUFFICES ASSUME Overlap = 1, History!Init PROVE HistInv
    OBVIOUS
  <1>1. /\ live \in [Device -> History!Config] /\ rows = [d \in Device |-> << >>]
        /\ disk = [d \in Device |-> NULL] /\ index = [d \in Device |-> NULL] /\ commits = << >>
        /\ req = [r \in Device \X {1} |-> History!Idle]
        /\ was = [d \in Device |-> {live[d]}] /\ spoiled = FALSE
    BY Callers, Paths DEF History!Init, History!NoFile
  <1>2. HistTypes
    <2>1. rows \in [Device -> Seq(BackupRow)] /\ commits \in Seq(GitCommit)
      BY <1>1
    <2>2. disk \in [Device -> Content] /\ index \in [Device -> Content]
      BY <1>1 DEF Content
    <2>3. req \in [Device \X {1} -> Caller]
      BY <1>1, IdleIs
    <2>4. was \in [Device -> SUBSET History!Config]
      BY <1>1
    <2> QED BY <1>1, <2>1, <2>2, <2>3, <2>4 DEF HistTypes
  <1>3. ASSUME NEW d \in Device PROVE Held(d)
    <2>1. CallerOf(d) = History!Idle /\ rows[d] = << >> /\ live[d] \in was[d]
      BY <1>1 DEF CallerOf
    <2>2. History!Head_[d] = NULL /\ History!Latest(d) = NULL /\ disk[d] = NULL /\ index[d] = NULL
      BY <1>1, <1>2, <2>1, HeadIs DEF History!Latest
    <2>3. InHand(d)
      BY <2>1, IdleIs DEF InHand, HasRead
    <2>4. Stored(d)
      BY <1>1, <2>1, <2>2 DEF Stored
    <2>5. InStep(d)
      BY <2>1, <2>2, IdleIs DEF InStep
    <2> QED BY <2>3, <2>4, <2>5 DEF Held
  <1> QED BY <1>2, <1>3 DEF HistInv

LEMMA HistSame == ASSUME HistInv, UNCHANGED historyVars PROVE HistInv'
  <1>1. /\ live' = live /\ rows' = rows /\ disk' = disk /\ index' = index /\ commits' = commits
        /\ req' = req /\ was' = was /\ spoiled' = spoiled
    BY DEF historyVars
  <1>2. HistTypes'
    BY <1>1 DEF HistInv, HistTypes
  <1>3. ASSUME NEW d \in Device PROVE Held(d)'
    <2>1. /\ History!Head_' = History!Head_ /\ History!Latest(d)' = History!Latest(d)
          /\ History!Contents(d)' = History!Contents(d) /\ CallerOf(d)' = CallerOf(d)
          /\ \A sha, x : Shows(sha, d, x)' = Shows(sha, d, x)
      BY <1>1, SameCommits, SameRows DEF CallerOf
    <2>2. InHand(d) /\ Stored(d) /\ InStep(d)
      BY DEF HistInv, Held
    <2>3. InHand(d)'
      BY <1>1, <2>1, <2>2 DEF InHand
    <2>4. Stored(d)'
      BY <1>1, <2>1, <2>2 DEF Stored
    <2>5. InStep(d)'
      BY <1>1, <2>1, <2>2 DEF InStep
    <2> QED BY <2>3, <2>4, <2>5 DEF Held
  <1> QED BY <1>2, <1>3 DEF HistInv

LEMMA HistStep ==
    ASSUME Overlap = 1, HistInv, History!Next
    PROVE  HistInv'
  <1>1. CASE \E d \in Active, c \in History!Config : History!OutOfBand(d, c)
    BY <1>1, OutOfBandHolds, Together, HistoryAssumption
  <1>2. ASSUME NEW r \in History!Request,
               \/ History!Backup(r)
               \/ History!Dev(r) \in Active
                    /\ (History!PushConfig(r) \/ History!Restore(r) \/ History!Rollback(r))
               \/ History!BackupStep(r) \/ History!DevicePushConfig(r)
               \/ History!GitFails(r) \/ History!RequestFails(r)
        PROVE  HistInv'
    <2>1. PICK d \in Device : r = <<d, 1>>
      BY <1>2, Callers
    <2>2. HistTypes' /\ SparesOthers(d) /\ Held(d)'
      BY <1>2, <2>1, AsksHold, ReadHolds, CompareHolds, WriteHolds, AddHolds, StatusHolds,
         CommitHolds, NothingHolds, RevParseHolds, InsertHolds, PushConfigHolds, GitFailHolds,
         RequestFailHolds DEF History!BackupStep
    <2> QED BY <2>2, Together
  <1> QED BY <1>1, <1>2 DEF History!Next

LEMMA ItemsMakeSeq ==
    ASSUME NEW S, NEW T, NEW s \in Seq(T), \A i \in 1 .. Len(s) : s[i] \in S
    PROVE  s \in Seq(S)
  <1>1. Len(s) \in Nat /\ DOMAIN s = 1 .. Len(s) /\ s = [i \in 1 .. Len(s) |-> s[i]]
    OBVIOUS
  <1>2. s \in [1 .. Len(s) -> S]
    BY <1>1
  <1> QED BY <1>1, <1>2, SeqDef

LEMMA HistImplies ==
    ASSUME Overlap = 1, HistInv
    PROVE  /\ History!TypeOK /\ History!ShaShowsBackup /\ History!HistoryHoldsLatest
           /\ History!PushIsReversible /\ History!ReplayIsOwn
  <1>0. HistTypes /\ \A d \in Device : InHand(d) /\ Stored(d) /\ InStep(d)
    BY DEF HistInv, Held
  <1>1. ASSUME NEW d \in Device, NEW i \in DOMAIN rows[d]
        PROVE  /\ rows[d][i].content \in History!Config
               /\ rows[d][i].sha = NULL \/ rows[d][i].sha \in 1 .. Len(commits)
               /\ rows[d][i].sha # NULL => commits[rows[d][i].sha].tree[d] = rows[d][i].content
    <2>1. i \in 1 .. Len(rows[d]) /\ rows[d][i] \in BackupRow
      BY <1>0 DEF HistTypes
    <2> QED BY <1>0, <2>1 DEF Stored, Shows, BackupRow
  <1>2. ASSUME NEW d \in Device
        PROVE  rows[d] \in Seq([content : History!Config, sha : 1 .. Len(commits) \cup {NULL}])
    <2>1. rows[d] \in Seq(BackupRow)
      BY <1>0 DEF HistTypes
    <2>2. ASSUME NEW i \in 1 .. Len(rows[d])
          PROVE  rows[d][i] \in [content : History!Config, sha : 1 .. Len(commits) \cup {NULL}]
      <3>1. rows[d][i] \in BackupRow /\ i \in DOMAIN rows[d]
        BY <2>1
      <3> QED BY <1>1, <3>1 DEF BackupRow
    <2> QED BY <2>1, <2>2, ItemsMakeSeq
  <1>3. History!TypeOK
    <2>1. ASSUME NEW k \in DOMAIN commits PROVE commits[k].tree \in [Device -> Content]
      <3>1. commits[k] \in GitCommit
        BY <1>0 DEF HistTypes
      <3> QED BY <3>1 DEF GitCommit
    <2>2. \A r \in History!Request : req[r] \in Caller
      BY <1>0, Callers DEF HistTypes
    <2> QED BY <1>0, <1>2, <2>1, <2>2, Paths DEF History!TypeOK, HistTypes, Content, Caller
  <1>4. History!ShaShowsBackup
    BY <1>1, Paths DEF History!ShaShowsBackup
  <1>5. History!HistoryHoldsLatest
    <2> SUFFICES ASSUME ~spoiled, NEW d \in Device,
                        \A r \in History!Request : History!Dev(r) = d => req[r].pc = "idle"
                 PROVE  History!Head_[d] = History!Latest(d)
      BY Paths DEF History!HistoryHoldsLatest
    <2>1. CallerOf(d).pc = "idle"
      BY Callers DEF CallerOf
    <2> QED BY <1>0, <2>1 DEF InStep, Before
  <1>6. ASSUME NEW r \in History!Request, req[r].pc = "push"
        PROVE  /\ req[r].content \in History!Contents(History!Dev(r))
               /\ (\E l \in Line : req[r].push = {l}) \/ req[r].push \in was[History!Dev(r)]
    <2>1. PICK d \in Device : r = <<d, 1>>
      BY Callers
    <2> QED BY <1>0, <1>6, <2>1, Callers DEF InHand, CallerOf
  <1>7. History!PushIsReversible /\ History!ReplayIsOwn
    BY <1>6 DEF History!PushIsReversible, History!ReplayIsOwn
  <1> QED BY <1>3, <1>4, <1>5, <1>7

\* Each commit a backup names shows that backup, HEAD holds the latest backups unless
\* something failed, whatever is about to be pushed can be undone from the device's own
\* rows, and a replay is of a configuration that device has had (configVersioning.ts,
\* configService.ts, routes/configs.ts), although all devices share one index and HEAD.
THEOREM HistoryStaysTrue ==
    ASSUME Overlap = 1
    PROVE  ChangesSpec => []HistoryIsTrue
  <1> DEFINE Both == TypeOK /\ HistInv
  <1>1. ChangesInit => Both
    <2>1. Init => TypeOK
      BY TypeInit
    <2> QED BY <2>1, HistInit DEF ChangesInit
  <1>2. Both /\ [ChangesNext]_all => Both'
    <2> SUFFICES ASSUME Both, [ChangesNext]_all PROVE Both'
      OBVIOUS
    <2>1. [Next]_vars /\ (History!Next \/ UNCHANGED historyVars)
      BY DEF ChangesNext, all
    <2>2. TypeOK'
      BY <2>1, TypeStep
    <2>3. HistInv'
      BY <2>1, HistStep, HistSame
    <2> QED BY <2>2, <2>3
  <1>3. Both => HistoryIsTrue
    BY HistImplies DEF HistoryIsTrue
  <1> HIDE DEF Both
  <1> QED BY <1>1, <1>2, <1>3, PTL DEF ChangesSpec

=============================================================================
