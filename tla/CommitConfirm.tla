---------------------------- MODULE CommitConfirm ----------------------------
(***************************************************************************)
(* Safe apply: pushConfigWithRevert() and confirmArmedChange() of          *)
(* services/deviceComms.ts against one device.  The device is told to undo *)
(* everything after a while, the change is applied, and the undo is called *)
(* off once the platform (auto) or the operator (manual, "test mode") says *)
(* so.  Two kinds of device: Cisco schedules a reload into startup-config; *)
(* RouterOS loads a backup file from a scheduler entry.                    *)
(*                                                                         *)
(* A configuration is the set of pushes whose lines it holds.  Time passes *)
(* in ticks; countdowns (device timers, Redis TTLs, the probe budget) are  *)
(* kept as the ticks they have left, 0 when they are not running.  A step  *)
(* is one exchange with the device or with Redis.                          *)
(***************************************************************************)
EXTENDS Naturals, FiniteSets

CONSTANTS
    Push,       \* calls of pushConfigWithRevert()
    Acceptor,   \* calls of confirmArmedChange()
    Cutting,    \* the pushes whose lines cut the platform off from the device
    None,       \* no push, no file
    Vendors,    \* the kinds of device: SUBSET {"cisco", "routeros"}
    Seconds,    \* confirmSeconds, in ticks
    Minute,     \* a minute, the unit of `reload in`, in ticks
    Margin,     \* the ten seconds of pushConfigWithRevert(), in ticks
    BootTicks,  \* how long the device takes to come back after a reload
    Prompt,     \* TRUE: an exchange with a device takes less than a tick
    RedisFails, \* TRUE: writes to Redis may fail; the code ignores that
    Meanwhile   \* what else happens while a revert is armed:
                \* SUBSET {"push", "accept", "write", "reboot"}

\* A RouterOS backup file: the configuration of its time and the scheduler entries in it.
Backup == [cfg : SUBSET Push, entries : SUBSET Push]

ASSUME PushAssumption == None \notin Push \cup Backup /\ Cutting \subseteq Push
ASSUME VendorAssumption == Vendors \subseteq {"cisco", "routeros"}
ASSUME TimeAssumption ==
    /\ Seconds \in Nat \ {0} /\ Minute \in Nat \ {0}
    /\ Margin \in Nat \ {0} /\ BootTicks \in Nat \ {0}
ASSUME ModeAssumption ==
    /\ Prompt \in BOOLEAN /\ RedisFails \in BOOLEAN
    /\ Meanwhile \subseteq {"push", "accept", "write", "reboot"}

VARIABLES
    vendor,     \* the kind of this device; never changes
    running,    \* running-config
    startup,    \* startup-config (Cisco)
    timer,      \* timer[p]: p's scheduled reload or scheduler entry
    file,       \* file[p]: the backup p made (RouterOS)
    boot,       \* the device is rebooting
    flag,       \* TTL of device:<id>:revertArmed
    token,      \* value and ...
    tokenTtl,   \* ... TTL of device:<id>:revertToken
    pc,         \* pc[p]: where the push is
    manual,     \* the pushes made in test mode
    budget,     \* budget[p]: what is left of the time for probing
    outcome,    \* outcome[p]: what the operator has been told of the push
    apc,        \* apc[a]: where the accept call is
    held,       \* held[a]: the token it read
    subject,    \* subject[a]: the changes whose revert it called off
    accepted    \* history: changes whose revert was called off while they were applied

vars == <<vendor, running, startup, timer, file, boot, flag, token, tokenTtl, pc, manual,
          budget, outcome, apc, held, subject, accepted>>
device == <<vendor, running, startup, timer, file, boot>>
keys == <<flag, token, tokenTtl>>
pushes == <<pc, manual, budget, outcome>>
accepts == <<apc, held, subject>>

Init ==
    /\ vendor \in Vendors
    /\ running = {} /\ startup = {}
    /\ timer = [p \in Push |-> 0]
    /\ file = [p \in Push |-> None]
    /\ boot = 0
    /\ flag = 0 /\ token = None /\ tokenTtl = 0
    /\ pc = [p \in Push |-> "idle"]
    /\ manual = {}
    /\ budget = [p \in Push |-> 0]
    /\ outcome = [p \in Push |-> "none"]
    /\ apc = [a \in Acceptor |-> "idle"]
    /\ held = [a \in Acceptor |-> None]
    /\ subject = [a \in Acceptor |-> {}]
    /\ accepted = {}

-----------------------------------------------------------------------------
(* The device. *)

Reachable == boot = 0 /\ running \cap Cutting = {}

\* `reload in` takes whole minutes, at least one; the scheduler takes seconds.
DeviceTimer ==
    IF vendor = "cisco" THEN Minute * ((Seconds + Minute - 1) \div Minute) ELSE Seconds

\* Mutant: nothing is armed.
ArmRevertSkipped(p, n) == Reachable /\ UNCHANGED device

\* CiscoSshSession.armRevert(), or armRevertLines() one line after the other.  Cisco
\* has one scheduled reload, which a new one replaces.  RouterOS first removes every
\* file of an earlier push, then saves the backup, then adds the scheduler entry; an
\* attempt that fails stops after any of the three (n of them take effect).
ArmRevert(p, n) ==
    LET swept == [q \in Push |-> None]
        now   == [cfg |-> running, entries |-> {q \in Push : timer[q] > 0}]
    IN  /\ Reachable
        /\ file' = IF vendor = "cisco" \/ n = 0 THEN file
                   ELSE IF n = 1 THEN swept ELSE [swept EXCEPT ![p] = now]
        /\ timer' = CASE n < 3 -> timer
                      [] n = 3 /\ vendor = "cisco" ->
                           [q \in Push |-> IF q = p THEN DeviceTimer ELSE 0]
                      [] n = 3 /\ vendor = "routeros" -> [timer EXCEPT ![p] = DeviceTimer]
        /\ UNCHANGED <<vendor, running, startup, boot>>

\* `reload cancel`, or disarmRevertLines(): the entry goes first, then the file.
DisarmRevert(p, n) ==
    /\ Reachable
    /\ timer' = CASE n = 0 -> timer
                  [] n > 0 /\ vendor = "cisco" -> [q \in Push |-> 0]
                  [] n > 0 /\ vendor = "routeros" -> [timer EXCEPT ![p] = 0]
    /\ file' = IF vendor = "cisco" \/ n < 2 THEN file ELSE [file EXCEPT ![p] = None]
    /\ UNCHANGED <<vendor, running, startup, boot>>

\* saveConfig(): `write memory`; RouterOS keeps what is running.
SaveConfig ==
    /\ Reachable
    /\ startup' = IF vendor = "cisco" THEN running ELSE startup
    /\ UNCHANGED <<vendor, running, timer, file, boot>>

\* p's timer runs out: a reload into startup-config, or the load of p's backup, which
\* brings back the scheduler entries of that time.  Without the file the load fails
\* silently and the entry comes round again.
Fire(p) ==
    \/ /\ vendor = "cisco"
       /\ running' = startup
       /\ timer' = [q \in Push |-> 0]
       /\ boot' = BootTicks
    \/ /\ vendor = "routeros" /\ file[p] # None
       /\ running' = file[p].cfg
       /\ timer' = [q \in Push |-> IF q \in file[p].entries THEN Seconds ELSE 0]
       /\ boot' = BootTicks
    \/ /\ vendor = "routeros" /\ file[p] = None
       /\ timer' = [timer EXCEPT ![p] = Seconds]
       /\ UNCHANGED <<running, boot>>

-----------------------------------------------------------------------------
(* pushConfigWithRevert(). *)

\* A change is being pushed or accepted, or the revert of one is armed.
WindowOpen ==
    \/ \E p \in Push : pc[p] \notin {"idle", "done"} \/ timer[p] > 0
    \/ \E a \in Acceptor : apc[a] \in {"token", "disarm", "save", "delete"}

\* A session runs one operation at a time: `reload cancel` and `write memory` are one.
SessionFree ==
    (\A x \in Push : pc[x] # "save") /\ (\A x \in Acceptor : apc[x] # "save")

Goto(p, at) == pc' = [pc EXCEPT ![p] = at]
Tell(p, what) == Goto(p, "done") /\ outcome' = [outcome EXCEPT ![p] = what]

PushConfigWithRevert(p) ==
    /\ pc[p] = "idle"
    /\ WindowOpen => "push" \in Meanwhile
    /\ Goto(p, "arm")
    /\ manual' \in {manual, manual \cup {p}}
    /\ UNCHANGED <<device, keys, budget, outcome, accepts, accepted>>

Arm(p) ==
    /\ pc[p] = "arm" /\ SessionFree
    /\ ArmRevert(p, 3)
    /\ Goto(p, "flag")
    /\ UNCHANGED <<keys, manual, budget, outcome, accepts, accepted>>

\* Arming throws, having done some of its work; nothing is applied.
ArmFails(p) ==
    /\ pc[p] = "arm" /\ SessionFree
    /\ (\E n \in 0 .. 3 : ArmRevert(p, n)) \/ UNCHANGED device
    /\ Tell(p, "error")
    /\ UNCHANGED <<keys, manual, budget, accepts, accepted>>

\* The armed flag for the UI; a failing Redis is ignored.
SetFlag(p) ==
    /\ pc[p] = "flag"
    /\ flag' = Seconds \/ (RedisFails /\ flag' = flag)
    /\ Goto(p, "apply")
    /\ UNCHANGED <<device, token, tokenTtl, manual, budget, outcome, accepts, accepted>>

Apply(p) ==
    /\ pc[p] = "apply" /\ SessionFree
    /\ Reachable
    /\ running' = running \cup {p}
    /\ IF p \in manual
         THEN Goto(p, "token") /\ UNCHANGED budget
         ELSE /\ Goto(p, "probe")
              /\ budget' = [budget EXCEPT ![p] =
                              IF Seconds >= 2 * Margin THEN Seconds - Margin ELSE Margin]
    /\ UNCHANGED <<vendor, startup, timer, file, boot, keys, manual, outcome, accepts, accepted>>

\* Applying throws: a line was rejected, or the change cut the session.
ApplyFails(p) ==
    /\ pc[p] = "apply" /\ SessionFree
    /\ running' \in IF Reachable THEN {running, running \cup {p}} ELSE {running}
    /\ Tell(p, "reverting")
    /\ UNCHANGED <<vendor, startup, timer, file, boot, keys, manual, budget, accepts, accepted>>

\* Test mode: remember the token and leave the revert armed.
SetToken(p) ==
    /\ pc[p] = "token"
    /\ \/ token' = p /\ tokenTtl' = Seconds
       \/ RedisFails /\ UNCHANGED <<token, tokenTtl>>
    /\ Tell(p, "armed")
    /\ UNCHANGED <<device, flag, manual, budget, accepts, accepted>>

\* reachableWithin(): another attempt while the budget lasts ...
Probe(p) ==
    /\ pc[p] = "probe" /\ budget[p] > 0
    /\ Goto(p, "probing")
    /\ UNCHANGED <<device, keys, manual, budget, outcome, accepts, accepted>>

ProbeAnswered(p) ==
    /\ pc[p] = "probing"
    /\ Reachable
    /\ Goto(p, "disarm")
    /\ UNCHANGED <<device, keys, manual, budget, outcome, accepts, accepted>>

ProbeUnanswered(p) ==
    /\ pc[p] = "probing"
    /\ Goto(p, "probe")
    /\ UNCHANGED <<device, keys, manual, budget, outcome, accepts, accepted>>

\* ... and then the device is left to revert by itself.
GiveUp(p) ==
    /\ pc[p] = "probe" /\ budget[p] = 0
    /\ Tell(p, "reverting")
    /\ UNCHANGED <<device, keys, manual, budget, accepts, accepted>>

\* Mutant: the change is not saved after the disarm.
DisarmUnsaved(p) ==
    /\ pc[p] = "disarm" /\ SessionFree
    /\ DisarmRevert(p, 2)
    /\ accepted' = accepted \cup ({p} \cap running)
    /\ Goto(p, "clear")
    /\ UNCHANGED <<keys, manual, budget, outcome, accepts>>

Disarm(p) ==
    /\ pc[p] = "disarm" /\ SessionFree
    /\ DisarmRevert(p, 2)
    /\ accepted' = accepted \cup ({p} \cap running)
    /\ Goto(p, IF vendor = "cisco" THEN "save" ELSE "clear")
    /\ UNCHANGED <<keys, manual, budget, outcome, accepts>>

Save(p) ==
    /\ pc[p] = "save"
    /\ SaveConfig
    /\ Goto(p, "clear")
    /\ UNCHANGED <<keys, manual, budget, outcome, accepts, accepted>>

\* Disarming or saving throws, with or without effect.
DisarmFails(p) ==
    /\ \/ /\ pc[p] = "disarm" /\ SessionFree
          /\ \E n \in 0 .. 2 :
               /\ DisarmRevert(p, n)
               /\ accepted' = IF n > 0 THEN accepted \cup ({p} \cap running) ELSE accepted
       \/ /\ pc[p] = "save"
          /\ SaveConfig /\ UNCHANGED accepted
       \/ pc[p] \in {"disarm", "save"} /\ UNCHANGED <<device, accepted>>
    /\ Tell(p, "error")
    /\ UNCHANGED <<keys, manual, budget, accepts>>

ClearFlag(p) ==
    /\ pc[p] = "clear"
    /\ flag' = 0 \/ (RedisFails /\ flag' = flag)
    /\ Tell(p, "confirmed")
    /\ UNCHANGED <<device, token, tokenTtl, manual, budget, accepts, accepted>>

\* The replica that runs the push dies.
Crash(p) ==
    /\ pc[p] \notin {"idle", "done"}
    /\ Tell(p, "error")
    /\ UNCHANGED <<device, keys, manual, budget, accepts, accepted>>

-----------------------------------------------------------------------------
(* confirmArmedChange(), and what else drives the device. *)

AGoto(a, at) == apc' = [apc EXCEPT ![a] = at]

\* The armed flag is read: without it the call is refused (409).
ConfirmArmedChange(a) ==
    /\ apc[a] = "idle"
    /\ \E p \in Push : pc[p] # "idle"
    /\ "accept" \in Meanwhile \/ \A p \in Push : pc[p] \in {"idle", "done"}
    /\ AGoto(a, IF flag > 0 THEN "token" ELSE "refused")
    /\ UNCHANGED <<device, keys, pushes, held, subject, accepted>>

ReadToken(a) ==
    /\ apc[a] = "token"
    /\ held' = [held EXCEPT ![a] = IF tokenTtl > 0 THEN token ELSE None]
    /\ AGoto(a, IF vendor = "routeros" /\ tokenTtl = 0 THEN "refused" ELSE "disarm")
    /\ UNCHANGED <<device, keys, pushes, subject, accepted>>

\* The changes a disarm calls the revert off for.
CalledOff(a) == {p \in running : timer[p] > 0 /\ (vendor = "cisco" \/ p = held[a])}

AcceptDisarm(a) ==
    /\ apc[a] = "disarm" /\ SessionFree
    /\ DisarmRevert(held[a], 2)
    /\ accepted' = accepted \cup CalledOff(a)
    /\ subject' = [subject EXCEPT ![a] = CalledOff(a)]
    /\ AGoto(a, IF vendor = "cisco" THEN "save" ELSE "delete")
    /\ UNCHANGED <<keys, pushes, held>>

AcceptSave(a) ==
    /\ apc[a] = "save"
    /\ SaveConfig
    /\ AGoto(a, "delete")
    /\ UNCHANGED <<keys, pushes, held, subject, accepted>>

AcceptFails(a) ==
    /\ \/ /\ apc[a] = "disarm" /\ SessionFree
          /\ \E n \in 1 .. 2 : DisarmRevert(held[a], n)
          /\ accepted' = accepted \cup CalledOff(a)
       \/ apc[a] = "save" /\ SaveConfig /\ UNCHANGED accepted
       \/ apc[a] \in {"disarm", "save"} /\ UNCHANGED <<device, accepted>>
    /\ AGoto(a, "failed")
    /\ UNCHANGED <<keys, pushes, held, subject>>

\* Both keys go; the operator is told that the change is accepted.
AcceptDelete(a) ==
    /\ apc[a] = "delete"
    /\ \/ flag' = 0 /\ token' = None /\ tokenTtl' = 0
       \/ RedisFails /\ UNCHANGED keys
    /\ outcome' = [p \in Push |-> IF p \in subject[a] THEN "confirmed" ELSE outcome[p]]
    /\ AGoto(a, "accepted")
    /\ UNCHANGED <<device, pc, manual, budget, held, subject, accepted>>

\* pushLines() with save: any other write of the platform.
PushLines ==
    /\ WindowOpen => "write" \in Meanwhile
    /\ SessionFree
    /\ SaveConfig
    /\ UNCHANGED <<keys, pushes, accepts, accepted>>

\* rebootDevice(): "Save? no".  RouterOS comes back with everything it had.
RebootDevice ==
    /\ WindowOpen => "reboot" \in Meanwhile
    /\ Reachable
    /\ running' = IF vendor = "cisco" THEN startup ELSE running
    /\ timer' = [p \in Push |-> IF vendor = "cisco" \/ timer[p] = 0 THEN 0 ELSE Seconds]
    /\ boot' = BootTicks
    /\ UNCHANGED <<vendor, startup, file, keys, pushes, accepts, accepted>>

-----------------------------------------------------------------------------
(* Time. *)

\* Mutant: a countdown runs on below zero.
ElapseBelowZero(n) == n - 1

Elapse(n) == IF n > 0 THEN n - 1 ELSE 0
Due == {p \in Push : timer[p] = 1}
Exchanging ==
    \/ \E p \in Push : pc[p] \in {"flag", "apply", "token", "probing", "disarm", "save", "clear"}
    \/ \E a \in Acceptor : apc[a] \in {"token", "disarm", "save", "delete"}

Tick ==
    /\ Prompt => ~Exchanging
    /\ flag' = Elapse(flag)
    /\ tokenTtl' = Elapse(tokenTtl)
    /\ token' = IF tokenTtl <= 1 THEN None ELSE token
    /\ budget' = [p \in Push |-> Elapse(budget[p])]
    /\ \/ boot > 0 /\ boot' = boot - 1 /\ UNCHANGED <<running, timer>>
       \/ boot = 0 /\ Due = {} /\ timer' = [p \in Push |-> Elapse(timer[p])] /\ UNCHANGED <<running, boot>>
       \/ boot = 0 /\ \E p \in Due : Fire(p)
    /\ UNCHANGED <<vendor, startup, file, pc, manual, outcome, accepts, accepted>>

PushStep(p) ==
    \/ Arm(p) \/ ArmFails(p) \/ SetFlag(p) \/ Apply(p) \/ ApplyFails(p) \/ SetToken(p)
    \/ Probe(p) \/ ProbeAnswered(p) \/ ProbeUnanswered(p) \/ GiveUp(p)
    \/ Disarm(p) \/ Save(p) \/ DisarmFails(p) \/ ClearFlag(p) \/ Crash(p)

AcceptStep(a) ==
    ReadToken(a) \/ AcceptDisarm(a) \/ AcceptSave(a) \/ AcceptFails(a) \/ AcceptDelete(a)

Next ==
    \/ \E p \in Push : PushConfigWithRevert(p) \/ PushStep(p)
    \/ \E a \in Acceptor : ConfirmArmedChange(a) \/ AcceptStep(a)
    \/ PushLines
    \/ RebootDevice
    \/ Tick

Spec == Init /\ [][Next]_vars

\* Time passes between the attempts of the probe loop, which sleeps in between (hence
\* strong fairness), and every exchange ends or times out.
Fairness ==
    /\ SF_vars(Tick)
    /\ \A p \in Push : WF_vars(PushStep(p))
    /\ \A a \in Acceptor : WF_vars(AcceptStep(a))

FairSpec == Spec /\ Fairness

-----------------------------------------------------------------------------
PC == {"idle", "arm", "flag", "apply", "token", "probe", "probing", "disarm", "save", "clear", "done"}
APC == {"idle", "token", "disarm", "save", "delete", "accepted", "refused", "failed"}

TypeOK ==
    /\ vendor \in Vendors
    /\ running \subseteq Push /\ startup \subseteq Push /\ accepted \subseteq Push
    /\ timer \in [Push -> Nat] /\ budget \in [Push -> Nat]
    /\ file \in [Push -> Backup \cup {None}]
    /\ boot \in Nat /\ flag \in Nat /\ tokenTtl \in Nat
    /\ token \in Push \cup {None}
    /\ pc \in [Push -> PC] /\ apc \in [Acceptor -> APC]
    /\ manual \subseteq Push
    /\ outcome \in [Push -> {"none", "armed", "reverting", "confirmed", "error"}]
    /\ held \in [Acceptor -> Push \cup {None}]
    /\ subject \in [Acceptor -> SUBSET Push]

\* p's timer runs, and what it brings back is a configuration without p.
WillRevert(p) ==
    /\ timer[p] > 0
    /\ vendor = "cisco" => p \notin startup
    /\ vendor = "routeros" => file[p] # None /\ p \notin file[p].cfg

\* "Arm the revert first, so even a disconnect mid-apply still auto-reverts": a change
\* on the device that nobody accepted is one the device will take back by itself,
\* whichever step fails and whenever the platform dies.
NetHolds == \A p \in running \ accepted : WillRevert(p)

\* A change reported as confirmed is on the device, is kept across a reload, and is
\* part of whatever a pending revert brings back.
ConfirmedSticks ==
    \A p \in Push : outcome[p] = "confirmed" =>
        /\ p \in running
        /\ vendor = "cisco" => p \in startup
        /\ vendor = "routeros" =>
             \A q \in Push : timer[q] > 0 /\ file[q] # None => p \in file[q].cfg

\* A change that cuts the platform off does so for a while only: the device comes back.
ManagementComesBack == []<>Reachable
=============================================================================
