------------------------------ MODULE Onboarding ------------------------------
(***************************************************************************)
(* Taking switches under management (routes/onboarding.ts, OnboardWizard): *)
(* the wizard's two requests, the SPAdmin account that is created on a     *)
(* Cisco switch with a password nobody has typed, the credential profile   *)
(* that keeps it, and the device's row; CSV import and deletion beside it. *)
(*                                                                         *)
(* A wizard that is open is an attempt, and an attempt is the list of      *)
(* statements of its present request.                                      *)
(***************************************************************************)
EXTENDS Naturals, FiniteSets, Sequences

CONSTANTS
    Switch,
    HostName,  \* HostName[s]: the hostname that s has been given
    Vendor,    \* Vendor[s]: "cisco", "mikrotik" or "aruba"
    Attempt,   \* wizards, each opened once
    None,
    MaxMishaps \* bound on failures, deletions, imports and reboots

\* Secrets: the operator's own for each switch, and one that each attempt generates.
Own(s) == <<"own", s>>
Generated(a) == <<"generated", a>>
Account == {"operator", "SPAdmin"}

VARIABLES
    running, startup, \* the secret of SPAdmin in a switch's configurations, or None
    profile,   \* profile[u][h]: the secret in the credentials row "u (h)", or None
    device,    \* device[s]: None, or the row: the profile it is attached to
    wizard,    \* the wizards
    crossed,   \* switches that two wizards were at together
    mishaps

vars == <<running, startup, profile, device, wizard, crossed, mishaps>>

Hosts == {HostName[s] : s \in Switch}
NoProfile == [user |-> None, host |-> None]
Unused == [step |-> "unused", todo |-> << >>, switch |-> None, create |-> FALSE,
           preset |-> NoProfile, user |-> "operator", secret |-> None]
Closed == [Unused EXCEPT !.step = "closed"]

Init ==
    /\ running = [s \in Switch |-> None] /\ startup = running
    /\ profile = [u \in Account |-> [h \in Hosts |-> None]]
    /\ device = [s \in Switch |-> None]
    /\ wizard = [a \in Attempt |-> Unused]
    /\ crossed = {} /\ mishaps = 0

-----------------------------------------------------------------------------
On(a) == wizard[a].switch
Host(a) == HostName[On(a)]
At(a, op) == wizard[a].todo # << >> /\ Head(wizard[a].todo) = op
To(a, w) == wizard' = [wizard EXCEPT ![a] = w]
Advance(a) == [wizard[a] EXCEPT !.todo = Tail(@)]
\* The error is shown; the wizard stays where it is, for another try.
Shown(a) == [wizard[a] EXCEPT !.todo = << >>]

Accepts(s, user, secret) ==
    IF user = "operator" THEN secret = Own(s) ELSE secret # None /\ running[s] = secret

\* What an attempt on s needs to go with: the operator's own account, or a saved profile.
Presets(s) == {p \in [user : Account, host : Hosts] : profile[p.user][p.host] # None}

OpenWizard(a, s, preset) ==
    /\ wizard[a] = Unused
    /\ preset \in Presets(s) \cup {NoProfile}
    /\ To(a, [Closed EXCEPT !.step = "connect", !.todo = <<"resolve", "known", "analyze">>,
                            !.switch = s, !.preset = preset])
    /\ crossed' = IF \E b \in Attempt : On(b) = s THEN crossed \cup {s} ELSE crossed
    /\ UNCHANGED <<running, startup, profile, device, mishaps>>

\* Both requests first look for a device with the address.
Known(a) ==
    /\ At(a, "known")
    /\ To(a, IF device[On(a)] # None THEN Shown(a) ELSE Advance(a))
    /\ UNCHANGED <<running, startup, profile, device, crossed, mishaps>>

\* resolveCredential(), or what was typed.
Resolve(a) ==
    /\ At(a, "resolve")
    /\ LET p == wizard[a].preset
       IN  To(a, IF p = NoProfile
                   THEN [Advance(a) EXCEPT !.user = "operator", !.secret = Own(On(a))]
                   ELSE [Advance(a) EXCEPT !.user = p.user, !.secret = profile[p.user][p.host]])
    /\ UNCHANGED <<running, startup, profile, device, crossed, mishaps>>

\* The switch is logged in to, or asked over SNMP.  Step 2 proposes an account of the
\* platform's own for a Cisco switch that has none.
Analyze(a) ==
    /\ At(a, "analyze")
    /\ LET s == On(a) IN
       IF Accepts(s, wizard[a].user, wizard[a].secret)
         THEN To(a, [Advance(a) EXCEPT !.step = "place",
                       !.create = Vendor[s] = "cisco" /\ running[s] = None
                                  /\ wizard[a].user # "SPAdmin"])
         ELSE To(a, Shown(a))
    /\ UNCHANGED <<running, startup, profile, device, crossed, mishaps>>

\* "Add switch", with the account or without it.
Add(a, create) ==
    /\ wizard[a].step = "place" /\ wizard[a].todo = << >>
    /\ create => wizard[a].create
    /\ To(a, [wizard[a] EXCEPT !.create = create,
                !.todo = IF create THEN <<"known", "resolve", "configure", "save", "probe",
                                          "inspect", "store", "insert">>
                         ELSE <<"known", "resolve", "inspect", "store", "insert">>])
    /\ UNCHANGED <<running, startup, profile, device, crossed, mishaps>>

\* username SPAdmin privilege 15 secret ...
Configure(a) ==
    /\ At(a, "configure")
    /\ IF Accepts(On(a), wizard[a].user, wizard[a].secret)
         THEN /\ running' = [running EXCEPT ![On(a)] = Generated(a)]
              /\ To(a, Advance(a))
         ELSE UNCHANGED running /\ To(a, Shown(a))
    /\ UNCHANGED <<startup, profile, device, crossed, mishaps>>

\* Mutant: the running configuration is left as it is.
SaveNothing(a) ==
    /\ At(a, "save")
    /\ To(a, Advance(a))
    /\ UNCHANGED <<running, startup, profile, device, crossed, mishaps>>

SaveConfig(a) ==
    /\ At(a, "save")
    /\ startup' = [startup EXCEPT ![On(a)] = running[On(a)]]
    /\ To(a, Advance(a))
    /\ UNCHANGED <<running, profile, device, crossed, mishaps>>

\* "Prove the new account works before we rely on it"
Probe(a) ==
    /\ At(a, "probe")
    /\ To(a, IF Accepts(On(a), "SPAdmin", Generated(a))
               THEN [Advance(a) EXCEPT !.user = "SPAdmin", !.secret = Generated(a)]
               ELSE Shown(a))
    /\ UNCHANGED <<running, startup, profile, device, crossed, mishaps>>

\* "Inspect with the final credentials (also re-validates them)"
Inspect(a) ==
    /\ At(a, "inspect")
    /\ To(a, IF Accepts(On(a), wizard[a].user, wizard[a].secret) THEN Advance(a) ELSE Shown(a))
    /\ UNCHANGED <<running, startup, profile, device, crossed, mishaps>>

Attached(a) ==
    IF wizard[a].preset # NoProfile /\ ~wizard[a].create THEN wizard[a].preset
    ELSE [user |-> wizard[a].user, host |-> Host(a)]

\* INSERT ... ON CONFLICT (name) DO UPDATE, unless the saved profile is attached.
Store(a) ==
    /\ At(a, "store")
    /\ profile' = IF wizard[a].preset # NoProfile /\ ~wizard[a].create THEN profile
                  ELSE [profile EXCEPT ![wizard[a].user][Host(a)] = wizard[a].secret]
    /\ To(a, Advance(a))
    /\ UNCHANGED <<running, startup, device, crossed, mishaps>>

\* The address is unique: an insert of a second row fails.
InsertDevice(a) ==
    /\ At(a, "insert")
    /\ IF device[On(a)] = None
         THEN device' = [device EXCEPT ![On(a)] = Attached(a)] /\ To(a, Closed)
         ELSE UNCHANGED device /\ To(a, Shown(a))
    /\ UNCHANGED <<running, startup, profile, crossed, mishaps>>

\* The error makes the operator try again, from the beginning or from the step shown.
TryAgain(a) ==
    /\ wizard[a].step = "connect" /\ wizard[a].todo = << >>
    /\ To(a, [wizard[a] EXCEPT !.todo = <<"resolve", "known", "analyze">>])
    /\ UNCHANGED <<running, startup, profile, device, crossed, mishaps>>

CloseWizard(a) ==
    /\ wizard[a].step \in {"connect", "place"} /\ wizard[a].todo = << >>
    /\ To(a, Closed)
    /\ UNCHANGED <<running, startup, profile, device, crossed, mishaps>>

-----------------------------------------------------------------------------
Happens == mishaps < MaxMishaps /\ mishaps' = mishaps + 1

\* An exchange with the switch or a statement fails, at whatever place; a command may
\* have reached the switch.
StepFails(a) ==
    /\ Happens
    /\ wizard[a].todo # << >>
    /\ running' \in {running} \cup
         IF At(a, "configure") /\ Accepts(On(a), wizard[a].user, wizard[a].secret)
           THEN {[running EXCEPT ![On(a)] = Generated(a)]} ELSE {}
    /\ startup' \in {startup} \cup
         IF At(a, "save") THEN {[startup EXCEPT ![On(a)] = running[On(a)]]} ELSE {}
    /\ To(a, Shown(a))
    /\ UNCHANGED <<profile, device, crossed>>

\* DELETE /api/devices/:id leaves the profile.
DeleteDevice(s) ==
    /\ Happens
    /\ device[s] # None /\ device' = [device EXCEPT ![s] = None]
    /\ UNCHANGED <<running, startup, profile, wizard, crossed>>

\* POST /api/devices/import: a row without a credential, if the address is new.
ImportRow(s) ==
    /\ Happens
    /\ device[s] = None /\ device' = [device EXCEPT ![s] = NoProfile]
    /\ UNCHANGED <<running, startup, profile, wizard, crossed>>

Reboot(s) ==
    /\ Happens
    /\ running' = [running EXCEPT ![s] = startup[s]]
    /\ UNCHANGED <<startup, profile, device, wizard, crossed>>

Handle(a) ==
    \/ Known(a) \/ Resolve(a) \/ Analyze(a) \/ Configure(a) \/ SaveConfig(a) \/ Probe(a)
    \/ Inspect(a) \/ Store(a) \/ InsertDevice(a)

Next ==
    \/ \E a \in Attempt :
         \/ \E s \in Switch :
              \E p \in Presets(s) \cup {NoProfile} : OpenWizard(a, s, p)
         \/ \E create \in BOOLEAN : Add(a, create)
         \/ Handle(a) \/ StepFails(a) \/ TryAgain(a) \/ CloseWizard(a)
    \/ \E s \in Switch : DeleteDevice(s) \/ ImportRow(s) \/ Reboot(s)

Spec == Init /\ [][Next]_vars

-----------------------------------------------------------------------------
Secret == {None} \cup {Own(s) : s \in Switch} \cup {Generated(a) : a \in Attempt}

TypeOK ==
    /\ running \in [Switch -> Secret] /\ startup \in [Switch -> Secret]
    /\ profile \in [Account -> [Hosts -> Secret]]
    /\ \A s \in Switch : device[s] \in {None, NoProfile} \cup [user : Account, host : Hosts]
    /\ \A a \in Attempt : wizard[a].step \in {"unused", "connect", "place", "closed"}

Works(s) ==
    LET p == device[s]
    IN  p \in {None, NoProfile} \/ Accepts(s, p.user, profile[p.user][p.host])

\* "Store the working credentials as a device-specific profile": whatever was onboarded
\* before, deleted, imported or rebooted, a device that the wizard has added is logged in
\* to with its profile.
StoredCredentialsWork == \A s \in Switch : s \notin crossed => Works(s)
=============================================================================
