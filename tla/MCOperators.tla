----------------------------- MODULE MCOperators -----------------------------
(* What operators do, for TLC: the firmware campaigns they run, their          *)
(* sign-ins, the pages and terminals they have open and the switches they take *)
(* under management.  A behaviour is about one of them, as `part` says; the    *)
(* rest stands still.                                                          *)
EXTENDS Campaign, FiniteSets, TLC

CONSTANTS Replica, Caller, None, Limit, LockTime, MaxTime, MaxEvents,
          Mount, MaxChanges, MaxFaults, Session, MaxKeys, Switch, Wizard, MaxMishaps

ASSUME WizardAssumption ==
    /\ None \notin Switch \cup {"operator", "SPAdmin"}
    /\ \A s \in Switch : <<"own", s>> # None
    /\ \A a \in Wizard : <<"generated", a>> # None
    /\ None \notin [user : {None, "operator", "SPAdmin"}, host : Switch \cup {None}]

\* The limits the routes accept, runs counted from 1, and no row, view, token or
\* request is None.
ASSUME SessionAssumption ==
    /\ Limit \in Nat \ {0} /\ LockTime \in Nat \ {0} /\ MaxTime \in Nat
    /\ Replica # {} /\ Mount \subseteq Nat \ {0}
    /\ None # "revoked" /\ None \notin [iat : 0..MaxTime, gen : Nat]
    /\ None \notin [enabled : BOOLEAN, role : {"netadmin", "readonly"}, after : Nat]
    /\ LET Row == [enabled : BOOLEAN, role : {"netadmin", "readonly"}, after : Nat,
                   must : BOOLEAN, failed : Nat, until : Nat]
       IN  /\ None \notin Row
           /\ None \notin [kind : {"login", "elsewhere"}, right : BOOLEAN, at : Replica \cup {None},
                           token : [iat : 0..MaxTime, gen : Nat] \cup {None}, load : Nat,
                           todo : {<<"count">>}, seen : Seq(Row), limit : Nat, status : Nat]

VARIABLES part,
          user, policy, cache, limits, req, admin, tab, now, cuts, failures, mixed, events,
          value, relayed, redisUp, mount, signedIn, run, socket, shown, fetch, changes, faults,
          page, tsocket, lines, shell, hearing, timer, idle, typed, written, log,
          running, startup, profile, device, wizard, crossed, mishaps

sessionVars == <<user, policy, cache, limits, req, admin, tab, now, cuts, failures, mixed, events>>
feedVars == <<value, relayed, redisUp, mount, signedIn, run, socket, shown, fetch, changes, faults>>
shellVars == <<page, tsocket, lines, shell, hearing, timer, idle, typed, written, log>>
wizardVars == <<running, startup, profile, device, wizard, crossed, mishaps>>
operators == <<sessionVars, feedVars, shellVars, wizardVars>>
all == <<part, vars, operators>>

\* A tab with a token whose user may be disabled; sign-ins one after the other at a replica.
Kinds(ofUser, ofTimer) == [q \in Caller |-> IF q = "user" THEN ofUser ELSE ofTimer]
OneReplica == {CHOOSE r \in Replica : TRUE}
Tab == INSTANCE Sessions WITH
    Request <- Caller,
    KindsOf <- Kinds({"me", "change"}, {"refresh"}), Edits <- {"disable"}, SignedIn <- TRUE
Door == INSTANCE Sessions WITH
    Request <- Caller,
    KindsOf <- Kinds({"login", "elsewhere"}, {}), Edits <- {"unlock", "policy"},
    SignedIn <- FALSE, Replica <- OneReplica, MaxEvents <- 2

Pages == INSTANCE Feed
Shells == INSTANCE Terminal WITH socket <- tsocket, todo <- lines
Wizards == INSTANCE Onboarding WITH
    HostName <- [s \in Switch |-> s], Vendor <- [s \in Switch |-> "cisco"], Attempt <- Wizard

OperatorsInit ==
    /\ part \in {"campaign", "tab", "door", "pages", "shells", "wizards"}
    /\ Init /\ (part # "campaign" => ringOf = [d \in Device |-> 0])
    /\ Pages!Init /\ Shells!Init /\ Wizards!Init
    /\ IF part = "tab" THEN Tab!Init ELSE Door!Init

InSession(p, A) == part = p /\ A /\ UNCHANGED <<feedVars, shellVars, wizardVars>>
InPages(A) == part = "pages" /\ A /\ UNCHANGED <<sessionVars, shellVars, wizardVars>>
InShells(A) == part = "shells" /\ A /\ UNCHANGED <<sessionVars, feedVars, wizardVars>>
InWizards(A) == part = "wizards" /\ A /\ UNCHANGED <<sessionVars, feedVars, shellVars>>

OperatorsNext ==
    /\ UNCHANGED part
    /\ \/ part = "campaign" /\ Next /\ UNCHANGED operators
       \/ /\ UNCHANGED vars
          /\ \/ InSession("tab", Tab!Next) \/ InSession("door", Door!Next)
             \/ InPages(Pages!Next) \/ InShells(Shells!Next) \/ InWizards(Wizards!Next)

\* Of each module's fairness what its properties need.
OperatorsSpec ==
    /\ OperatorsInit /\ [][OperatorsNext]_all
    /\ \A q \in Caller : WF_sessionVars(part = "tab" /\ (Tab!Handle(q) \/ Tab!Arrives(q)))
    /\ WF_sessionVars(part = "tab" /\ \E r \in Replica : Tab!Send("timer", "refresh", r, TRUE))
    /\ WF_sessionVars(part = "tab" /\ Tab!Administer)
    /\ \A r \in Replica : WF_sessionVars(part = "tab" /\ Tab!Expire(r))
    /\ WF_sessionVars(part = "door" /\ \E q \in Caller : Door!Handle(q) \/ Door!Arrives(q))
    /\ WF_sessionVars(part = "door" /\ Door!Administer)
    /\ \A r \in OneReplica : WF_sessionVars(part = "door" /\ Door!ExpirePolicy(r))
    /\ WF_feedVars(part = "pages" /\ (Pages!Poll \/ Pages!Answer \/ Pages!Show))
    /\ \A m \in Mount : WF_feedVars(part = "pages" /\ Pages!Step(m))
    /\ \A s \in Session :
         /\ WF_shellVars(part = "shells" /\ (Shells!Handle(s) \/ Shells!SocketEnds(s)))
         /\ WF_shellVars(part = "shells" /\ Shells!GrowsIdle(s))
         /\ WF_shellVars(part = "shells" /\ Shells!IdleTimeout(s))

-----------------------------------------------------------------------------
\* What is refused as revoked was signed before the cutoff, accounts are locked after the
\* failures that count and not before, no socket of a page outlives its sign-in, and
\* terminal sessions are audited and their shells closed.
SessionsAreSound ==
    /\ Tab!TypeOK /\ Tab!FreshTokenWorks /\ Door!LocksMatchFailures
    /\ Pages!TypeOK /\ Pages!OldSocketsClose
    /\ Shells!TypeOK /\ Shells!SessionsAreAudited

\* What tabs and replicas remember of a user, of the policy and of a token comes to agree
\* with the rows, an open page comes to show what the server has, and terminals end.
SessionsCatchUp ==
    Tab!SessionsFollow /\ Door!LimitsFollow /\ Pages!PagesCatchUp /\ Shells!AttendedShellsEnd

\* The type invariant, and that a device the wizard has added is logged in to with its
\* profile.
AddedDevicesWork == Wizards!TypeOK /\ Wizards!StoredCredentialsWork
=============================================================================
