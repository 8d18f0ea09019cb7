-------------------------------- MODULE Notify --------------------------------
(***************************************************************************)
(* From a trap to a message on someone's phone: snmpTrapService.ts turns   *)
(* linkDown and linkUp into an alert raised and resolved,                  *)
(* alertService.ts fans a new alert out to the configured channels and the *)
(* subscribed webhook, and util/httpRetry.ts tries a receiver that is      *)
(* down again.                                                             *)
(*                                                                         *)
(* The traps are those of one port of one device.  A handler is the list   *)
(* of statements it has left (todo[t]); a step is one of them.             *)
(***************************************************************************)
EXTENDS Naturals, Sequences

CONSTANTS
    Trap,        \* 1..n, in the order they arrive
    Receiver,    \* who alerts are sent to
    Hook,        \* the one of them that is a webhook subscription
    None,
    MaxAttempts, \* of fetchWithRetry()
    MaxMishaps   \* bound on what goes wrong or is edited

Alert == Trap  \* an alert is named by the trap that raised it

VARIABLES
    todo,      \* todo[t]: the statements trap t's handler has left
    came,      \* traps so far
    says,      \* says[t]: "down", "up"
    device,    \* the listener's deviceCache: None, "known", "unknown"
    window,    \* a maintenance window is open
    open, closed, \* the alerts table: rows without and with resolved_at
    sends,     \* sends[a][r]: None before fetchWithRetry(), else its attempts and outcome
    got,       \* got[r]: how often each alert reached the receiver
    works,     \* works[r]: "up", "down", "refuses"
    enabled,   \* the subscription is enabled
    subs,      \* subCache: None, or whether it holds the subscription ("on", "off")
    asking,    \* asking[a]: what getEnabledSubs() waits for: nothing (None), "asked", or the answer
    cut,       \* alerts whose fan-out a failed statement has cut short
    mixed,     \* traps were handled at a time, failed, or came in a window
    mishaps

alerts == <<open, closed>>
delivery == <<sends, got>>
hooks == <<enabled, subs, asking>>
world == <<window, works, mishaps>>
vars == <<todo, came, says, device, alerts, delivery, hooks, world, cut, mixed>>

Init ==
    /\ todo = [t \in Trap |-> << >>]
    /\ came = 0 /\ says = [t \in Trap |-> "down"]
    /\ device = None
    /\ window = FALSE
    /\ open = {} /\ closed = {}
    /\ sends = [a \in Alert |-> [r \in Receiver |-> None]]
    /\ got = [r \in Receiver |-> [a \in Alert |-> 0]]
    /\ works = [r \in Receiver |-> "up"]
    /\ enabled \in {"on", "off"}
    /\ subs = None /\ asking = [a \in Alert |-> None]
    /\ cut = {} /\ mixed = FALSE
    /\ mishaps = 0

-----------------------------------------------------------------------------
Busy(t) == todo[t] # << >>
At(t, op) == Busy(t) /\ Head(todo[t]) = op
Continue(t, list) == todo' = [todo EXCEPT ![t] = list]
Rest(t) == Tail(todo[t])

\* What a decision of classifyTrap() leads to.
Decided(t) == IF says[t] = "up" THEN <<"resolve">>
              ELSE <<"window", "existing", "insert", "fanout", "notify">>

\* handleTrap(): traps that come in before the lookup has answered look up as well.
TrapComes(what) ==
    /\ came + 1 \in Trap /\ came' = came + 1
    /\ says' = [says EXCEPT ![came + 1] = what]
    /\ todo' = [todo EXCEPT ![came + 1] = <<"lookup">>]
    /\ mixed' = (mixed \/ \E t \in Trap : Busy(t))
    /\ UNCHANGED <<device, alerts, delivery, hooks, world, cut>>

\* Traps of a device that is not known are ignored.
Attribute(t) ==
    /\ At(t, "lookup")
    /\ IF device = "unknown" THEN Continue(t, << >>) /\ mixed' = TRUE
                             ELSE Continue(t, Decided(t)) /\ UNCHANGED mixed
    /\ device' = IF device = None THEN "known" ELSE device
    /\ UNCHANGED <<came, says, alerts, delivery, hooks, world, cut>>

\* inMaintenanceWindow()
AskWindow(t) ==
    /\ At(t, "window")
    /\ Continue(t, IF window THEN << >> ELSE Rest(t))
    /\ mixed' = (mixed \/ window)
    /\ UNCHANGED <<came, says, device, alerts, delivery, hooks, world, cut>>

\* raiseAlert() only inserts what is not open already.
Existing(t) ==
    /\ At(t, "existing")
    /\ Continue(t, IF open # {} THEN << >> ELSE Rest(t))
    /\ UNCHANGED <<came, says, device, alerts, delivery, hooks, world, cut, mixed>>

InsertAlert(t) ==
    /\ At(t, "insert")
    /\ open' = open \cup {t}
    /\ Continue(t, Rest(t))
    /\ UNCHANGED <<came, says, device, closed, delivery, hooks, world, cut, mixed>>

Fresh == [tries |-> 0, state |-> "trying"]

\* getEnabledSubs() up to its await, and what it answers from the cache.
FireWebhooks(t) ==
    IF subs = None THEN asking' = [asking EXCEPT ![t] = "asked"] /\ UNCHANGED sends
    ELSE /\ sends' = [sends EXCEPT ![t][Hook] = IF subs = "on" THEN Fresh ELSE @]
         /\ UNCHANGED asking

\* The hostname has come: the webhooks are left to themselves, and every configured
\* channel is sent to at the same time.
FanOut(t) ==
    /\ At(t, "fanout")
    /\ Continue(t, Rest(t))
    /\ FireWebhooks(t)
    /\ UNCHANGED <<came, says, device, alerts, got, enabled, subs, world, cut, mixed>>

Channels == Receiver \ {Hook}

Dispatch(t) ==
    /\ At(t, "notify")
    /\ \A r \in Channels : sends[t][r] = None
    /\ sends' = [sends EXCEPT ![t] = [r \in Receiver |-> IF r = Hook THEN @[r] ELSE Fresh]]
    /\ UNCHANGED <<todo, came, says, device, alerts, got, hooks, world, cut, mixed>>

Over(t, r) == sends[t][r] # None /\ sends[t][r].state # "trying"

\* Mutant: the handler waits until every channel has taken the message.
NotifiedAll(t) ==
    /\ At(t, "notify")
    /\ \A r \in Channels : Over(t, r) /\ sends[t][r].state = "ok"
    /\ Continue(t, << >>)
    /\ UNCHANGED <<came, says, device, alerts, delivery, hooks, world, cut, mixed>>

\* Promise.allSettled(): the handler ends when every channel has ended one way or the
\* other; it does not wait for the webhooks.
Notified(t) ==
    /\ At(t, "notify")
    /\ \A r \in Channels : Over(t, r)
    /\ Continue(t, << >>)
    /\ UNCHANGED <<came, says, device, alerts, delivery, hooks, world, cut, mixed>>

ReadSubs(a) ==
    /\ asking[a] = "asked"
    /\ asking' = [asking EXCEPT ![a] = enabled]
    /\ UNCHANGED <<todo, came, says, device, alerts, delivery, enabled, subs, world, cut, mixed>>

\* The list is cached when it comes, and used.
HaveSubs(a) ==
    /\ asking[a] \notin {None, "asked"}
    /\ subs' = asking[a]
    /\ asking' = [asking EXCEPT ![a] = None]
    /\ sends' = [sends EXCEPT ![a][Hook] = IF asking[a] = "on" THEN Fresh ELSE @]
    /\ UNCHANGED <<todo, came, says, device, alerts, got, enabled, world, cut, mixed>>

\* Mutant: a link that comes up resolves nothing.
ResolveNone(t) ==
    /\ At(t, "resolve")
    /\ Continue(t, Rest(t))
    /\ UNCHANGED <<came, says, device, alerts, delivery, hooks, world, cut, mixed>>

\* Mutant: the row stays in view.
ResolveKeeps(t) ==
    /\ At(t, "resolve")
    /\ closed' = closed \cup open /\ UNCHANGED open
    /\ Continue(t, Rest(t))
    /\ UNCHANGED <<came, says, device, delivery, hooks, world, cut, mixed>>

\* resolveAlert(): every open one, in one statement.
Resolve(t) ==
    /\ At(t, "resolve")
    /\ closed' = closed \cup open /\ open' = {}
    /\ Continue(t, Rest(t))
    /\ UNCHANGED <<came, says, device, delivery, hooks, world, cut, mixed>>

-----------------------------------------------------------------------------
Ends(ok, tries, receiver) ==
    IF ok THEN "ok" ELSE IF receiver = "refuses" \/ tries >= MaxAttempts THEN "gave up" ELSE "trying"

\* One attempt of fetchWithRetry().  A receiver that is up takes the message; its
\* answer may come too late.
Attempt(a, r, late) ==
    /\ sends[a][r] # None /\ sends[a][r].state = "trying"
    /\ late => works[r] = "up" /\ mishaps < MaxMishaps
    /\ mishaps' = IF late THEN mishaps + 1 ELSE mishaps
    /\ LET tries == sends[a][r].tries + 1
       IN  sends' = [sends EXCEPT ![a][r] =
              [tries |-> tries, state |-> Ends(works[r] = "up" /\ ~late, tries, works[r])]]
    /\ got' = IF works[r] = "up" THEN [got EXCEPT ![r][a] = @ + 1] ELSE got
    /\ UNCHANGED <<todo, came, says, device, alerts, hooks, window, works, cut, mixed>>

Happens == mishaps < MaxMishaps /\ mishaps' = mishaps + 1

\* A statement of a handler fails: the trap is logged and dropped.
StatementFails(t) ==
    /\ Happens
    /\ Busy(t) /\ ~At(t, "notify")
    /\ device' = IF At(t, "lookup") /\ device = None THEN "unknown" ELSE device
    /\ cut' = IF At(t, "fanout") THEN cut \cup {t} ELSE cut
    /\ Continue(t, << >>)
    /\ mixed' = TRUE
    /\ UNCHANGED <<came, says, alerts, delivery, hooks, window, works>>

\* A failed read of the subscriptions counts as none.
SubsFail(a) ==
    /\ Happens
    /\ asking[a] = "asked"
    /\ asking' = [asking EXCEPT ![a] = "off"]
    /\ cut' = cut \cup {a}
    /\ UNCHANGED <<todo, came, says, device, alerts, delivery, enabled, subs, window, works, mixed>>

\* PUT or DELETE of the subscription
EditSubscription ==
    /\ Happens
    /\ enabled' = IF enabled = "on" THEN "off" ELSE "on"
    /\ subs' = None
    /\ UNCHANGED <<todo, came, says, device, alerts, delivery, asking, window, works, cut, mixed>>

\* Mutant: the list of subscriptions is kept for good.
CachesExpireDevice ==
    /\ device # None /\ device' = None /\ UNCHANGED subs
    /\ UNCHANGED <<todo, came, says, alerts, delivery, enabled, asking, world, cut, mixed>>

\* DEVICE_TTL_MS, SUB_CACHE_TTL
CachesExpire ==
    /\ \/ device # None /\ device' = None /\ UNCHANGED subs
       \/ subs # None /\ subs' = None /\ UNCHANGED device
    /\ UNCHANGED <<todo, came, says, alerts, delivery, enabled, asking, world, cut, mixed>>

\* A window opens, and closes.
WindowChanges ==
    /\ IF window THEN UNCHANGED mishaps ELSE Happens
    /\ window' = ~window
    /\ UNCHANGED <<todo, came, says, device, alerts, delivery, hooks, works, cut, mixed>>

\* A receiver goes down or refuses what it is sent, and recovers.
ReceiverChanges(r) ==
    /\ IF works[r] = "up"
         THEN Happens /\ \E w \in {"down", "refuses"} : works' = [works EXCEPT ![r] = w]
         ELSE works' = [works EXCEPT ![r] = "up"] /\ UNCHANGED mishaps
    /\ UNCHANGED <<todo, came, says, device, alerts, delivery, hooks, window, cut, mixed>>

\* POST /api/alerts/:id/resolve
ResolvedByHand(a) ==
    /\ Happens
    /\ a \in open
    /\ open' = open \ {a} /\ closed' = closed \cup {a}
    /\ mixed' = TRUE
    /\ UNCHANGED <<todo, came, says, device, delivery, hooks, window, works, cut>>

Handle(t) ==
    \/ Attribute(t) \/ AskWindow(t) \/ Existing(t) \/ InsertAlert(t) \/ FanOut(t)
    \/ Dispatch(t) \/ Notified(t) \/ Resolve(t)

Next ==
    \/ \E what \in {"down", "up"} : TrapComes(what)
    \/ \E t \in Trap :
         \/ Handle(t) \/ StatementFails(t)
         \/ ReadSubs(t) \/ HaveSubs(t) \/ SubsFail(t)
         \/ \E r \in Receiver, late \in BOOLEAN : Attempt(t, r, late)
         \/ ResolvedByHand(t)
    \/ EditSubscription \/ CachesExpire \/ WindowChanges
    \/ \E r \in Receiver : ReceiverChanges(r)

Spec == Init /\ [][Next]_vars

\* Statements are answered or rejected, requests are answered or time out, and what is
\* cached grows old.
Fairness ==
    /\ \A t \in Trap : /\ WF_vars(Handle(t) \/ ReadSubs(t) \/ HaveSubs(t))
                       /\ \A r \in Receiver : WF_vars(Attempt(t, r, FALSE))
    /\ WF_vars(CachesExpire)

FairSpec == Spec /\ Fairness

-----------------------------------------------------------------------------
TypeOK ==
    /\ open \cup closed \subseteq 1..came /\ open \cap closed = {}
    /\ device \in {None, "known", "unknown"}
    /\ subs \in {None, "on", "off"}
    /\ \A a \in Alert, r \in Receiver : sends[a][r] # None =>
         sends[a][r].tries \in 0..MaxAttempts /\ a \in open \cup closed

\* "linkUp resolves the matching linkDown so the alert clears itself": as long as no
\* trap comes while another is handled, one alert is open exactly when the link's last
\* trap was linkDown.
AlertShowsLink ==
    ~mixed /\ came > 0 /\ (\A t \in Trap : ~Busy(t)) =>
        IF says[came] = "down" THEN \E a \in Alert : open = {a} ELSE open = {}

\* Alerts that nothing cut short reach every channel or are given up there, and no
\* channel or webhook that hangs keeps a trap's handler from ending.
AlertsAreAnnounced ==
    <>[](/\ \A t \in Trap : ~Busy(t)
         /\ \A a \in open \cup closed, r \in Channels : a \in cut \/ Over(a, r))

\* Whatever read is in flight while the subscription is edited, later alerts go where
\* it says.
SubscriptionsFollow == <>[](subs \in {None, enabled})
=============================================================================
