--------------------------------- MODULE Feed ---------------------------------
(***************************************************************************)
(* How an open page keeps up with the server: events published over Redis  *)
(* (redis.ts), relayed to the browser's WebSocket (routes/ws.ts), and what *)
(* the page makes of them: useWebSocket.ts, useApiQuery.ts, App.tsx.       *)
(*                                                                         *)
(* useWebSocket's effect runs once per sign-in; each run (Mount) has its   *)
(* own socket, and is stopped when the user signs out.  The page shows one *)
(* value of the server's, which it also asks for at intervals.             *)
(***************************************************************************)
EXTENDS Naturals, FiniteSets

CONSTANTS
    Mount,     \* 1..n, the runs of the effect
    None,
    MaxChanges, MaxFaults

VARIABLES
    value,     \* what the server has
    relayed,   \* events on their way from Redis to the replica's sockets
    redisUp,
    mount,     \* the run of the effect that is current, 0 before the first sign-in
    signedIn,
    run,       \* run[m]: "idle", "waiting", "asking", "opening", "open", "stopped"
    socket,    \* socket[m]: "none", "open", "silent", "closed"
    shown,     \* what the page shows, None before the first answer
    fetch,     \* the page's request: "none", "sent" or "back", with what it brings
    changes, faults

vars == <<value, relayed, redisUp, mount, signedIn, run, socket, shown, fetch, changes, faults>>
page == <<shown, fetch>>
feed == <<mount, signedIn, run, socket>>

NoFetch == [state |-> "none", value |-> 0]
Sent == [state |-> "sent", value |-> 0]

Init ==
    /\ value = 0 /\ relayed = FALSE /\ redisUp = TRUE
    /\ mount = 0 /\ signedIn = FALSE
    /\ run = [m \in Mount |-> "idle"] /\ socket = [m \in Mount |-> "none"]
    /\ shown = None /\ fetch = NoFetch
    /\ changes = 0 /\ faults = 0

-----------------------------------------------------------------------------
\* A sweep writes a device and publishes device_updated; without Redis the event is gone.
Change ==
    /\ changes < MaxChanges /\ changes' = changes + 1
    /\ value' = value + 1
    /\ relayed' = (relayed \/ redisUp)
    /\ UNCHANGED <<redisUp, feed, page, faults>>

\* invalidateQueries(): what is on screen is asked for again; a request under way is
\* dropped for it, unless it is the first, whose answer is taken.
Invalidated == IF shown = None /\ fetch # NoFetch THEN fetch ELSE Sent

\* The subscriber hands the event to every socket it has; one that is lost hears nothing.
Relay ==
    /\ relayed /\ relayed' = FALSE
    /\ fetch' = IF \E m \in Mount : socket[m] = "open" /\ run[m] = "open" THEN Invalidated ELSE fetch
    /\ UNCHANGED <<value, redisUp, feed, shown, changes, faults>>

\* useQuery(): on sign-in and every refetchInterval, unless a request is under way.
Poll ==
    /\ signedIn /\ fetch = NoFetch
    /\ fetch' = Sent
    /\ UNCHANGED <<value, relayed, redisUp, feed, shown, changes, faults>>

Answer ==
    /\ fetch = Sent /\ fetch' = [state |-> "back", value |-> value]
    /\ UNCHANGED <<value, relayed, redisUp, feed, shown, changes, faults>>

Show ==
    /\ fetch.state = "back"
    /\ shown' = fetch.value /\ fetch' = NoFetch
    /\ UNCHANGED <<value, relayed, redisUp, feed, changes, faults>>

-----------------------------------------------------------------------------
\* The user signs in: the effect runs, and asks for a nonce at once.
SignIn ==
    /\ ~signedIn /\ mount + 1 \in Mount
    /\ signedIn' = TRUE /\ mount' = mount + 1
    /\ run' = [run EXCEPT ![mount + 1] = "asking"]
    /\ UNCHANGED <<value, relayed, redisUp, socket, page, changes, faults>>

\* The effect's clean-up: the timer is cleared and the socket, if there is one, closed.
SignOut ==
    /\ signedIn /\ signedIn' = FALSE
    /\ run' = [run EXCEPT ![mount] = IF @ = "asking" THEN "stopping" ELSE "stopped"]
    /\ socket' = [socket EXCEPT ![mount] = IF @ = "none" THEN @ ELSE "closed"]
    /\ UNCHANGED <<value, relayed, redisUp, mount, page, changes, faults>>

\* Mutant: the nonce is used although the effect has been stopped.
NonceComesAnyway(m) ==
    /\ run[m] \in {"asking", "stopping"}
    /\ run' = [run EXCEPT ![m] = "open"] /\ socket' = [socket EXCEPT ![m] = "open"]
    /\ UNCHANGED <<value, relayed, redisUp, mount, signedIn, page, changes, faults>>

\* The nonce comes: the socket is opened unless the effect has been stopped meanwhile.
NonceComes(m) ==
    /\ run[m] \in {"asking", "stopping"}
    /\ IF run[m] = "stopping"
         THEN run' = [run EXCEPT ![m] = "stopped"] /\ UNCHANGED socket
         ELSE run' = [run EXCEPT ![m] = "opening"] /\ socket' = [socket EXCEPT ![m] = "opening"]
    /\ UNCHANGED <<value, relayed, redisUp, mount, signedIn, page, changes, faults>>

Happens == faults < MaxFaults /\ faults' = faults + 1

\* The request for the nonce fails: once more after a while.
NonceFails(m) ==
    /\ Happens
    /\ run[m] \in {"asking", "stopping"}
    /\ run' = [run EXCEPT ![m] = IF @ = "asking" THEN "waiting" ELSE "stopped"]
    /\ UNCHANGED <<value, relayed, redisUp, mount, signedIn, socket, page, changes>>

Opens(m) ==
    /\ run[m] = "opening" /\ run' = [run EXCEPT ![m] = "open"]
    /\ socket' = [socket EXCEPT ![m] = "open"]
    /\ UNCHANGED <<value, relayed, redisUp, mount, signedIn, page, changes, faults>>

\* Mutant: a socket that closes is not opened again.
ClosesForGood(m) ==
    /\ Happens
    /\ run[m] \in {"opening", "open"}
    /\ run' = [run EXCEPT ![m] = "down"] /\ socket' = [socket EXCEPT ![m] = "closed"]
    /\ UNCHANGED <<value, relayed, redisUp, mount, signedIn, page, changes>>

\* onclose: the socket cannot be opened, or the replica goes away.
Closes(m) ==
    /\ Happens
    /\ run[m] \in {"opening", "open"}
    /\ run' = [run EXCEPT ![m] = "waiting"] /\ socket' = [socket EXCEPT ![m] = "closed"]
    /\ UNCHANGED <<value, relayed, redisUp, mount, signedIn, page, changes>>

Retry(m) ==
    /\ run[m] = "waiting" /\ run' = [run EXCEPT ![m] = "asking"]
    /\ UNCHANGED <<value, relayed, redisUp, mount, signedIn, socket, page, changes, faults>>

\* The connection is lost without a word: neither end notices.
GoesSilent(m) ==
    /\ Happens
    /\ socket[m] = "open" /\ socket' = [socket EXCEPT ![m] = "silent"]
    /\ UNCHANGED <<value, relayed, redisUp, mount, signedIn, run, page, changes>>

\* Redis, or the subscriber's connection to it; it resubscribes by itself.
RedisChanges ==
    /\ IF redisUp THEN Happens ELSE UNCHANGED faults
    /\ redisUp' = ~redisUp
    /\ relayed' = (relayed /\ redisUp')
    /\ UNCHANGED <<value, feed, page, changes>>

Step(m) == NonceComes(m) \/ Opens(m) \/ Retry(m)

Next ==
    \/ Change \/ Relay \/ Poll \/ Answer \/ Show
    \/ SignIn \/ SignOut \/ RedisChanges
    \/ \E m \in Mount : Step(m) \/ NonceFails(m) \/ Closes(m) \/ GoesSilent(m)

Spec == Init /\ [][Next]_vars

\* Timers fire and requests are answered.
Fairness ==
    /\ WF_vars(Poll) /\ WF_vars(Answer) /\ WF_vars(Show)
    /\ \A m \in Mount : WF_vars(Step(m))

FairSpec == Spec /\ Fairness

-----------------------------------------------------------------------------
TypeOK ==
    /\ value = changes /\ mount \in {0} \cup Mount
    /\ run \in [Mount -> {"idle", "waiting", "asking", "stopping", "opening", "open", "stopped"}]
    /\ socket \in [Mount -> {"none", "opening", "open", "silent", "closed"}]
    /\ shown # None => shown <= value
    /\ signedIn => mount # 0 /\ run[mount] # "stopped"

\* "Cleans up on unmount": whatever was under way when the user signed out, no socket but
\* that of the present sign-in is left open.
OldSocketsClose ==
    \A m \in Mount :
        socket[m] \in {"opening", "open", "silent"} => m = mount /\ signedIn

\* Whatever events are lost, and although a dead connection may still look alive: a page
\* that stays open comes to show what the server has, and its socket comes back.
PagesCatchUp ==
    <>[](signedIn => /\ shown = value
                     /\ run[mount] = "open" /\ socket[mount] \in {"open", "silent"})
=============================================================================
