------------------------------- MODULE Terminal -------------------------------
(***************************************************************************)
(* The browser's SSH terminal: the page (DeviceTerminal.tsx), its          *)
(* WebSocket, the handler of /ws/terminal (routes/ws.ts) and the shell it  *)
(* opens on the device (cisco/interactiveShell.ts).                        *)
(*                                                                         *)
(* The handler is a list of statements (todo).  It hears what comes over   *)
(* the socket, its end included, only once its list is done.               *)
(***************************************************************************)
EXTENDS Naturals, FiniteSets, Sequences

CONSTANTS
    Session,   \* terminals that are opened
    MaxKeys    \* bound on the keys typed into one

VARIABLES
    page,      \* the page: "shut", "asking", "open", "left"
    socket,    \* "none", "open", "silent" (lost without a word), "ending", "closed"
    todo,      \* the statements the handler has left
    shell,     \* "none", "open", "closed"
    hearing,   \* message, close and error handlers are registered
    timer,     \* the idle interval is running
    idle,      \* the last input is 15 minutes ago
    typed,     \* keys typed
    written,   \* of them those the shell was given
    log        \* its entries in the audit log, and whether one could not be written

vars == <<page, socket, todo, shell, hearing, timer, idle, typed, written, log>>

Init ==
    /\ page = [s \in Session |-> "shut"] /\ socket = [s \in Session |-> "none"]
    /\ todo = [s \in Session |-> << >>]
    /\ shell = [s \in Session |-> "none"]
    /\ hearing = {} /\ timer = {} /\ idle = {}
    /\ typed = [s \in Session |-> 0] /\ written = [s \in Session |-> 0]
    /\ log = [s \in Session |-> [opened |-> 0, closed |-> 0, lost |-> FALSE]]

-----------------------------------------------------------------------------
\* The page asks for a nonce first.
OpenTerminal(s) ==
    /\ page[s] = "shut" /\ page' = [page EXCEPT ![s] = "asking"]
    /\ UNCHANGED <<socket, todo, shell, hearing, timer, idle, typed, written, log>>

\* The nonce comes: the socket is opened unless the page has been left meanwhile.
Connect(s) ==
    /\ page[s] = "asking"
    /\ page' = [page EXCEPT ![s] = "open"] /\ socket' = [socket EXCEPT ![s] = "open"]
    /\ todo' = [todo EXCEPT ![s] = <<"user", "device", "target", "audit", "shell", "listen">>]
    /\ UNCHANGED <<shell, hearing, timer, idle, typed, written, log>>

\* The page is left, or the browser vanishes without closing the connection.
Leave(s, silently) ==
    /\ page[s] \in {"asking", "open"}
    /\ page' = [page EXCEPT ![s] = "left"]
    /\ socket' = IF socket[s] # "open" THEN socket
                 ELSE [socket EXCEPT ![s] = IF silently THEN "silent" ELSE "ending"]
    /\ UNCHANGED <<todo, shell, hearing, timer, idle, typed, written, log>>

\* ws.close() of the server: of a connection that is gone already nothing comes of it; a
\* silent one is given up after a while.
Closing(s) == IF socket[s] \in {"open", "silent"} THEN [socket EXCEPT ![s] = "ending"] ELSE socket

At(s, op) == todo[s] # << >> /\ Head(todo[s]) = op

\* The token's user, the device and its credential are looked up.
LookUp(s) ==
    /\ \E op \in {"user", "device", "target"} : At(s, op)
    /\ todo' = [todo EXCEPT ![s] = Tail(@)]
    /\ UNCHANGED <<page, socket, shell, hearing, timer, idle, typed, written, log>>

\* Any of these may fail, and so may the connection to the device: a word to the user.
GivesUp(s) ==
    /\ \E op \in {"user", "device", "target", "shell"} : At(s, op)
    /\ todo' = [todo EXCEPT ![s] = << >>]
    /\ socket' = Closing(s)
    /\ UNCHANGED <<page, shell, hearing, timer, idle, typed, written, log>>

\* audit(...).catch(() => {})
Audits(s, entry) ==
    \/ log' = [log EXCEPT ![s][entry] = @ + 1]
    \/ log' = [log EXCEPT ![s].lost = TRUE]

AuditOpen(s) ==
    /\ At(s, "audit")
    /\ Audits(s, "opened")
    /\ todo' = [todo EXCEPT ![s] = Tail(@)]
    /\ UNCHANGED <<page, socket, shell, hearing, timer, idle, typed, written>>

\* openInteractiveShell() goes on whatever becomes of the socket.
OpenShell(s) ==
    /\ At(s, "shell")
    /\ shell' = [shell EXCEPT ![s] = "open"]
    /\ todo' = [todo EXCEPT ![s] = Tail(@)]
    /\ UNCHANGED <<page, socket, hearing, timer, idle, typed, written, log>>

\* Mutant: without the interval.
ListenOnly(s) ==
    /\ At(s, "listen")
    /\ hearing' = hearing \cup {s} /\ UNCHANGED timer
    /\ todo' = [todo EXCEPT ![s] = Tail(@)]
    /\ UNCHANGED <<page, socket, shell, idle, typed, written, log>>

\* setInterval() and ws.on(...)
Listen(s) ==
    /\ At(s, "listen")
    /\ hearing' = hearing \cup {s} /\ timer' = timer \cup {s}
    /\ todo' = [todo EXCEPT ![s] = Tail(@)]
    /\ UNCHANGED <<page, socket, shell, idle, typed, written, log>>

-----------------------------------------------------------------------------
\* A key goes to whoever hears it; before that it is lost.
Type(s) ==
    /\ page[s] = "open" /\ socket[s] = "open" /\ typed[s] < MaxKeys
    /\ typed' = [typed EXCEPT ![s] = @ + 1]
    /\ IF s \in hearing
         THEN /\ idle' = idle \ {s}
              /\ written' = [written EXCEPT ![s] = IF shell[s] = "open" THEN @ + 1 ELSE @]
         ELSE UNCHANGED <<idle, written>>
    /\ UNCHANGED <<page, socket, todo, shell, hearing, timer, log>>

GrowsIdle(s) ==
    /\ s \in hearing \ idle
    /\ idle' = idle \cup {s}
    /\ UNCHANGED <<page, socket, todo, shell, hearing, timer, typed, written, log>>

IdleTimeout(s) ==
    /\ s \in timer \cap idle
    /\ socket' = Closing(s) /\ socket' # socket
    /\ UNCHANGED <<page, todo, shell, hearing, timer, idle, typed, written, log>>

\* Mutant: the shell is left to the device.
CleanupTimer(s) ==
    /\ timer' = timer \ {s} /\ UNCHANGED shell
    /\ Audits(s, "closed")

Cleanup(s) ==
    /\ timer' = timer \ {s}
    /\ shell' = [shell EXCEPT ![s] = "closed"]
    /\ Audits(s, "closed")

\* The socket's end is told to the handlers that are registered by then; an error is told
\* before it, to the same.
SocketEnds(s) ==
    /\ socket[s] = "ending" /\ socket' = [socket EXCEPT ![s] = "closed"]
    /\ IF s \in hearing THEN Cleanup(s) ELSE UNCHANGED <<timer, shell, log>>
    /\ UNCHANGED <<page, todo, hearing, idle, typed, written>>

SocketFails(s) ==
    /\ socket[s] \in {"open", "silent"} /\ socket' = [socket EXCEPT ![s] = "ending"]
    /\ IF s \in hearing THEN Cleanup(s) ELSE UNCHANGED <<timer, shell, log>>
    /\ UNCHANGED <<page, todo, hearing, idle, typed, written>>

\* The device ends the session.
DeviceEnds(s) ==
    /\ shell[s] = "open" /\ shell' = [shell EXCEPT ![s] = "closed"]
    /\ socket' = IF socket[s] \in {"open", "silent"} THEN Closing(s) ELSE socket
    /\ UNCHANGED <<page, todo, hearing, timer, idle, typed, written, log>>

Handle(s) == LookUp(s) \/ GivesUp(s) \/ AuditOpen(s) \/ OpenShell(s) \/ Listen(s)

Next ==
    \E s \in Session :
        \/ OpenTerminal(s) \/ Connect(s) \/ Type(s)
        \/ \E silently \in BOOLEAN : Leave(s, silently)
        \/ Handle(s) \/ GrowsIdle(s) \/ IdleTimeout(s)
        \/ SocketEnds(s) \/ SocketFails(s) \/ DeviceEnds(s)

Spec == Init /\ [][Next]_vars

\* The handler's statements are answered or fail, the interval fires, sockets that end are
\* reported.  Nothing obliges a device to end a session, or a person to type or to leave.
Fairness ==
    \A s \in Session :
        /\ WF_vars(Handle(s)) /\ WF_vars(GrowsIdle(s))
        /\ WF_vars(IdleTimeout(s)) /\ WF_vars(SocketEnds(s))

FairSpec == Spec /\ Fairness

-----------------------------------------------------------------------------
TypeOK ==
    /\ page \in [Session -> {"shut", "asking", "open", "left"}]
    /\ socket \in [Session -> {"none", "open", "silent", "ending", "closed"}]
    /\ shell \in [Session -> {"none", "open", "closed"}]
    /\ timer \subseteq hearing /\ hearing \subseteq Session /\ idle \subseteq hearing
    /\ \A s \in Session : written[s] <= typed[s]

\* "every session is audited open/close" (ws.ts:41): an open shell has its entry, and a
\* session whose socket ended under a handler that hears has both and no shell; unless the
\* audit log could not be written.
SessionsAreAudited ==
    \A s \in Session :
        /\ shell[s] # "none" => log[s].opened = 1 \/ log[s].lost
        /\ s \in hearing \ timer => shell[s] = "closed" /\ (log[s].closed > 0 \/ log[s].lost)

\* Whoever leaves in whatever way, and whoever stays without typing: in the end no shell
\* is open whose socket lived until the handler heard it ("an abandoned browser tab must
\* not keep console-level device access open indefinitely", ws.ts:74).
AttendedShellsEnd ==
    <>[](\A s \in Session :
           s \in hearing /\ socket[s] \in {"open", "silent", "ending"} => shell[s] # "open")
=============================================================================
