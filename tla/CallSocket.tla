------------------------------- MODULE CallSocket -------------------------------
(***************************************************************************)
(* The hook useCallWs of the admin and the portal front end: one WebSocket *)
(* to /ws/calls for every mount of the layout, opened again with a growing *)
(* delay when it is lost.  React runs the hook's effect once per mount (a  *)
(* production build); the refs of an unmounted layout live on in the event *)
(* handlers that close over them, so mounts are numbered and all are kept. *)
(***************************************************************************)
EXTENDS Integers, FiniteSets

CONSTANTS
    Mounts,     \* numbers of the successive mounts of the layout
    SocketIds,  \* names of WebSocket objects; a closed one's name is used again
    MaxAttempts \* bound: failed attempts are counted up to here.  They set the
                \* delay of the next timer (at most 30 s) and nothing else, and
                \* time is not modelled

ASSUME MountsAssumption == Mounts \subseteq Nat \ {0}
ASSUME SocketIdsAssumption == SocketIds \subseteq Nat \ {0}
ASSUME MaxAttemptsAssumption == MaxAttempts \in Nat \ {0}

VARIABLES
    app,      \* which front end this is
    mounted,  \* the mount on the screen, 0 when there is none
    socks,    \* the WebSocket objects that have not fired onclose
    wsRef,    \* wsRef[m]: the socket wsRef.current names, 0 for null
    timers,   \* timers[m]: pending setTimeout(connect) of mount m
    attempts, \* attempts[m]: reconnectAttemptRef.current
    status,   \* status[m]: what the hook returns
    left      \* left[m]: the hook's cleanup, or disconnect, has run

socketVars == <<app, mounted, socks, wsRef, timers, attempts, status, left>>

Apps == {"admin", "portal"}
Statuses == {"connecting", "connected", "disconnected"}
\* "aborted" is a socket that was closed while it was connecting.
SocketStates == {"connecting", "open", "closing", "aborted"}

\* The codes onclose can report: a handshake that fails or is given up ends in
\* 1006; the hub closes with an empty close frame, which is 1005; only the
\* answer to our own close(1000) reports 1000.  The hub never sends 4401.
CodesOf(st) == IF st = "open" THEN {1005, 1006}
               ELSE IF st = "closing" THEN {1000, 1006}
               ELSE {1006}

Sockets == [id : SocketIds, mount : Mounts, st : SocketStates]
SocketsOf(m) == {s \in socks : s.mount = m}
FreeIds == SocketIds \ {s.id : s \in socks}
With(s, st) == (socks \ {s}) \cup {[s EXCEPT !.st = st]}

SocketTypeOK ==
    /\ app \in Apps
    /\ mounted \in Mounts \cup {0}
    /\ socks \subseteq Sockets
    /\ wsRef \in [Mounts -> SocketIds \cup {0}]
    /\ timers \in [Mounts -> Nat]
    /\ attempts \in [Mounts -> 0 .. MaxAttempts]
    /\ status \in [Mounts -> Statuses]
    /\ left \in [Mounts -> BOOLEAN]

SocketInit ==
    /\ app \in Apps
    /\ mounted = 0
    /\ socks = {}
    /\ wsRef = [m \in Mounts |-> 0]
    /\ timers = [m \in Mounts |-> 0]
    /\ attempts = [m \in Mounts |-> 0]
    /\ status = [m \in Mounts |-> "disconnected"]
    /\ left = [m \in Mounts |-> FALSE]

--------------------------------------------------------------------------------
(* connect *)

OpenSocket(m) ==
    \E id \in FreeIds :
        /\ \A i \in FreeIds : id <= i
        /\ socks' = socks \cup {[id |-> id, mount |-> m, st |-> "connecting"]}
        /\ wsRef' = [wsRef EXCEPT ![m] = id]
        /\ status' = [status EXCEPT ![m] = "connecting"]

\* The admin's token is looked for in document.cookie, where the HttpOnly
\* session cookie never is; the socket is opened without one.
AdminConnect(m) == OpenSocket(m)

\* The portal opens no socket without a token in localStorage, and nothing
\* makes it try again.
PortalConnect(m, token) ==
    \/ token /\ OpenSocket(m)
    \/ /\ ~token
       /\ status' = [status EXCEPT ![m] = "disconnected"]
       /\ UNCHANGED <<socks, wsRef>>

Connect(m, token) ==
    \/ app = "admin" /\ AdminConnect(m)
    \/ app = "portal" /\ PortalConnect(m, token)

\* What WebSocketHandler accepts: a valid token in the query string.
Accepts(validToken) == app = "portal" /\ validToken

--------------------------------------------------------------------------------
(* The socket's event handlers.  They outlive the mount that set them. *)

OnOpen(s, validToken) ==
    /\ s.st = "connecting"
    /\ Accepts(validToken)
    /\ socks' = With(s, "open")
    /\ status' = [status EXCEPT ![s.mount] = "connected"]
    /\ attempts' = [attempts EXCEPT ![s.mount] = 0]
    /\ UNCHANGED <<app, mounted, wsRef, timers, left>>

\* Mutant: onerror, which comes before onclose, starts a reconnect as well.
OnCloseTwice(s, code) ==
    /\ socks' = socks \ {s}
    /\ wsRef' = [wsRef EXCEPT ![s.mount] = 0]
    /\ status' = [status EXCEPT ![s.mount] = "disconnected"]
    /\ timers' = [timers EXCEPT ![s.mount] = @ + (IF code = 1006 THEN 2 ELSE 0)]
    /\ UNCHANGED <<app, mounted, attempts, left>>

\* Mutant: every closed socket counts as final.
OnCloseFinal(s, code) ==
    /\ socks' = socks \ {s}
    /\ wsRef' = [wsRef EXCEPT ![s.mount] = 0]
    /\ status' = [status EXCEPT ![s.mount] = "disconnected"]
    /\ UNCHANGED <<app, mounted, timers, attempts, left>>

\* Mutant: the status is left to the next attempt.
OnCloseSilent(s, code) ==
    /\ socks' = socks \ {s}
    /\ wsRef' = [wsRef EXCEPT ![s.mount] = 0]
    /\ IF code \in {1000, 4401}
       THEN UNCHANGED <<timers, attempts>>
       ELSE /\ timers' = [timers EXCEPT ![s.mount] = @ + 1]
            /\ attempts' = [attempts EXCEPT ![s.mount] = IF @ < MaxAttempts THEN @ + 1 ELSE @]
    /\ UNCHANGED <<app, mounted, status, left>>

\* onclose, with the onerror that comes in the same task before it: whatever
\* socket the refs name by now, they are overwritten.
OnClose(s, code) ==
    /\ socks' = socks \ {s}
    /\ wsRef' = [wsRef EXCEPT ![s.mount] = 0]
    /\ status' = [status EXCEPT ![s.mount] = "disconnected"]
    /\ IF code \in {1000, 4401}
       THEN UNCHANGED <<timers, attempts>>
       ELSE /\ timers' = [timers EXCEPT ![s.mount] = @ + 1]
            /\ attempts' = [attempts EXCEPT ![s.mount] = IF @ < MaxAttempts THEN @ + 1 ELSE @]
    /\ UNCHANGED <<app, mounted, left>>

SocketCloses(s) == \E code \in CodesOf(s.st) : OnClose(s, code)

\* A timer fires.  Nothing asks whether the mount is still there.
Reconnect(m, token) ==
    /\ timers[m] > 0
    /\ timers' = [timers EXCEPT ![m] = @ - 1]
    /\ Connect(m, token)
    /\ UNCHANGED <<app, mounted, attempts, left>>

--------------------------------------------------------------------------------
(* The effect of the hook, its cleanup, and the portal's disconnect *)

MountLayout(m, token) ==
    /\ mounted = 0
    /\ m \in Mounts /\ \A k \in Mounts : k < m => left[k]
    /\ ~left[m]
    /\ mounted' = m
    /\ Connect(m, token)
    /\ UNCHANGED <<app, timers, attempts, left>>

Closing(st) == IF st = "connecting" THEN "aborted" ELSE "closing"

\* clearTimeout of the last timer and close(1000) of the socket wsRef names.
\* Closing is asynchronous: the socket's onclose is still to come, and a
\* socket that was connecting will report 1006.
Leave(m) ==
    /\ timers' = [timers EXCEPT ![m] = IF @ > 0 THEN @ - 1 ELSE 0]
    /\ socks' = {IF s.id = wsRef[m] THEN [s EXCEPT !.st = Closing(s.st)] ELSE s : s \in socks}
    /\ wsRef' = [wsRef EXCEPT ![m] = 0]
    /\ left' = [left EXCEPT ![m] = TRUE]

UnmountLayout ==
    /\ mounted # 0
    /\ Leave(mounted)
    /\ mounted' = 0
    /\ UNCHANGED <<app, attempts, status>>

Disconnect ==
    /\ app = "portal"
    /\ mounted # 0
    /\ Leave(mounted)
    /\ status' = [status EXCEPT ![mounted] = "disconnected"]
    /\ UNCHANGED <<app, mounted, attempts>>
================================================================================
