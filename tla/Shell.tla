--------------------------------- MODULE Shell ---------------------------------
(***************************************************************************)
(* The shell of a front end's tab: Layout mounts useCallWs and useAuth      *)
(* together, outside the guard, so every visit opens a socket before        *)
(* anybody knows whether the visitor is signed in, and every way to the     *)
(* login page unmounts it.                                                  *)
(***************************************************************************)
EXTENDS Session, CallSocket

shellVars == <<sessionVars, socketVars>>

ShellInit == SessionInit /\ SocketInit

--------------------------------------------------------------------------------
(* LoginPage and useLogin *)

LoginPage == (HandleSubmit \/ LoginFails) /\ UNCHANGED socketVars

AdminLoginPage == app = "admin" /\ LoginPage
PortalLoginPage == app = "portal" /\ LoginPage

--------------------------------------------------------------------------------
(* Layout with its AuthGuard, mounted and unmounted by the router *)

EntersLayout ==
    \/ Visit /\ \E m \in Mounts : MountLayout(m, HasToken)
    \/ /\ \E u \in Users : LoginSucceeds(u)
       /\ \E m \in Mounts : MountLayout(m, TRUE)

GuardLeaves == GuardRejects /\ UnmountLayout
LogoutLeaves == LogoutClicked /\ UnmountLayout
LeavesLayout == GuardLeaves \/ LogoutLeaves

AdminLayout == app = "admin" /\ (EntersLayout \/ LeavesLayout)
PortalLayout == app = "portal" /\ (EntersLayout \/ LeavesLayout)

\* The query "me" that the guard and the layout observe.
MeEnds == (\E c \in meFetch : MeAnswered(c) \/ MeFails(c)) /\ UNCHANGED socketVars
MeChanges == (MeRefetch \/ MeForgotten) /\ UNCHANGED socketVars

--------------------------------------------------------------------------------
(* useCallWs *)

SocketOpens(m) == (\E s \in SocketsOf(m) : OnOpen(s, cred.live)) /\ UNCHANGED sessionVars
SocketEnds(m) == (\E s \in SocketsOf(m) : SocketCloses(s)) /\ UNCHANGED sessionVars
TimerFires(m) == Reconnect(m, HasToken) /\ UNCHANGED sessionVars
DisconnectCalled == Disconnect /\ UNCHANGED sessionVars

\* The server refuses every socket the admin opens: SocketOpens never happens.
AdminSocket(m) == app = "admin" /\ (SocketEnds(m) \/ TimerFires(m))
PortalSocket(m) == app = "portal" /\ (SocketOpens(m) \/ SocketEnds(m) \/ TimerFires(m))

\* What the layout shows of the socket.
WsStatusBanner(m) ==
    CASE status[m] = "connected"    -> "nothing"
      [] status[m] = "connecting"   -> "connecting"
      [] status[m] = "disconnected" -> "lost, reconnecting"

SessionExpires == CredExpires /\ UNCHANGED socketVars

ShellNext ==
    \/ AdminLoginPage \/ PortalLoginPage
    \/ AdminLayout \/ PortalLayout
    \/ MeEnds \/ MeChanges
    \/ \E m \in Mounts : AdminSocket(m) \/ PortalSocket(m)
    \/ DisconnectCalled
    \/ SessionExpires

ShellSpec == ShellInit /\ [][ShellNext]_shellVars

\* Timers fire, requests end in an answer or an error, effects run, and the
\* network lets a handshake through now and then.  Users owe nothing, and
\* neither does the network keep a socket open.
FairShellSpec ==
    /\ ShellSpec
    /\ \A m \in Mounts : WF_shellVars(TimerFires(m)) /\ SF_shellVars(SocketOpens(m))
    /\ WF_shellVars(MeEnds)
    /\ WF_shellVars(GuardLeaves)

--------------------------------------------------------------------------------
(* Properties *)

ShellTypeOK == SessionTypeOK /\ SocketTypeOK /\ (route = "home" <=> mounted # 0)

\* A mount never has two connections, nor a connection and a reconnect under
\* way: onclose is the only handler that starts a timer, and only a mount or
\* a timer opens a socket, however closes, logins and unmounts interleave.
OneChain ==
    \A m \in Mounts :
        /\ timers[m] <= 1
        /\ timers[m] = 1 => SocketsOf(m) = {}
        /\ \A s, t \in SocketsOf(m) : s = t

\* The delay starts over with every connection: a failure counts only as long
\* as no handshake has succeeded since, so a socket that was open is opened
\* again after the shortest delay.
BackoffStartsOver ==
    /\ \A s \in socks : s.st = "open" => attempts[s.mount] = 0
    /\ \A m \in Mounts : timers[m] > 0 => attempts[m] > 0

\* The cleanup of the hook can reach the socket: while the layout is mounted,
\* the socket that is connecting or open is the one wsRef.current names.
RefNamesSocket ==
    \A s \in socks :
        s.mount = mounted /\ s.st \in {"connecting", "open"} => wsRef[mounted] = s.id

\* One chain of attempts per mount, in the hands of its hook: one socket or
\* one timer, named by the ref, with a delay that fits what happened to it.
ChainSound == OneChain /\ RefNamesSocket /\ BackoffStartsOver

\* The hook tells the truth about the socket: it returns "connected" and
\* "connecting" exactly while the mount's socket is.
StatusTruthful ==
    mounted # 0 =>
        /\ status[mounted] = "connected" <=> \E s \in SocketsOf(mounted) : s.st = "open"
        /\ status[mounted] = "connecting" <=> \E s \in SocketsOf(mounted) : s.st = "connecting"

\* A banner that says the connection is being made again is right: on a page
\* that is signed in a timer is running, unless disconnect was called.
BannerTruthful ==
    GuardOpen /\ ~left[mounted] /\ WsStatusBanner(mounted) = "lost, reconnecting"
        => timers[mounted] = 1

\* What hook and banner say of the connection is so.
ShownTruthfully == StatusTruthful /\ BannerTruthful

\* After a login the layout shows who signed in: an answer that is settled is
\* the answer to the credential in use, also when another user was signed in
\* before (the login page keeps the cached identity).  Only a request that
\* was under way during the login can bring the earlier user back.
IdentityShown ==
    GuardOpen /\ meFetch = {} /\ ~me.invalid /\ ~raced => me.user = cred.user

\* The skeleton is replaced by the page or the login page.
GuardResolves == Skeleton ~> ~Skeleton

\* A portal that stays signed in on a mounted layout gets its connection
\* back, however often it is lost.
PortalReturns ==
    \A m \in Mounts :
        <>[](app = "portal" /\ mounted = m /\ ~left[m] /\ cred.live)
            => []<>(status[m] = "connected")
================================================================================
