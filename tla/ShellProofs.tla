------------------------------ MODULE ShellProofs ------------------------------
(***************************************************************************)
(* Theorems about Shell, for any users, mounts, sockets and bound on the    *)
(* attempts: the chain of connection attempts, what is shown of it, and the *)
(* identity after a login.                                                  *)
(***************************************************************************)
EXTENDS Shell, TLAPS

USE MountsAssumption, SocketIdsAssumption, MaxAttemptsAssumption

--------------------------------------------------------------------------------
(* The socket's part of the invariant *)

Alive == {"connecting", "open"}

\* A closed socket's name is used again, never that of one still there.
IdsDistinct == \A s, t \in socks : s.id = t.id => s = t

\* wsRef.current is null or the name of a socket of its own mount, so the
\* cleanup of one mount cannot close the socket of another.
RefsLive == \A m \in Mounts : wsRef[m] # 0 => \E s \in socks : s.mount = m /\ s.id = wsRef[m]

\* RefNamesSocket for every mount, also those that were left.
AliveNamed == \A s \in socks : s.st \in Alive => wsRef[s.mount] = s.id

\* Only a cleanup or disconnect closes a socket from this side.
ClosingIsLeft == \A s \in socks : s.st \notin Alive => left[s.mount]

\* A mount that has not been on the screen has no socket and no timer.
Fresh ==
    \A m \in Mounts :
        m # mounted /\ ~left[m] => timers[m] = 0 /\ \A s \in socks : s.mount # m

SocketInv ==
    /\ SocketTypeOK
    /\ IdsDistinct
    /\ OneChain
    /\ RefsLive
    /\ AliveNamed
    /\ ClosingIsLeft
    /\ Fresh
    /\ BackoffStartsOver
    /\ StatusTruthful

LEMMA SocketInitially == SocketInit => SocketInv
  BY DEF SocketInit, SocketInv, SocketTypeOK, IdsDistinct, OneChain, RefsLive, AliveNamed,
         ClosingIsLeft, Fresh, BackoffStartsOver, StatusTruthful, SocketsOf, Statuses

\* A socket is all there is of its mount's chain.
LEMMA OnlySocket ==
  ASSUME SocketInv, NEW s \in socks
  PROVE  /\ s.mount \in Mounts
         /\ timers[s.mount] = 0
         /\ \A u \in socks : u.mount = s.mount => u = s
  <1> USE DEF SocketInv
  <1>1. s \in Sockets /\ s \in SocketsOf(s.mount)
    BY DEF SocketTypeOK, SocketsOf
  <1>2. s.mount \in Mounts
    BY <1>1 DEF Sockets
  <1>3. timers[s.mount] \in Nat /\ timers[s.mount] <= 1 /\ timers[s.mount] # 1
    BY <1>1, <1>2 DEF OneChain, SocketTypeOK
  <1>4. \A u \in socks : u.mount = s.mount => u = s
    BY <1>1, <1>2 DEF OneChain, SocketsOf
  <1> QED
    BY <1>2, <1>3, <1>4

\* connect, called for a mount that has neither a socket nor a timer left.
LEMMA ConnectKeeps ==
  ASSUME NEW m \in Mounts, NEW token,
         SocketTypeOK, IdsDistinct, RefsLive, AliveNamed, ClosingIsLeft,
         \A s \in socks : s.mount # m,
         Connect(m, token)
  PROVE  /\ socks' \subseteq Sockets
         /\ wsRef' \in [Mounts -> SocketIds \cup {0}]
         /\ status' \in [Mounts -> Statuses]
         /\ IdsDistinct'
         /\ RefsLive'
         /\ AliveNamed'
         /\ \/ /\ app = "portal" /\ ~token
               /\ socks' = socks
               /\ status' = [status EXCEPT ![m] = "disconnected"]
            \/ \E s \in socks' : /\ socks' = socks \cup {s}
                                 /\ s.mount = m /\ s.st = "connecting"
                                 /\ status' = [status EXCEPT ![m] = "connecting"]
  <1>1. CASE /\ app = "portal" /\ ~token
             /\ status' = [status EXCEPT ![m] = "disconnected"]
             /\ UNCHANGED <<socks, wsRef>>
    BY <1>1 DEF SocketTypeOK, IdsDistinct, RefsLive, AliveNamed, Statuses
  <1>2. CASE OpenSocket(m)
    <2>1. PICK id \in FreeIds :
            /\ socks' = socks \cup {[id |-> id, mount |-> m, st |-> "connecting"]}
            /\ wsRef' = [wsRef EXCEPT ![m] = id]
            /\ status' = [status EXCEPT ![m] = "connecting"]
      BY <1>2 DEF OpenSocket
    <2> DEFINE new == [id |-> id, mount |-> m, st |-> "connecting"]
    <2>2. id \in SocketIds /\ id # 0 /\ \A s \in socks : s.id # id
      BY <2>1 DEF FreeIds
    <2>3. new \in Sockets /\ new.id = id /\ new.mount = m /\ new.st = "connecting"
      BY <2>2 DEF Sockets, SocketStates
    <2>4. socks' = socks \cup {new}
      BY <2>1
    <2> HIDE DEF new
    <2>5. IdsDistinct'
      BY <2>2, <2>3, <2>4 DEF IdsDistinct
    <2>6. RefsLive'
      BY <2>1, <2>3, <2>4 DEF RefsLive, SocketTypeOK
    <2>7. AliveNamed'
      BY <2>1, <2>3, <2>4 DEF AliveNamed, SocketTypeOK, Sockets
    <2> QED
      BY <2>1, <2>2, <2>3, <2>4, <2>5, <2>6, <2>7 DEF SocketTypeOK, Statuses
  <1> QED
    BY <1>1, <1>2 DEF Connect, AdminConnect, PortalConnect

\* A timer fires: the one timer of a mount without a socket.
LEMMA ReconnectKeeps ==
  ASSUME SocketInv, NEW m \in Mounts, NEW token, Reconnect(m, token)
  PROVE  SocketInv'
  <1> USE DEF SocketInv
  <1>1. timers[m] = 1 /\ \A s \in socks : s.mount # m
    BY DEF Reconnect, OneChain, SocketTypeOK, SocketsOf
  <1>2. /\ timers' = [timers EXCEPT ![m] = 0]
        /\ UNCHANGED <<app, mounted, attempts, left>>
        /\ Connect(m, token)
    BY <1>1 DEF Reconnect, SocketTypeOK
  <1>3. /\ socks' \subseteq Sockets
        /\ wsRef' \in [Mounts -> SocketIds \cup {0}]
        /\ status' \in [Mounts -> Statuses]
        /\ IdsDistinct' /\ RefsLive' /\ AliveNamed'
        /\ \/ /\ socks' = socks
              /\ status' = [status EXCEPT ![m] = "disconnected"]
           \/ \E s \in socks' : /\ socks' = socks \cup {s}
                                /\ s.mount = m /\ s.st = "connecting"
                                /\ status' = [status EXCEPT ![m] = "connecting"]
    BY <1>1, <1>2, ConnectKeeps
  <1>4. SocketTypeOK'
    BY <1>2, <1>3 DEF SocketTypeOK
  <1>5. OneChain'
    BY <1>1, <1>2, <1>3 DEF OneChain, SocketTypeOK, SocketsOf
  <1>6. ClosingIsLeft'
    BY <1>2, <1>3 DEF ClosingIsLeft, Alive
  <1>7. Fresh'
    BY <1>1, <1>2, <1>3 DEF Fresh, SocketTypeOK
  <1>8. BackoffStartsOver'
    BY <1>1, <1>2, <1>3 DEF BackoffStartsOver, SocketTypeOK
  <1>9. StatusTruthful'
    BY <1>1, <1>2, <1>3 DEF StatusTruthful, SocketTypeOK, SocketsOf, Statuses
  <1> QED
    BY <1>3, <1>4, <1>5, <1>6, <1>7, <1>8, <1>9

\* Layout is mounted: a mount without a socket or a timer.
LEMMA MountKeeps ==
  ASSUME SocketInv, NEW m \in Mounts, NEW token, MountLayout(m, token)
  PROVE  SocketInv'
  <1> USE DEF SocketInv
  <1>1. timers[m] = 0 /\ \A s \in socks : s.mount # m
    BY DEF MountLayout, Fresh
  <1>2. /\ mounted = 0 /\ mounted' = m /\ m # 0
        /\ UNCHANGED <<app, timers, attempts, left>>
        /\ Connect(m, token)
    BY <1>1 DEF MountLayout
  <1>3. /\ socks' \subseteq Sockets
        /\ wsRef' \in [Mounts -> SocketIds \cup {0}]
        /\ status' \in [Mounts -> Statuses]
        /\ IdsDistinct' /\ RefsLive' /\ AliveNamed'
        /\ \/ /\ socks' = socks
              /\ status' = [status EXCEPT ![m] = "disconnected"]
           \/ \E s \in socks' : /\ socks' = socks \cup {s}
                                /\ s.mount = m /\ s.st = "connecting"
                                /\ status' = [status EXCEPT ![m] = "connecting"]
    BY <1>1, <1>2, ConnectKeeps
  <1>4. SocketTypeOK'
    BY <1>2, <1>3 DEF SocketTypeOK
  <1>5. OneChain'
    BY <1>1, <1>2, <1>3 DEF OneChain, SocketTypeOK, SocketsOf
  <1>6. ClosingIsLeft'
    BY <1>2, <1>3 DEF ClosingIsLeft, Alive
  <1>7. Fresh'
    BY <1>1, <1>2, <1>3 DEF Fresh, SocketTypeOK
  <1>8. BackoffStartsOver'
    BY <1>1, <1>2, <1>3 DEF BackoffStartsOver, SocketTypeOK
  <1>9. StatusTruthful'
    BY <1>1, <1>2, <1>3 DEF StatusTruthful, SocketTypeOK, SocketsOf, Statuses
  <1> QED
    BY <1>3, <1>4, <1>5, <1>6, <1>7, <1>8, <1>9

\* onopen: the mount's only socket, so no timer of its own runs.
LEMMA OpenKeeps ==
  ASSUME SocketInv, NEW s \in socks, NEW valid, OnOpen(s, valid)
  PROVE  SocketInv'
  <1> USE DEF SocketInv
  <1> DEFINE t == [s EXCEPT !.st = "open"]
  <1>1. /\ s.mount \in Mounts /\ s.id \in SocketIds /\ s.st = "connecting"
        /\ t \in Sockets /\ t.id = s.id /\ t.mount = s.mount /\ t.st = "open"
    BY DEF SocketTypeOK, Sockets, SocketStates, OnOpen
  <1>2. /\ socks' = (socks \ {s}) \cup {t}
        /\ status' = [status EXCEPT ![s.mount] = "connected"]
        /\ attempts' = [attempts EXCEPT ![s.mount] = 0]
        /\ UNCHANGED <<app, mounted, wsRef, timers, left>>
    BY DEF OnOpen, With
  <1>3. timers[s.mount] = 0 /\ \A u \in socks : u.mount = s.mount => u = s
    BY OnlySocket
  <1> HIDE DEF t
  <1>4. SocketTypeOK'
    BY <1>1, <1>2 DEF SocketTypeOK, Statuses
  <1>5. IdsDistinct'
    BY <1>1, <1>2 DEF IdsDistinct
  <1>6. OneChain'
    BY <1>1, <1>2, <1>3 DEF OneChain, SocketsOf
  <1>7. RefsLive' /\ AliveNamed'
    BY <1>1, <1>2 DEF RefsLive, AliveNamed, Alive
  <1>8. ClosingIsLeft' /\ Fresh'
    BY <1>1, <1>2 DEF ClosingIsLeft, Fresh, Alive
  <1>9. BackoffStartsOver'
    BY <1>1, <1>2, <1>3 DEF BackoffStartsOver, SocketTypeOK, Sockets
  <1>10. StatusTruthful'
    BY <1>1, <1>2, <1>3 DEF StatusTruthful, SocketTypeOK, SocketsOf
  <1> QED
    BY <1>4, <1>5, <1>6, <1>7, <1>8, <1>9, <1>10

\* onclose: nothing is left of the chain but the timer it starts.
LEMMA CloseKeeps ==
  ASSUME SocketInv, NEW s \in socks, NEW code, OnClose(s, code)
  PROVE  SocketInv'
  <1> USE DEF SocketInv
  <1>1. /\ s.mount \in Mounts
        /\ timers[s.mount] = 0 /\ \A u \in socks : u.mount = s.mount => u = s
    BY OnlySocket
  <1>2. /\ socks' = socks \ {s}
        /\ wsRef' = [wsRef EXCEPT ![s.mount] = 0]
        /\ status' = [status EXCEPT ![s.mount] = "disconnected"]
        /\ UNCHANGED <<app, mounted, left>>
    BY DEF OnClose
  <1>3. \/ UNCHANGED <<timers, attempts>>
        \/ \E n \in 1 .. MaxAttempts :
              /\ timers' = [timers EXCEPT ![s.mount] = 1]
              /\ attempts' = [attempts EXCEPT ![s.mount] = n]
    <2> DEFINE n == IF attempts[s.mount] < MaxAttempts THEN attempts[s.mount] + 1
                    ELSE attempts[s.mount]
    <2>1. attempts[s.mount] \in 0 .. MaxAttempts
      BY <1>1 DEF SocketTypeOK
    <2>2. n \in 1 .. MaxAttempts
      BY <2>1
    <2> QED
      BY <1>1, <2>2 DEF OnClose, SocketTypeOK
  <1>4. SocketTypeOK'
    BY <1>1, <1>2, <1>3 DEF SocketTypeOK, Statuses
  <1>5. IdsDistinct' /\ ClosingIsLeft'
    BY <1>2 DEF IdsDistinct, ClosingIsLeft
  <1>6. OneChain'
    BY <1>1, <1>2, <1>3 DEF OneChain, SocketsOf, SocketTypeOK
  <1>7. RefsLive' /\ AliveNamed'
    BY <1>1, <1>2 DEF RefsLive, AliveNamed, SocketTypeOK, Sockets
  <1>8. Fresh'
    <2>1. s.mount = mounted \/ left[s.mount]
      BY <1>1 DEF Fresh
    <2> QED
      BY <1>1, <1>2, <1>3, <2>1 DEF Fresh, SocketTypeOK
  <1>9. BackoffStartsOver'
    <2>1. ASSUME NEW u \in socks', u.st = "open" PROVE attempts'[u.mount] = 0
      <3>1. u \in socks /\ u.mount # s.mount /\ attempts[u.mount] = 0
        BY <1>1, <1>2, <2>1 DEF BackoffStartsOver
      <3>2. u.mount \in Mounts
        BY <3>1 DEF SocketTypeOK, Sockets
      <3> QED
        BY <1>3, <3>1, <3>2 DEF SocketTypeOK
    <2>2. ASSUME NEW m \in Mounts, timers'[m] > 0 PROVE attempts'[m] > 0
      BY <1>1, <1>3, <2>2 DEF BackoffStartsOver, SocketTypeOK
    <2> QED
      BY <2>1, <2>2 DEF BackoffStartsOver
  <1>10. StatusTruthful'
    BY <1>1, <1>2 DEF StatusTruthful, SocketTypeOK, SocketsOf
  <1> QED
    BY <1>4, <1>5, <1>6, <1>7, <1>8, <1>9, <1>10

\* What the cleanup does to a socket: it turns the one its ref names to
\* closing and leaves every other alone.
Shut(m, s) == IF s.id = wsRef[m] THEN [s EXCEPT !.st = Closing(s.st)] ELSE s

LEMMA ShutFacts ==
  ASSUME SocketTypeOK, NEW m \in Mounts, NEW s \in socks
  PROVE  /\ Shut(m, s) \in Sockets
         /\ Shut(m, s).id = s.id
         /\ Shut(m, s).mount = s.mount
         /\ s.id = wsRef[m] => Shut(m, s).st \notin Alive
         /\ s.id # wsRef[m] => Shut(m, s) = s
  <1>1. s \in Sockets /\ Closing(s.st) \in SocketStates \ Alive
    BY DEF SocketTypeOK, Closing, SocketStates, Alive
  <1> QED
    BY <1>1 DEF Shut, Sockets

\* The cleanup, and the portal's disconnect: they find the mount's socket
\* and no other, because the ref names it.
LEMMA LeaveKeeps ==
  ASSUME SocketInv, NEW m \in Mounts, Leave(m), m = mounted,
         UNCHANGED <<app, attempts>>,
         \/ mounted' = 0 /\ UNCHANGED status
         \/ UNCHANGED mounted /\ status' = [status EXCEPT ![m] = "disconnected"]
  PROVE  SocketInv'
  <1> USE DEF SocketInv
  <1>1. /\ socks' = {Shut(m, s) : s \in socks}
        /\ wsRef' = [wsRef EXCEPT ![m] = 0]
        /\ left' = [left EXCEPT ![m] = TRUE]
    BY DEF Leave, Shut
  <1>2. timers' = [timers EXCEPT ![m] = 0]
    <2>1. timers[m] \in {0, 1}
      BY DEF OneChain, SocketTypeOK
    <2>2. (IF timers[m] > 0 THEN timers[m] - 1 ELSE 0) = 0
      BY <2>1
    <2>3. timers' = [timers EXCEPT ![m] = IF timers[m] > 0 THEN timers[m] - 1 ELSE 0]
      BY DEF Leave
    <2> QED
      BY <2>2, <2>3
  <1>3. \A s \in socks : s \in Sockets /\ s.id \in SocketIds /\ s.id # 0 /\ s.mount \in Mounts
    BY DEF SocketTypeOK, Sockets
  <1>4. \A s \in socks :
          /\ Shut(m, s) \in Sockets
          /\ Shut(m, s).id = s.id
          /\ Shut(m, s).mount = s.mount
          /\ s.id = wsRef[m] => Shut(m, s).st \notin Alive
          /\ s.id # wsRef[m] => Shut(m, s) = s
    BY ShutFacts
  <1>5. \A s \in socks : s.id = wsRef[m] => s.mount = m
    BY <1>3 DEF RefsLive, IdsDistinct
  <1>6. \A u \in socks' : \E s \in socks : u = Shut(m, s)
    BY <1>1
  <1>7. \A u \in socks' : u.st \in Alive => u \in socks /\ u.mount # m
    <2> SUFFICES ASSUME NEW s \in socks, Shut(m, s).st \in Alive
                 PROVE  s.id # wsRef[m] /\ s.mount # m
      BY <1>4, <1>6
    <2> QED
      BY <1>3, <1>4 DEF AliveNamed
  <1>8. SocketTypeOK'
    BY <1>1, <1>2, <1>4 DEF SocketTypeOK, Statuses
  <1>9. IdsDistinct'
    BY <1>4, <1>6 DEF IdsDistinct
  <1>10. OneChain'
    <2>1. ASSUME NEW k \in Mounts PROVE timers'[k] <= 1 /\ (timers'[k] = 1 => SocketsOf(k)' = {})
      BY <1>2, <1>4, <1>6 DEF OneChain, SocketsOf, SocketTypeOK
    <2>2. ASSUME NEW k \in Mounts, NEW u \in SocketsOf(k)', NEW v \in SocketsOf(k)' PROVE u = v
      <3>1. PICK s \in socks : u = Shut(m, s)
        BY <1>6 DEF SocketsOf
      <3>2. PICK t \in socks : v = Shut(m, t)
        BY <1>6 DEF SocketsOf
      <3>3. s.mount = k /\ t.mount = k
        BY <1>4, <3>1, <3>2 DEF SocketsOf
      <3> QED
        BY <3>1, <3>2, <3>3 DEF OneChain, SocketsOf
    <2> QED
      BY <2>1, <2>2 DEF OneChain
  <1>11. RefsLive'
    <2> SUFFICES ASSUME NEW k \in Mounts, wsRef'[k] # 0
                 PROVE  \E u \in socks' : u.mount = k /\ u.id = wsRef'[k]
      BY DEF RefsLive
    <2>1. k # m /\ wsRef'[k] = wsRef[k]
      BY <1>1 DEF SocketTypeOK
    <2>2. PICK s \in socks : s.mount = k /\ s.id = wsRef[k]
      BY <2>1 DEF RefsLive
    <2> QED
      BY <1>1, <1>4, <2>1, <2>2
  <1>12. AliveNamed'
    BY <1>1, <1>3, <1>7 DEF AliveNamed, SocketTypeOK
  <1>13. ClosingIsLeft'
    <2> SUFFICES ASSUME NEW s \in socks, Shut(m, s).st \notin Alive PROVE left'[s.mount]
      BY <1>4, <1>6 DEF ClosingIsLeft
    <2>1. CASE s.id = wsRef[m]
      BY <1>1, <1>5, <2>1 DEF SocketTypeOK
    <2>2. CASE s.id # wsRef[m]
      <3>1. left[s.mount]
        BY <1>4, <2>2 DEF ClosingIsLeft
      <3> QED
        BY <1>1, <1>3, <3>1 DEF SocketTypeOK
    <2> QED
      BY <2>1, <2>2
  <1>14. Fresh'
    <2> SUFFICES ASSUME NEW k \in Mounts, k # mounted', ~left'[k]
                 PROVE  timers'[k] = 0 /\ \A u \in socks' : u.mount # k
      BY DEF Fresh
    <2>1. k # m /\ ~left[k]
      BY <1>1 DEF SocketTypeOK
    <2> QED
      BY <1>2, <1>4, <1>6, <2>1 DEF Fresh, SocketTypeOK
  <1>15. BackoffStartsOver'
    BY <1>2, <1>7 DEF BackoffStartsOver, SocketTypeOK, Alive
  <1>16. StatusTruthful'
    BY <1>7 DEF StatusTruthful, SocketsOf, SocketTypeOK, Alive
  <1> QED
    BY <1>8, <1>9, <1>10, <1>11, <1>12, <1>13, <1>14, <1>15, <1>16

LEMMA UnmountKeeps == SocketInv /\ UnmountLayout => SocketInv'
  <1> SUFFICES ASSUME SocketInv, UnmountLayout PROVE SocketInv'
    OBVIOUS
  <1>1. mounted \in Mounts
    BY DEF SocketInv, SocketTypeOK, UnmountLayout
  <1> QED
    BY <1>1, LeaveKeeps DEF UnmountLayout

LEMMA DisconnectKeeps == SocketInv /\ Disconnect => SocketInv'
  <1> SUFFICES ASSUME SocketInv, Disconnect PROVE SocketInv'
    OBVIOUS
  <1>1. mounted \in Mounts
    BY DEF SocketInv, SocketTypeOK, Disconnect
  <1> QED
    BY <1>1, LeaveKeeps DEF Disconnect

--------------------------------------------------------------------------------
(* The session's part *)

\* A credential that is there is somebody's.
CredNamed == cred = NoCred \/ cred.user # NoUser

\* Without a credential nobody is taken for signed in, or will be.
GuestUnknown == cred = NoCred => me.status # "success" /\ meFetch \subseteq {NoCred}

\* Unless a login found a request under way, what is known of "me" and what
\* will be are about the credential in use.
IdentityKnown ==
    ~raced => /\ me.status = "success" /\ ~me.invalid => me.user = cred.user
              /\ \A c \in meFetch : c.user = cred.user

SessionInv ==
    /\ SessionTypeOK
    /\ form = "pending" => route = "login"
    /\ CredNamed
    /\ GuestUnknown
    /\ IdentityKnown

LEMMA SessionInitially == SessionInit => SessionInv
  <1> SUFFICES ASSUME SessionInit PROVE SessionInv
    OBVIOUS
  <1>1. cred \in Creds /\ CredNamed
    <2>1. CASE cred = NoCred
      BY <2>1 DEF CredNamed, Creds, NoCred
    <2>2. CASE cred \in [user : Users, live : BOOLEAN]
      BY <2>2, UsersAssumption DEF CredNamed, Creds
    <2> QED
      BY <2>1, <2>2 DEF SessionInit
  <1>2. SessionTypeOK
    BY <1>1 DEF SessionInit, SessionTypeOK, NoMe, Mes, AtMostOne
  <1> QED
    BY <1>1, <1>2 DEF SessionInit, SessionInv, GuestUnknown, IdentityKnown, NoMe

LEMMA MeTypes ==
  ASSUME SessionTypeOK, me' \in {me, NoMe}, meFetch' \in {meFetch, {cred}}
  PROVE  me' \in Mes /\ meFetch' \in AtMostOne(Creds)
  <1>1. NoMe \in Mes
    BY DEF NoMe, Mes
  <1>2. {cred} \in AtMostOne(Creds)
    BY DEF SessionTypeOK, AtMostOne
  <1> QED
    BY <1>1, <1>2 DEF SessionTypeOK

LEMMA FetchType == SessionTypeOK => meFetch \subseteq Creds
  BY DEF SessionTypeOK, AtMostOne

\* Mounting an observer of "me", with the credential as it was.
LEMMA MeObservedKeeps ==
  ASSUME SessionInv, MeObserved, UNCHANGED <<cred, raced>>
  PROVE  /\ me' \in Mes /\ meFetch' \in AtMostOne(Creds)
         /\ GuestUnknown' /\ IdentityKnown'
  <1> USE DEF SessionInv
  <1>1. meFetch' \in {meFetch, {cred}} /\ me' \in {me, NoMe}
    BY DEF MeObserved
  <1>2. me' \in Mes /\ meFetch' \in AtMostOne(Creds)
    BY <1>1, MeTypes
  <1> QED
    BY <1>1, <1>2 DEF GuestUnknown, IdentityKnown, NoMe

LEMMA VisitKeeps == SessionInv /\ Visit => SessionInv'
  BY MeObservedKeeps DEF Visit, SessionInv, SessionTypeOK, CredNamed

LEMMA LoginKeeps == ASSUME NEW u \in Users, SessionInv, LoginSucceeds(u) PROVE SessionInv'
  <1> USE DEF SessionInv
  <1>1. cred' \in Creds /\ cred' # NoCred /\ cred'.user # NoUser
    BY UsersAssumption DEF LoginSucceeds, Creds, NoCred
  <1>2. SessionTypeOK'
    <2>1. me' \in Mes
      BY DEF LoginSucceeds, SessionTypeOK, NoMe, Mes
    <2>2. meFetch' \in AtMostOne(Creds)
      BY <1>1 DEF LoginSucceeds, SessionTypeOK, AtMostOne
    <2>3. raced' \in BOOLEAN
      BY DEF LoginSucceeds
    <2> QED
      BY <1>1, <2>1, <2>2, <2>3 DEF LoginSucceeds, SessionTypeOK
  <1>3. IdentityKnown'
    <2>1. me'.status # "success" \/ me'.invalid
      BY DEF LoginSucceeds, NoMe, SessionTypeOK, Mes
    <2>2. ~raced' => meFetch' = {cred'}
      BY DEF LoginSucceeds
    <2> QED
      BY <2>1, <2>2 DEF IdentityKnown
  <1> QED
    BY <1>1, <1>2, <1>3 DEF LoginSucceeds, CredNamed, GuestUnknown

LEMMA MeEndsKeeps ==
  ASSUME SessionInv, NEW c \in meFetch, MeAnswered(c) \/ MeFails(c)
  PROVE  SessionInv'
  <1> USE DEF SessionInv
  <1>1. c \in Creds /\ {} \in AtMostOne(Creds)
    BY FetchType DEF AtMostOne
  <1>2. CASE MeAnswered(c)
    <2>1. cred # NoCred
      BY <1>2 DEF MeAnswered, GuestUnknown, NoCred
    <2>2. SessionTypeOK'
      BY <1>1, <1>2 DEF MeAnswered, SessionTypeOK, Creds, Mes
    <2> QED
      BY <1>2, <2>1, <2>2 DEF MeAnswered, CredNamed, GuestUnknown, IdentityKnown
  <1>3. CASE MeFails(c)
    BY <1>1, <1>3 DEF MeFails, SessionTypeOK, Mes, CredNamed, GuestUnknown, IdentityKnown
  <1> QED
    BY <1>2, <1>3

LEMMA ExpiryKeeps == SessionInv /\ CredExpires => SessionInv' /\ cred # NoCred
  <1> SUFFICES ASSUME SessionInv, CredExpires PROVE SessionInv' /\ cred # NoCred
    OBVIOUS
  <1> USE DEF SessionInv
  <1>1. cred # NoCred /\ cred.user # NoUser
    BY DEF CredExpires, CredNamed, NoCred
  <1>2. cred' \in Creds /\ cred'.user = cred.user /\ cred' # NoCred
    BY <1>1 DEF CredExpires, SessionTypeOK, Creds, NoCred
  <1> QED
    BY <1>1, <1>2 DEF CredExpires, SessionTypeOK, CredNamed, GuestUnknown, IdentityKnown

\* The steps that change nothing of "me" but its cache, or only the form.
LEMMA QuietKeeps ==
  ASSUME SessionInv,
         HandleSubmit \/ LoginFails \/ GuardRejects \/ LogoutClicked \/ MeRefetch \/ MeForgotten
  PROVE  SessionInv'
  <1> USE DEF SessionInv
  <1>1. UNCHANGED <<cred, raced>>
    BY DEF HandleSubmit, LoginFails, GuardRejects, LogoutClicked, MeRefetch, MeForgotten
  <1>2. me' \in {me, NoMe} /\ meFetch' \in {meFetch, {cred}}
    BY DEF HandleSubmit, LoginFails, GuardRejects, LogoutClicked, MeRefetch, MeForgotten
  <1>3. route' \in {"login", "home"} /\ form' \in {"idle", "pending", "error"}
    BY DEF HandleSubmit, LoginFails, GuardRejects, LogoutClicked, MeRefetch, MeForgotten,
       SessionTypeOK
  <1>4. (form = "pending" => route = "login")'
    BY DEF HandleSubmit, LoginFails, GuardRejects, LogoutClicked, MeRefetch, MeForgotten,
       GuardOpen, Rejecting
  <1> QED
    BY <1>1, <1>2, <1>3, <1>4, MeTypes
       DEF SessionTypeOK, CredNamed, GuestUnknown, IdentityKnown, NoMe

--------------------------------------------------------------------------------
(* Both together *)

\* A mount that was not left has a timer or a socket, or belongs to a portal
\* that had no token to connect with and so is not signed in.
Trying(m) ==
    \/ timers[m] = 1
    \/ \E s \in socks : s.mount = m /\ s.st \in Alive
    \/ app = "portal" /\ cred = NoCred

ShellInv ==
    /\ SocketInv
    /\ SessionInv
    /\ route = "home" <=> mounted # 0
    /\ mounted # 0 /\ ~left[mounted] => Trying(mounted)

LEMMA ShellInitially == ShellInit => ShellInv
  BY SocketInitially, SessionInitially DEF ShellInit, ShellInv, SessionInit, SocketInit

\* connect leaves the mount trying.
LEMMA ConnectTries ==
  ASSUME SocketInv, NEW m \in Mounts, NEW token, Connect(m, token), UNCHANGED app,
         \A s \in socks : s.mount # m,
         token \/ cred' = NoCred
  PROVE  Trying(m)' /\ socks \subseteq socks'
  BY ConnectKeeps DEF Trying, Alive, SocketInv

LEMMA EnterStep == ShellInv /\ EntersLayout => ShellInv'
  <1> SUFFICES ASSUME ShellInv, EntersLayout PROVE ShellInv'
    OBVIOUS
  <1> USE DEF ShellInv
  <1>1. PICK m \in Mounts, token \in BOOLEAN :
          MountLayout(m, token) /\ (token \/ cred' = NoCred) /\ SessionInv' /\ route' = "home"
    <2>1. CASE Visit /\ \E m \in Mounts : MountLayout(m, HasToken)
      BY <2>1, VisitKeeps DEF Visit, HasToken
    <2>2. CASE (\E u \in Users : LoginSucceeds(u)) /\ \E m \in Mounts : MountLayout(m, TRUE)
      BY <2>2, LoginKeeps DEF LoginSucceeds
    <2> QED
      BY <2>1, <2>2 DEF EntersLayout
  <1>2. SocketInv'
    BY <1>1, MountKeeps
  <1>3. \A s \in socks : s.mount # m
    BY <1>1 DEF MountLayout, SocketInv, Fresh
  <1>4. Trying(m)' /\ mounted' = m /\ m # 0
    BY <1>1, <1>3, ConnectTries DEF MountLayout
  <1> QED
    BY <1>1, <1>2, <1>4

LEMMA LeaveStep == ShellInv /\ LeavesLayout => ShellInv'
  <1> SUFFICES ASSUME ShellInv, LeavesLayout PROVE ShellInv'
    OBVIOUS
  <1> USE DEF ShellInv
  <1>1. SocketInv' /\ SessionInv'
    BY UnmountKeeps, QuietKeeps DEF LeavesLayout, GuardLeaves, LogoutLeaves
  <1> QED
    BY <1>1 DEF LeavesLayout, GuardLeaves, LogoutLeaves, GuardRejects, LogoutClicked,
       UnmountLayout

\* The steps of the session alone.
LEMMA SessionStep ==
  ShellInv /\ (LoginPage \/ MeEnds \/ MeChanges \/ SessionExpires) => ShellInv'
  <1> SUFFICES ASSUME ShellInv, LoginPage \/ MeEnds \/ MeChanges \/ SessionExpires
               PROVE  ShellInv'
    OBVIOUS
  <1> USE DEF ShellInv
  <1>1. UNCHANGED socketVars
    BY DEF LoginPage, MeEnds, MeChanges, SessionExpires
  <1>2. SessionInv' /\ (cred' = cred \/ cred # NoCred)
    <2>1. CASE LoginPage
      BY <2>1, QuietKeeps DEF LoginPage, HandleSubmit, LoginFails
    <2>2. CASE MeEnds
      BY <2>2, MeEndsKeeps DEF MeEnds, MeAnswered, MeFails
    <2>3. CASE MeChanges
      BY <2>3, QuietKeeps DEF MeChanges, MeRefetch, MeForgotten
    <2>4. CASE SessionExpires
      BY <2>4, ExpiryKeeps DEF SessionExpires
    <2> QED
      BY <2>1, <2>2, <2>3, <2>4
  <1>3. route' = route
    BY DEF LoginPage, MeEnds, MeChanges, SessionExpires, HandleSubmit, LoginFails, MeAnswered,
       MeFails, MeRefetch, MeForgotten, CredExpires
  <1>4. SocketInv'
    BY <1>1 DEF socketVars, SocketInv, SocketTypeOK, IdsDistinct, OneChain, RefsLive, AliveNamed,
       ClosingIsLeft, Fresh, BackoffStartsOver, StatusTruthful, SocketsOf
  <1>5. mounted # 0 /\ ~left[mounted] => Trying(mounted)'
    BY <1>1, <1>2 DEF Trying, socketVars
  <1> QED
    BY <1>1, <1>2, <1>3, <1>4, <1>5 DEF socketVars

LEMMA SessionStays == SessionInv /\ UNCHANGED sessionVars => SessionInv'
  BY DEF sessionVars, SessionInv, SessionTypeOK, CredNamed, GuestUnknown, IdentityKnown

\* The steps of a socket alone.
LEMMA SocketStep ==
  ASSUME ShellInv, NEW m \in Mounts,
         SocketOpens(m) \/ SocketEnds(m) \/ TimerFires(m) \/ DisconnectCalled
  PROVE  ShellInv'
  <1> USE DEF ShellInv
  <1>1. SessionInv' /\ UNCHANGED <<route, cred>>
    BY SessionStays DEF SocketOpens, SocketEnds, TimerFires, DisconnectCalled, sessionVars
  <1>2. CASE SocketOpens(m)
    <2>1. PICK s \in socks : OnOpen(s, cred.live)
      BY <1>2 DEF SocketOpens, SocketsOf
    <2>2. SocketInv'
      BY <2>1, OpenKeeps
    <2>3. s \in Sockets
      BY DEF SocketInv, SocketTypeOK
    <2>4. \A u \in socks : u.st \in Alive => \E v \in socks' : v.mount = u.mount /\ v.st \in Alive
      <3> DEFINE t == [s EXCEPT !.st = "open"]
      <3>1. t.mount = s.mount /\ t.st \in Alive
        BY <2>3 DEF Sockets, Alive
      <3>2. socks' = (socks \ {s}) \cup {t}
        BY <2>1 DEF OnOpen, With
      <3> HIDE DEF t
      <3> QED
        BY <3>1, <3>2
    <2> QED
      BY <1>1, <2>1, <2>2, <2>4 DEF OnOpen, Trying
  <1>3. CASE SocketEnds(m)
    <2>0. PICK s \in socks : SocketCloses(s)
      BY <1>3 DEF SocketEnds, SocketsOf
    <2>1. PICK code \in CodesOf(s.st) : OnClose(s, code)
      BY <2>0 DEF SocketCloses
    <2>2. SocketInv'
      BY <2>1, CloseKeeps
    <2>3. /\ socks' = socks \ {s} /\ UNCHANGED <<app, mounted, left>>
          /\ s.mount \in Mounts /\ timers \in [Mounts -> Nat]
      BY <2>1 DEF OnClose, SocketInv, SocketTypeOK, Sockets
    <2>4. ASSUME mounted # 0, ~left[mounted] PROVE Trying(mounted)'
      <3>1. CASE s.mount = mounted
        <4>1. s.st \in Alive /\ timers[mounted] = 0
          BY <2>4, <3>1, OnlySocket DEF SocketInv, ClosingIsLeft
        <4>2. code \notin {1000, 4401}
          BY <2>1, <4>1 DEF CodesOf, Alive
        <4> QED
          BY <2>1, <2>3, <3>1, <4>1, <4>2 DEF OnClose, Trying
      <3>2. CASE s.mount # mounted
        <4>1. timers'[mounted] = timers[mounted]
          <5>1. mounted \in Mounts
            BY <2>4 DEF SocketInv, SocketTypeOK
          <5> QED
            BY <2>1, <2>3, <3>2, <5>1 DEF OnClose
        <4> QED
          BY <1>1, <2>3, <2>4, <3>2, <4>1 DEF Trying
      <3> QED
        BY <3>1, <3>2
    <2> QED
      BY <1>1, <2>2, <2>3, <2>4
  <1>4. CASE TimerFires(m)
    <2>1. Reconnect(m, HasToken)
      BY <1>4 DEF TimerFires
    <2>2. SocketInv'
      BY <2>1, ReconnectKeeps
    <2>3. \A s \in socks : s.mount # m
      BY <2>1 DEF Reconnect, SocketInv, OneChain, SocketTypeOK, SocketsOf
    <2>4. Trying(m)' /\ socks \subseteq socks'
      BY <1>1, <2>1, <2>3, ConnectTries DEF Reconnect, HasToken
    <2>5. m # mounted => timers'[mounted] = timers[mounted]
      BY <2>1 DEF Reconnect, SocketInv, SocketTypeOK
    <2> QED
      BY <1>1, <2>1, <2>2, <2>4, <2>5 DEF Reconnect, Trying
  <1>5. CASE DisconnectCalled
    <2>1. SocketInv' /\ Disconnect
      BY <1>5, DisconnectKeeps DEF DisconnectCalled
    <2>2. mounted' = mounted /\ left'[mounted]
      BY <2>1 DEF Disconnect, Leave, SocketInv, SocketTypeOK
    <2> QED
      BY <1>1, <2>1, <2>2
  <1> QED
    BY <1>2, <1>3, <1>4, <1>5

LEMMA ShellStep == ShellInv /\ [ShellNext]_shellVars => ShellInv'
  <1> SUFFICES ASSUME ShellInv, [ShellNext]_shellVars PROVE ShellInv'
    OBVIOUS
  <1>1. CASE LoginPage \/ MeEnds \/ MeChanges \/ SessionExpires
    BY <1>1, SessionStep
  <1>2. CASE EntersLayout \/ LeavesLayout
    BY <1>2, EnterStep, LeaveStep
  <1>3. CASE \E m \in Mounts : SocketOpens(m) \/ SocketEnds(m) \/ TimerFires(m)
    BY <1>3, SocketStep
  <1>4. CASE DisconnectCalled
    <2>1. mounted \in Mounts
      BY <1>4 DEF DisconnectCalled, Disconnect, ShellInv, SocketInv, SocketTypeOK
    <2> QED
      BY <1>4, <2>1, SocketStep
  <1>5. CASE UNCHANGED shellVars
    <2>1. UNCHANGED sessionVars /\ UNCHANGED socketVars
      BY <1>5 DEF shellVars
    <2>2. SessionInv'
      BY <2>1, SessionStays DEF ShellInv
    <2>3. SocketInv'
      BY <2>1 DEF ShellInv, socketVars, SocketInv, SocketTypeOK, IdsDistinct, OneChain, RefsLive,
         AliveNamed, ClosingIsLeft, Fresh, BackoffStartsOver, StatusTruthful, SocketsOf
    <2> QED
      BY <2>1, <2>2, <2>3 DEF ShellInv, Trying, sessionVars, socketVars
  <1> QED
    BY <1>1, <1>2, <1>3, <1>4, <1>5 DEF ShellNext, AdminLoginPage, PortalLoginPage, AdminLayout,
       PortalLayout, AdminSocket, PortalSocket

LEMMA ShellAlways == ShellSpec => []ShellInv
  BY ShellInitially, ShellStep, PTL DEF ShellSpec

--------------------------------------------------------------------------------
(* The theorems *)

\* Every reachable state of the tab is well typed, and Layout is mounted
\* exactly while the route is not the login page's.
THEOREM ShellTypeCorrect == ShellSpec => []ShellTypeOK
  <1>1. ShellInv => ShellTypeOK
    BY DEF ShellInv, SocketInv, SessionInv, ShellTypeOK
  <1> QED
    BY <1>1, ShellAlways, PTL

\* useCallWs keeps one chain of attempts per mount: one socket or one timer,
\* the socket named by wsRef.current, and a delay that starts over with every
\* connection, for any number of mounts and sockets.
THEOREM ChainSoundHolds == ShellSpec => []ChainSound
  <1>1. ShellInv => ChainSound
    <2> SUFFICES ASSUME ShellInv PROVE RefNamesSocket
      BY DEF ShellInv, SocketInv, ChainSound
    <2> QED
      BY DEF ShellInv, SocketInv, AliveNamed, RefNamesSocket, Alive
  <1> QED
    BY <1>1, ShellAlways, PTL

\* The status useCallWs returns is the socket's, and a banner that promises a
\* reconnect on a signed-in page has a timer behind it.
THEOREM ShownTruthfullyHolds == ShellSpec => []ShownTruthfully
  <1>1. ShellInv => ShownTruthfully
    <2> SUFFICES ASSUME ShellInv, GuardOpen, ~left[mounted],
                        WsStatusBanner(mounted) = "lost, reconnecting"
                 PROVE  timers[mounted] = 1
      BY DEF ShellInv, SocketInv, ShownTruthfully, BannerTruthful
    <2>1. mounted \in Mounts /\ mounted # 0 /\ cred # NoCred
      BY DEF ShellInv, SocketInv, SocketTypeOK, SessionInv, GuestUnknown, GuardOpen
    <2>2. status[mounted] = "disconnected"
      <3>1. status[mounted] \in Statuses
        BY <2>1 DEF ShellInv, SocketInv, SocketTypeOK
      <3> QED
        BY <3>1 DEF WsStatusBanner, Statuses
    <2>3. \A s \in socks : s.mount = mounted => s.st \notin Alive
      BY <2>1, <2>2 DEF ShellInv, SocketInv, StatusTruthful, SocketsOf, Alive
    <2> QED
      BY <2>1, <2>3 DEF ShellInv, Trying
  <1> QED
    BY <1>1, ShellAlways, PTL

\* After a login the layout shows the user who signed in, whoever was signed
\* in before, unless the login overtook a request for "me".
THEOREM IdentityShownHolds == ShellSpec => []IdentityShown
  <1>1. ShellInv => IdentityShown
    BY DEF ShellInv, SessionInv, IdentityKnown, IdentityShown, GuardOpen
  <1> QED
    BY <1>1, ShellAlways, PTL
================================================================================
