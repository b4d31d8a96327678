-------------------------------- MODULE Session --------------------------------
(***************************************************************************)
(* Signing in: LoginPage, useLogin, useAuth and the AuthGuard of Layout, of *)
(* either front end.  The identity the guard and the layout show is what    *)
(* the query cache holds for "me"; the credential the requests carry is a   *)
(* cookie (admin) or a token in localStorage (portal).                      *)
(***************************************************************************)
EXTENDS Integers

CONSTANTS Users, NoUser

ASSUME UsersAssumption == NoUser \notin Users

VARIABLES
    route,   \* "login", or "home" for every page under Layout
    cred,    \* the credential the browser holds, and if the server takes it
    me,      \* the cached answer of useAuth: data, status, isInvalidated
    meFetch, \* the request for it that is under way, by the credential it
             \* was sent with
    form,    \* the login form
    raced    \* the last login found a request for "me" still under way

sessionVars == <<route, cred, me, meFetch, form, raced>>

Creds == [user : Users \cup {NoUser}, live : BOOLEAN]
NoCred == [user |-> NoUser, live |-> FALSE]
Mes == [user : Users \cup {NoUser}, status : {"pending", "success", "error"}, invalid : BOOLEAN]
NoMe == [user |-> NoUser, status |-> "pending", invalid |-> FALSE]
AtMostOne(S) == {{}} \cup {{x} : x \in S}

SessionTypeOK ==
    /\ route \in {"login", "home"}
    /\ cred \in Creds
    /\ me \in Mes
    /\ meFetch \in AtMostOne(Creds)
    /\ form \in {"idle", "pending", "error"}
    /\ raced \in BOOLEAN

\* A tab is opened on a page, with whatever credential earlier visits left.
SessionInit ==
    /\ route = "login"
    /\ cred \in {NoCred} \cup [user : Users, live : BOOLEAN]
    /\ me = NoMe
    /\ meFetch = {}
    /\ form = "idle"
    /\ raced = FALSE

HasToken == cred # NoCred

Skeleton == route = "home" /\ me.status = "pending"
GuardOpen == route = "home" /\ me.status = "success"
\* The guard has rendered an error; its effect runs before the next answer.
Rejecting == route = "home" /\ me.status = "error"

--------------------------------------------------------------------------------
(* The query "me".  retry is off; a mount fetches unless the cache holds a   *)
(* fresh answer; a request under way is shared; an error keeps the data.     *)

\* What mounting an observer does to the query, by the query library.
MeObserved ==
    \/ /\ \/ me.status # "success"
          \/ me.invalid
       /\ meFetch' = IF meFetch = {} THEN {cred} ELSE meFetch
       /\ me' = IF me.user = NoUser THEN NoMe ELSE me
    \/ /\ me.status = "success"
       /\ ~me.invalid
       /\ \/ UNCHANGED <<me, meFetch>>
          \* staleTime has passed
          \/ /\ meFetch' = IF meFetch = {} THEN {cred} ELSE meFetch
             /\ UNCHANGED me

\* The browser is online again: active queries whose answer is stale fetch.
MeRefetch ==
    /\ ~Rejecting
    /\ GuardOpen
    /\ meFetch = {}
    /\ meFetch' = {cred}
    /\ UNCHANGED <<route, cred, me, form, raced>>

MeAnswered(c) ==
    /\ ~Rejecting
    /\ c \in meFetch
    /\ c.live
    /\ meFetch' = {}
    /\ me' = [user |-> c.user, status |-> "success", invalid |-> FALSE]
    /\ UNCHANGED <<route, cred, form, raced>>

\* Mutant: a failed request leaves no trace.
MeFailsSilently(c) ==
    /\ ~Rejecting
    /\ c \in meFetch
    /\ meFetch' = {}
    /\ UNCHANGED <<route, cred, me, form, raced>>

\* 401, or no answer at all.
MeFails(c) ==
    /\ ~Rejecting
    /\ c \in meFetch
    /\ meFetch' = {}
    /\ me' = [me EXCEPT !.status = "error", !.invalid = TRUE]
    /\ UNCHANGED <<route, cred, form, raced>>

\* No page has watched the query for five minutes: the cache drops it.
MeForgotten ==
    /\ route = "login"
    /\ meFetch = {}
    /\ me # NoMe
    /\ me' = NoMe
    /\ UNCHANGED <<route, cred, meFetch, form, raced>>

--------------------------------------------------------------------------------
(* AuthGuard *)

\* isError: navigate('/login').
GuardRejects ==
    /\ Rejecting
    /\ route' = "login"
    /\ form' = "idle"
    /\ UNCHANGED <<cred, me, meFetch, raced>>

\* The page is opened by its address.
Visit ==
    /\ route = "login"
    /\ form # "pending"
    /\ route' = "home"
    /\ form' = "idle"
    /\ MeObserved
    /\ UNCHANGED <<cred, raced>>

\* The menu item that says it logs out only navigates.
LogoutClicked ==
    /\ GuardOpen
    /\ route' = "login"
    /\ form' = "idle"
    /\ UNCHANGED <<cred, me, meFetch, raced>>

--------------------------------------------------------------------------------
(* LoginPage *)

HandleSubmit ==
    /\ route = "login"
    /\ form # "pending"
    /\ form' = "pending"
    /\ UNCHANGED <<route, cred, me, meFetch, raced>>

\* Mutant: useLogin forgets the cached identity.
LoginSucceedsQuietly(u) ==
    /\ form = "pending"
    /\ cred' = [user |-> u, live |-> TRUE]
    /\ raced' = (meFetch # {})
    /\ route' = "home"
    /\ form' = "idle"
    /\ MeObserved

\* The answer stores the credential, onSuccess marks ['auth', 'me'] stale (no
\* observer is mounted, so nothing is fetched yet), and the page navigates to
\* '/', where Layout's observer fetches it.
LoginSucceeds(u) ==
    /\ form = "pending"
    /\ cred' = [user |-> u, live |-> TRUE]
    /\ raced' = (meFetch # {})
    /\ me' = IF me.user = NoUser THEN NoMe ELSE [me EXCEPT !.invalid = TRUE]
    /\ meFetch' = IF meFetch = {} THEN {cred'} ELSE meFetch
    /\ route' = "home"
    /\ form' = "idle"

LoginFails ==
    /\ form = "pending"
    /\ form' = "error"
    /\ UNCHANGED <<route, cred, me, meFetch, raced>>

\* The JWT's time is over.
CredExpires ==
    /\ cred.live
    /\ cred' = [cred EXCEPT !.live = FALSE]
    /\ UNCHANGED <<route, me, meFetch, form, raced>>
================================================================================
