-------------------------------- MODULE PageQuery --------------------------------
(***************************************************************************)
(* A page that watches a query while requests that write are under way: one *)
(* entry of the tab's QueryClient, the server's data it is a copy of, and    *)
(* the mutations that are to refresh it.  What a pair of hooks does to the   *)
(* entry is read off the tables of ApiCache; pairs that behave alike are one *)
(* row.                                                                      *)
(***************************************************************************)
EXTENDS Pages, FiniteSets

CONSTANT MaxWrites  \* bound: writes to the watched data, others' included

ASSUME MaxWritesAssumption == MaxWrites \in Nat \ {0}

VARIABLES
    row,     \* how the watched query and the mutation relate
    server,  \* how many writes the server's data has seen
    entry,   \* the cached answer: has data, of which write, status, invalidated
    fetch,   \* the request under way for it
    writes,  \* the mutations under way
    acked,   \* the last write that a mutation was told of
    raced,   \* the answer awaited or shown was asked for before acked was known
    onPage   \* an observer of the query is mounted

pageQueryVars == <<row, server, entry, fetch, writes, acked, raced, onPage>>

--------------------------------------------------------------------------------
(* How a query and a mutation relate *)

Affects(a, v) == Endpoints[a.calls].writes \cap Endpoints[v.calls].reads # {}
Stales(a, v) == \E key \in a.stales : IsPrefix(key, v.key)

\* Writes whose mutation does not refresh the query: the list and the balance
\* stay as old as the cache lets them, up to staleTime.
Unrefreshed ==
    ({"TopUp", "Deduct"} \X {"ListTransactions"})
        \cup ({"initiate"} \X {"listCDRs", "getBalance", "listTransactions"})
        \cup ({"ToggleGateway", "CreateGateway", "UpdateGateway"} \X {"HealthCheck"})

RowOf(v, a, together) ==
    [affects |-> Affects(a, v), stales |-> Stales(a, v), polls |-> v.polls,
     retries |-> v.retries, away |-> ~together,
     excused |-> <<a.calls, v.calls>> \in Unrefreshed]

RowsOf(f) ==
    UNION {{RowOf(s.queries[q], t.mutations[a], Together(f, q, a, s = t)) :
               q \in DOMAIN s.queries, a \in DOMAIN t.mutations} : s \in f.hooks, t \in f.hooks}

Rows == {r \in RowsOf(Admin) \cup RowsOf(Portal) : r.affects \/ r.stales}

NoEntry == [has |-> FALSE, ver |-> 0, status |-> "pending", stale |-> FALSE]
NoFetch == [st |-> "none", ver |-> 0, tries |-> 0]
Slots == 1 .. 2
Writes == [slot : Slots, st : {"sent", "done"}, ver : 0 .. MaxWrites]

PageQueryTypeOK ==
    /\ row \in [affects : BOOLEAN, stales : BOOLEAN, polls : BOOLEAN, retries : 0 .. 1,
                away : BOOLEAN, excused : BOOLEAN]
    /\ server \in 0 .. MaxWrites
    /\ entry \in [has : BOOLEAN, ver : 0 .. MaxWrites,
                  status : {"pending", "success", "error"}, stale : BOOLEAN]
    /\ fetch \in [st : {"none", "sent", "read"}, ver : 0 .. MaxWrites, tries : 0 .. 1]
    /\ writes \subseteq Writes
    /\ acked \in 0 .. MaxWrites
    /\ raced \in BOOLEAN /\ onPage \in BOOLEAN

PageQueryInit(rows) ==
    /\ row \in rows
    /\ server = 0
    /\ entry = NoEntry
    /\ fetch = NoFetch
    /\ writes = {}
    /\ acked = 0
    /\ raced = FALSE
    /\ onPage = FALSE

--------------------------------------------------------------------------------
(* The entry.  A mount shares the request under way; refetching after an      *)
(* invalidation cancels it, but only where there is data to show meanwhile.  *)

Fetching == fetch.st # "none"

StartFetch ==
    /\ fetch' = [st |-> "sent", ver |-> 0, tries |-> row.retries]
    /\ entry' = IF entry.has THEN entry ELSE [entry EXCEPT !.status = "pending"]
    /\ raced' = FALSE

OpenPage ==
    /\ ~onPage
    /\ onPage' = TRUE
    /\ \/ ~Fetching /\ (~entry.has \/ entry.stale) /\ StartFetch
       \/ /\ Fetching \/ (entry.has /\ ~entry.stale)
          /\ UNCHANGED <<entry, fetch, raced>>
    /\ UNCHANGED <<row, server, writes, acked>>

\* The request goes on without the page.
ClosePage ==
    /\ onPage
    /\ onPage' = FALSE
    /\ UNCHANGED <<row, server, entry, fetch, writes, acked, raced>>

\* The browser is online again.
Refetch ==
    /\ onPage
    /\ ~Fetching
    /\ ~entry.has \/ entry.stale
    /\ StartFetch
    /\ UNCHANGED <<row, server, writes, acked, onPage>>

\* Mutant: the interval is over once there is something to show.
PollUntilShown ==
    /\ row.polls /\ onPage /\ ~Fetching /\ ~entry.has
    /\ StartFetch
    /\ UNCHANGED <<row, server, writes, acked, onPage>>

\* refetchInterval of an observed query, after answers and errors alike.
Poll ==
    /\ row.polls /\ onPage /\ ~Fetching
    /\ StartFetch
    /\ UNCHANGED <<row, server, writes, acked, onPage>>

FetchReads ==
    /\ fetch.st = "sent"
    /\ fetch' = [fetch EXCEPT !.st = "read", !.ver = server]
    /\ UNCHANGED <<row, server, entry, writes, acked, raced, onPage>>

FetchAnswered ==
    /\ fetch.st = "read"
    /\ entry' = [has |-> TRUE, ver |-> fetch.ver, status |-> "success", stale |-> FALSE]
    /\ fetch' = NoFetch
    /\ UNCHANGED <<row, server, writes, acked, raced, onPage>>

\* retry: once, and only while somebody is watching.  The data is kept.
FetchFails ==
    /\ Fetching
    /\ \/ /\ fetch.tries > 0 /\ onPage
          /\ fetch' = [st |-> "sent", ver |-> 0, tries |-> fetch.tries - 1]
          /\ UNCHANGED entry
       \/ /\ fetch.tries = 0 \/ ~onPage
          /\ fetch' = NoFetch
          /\ entry' = [entry EXCEPT !.status = "error", !.stale = TRUE]
    /\ UNCHANGED <<row, server, writes, acked, raced, onPage>>

\* staleTime passes.
Ages ==
    /\ entry.has /\ ~entry.stale
    /\ entry' = [entry EXCEPT !.stale = TRUE]
    /\ UNCHANGED <<row, server, fetch, writes, acked, raced, onPage>>

\* gcTime passes.
Forgotten ==
    /\ ~onPage /\ ~Fetching /\ entry # NoEntry
    /\ entry' = NoEntry
    /\ raced' = FALSE
    /\ UNCHANGED <<row, server, fetch, writes, acked, onPage>>

--------------------------------------------------------------------------------
(* A mutation: mutate, the server's commit, and the answer *)

Room == server + Cardinality({w \in writes : w.st = "sent"}) < MaxWrites

Mutate ==
    /\ onPage = ~row.away
    /\ Room
    /\ \E slot \in Slots :
          /\ \A w \in writes : w.slot # slot
          /\ \A s \in Slots : s < slot => \E w \in writes : w.slot = s
          /\ writes' = writes \cup {[slot |-> slot, st |-> "sent", ver |-> 0]}
    /\ UNCHANGED <<row, server, entry, fetch, acked, raced, onPage>>

Commits(w) ==
    /\ w.st = "sent"
    /\ server' = IF row.affects THEN server + 1 ELSE server
    /\ writes' = (writes \ {w}) \cup {[w EXCEPT !.st = "done", !.ver = server']}
    /\ UNCHANGED <<row, entry, fetch, acked, raced, onPage>>

\* Somebody else writes.
OthersWrite ==
    /\ Room
    /\ server' = server + 1
    /\ UNCHANGED <<row, entry, fetch, writes, acked, raced, onPage>>

\* invalidateQueries, on the keys the mutation names.
Invalidate ==
    \/ ~row.stales /\ UNCHANGED <<entry, fetch, raced>>
    \/ /\ row.stales /\ onPage
       /\ \/ /\ entry.has \/ ~Fetching
             /\ fetch' = [st |-> "sent", ver |-> 0, tries |-> row.retries]
             /\ entry' = IF entry.has THEN [entry EXCEPT !.stale = TRUE]
                         ELSE [entry EXCEPT !.status = "pending"]
             /\ raced' = FALSE
          \/ ~entry.has /\ Fetching /\ raced' = TRUE /\ UNCHANGED <<entry, fetch>>
    \/ /\ row.stales /\ ~onPage
       /\ entry' = [entry EXCEPT !.stale = @ \/ entry.has]
       /\ raced' = (raced \/ Fetching)
       /\ UNCHANGED fetch

\* onSuccess belongs to the hook: it runs after the page is left, too.
MutationSucceeds(w) ==
    /\ w.st = "done"
    /\ writes' = writes \ {w}
    /\ acked' = IF row.affects /\ w.ver > acked THEN w.ver ELSE acked
    /\ Invalidate
    /\ UNCHANGED <<row, server, onPage>>

\* The server refuses, or the answer to a write that was made is lost.
MutationFails(w) ==
    /\ writes' = writes \ {w}
    /\ UNCHANGED <<row, server, entry, fetch, acked, raced, onPage>>

PageQueryNext ==
    \/ OpenPage \/ ClosePage \/ Refetch \/ Poll
    \/ FetchReads \/ FetchAnswered \/ FetchFails
    \/ Ages \/ Forgotten \/ OthersWrite \/ Mutate
    \/ \E w \in writes : Commits(w) \/ MutationSucceeds(w) \/ MutationFails(w)

\* Requests are carried out, intervals elapse, and answers get through now and
\* then.
PageQueryFairness ==
    /\ SF_pageQueryVars(FetchReads)
    /\ SF_pageQueryVars(FetchAnswered)
    /\ WF_pageQueryVars(Poll)

--------------------------------------------------------------------------------
(* Properties *)

\* An acknowledged write is shown: once the page is idle, the list it shows
\* has every write whose mutation was acknowledged, wherever the page was
\* when the answer came.  Left out are the pairs of Unrefreshed, and an answer
\* the write overtook: an invalidation does not cancel the request under way
\* of a query that is not observed, or that has no data yet.
AckedIsShown ==
    onPage /\ ~Fetching /\ entry.status = "success" /\ ~raced /\ ~row.excused
        => entry.ver >= acked

\* A page that polls catches up with the server, however often a request fails.
PolledCatchesUp ==
    <>[](row.polls /\ onPage) => []<>(entry.ver = server)
================================================================================
