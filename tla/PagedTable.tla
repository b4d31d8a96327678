-------------------------------- MODULE PagedTable --------------------------------
(***************************************************************************)
(* The admin's tables: DataTable turns pages and changes the page size, the  *)
(* page's toolbar filters, and every combination the request carries is a    *)
(* query of its own, whose answers come in any order.  The tables that hold  *)
(* all their rows in the browser use the same component.                     *)
(***************************************************************************)
EXTENDS Integers, FiniteSets, FiniteSetsExt

CONSTANTS
    Ten, Twenty, Fifty, Hundred,  \* the page sizes the select offers
    MaxRows,    \* bound: rows a table has
    MaxAnswers  \* bound: requests under way and answers kept, together

Sizes == {Ten, Twenty, Fifty, Hundred}

ASSUME SizesAssumption == Sizes \subseteq Nat \ {0}
ASSUME MaxRowsAssumption == MaxRows \in Nat
ASSUME MaxAnswersAssumption == MaxAnswers \in Nat \ {0}

VARIABLES
    table,     \* which table this is
    rowCount,  \* rowCount[f]: the rows that match, without and with a filter that is heard
    pg,        \* pageIndex, pageSize, and the kinds of filters that are set
    asked,     \* requests under way, by their parameters
    answers,   \* the cache: what was sent, by the key it is kept under
    strayed    \* a filter was changed on a later page, and no page turned since

tableVars == <<table, rowCount, pg, asked, answers, strayed>>

--------------------------------------------------------------------------------
(* The toolbars, what the request of the page takes from them, and what the    *)
(* handler behind it reads of the request.  A filter that is not sent changes  *)
(* nothing but its own control; one that is sent under a name the handler does *)
(* not read makes another request for the same rows.                           *)

CustomerTable == {"search"}
CdrFiltersBar == {"startDate", "endDate", "customer", "status", "gateway", "search"}
DidTable == {"assignFilter", "customerFilter"}

Kinds == {"heard", "unheard"}
FilterKinds(toolbar, sends, reads) ==
    {k \in Kinds : toolbar \cap sends \cap (IF k = "heard" THEN reads ELSE sends \ reads) # {}}

\* perPage[n]: the rows the handler puts on a page when n are asked for
Asked == [n \in Sizes |-> n]
Always(m) == [n \in Sizes |-> m]

\* Rows come page by page from the server, all at once from it, or are held here.
Remote(filters, first, perPage) ==
    [local |-> FALSE, paged |-> TRUE, filters |-> filters, first |-> first, perPage |-> perPage]
Whole(first) ==
    [local |-> FALSE, paged |-> FALSE, filters |-> {}, first |-> first, perPage |-> Asked]
Local(filters, first) ==
    [local |-> TRUE, paged |-> FALSE, filters |-> filters, first |-> first, perPage |-> Asked]

Customers == Remote(FilterKinds(CustomerTable, {"search"}, {"search"}), Ten, Asked)
\* The dates go out as date_from and date_to; start_time and end_time are read.
CDR == Remote(FilterKinds(CdrFiltersBar, {"startDate", "endDate", "status"}, {"status"}),
              Twenty, Asked)
\* ListDIDs has its own page size, QueryAuditLogs does not read "limit", and
\* ListBlacklist sends every entry, whatever page is asked for.
DID == Remote(FilterKinds(DidTable, {}, {}), Ten, Always(Fifty))
AuditLogTable == Remote({}, Ten, Always(Twenty))
BlacklistTable == Whole(Ten)
GatewayTable == Local({}, Ten)
RatePlans == Local({}, Ten)
LiveCalls == Local({}, Twenty)
TransactionTable == Local({"heard"}, Ten)

Tables == {Customers, CDR, DID, BlacklistTable, AuditLogTable, GatewayTable, RatePlans,
           LiveCalls, TransactionTable}

--------------------------------------------------------------------------------

Params == [index : 0 .. MaxRows, size : Sizes, filter : SUBSET Kinds]
First(t) == [index |-> 0, size |-> t.first, filter |-> {}]
Heard(p) == "heard" \in p.filter

\* Mutant: the key of a list query has the filters, not the page.
KeyWithoutPage(p) == [p EXCEPT !.index = 0]

\* queryKey: every parameter of the request is in it.
Key(p) == p

Loaded == table.local \/ \E a \in answers : a.key = Key(pg)
\* totalCount, 0 while there is no answer for the parameters; the blacklist page
\* counts the entries it was sent.
TotalOf(p) ==
    IF table.local THEN rowCount[Heard(p)]
    ELSE IF \E a \in answers : a.key = Key(p)
    THEN rowCount[Heard((CHOOSE a \in answers : a.key = Key(p)).sent)]
    ELSE 0
PageCount(p) == (TotalOf(p) + p.size - 1) \div p.size

\* LIMIT and OFFSET of the handler: the numbers of the rows an answer holds.  A
\* table that has all its rows shows them on every page.
RowsAt(p) ==
    LET s == table.perPage[p.size]
    IN  {k \in 1 .. rowCount[Heard(p)] : table.paged => p.index * s < k /\ k <= (p.index + 1) * s}

TableTypeOK ==
    /\ table \in Tables
    /\ rowCount \in [BOOLEAN -> 0 .. MaxRows]
    /\ pg \in Params
    /\ asked \subseteq Params
    /\ answers \subseteq [key : Params, sent : Params]
    /\ strayed \in BOOLEAN

\* A filter leaves at most the rows there are without it.
RowCounts == {n \in [BOOLEAN -> 0 .. MaxRows] : n[TRUE] <= n[FALSE]}

TableInit(tables, rowCounts) ==
    /\ table \in tables
    /\ rowCount \in rowCounts
    /\ pg = First(table)
    /\ asked = (IF table.local THEN {} ELSE {First(table)})
    /\ answers = {}
    /\ strayed = FALSE

\* A render with other parameters observes another query; it fetches unless the
\* cache has the answer or the request is under way.
Show(p) ==
    /\ pg' = p
    /\ \/ /\ ~table.local
          /\ \A a \in answers : a.key # Key(p)
          /\ \A q \in asked : Key(q) # Key(p)
          /\ Cardinality(asked) + Cardinality(answers) < MaxAnswers
          /\ asked' = asked \cup {p}
       \/ /\ table.local \/ (\E a \in answers : a.key = Key(p)) \/ (\E q \in asked : Key(q) = Key(p))
          /\ UNCHANGED asked

\* setPageIndex keeps the index below the page count, and at 0 or more.
Clamp(i) == Max({0, Min({i, PageCount(pg) - 1})})

NextPage ==
    /\ pg.index < PageCount(pg) - 1
    /\ Show([pg EXCEPT !.index = Clamp(pg.index + 1)])
    /\ strayed' = FALSE
    /\ UNCHANGED <<table, rowCount, answers>>

PreviousPage ==
    /\ pg.index > 0
    /\ Show([pg EXCEPT !.index = Clamp(pg.index - 1)])
    /\ strayed' = FALSE
    /\ UNCHANGED <<table, rowCount, answers>>

ChangeSize(n) ==
    /\ n # pg.size
    /\ Show([pg EXCEPT !.index = 0, !.size = n])
    /\ strayed' = FALSE
    /\ UNCHANGED <<table, rowCount, answers>>

\* setFilters, setSearch and the like leave the pagination alone.
ChangeFilter(k) ==
    /\ k \in table.filters
    /\ Show([pg EXCEPT !.filter = SymDiff(@, {k})])
    /\ strayed' = (strayed \/ (k = "heard" /\ pg.index > 0))
    /\ UNCHANGED <<table, rowCount, answers>>

\* The answer is kept under the key of its request, whatever is shown by now.
PageAnswered(p) ==
    /\ asked' = asked \ {p}
    /\ answers' = answers \cup {[key |-> Key(p), sent |-> p]}
    /\ UNCHANGED <<table, rowCount, pg, strayed>>

\* The cache drops an answer nobody has looked at for a while.
AnswerForgotten(a) ==
    /\ a.key # Key(pg)
    /\ answers' = answers \ {a}
    /\ UNCHANGED <<table, rowCount, pg, asked, strayed>>

\* The user turns pages.
TurnPage == NextPage \/ PreviousPage \/ \E n \in Sizes : ChangeSize(n)

TableNext ==
    \/ TurnPage
    \/ \E k \in Kinds : ChangeFilter(k)
    \/ \E p \in asked : PageAnswered(p)
    \/ \E a \in answers : AnswerForgotten(a)

--------------------------------------------------------------------------------
(* Properties *)

\* The rows on the screen are the rows the pagination and the filters ask for,
\* in whatever order the answers to quick page turns come.
RowsMatchParams == \A a \in answers : a.key = Key(pg) => a.sent = pg

\* A page that was turned to is not an empty one behind the last, as long as
\* any row matches.  Only a filter that is changed on a later page can leave it
\* empty, and then the button for the page before leads to one that has rows.
\* Where the handler's page is longer than the one asked for (DIDs below 50
\* rows, audit logs below 20) the pages at the end are empty.
PageHasRows ==
    Loaded /\ TotalOf(pg) > 0 /\ table.perPage[pg.size] <= pg.size =>
        /\ ~strayed => RowsAt(pg) # {}
        /\ RowsAt([pg EXCEPT !.index = Clamp(pg.index - 1)]) # {}

\* Every row that matches is on one of the pages the pager offers.  Where the
\* handler's page is shorter than the one asked for (DIDs above 50 rows, audit
\* logs above 20) the rows at the end are on none.
EveryRowListed ==
    Loaded /\ table.perPage[pg.size] >= pg.size =>
        \A k \in 1 .. TotalOf(pg) :
            \E i \in 0 .. PageCount(pg) - 1 : k \in RowsAt([pg EXCEPT !.index = i])

\* A table shows what it was asked for, there is something to show, and all of
\* it can be shown.
TableSound == RowsMatchParams /\ PageHasRows /\ EveryRowListed
================================================================================
