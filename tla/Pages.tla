---------------------------------- MODULE Pages ----------------------------------
(***************************************************************************)
(* The pages of the two front ends, by the hooks of hooks.ts they use: the   *)
(* queries a page observes while it is mounted, and the mutations it can     *)
(* make.  Pages that show constants use none.  Layout is mounted around      *)
(* every page.                                                               *)
(***************************************************************************)
EXTENDS ApiCache

Page(observes, acts) == [observes |-> observes, acts |-> acts]
Observes(queries) == Page(queries, {})

AdminDashboardPage == Observes({"useDashboardOverview", "useDashboardTrends"})
CustomersPage ==
    Page({"useCustomers"}, {"useCreateCustomer", "useTopUpCustomer", "useDeductCustomer",
                            "useFreezeUser", "useUnfreezeUser"})
GatewaysPage == Page({"useGateways"}, {"useToggleGateway"})
\* Both tabs: the records stay observed while the live calls are shown, and
\* only those can be hung up.
CdrPage == Page({"useCDRs"}, {"useHangupCall"})
\* An edited plan goes through useCreateRatePlan as well.
FinancePage == Page({"useRatePlans"}, {"useCreateRatePlan"})
DidPage == Page({"useDIDs"}, {"useImportDIDs"})
\* The tabs of the compliance page: one is mounted at a time.
BlacklistPage == Page({"useBlacklist"}, {"useAddBlacklist", "useRemoveBlacklist"})
AuditLogPage == Observes({"useAuditLogs"})

WastageSummary == {"useWastageSummary"}
WastageTrend == {"useWastageTrend"}
FailureDistribution == {"useWastageDistribution"}
CustomerRanking == {"useWastageRanking"}
WastagePage == Observes(WastageSummary \cup WastageTrend \cup FailureDistribution \cup CustomerRanking)

PortalDashboardPage == Observes({"useUsageSummary"})

Admin == [layout |-> {"useAuth"}, hooks |-> AdminHooks,
          pages |-> {AdminDashboardPage, CustomersPage, GatewaysPage, CdrPage, FinancePage,
                     DidPage, BlacklistPage, AuditLogPage, WastagePage}]
\* The portal's other pages are placeholders.
Portal == [layout |-> {"useAuth"}, hooks |-> PortalHooks, pages |-> {PortalDashboardPage}]

Placed(h, pages) == \E p \in pages : h \in p.observes \cup p.acts

\* The query is observed where the mutation is made.  Hooks no page uses yet
\* are taken to belong to the page their section of hooks.ts is written for.
Together(f, q, a, sameSection) ==
    \/ q \in f.layout
    \/ \E p \in f.pages : q \in p.observes /\ a \in p.acts
    \/ sameSection /\ ~(Placed(q, f.pages) /\ Placed(a, f.pages))
================================================================================
