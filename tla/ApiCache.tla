-------------------------------- MODULE ApiCache --------------------------------
(***************************************************************************)
(* The data layer of the two front ends: client.ts says which endpoint a     *)
(* method calls, hooks.ts which key a query is cached under, and which keys  *)
(* a mutation invalidates once it is acknowledged.                           *)
(***************************************************************************)
EXTENDS Integers, SequencesExt

\* What an endpoint reads and writes in the databases behind it.  {} is an
\* answer that is made up in the browser.
Get(data) == [reads |-> data, writes |-> {}]
Post(data) == [reads |-> {}, writes |-> data]
Mock == Get({})

--------------------------------------------------------------------------------
(* client.ts of the admin *)

AdminAuthService ==
    [Me |-> Get({"me"}), ListUsers |-> Get({"users"}), GetUser |-> Get({"users"}),
     CreateUser |-> Post({"users"}), FreezeUser |-> Post({"users"}),
     UnfreezeUser |-> Post({"users"}),
     \* user_id is not sent: the caller gets a new key, not the customer
     RegenerateApiKey |-> Post({"apiKeys"})]

\* The balance of ListUsers is a column of users, which TopUp does not write.
AdminBillingService ==
    [GetOverview |-> Mock, TopUp |-> Post({"accounts", "transactions"}),
     Deduct |-> Post({"accounts", "transactions"}),
     ListTransactions |-> Get({"transactions"}), ListRatePlans |-> Get({"ratePlans"}),
     CreateRatePlan |-> Post({"ratePlans"})]

AdminRoutingService ==
    [ListGateways |-> Get({"gateways"}), ToggleGateway |-> Post({"gateways"}),
     ListDIDs |-> Get({"dids"}), ImportDIDs |-> Post({"dids"}),
     HealthCheck |-> Get({"gateways"}), CreateGateway |-> Post({"gateways"}),
     UpdateGateway |-> Post({"gateways"}), TestOriginate |-> Mock]

\* A hangup is only asked for: the row changes later, when the events come.
AdminCallbackService ==
    [ListCDRs |-> Get({"calls"}), ListActiveCalls |-> Get({"calls"}), HangupCall |-> Post({})]

AdminComplianceService ==
    [ListBlacklist |-> Get({"blacklist"}), AddBlacklist |-> Post({"blacklist"}),
     RemoveBlacklist |-> Post({"blacklist"}), ListAuditLogs |-> Get({"auditLogs"})]

(* client.ts of the portal, whose methods begin with a small letter *)

PortalAuthService ==
    [me |-> Get({"me"}), updateProfile |-> Post({"me"}), changePassword |-> Post({}),
     regenerateApiKey |-> Post({"apiKeys"}), addIp |-> Mock, removeIp |-> Mock]

PortalCallbackService ==
    [initiate |-> Post({"calls", "accounts", "transactions"}), listCDRs |-> Get({"calls"}),
     listActiveCalls |-> Get({"calls"}), hangupCall |-> Post({})]

PortalBillingService ==
    [getBalance |-> Get({"accounts"}), listTransactions |-> Get({"transactions"}),
     getUsageSummary |-> Mock, queryRate |-> Mock]

PortalWebhookService ==
    [getConfig |-> Mock, saveConfig |-> Post({"webhookConfig"}), test |-> Mock,
     listDeliveries |-> Get({"deliveries"})]

Services ==
    {AdminAuthService, AdminBillingService, AdminRoutingService, AdminCallbackService,
     AdminComplianceService, PortalAuthService, PortalCallbackService, PortalBillingService,
     PortalWebhookService, [mock |-> Mock]}

\* A method is one service's.
Endpoints == [method \in UNION {DOMAIN s : s \in Services} |->
                 (CHOOSE s \in Services : method \in DOMAIN s)[method]]

--------------------------------------------------------------------------------
(* hooks.ts.  Params in a key are one more element; retry is 1 by default.   *)

Query(key, calls) == [key |-> key, calls |-> calls, polls |-> FALSE, retries |-> 1]
Polled(key, calls) == [Query(key, calls) EXCEPT !.polls = TRUE]
Once(key, calls) == [Query(key, calls) EXCEPT !.retries = 0]
Mutation(calls, keys) == [calls |-> calls, stales |-> keys]
None == <<>>

AdminDashboard ==
    [queries |-> [useAuth |-> Once(<<"auth", "me">>, "Me"),
                  useDashboardOverview |-> Polled(<<"dashboard", "overview">>, "GetOverview"),
                  useDashboardTrends |-> Query(<<"dashboard", "trends">>, "mock")],
     mutations |-> None]

\* Mutant: a mutation names the key of one customer where the list is meant.
AdminCustomersMistyped ==
    [queries |-> [useCustomers |-> Query(<<"customers", "params">>, "ListUsers"),
                  useCustomer |-> Query(<<"customers", "userId">>, "GetUser")],
     mutations |-> [useFreezeUser |-> Mutation("FreezeUser", {<<"customer">>})]]

AdminCustomers ==
    [queries |-> [useCustomers |-> Query(<<"customers", "params">>, "ListUsers"),
                  useCustomer |-> Query(<<"customers", "userId">>, "GetUser")],
     mutations |->
        [useTopUpCustomer |-> Mutation("TopUp", {<<"customers">>}),
         useDeductCustomer |-> Mutation("Deduct", {<<"customers">>}),
         useFreezeUser |-> Mutation("FreezeUser", {<<"customers">>}),
         useUnfreezeUser |-> Mutation("UnfreezeUser", {<<"customers">>}),
         useCreateCustomer |-> Mutation("CreateUser", {<<"customers">>}),
         useRegenerateApiKey |-> Mutation("RegenerateApiKey", {<<"customers", "userId">>})]]

AdminGateways ==
    [queries |-> [useGateways |-> Query(<<"gateways">>, "ListGateways")],
     mutations |->
        [useToggleGateway |-> Mutation("ToggleGateway", {<<"gateways">>}),
         useCreateGateway |-> Mutation("CreateGateway", {<<"gateways">>}),
         useUpdateGateway |-> Mutation("UpdateGateway", {<<"gateways">>}),
         useTestOriginate |-> Mutation("TestOriginate", {})]]

AdminCdr ==
    [queries |-> [useCDRs |-> Query(<<"cdr", "params">>, "ListCDRs"),
                  useActiveCalls |-> Query(<<"admin", "active-calls">>, "ListActiveCalls")],
     mutations |-> [useHangupCall |-> Mutation("HangupCall", {<<"admin", "active-calls">>, <<"cdr">>})]]

AdminFinance ==
    [queries |->
        [useTransactions |-> Query(<<"transactions", "params">>, "ListTransactions"),
         useRatePlans |-> Query(<<"rate-plans">>, "ListRatePlans"),
         useProfitByCustomer |-> Query(<<"profit", "by-customer", "period">>, "mock"),
         useProfitByGateway |-> Query(<<"profit", "by-gateway", "period">>, "mock")],
     mutations |->
        [useCreateRatePlan |-> Mutation("CreateRatePlan", {<<"rate-plans">>}),
         \* an edited plan is created once more
         useUpdateRatePlan |-> Mutation("CreateRatePlan", {<<"rate-plans">>})]]

AdminDids ==
    [queries |-> [useDIDs |-> Query(<<"dids", "params">>, "ListDIDs")],
     mutations |-> [useImportDIDs |-> Mutation("ImportDIDs", {<<"dids">>})]]

AdminCompliance ==
    [queries |-> [useBlacklist |-> Query(<<"blacklist", "params">>, "ListBlacklist"),
                  useAuditLogs |-> Query(<<"audit-logs", "params">>, "ListAuditLogs")],
     mutations |-> [useAddBlacklist |-> Mutation("AddBlacklist", {<<"blacklist">>}),
                    useRemoveBlacklist |-> Mutation("RemoveBlacklist", {<<"blacklist">>})]]

AdminWastage ==
    [queries |-> [useWastageSummary |-> Query(<<"wastage", "summary">>, "mock"),
                  useWastageTrend |-> Query(<<"wastage", "trend", "period">>, "mock"),
                  useWastageRanking |-> Query(<<"wastage", "ranking">>, "mock"),
                  useWastageDistribution |-> Query(<<"wastage", "distribution">>, "mock")],
     mutations |-> None]

AdminOps ==
    [queries |-> [useHealthCheck |-> Polled(<<"health">>, "HealthCheck"),
                  useFSStatus |-> Polled(<<"ops", "fs-status">>, "mock"),
                  useSystemHealth |-> Polled(<<"ops", "system-health">>, "mock"),
                  useSystemConfigs |-> Query(<<"settings", "configs">>, "mock")],
     mutations |-> [useUpdateConfig |-> Mutation("mock", {<<"settings", "configs">>})]]

PortalDashboard ==
    [queries |-> [useAuth |-> Once(<<"portal", "auth", "me">>, "me"),
                  useUsageSummary |-> Polled(<<"portal", "usage-summary">>, "getUsageSummary"),
                  useBalance |-> Polled(<<"portal", "balance">>, "getBalance"),
                  useDashboardTrends |-> Query(<<"portal", "dashboard", "trends">>, "mock")],
     mutations |-> None]

PortalCallback ==
    [queries |-> [useActiveCalls |-> Polled(<<"portal", "active-calls">>, "listActiveCalls")],
     mutations |->
        [useInitiateCallback |-> Mutation("initiate", {<<"portal", "active-calls">>}),
         useHangupCall |-> Mutation("hangupCall", {<<"portal", "active-calls">>, <<"portal", "cdr">>})]]

PortalCdr ==
    [queries |-> [useRecentCallbacks |-> Query(<<"portal", "cdr", "recent", "params">>, "listCDRs"),
                  useCDRs |-> Query(<<"portal", "cdr", "params">>, "listCDRs"),
                  useCDRList |-> Query(<<"portal", "cdr", "list", "params">>, "listCDRs")],
     mutations |-> None]

PortalFinance ==
    [queries |-> [useTransactions |-> Query(<<"portal", "transactions", "params">>, "listTransactions")],
     mutations |-> None]

PortalWastage ==
    [queries |-> [useWastageSummary |-> Query(<<"portal", "wastage", "summary">>, "mock"),
                  useWastageTrend |-> Query(<<"portal", "wastage", "trend", "period">>, "mock"),
                  useWastageDistribution |-> Query(<<"portal", "wastage", "distribution">>, "mock"),
                  useWastageDetail |-> Query(<<"portal", "wastage", "detail", "params">>, "mock")],
     mutations |-> None]

PortalSettings ==
    [queries |-> None,
     mutations |-> [useUpdateProfile |-> Mutation("updateProfile", {<<"portal", "auth">>}),
                    useChangePassword |-> Mutation("changePassword", {}),
                    useRegenerateApiKey |-> Mutation("regenerateApiKey", {<<"portal", "auth">>})]]

PortalIps ==
    [queries |-> None,
     mutations |-> [useAddIp |-> Mutation("mock", {<<"portal", "auth">>}),
                    useRemoveIp |-> Mutation("mock", {<<"portal", "auth">>})]]

\* enabled is FALSE: it fetches only when refetch is called.
PortalRate ==
    [queries |-> [useRateQuery |-> Query(<<"portal", "rate-query", "prefix">>, "mock")],
     mutations |-> None]

PortalWebhook ==
    [queries |-> [useWebhookConfig |-> Query(<<"portal", "webhook", "config">>, "mock"),
                  useRecentDeliveries |-> Query(<<"portal", "webhook", "deliveries">>, "mock")],
     mutations |-> [useSaveWebhookConfig |-> Mutation("mock", {<<"portal", "webhook", "config">>}),
                    useTestWebhook |-> Mutation("mock", {})]]

AdminHooks == {AdminDashboard, AdminCustomers, AdminGateways, AdminCdr, AdminFinance, AdminDids,
               AdminCompliance, AdminWastage, AdminOps}
PortalHooks == {PortalDashboard, PortalCallback, PortalCdr, PortalFinance, PortalWastage,
                PortalSettings, PortalIps, PortalRate, PortalWebhook}
================================================================================
