# A verification project for bos3000

bos3000 is a prepaid callback system: a client asks for a call between two
numbers, the platform sets money aside, calls the first party (the A leg), and
when that party answers calls the second one (the B leg) and bridges the two in
FreeSWITCH.  The backend is a set of Go services on the Encore framework; the
admin and portal directories are React front ends over its HTTP API.

This directory holds TLA+ modules that model the backend's core and the two front
ends, TLC configurations that model-check them on small instances, and proofs that
TLAPS checks.  Every definition is taken from the Go or TypeScript code;
`PROJECT.json` maps each one to its lines.

## 1. Inventory

| Component | State | Operations | Interactions | What is hard |
|---|---|---|---|---|
| billing, money (`billing/balance.go`) | `billing_accounts.balance`, `transactions` rows | PreDeduct, Finalize, Topup, Deduct, CreateAccount | called by callback; row lock per account | concurrent pre-deductions, settlement exactly once, rounding, overruns |
| billing, slots (`billing/balance.go`, `billing.go`) | a Redis counter per user | AcquireSlot, ReleaseSlot | called by callback | two commands per operation, lost or half-applied commands, eviction |
| billing, rates (`billing/rates.go`) | rate plans, user rate configuration | CRUD, ResolveRate, SetUserRateConfig | read by callback | precedence of user, plan and default rates |
| callback, admission (`callback/initiate.go`) | a hold and a slot per request | InitiateCallback | auth, compliance, billing, routing, then the state machine | error paths that give back what the request holds; a client that goes away |
| callback, state machine (`callback/statemachine.go`, `callback.go`, `hangup.go`) | `activeCalls`, one goroutine and one event channel per call, the `callback_calls` row | runCall, finalizeCall, ForceHangup, disconnect sweep, Shutdown | FreeSWITCH events, billing, webhook, recording | events in any order, cancellation between any two statements, two finalizers, crashes |
| FreeSWITCH client (`callback/fsclient`) | the ESL connection, handlers | originate, bridge, hangup, dispatchEvent, Connect, Pick, handleDisconnect | drives and feeds the state machine | reconnection, duplicate hangup events |
| WebSocket hub (`callback/ws_hub.go`) | connected clients | Run, Broadcast, pumps | nobody broadcasts in production | slow clients |
| webhook (`webhook/`) | `webhook_deliveries` rows, a Pub/Sub topic | CreateAndPublishWebhook, DeliverWebhook, PollRetries, RetryDLQ | fed by the state machine | at-least-once messages, retries that race a delivery |
| recording (`recording/`) | `recording_status` of the call's row, objects in storage | HandleMerge, GetRecordingURL, CleanupLocalRecordings | Pub/Sub event of finalizeCall | the worker races finalizeCall; redelivery |
| routing (`routing/`) | gateways in the database and in memory, DIDs | PickALeg, PickBLeg, SelectDID, health checks, CRUD | called by callback | reloads that race health checks, failover chains |
| compliance (`compliance/`) | blacklists, daily counters, audit log | checks, CRUD, audit subscriber, clean-up | gates of InitiateCallback | counters in Redis |
| auth (`auth/`) | users, API keys, tokens | login, handler, key and user administration | every endpoint | stale tokens and white lists |
| front ends, session and socket (`hooks/use-call-ws.ts`, `app/layout.tsx`, `features/auth`) | the credential, the cached "me", one WebSocket and its timer per mount of Layout | connect and its handlers, login, AuthGuard, logout | `/ws/calls`, `/auth` | handlers and timers that outlive their mount, a login beside a request for "me" |
| front ends, data layer (`lib/api/client.ts`, `hooks.ts`) | the QueryClient's cache | 68 query and mutation hooks | every endpoint | hand-written lists of keys to refresh, answers that a write overtakes, polling |
| front ends, dialogs and forms (`features/*`) | what is shown, typed, busy and under way | open, type, cancel, submit, answers | mutations of the data layer | dialogs that stay mounted from row to row, late answers |
| front ends, tables (`components/shared/data-table.tsx`) | pagination, filters, cached answers | turn a page, change its size, filter | queries keyed by their parameters; ListDIDs, QueryAuditLogs, ListBlacklist, ListCallbacks | answers out of order, an index past the end, handlers with a page size of their own |
| front ends, CSV import (`components/shared/csv-upload.tsx`) | file, parse result, imports under way | choose, parse, import, close | ImportDIDs at once, AddBlacklist row by row | numbers that are there, failures of single rows, lost answers, a dialog closed in between |
| front ends, local forms and frame (`config-editor.tsx`, `customer-detail.tsx`, `app/providers.tsx`, `ui/sidebar.tsx`) | drafts, theme, sidebar flags | edit, save, toggle | local storage, media queries | two copies of one choice |
| gateway (`gateway/`), `pkg/errcode`, `deploy`, `scripts` | none of their own | static files, error codes, deployment | HTTP | not concurrent state |

What makes each part correct:

- **Money.** The balance is always the sum of the `transactions` rows; a hold is
  closed at most once and only after it was taken; no interleaving takes an
  account below its credit line as long as calls stay within the 30 minutes paid
  in advance; a rejected request keeps nothing.
- **Slots.** Never more admitted calls than `max_concurrent`; the counter never
  undercounts; without faults it is exact.
- **State machine.** B is called only after A answered; an ended call stays
  ended; row, ledger and last webhook agree; no leg is left up; the recording
  gets its final status; every call ends.
- **Webhooks.** *Delivered* means the endpoint took it, *DLQ* means the schedule
  was used up, the endpoint is not flooded, and every delivery ends as one of the
  two.
- **Routing.** As long as no weight is negative, the round-robin stays balanced and
  starves nobody; the copy in memory follows the table and the network.
- **Front ends.** One chain of connection attempts per mount, a status and a
  banner that are true, and a connection that comes back; the layout shows who
  signed in; a page that is idle shows every acknowledged write; a dialog sends
  one request, for the row it was opened for; a table shows the answer to what it
  asked for, and where the handler pages as it is asked, every row and no empty
  page; an import ends, with a report that is true and counts no number twice;
  switches do what they show.
- **Reconnection of FreeSWITCH, recording files, daily limits, rates, tokens** (not modelled
  yet): the client in use after a reconnect is the live one; a merge that failed
  half-way can be repeated; a daily counter neither resets early nor never; the
  rate found is the most specific one; a frozen user or a revoked key loses
  access.

`PROJECT.json` lists the hazards behind these properties, each at its line.

## 2. Modules

```
BillingMath <- Billing <- Admission <- Callback <- MCCallback
                             |   \___ MCAdmission
     Escrow <-- (INSTANCE) --+
                                       Webhook <- MCWebhook
                                       Routing <- MCRouting

     Admission <- AdmissionProofs <- CallbackProofs <- CallFlowProofs
     Lists <- DataProofs <- AdmissionProofs, WebhookProofs, RoutingProofs, ConsoleProofs
     Lists <- Webhook, LocalForms

     Session, CallSocket <- Shell <- MCShell, ShellProofs
     ApiCache <- Pages <- PageQuery, Dialogs, PagedTable,
                 CsvImport, LocalForms, Chrome <- Console <- MCConsole, ConsoleProofs
```

| Module | What it models |
|---|---|
| `BillingMath` | rounding of durations to billing blocks, cost of a call, amount set aside |
| `Billing` | one account: `balance`, the rows per call (`txs`), the Redis counter (`slots`), and the effect of each transaction or command on them |
| `Admission` | `InitiateCallback` from its gates to launch or rejection, and the part of `finalizeCall` that touches the account and the counter. The life of a launched call is one phase |
| `Escrow` | what an account promises: a hold is taken, released once with some cost, or an admin adjusts the balance. No processes, no faults |
| `Callback` | `Admission` plus everything that happens to a launched call: `runCall`, `finalizeCall`, events, ForceHangup, the disconnect sweep, Shutdown, crash, the merge worker |
| `Webhook` | rows and messages of the webhook service |
| `Routing` | the gateways table, the copy PickALeg uses, reloads and health checks |
| `CallSocket` | `useCallWs`: sockets, refs, timers and status of every mount of Layout |
| `Session` | credential, login form, AuthGuard and the query "me" |
| `Shell` | both together: Layout mounts and unmounts the hook as the guard and the router decide |
| `ApiCache`, `Pages` | tables: what each endpoint reads and writes, each hook's key and the keys it makes stale, and which page uses which hook |
| `PageQuery` | one cached query with the mutations that concern it, on and off its page |
| `Dialogs` | the admin's dialogs, each a record of when it closes, resets and is guarded |
| `PagedTable` | `DataTable` with its pages' filters and queries, and what the handlers behind them page by and filter on |
| `CsvImport` | `CsvUpload`, the two importers and the handlers their requests reach, `ImportDIDs` and `AddBlacklist` |
| `LocalForms` | `ConfigEditor` and the addresses of `CustomerDetail` |
| `Chrome` | theme and sidebar of either front end |
| `Console` | the parts of the pages, one at work at a time |
| `Lists` | leaving elements out of a list, which `Webhook` and `LocalForms` both do |
| `MC*` | small instances for TLC |
| `AdmissionProofs` | theorems about the slots of `Admission` and about its money, the refinement of `Escrow` among them |
| `CallbackProofs` | `Callback` implements `Admission`; its types; what is settled before it is reported |
| `CallFlowProofs` | theorems about the legs, events and reports of `Callback` |
| `WebhookProofs` | theorems about `Webhook` |
| `RoutingProofs` | theorems about `Routing` |
| `ShellProofs` | theorems about `Shell` |
| `ConsoleProofs` | theorems about `Console`, part by part |
| `DataProofs` | lemmas about `SumFunctionOnSet` and about `Lists`, and the two inductions they rest on |

Operators whose comment begins with *Mutant* are not part of a model.  Each is a
plausible mistake in the definition that follows it; put in its place it makes the
property named in `PROJECT.json` fail.

### State and code

- `balance`, `txs`: `billing_accounts.balance` and the `transactions` rows that
  carry the call's reference.  `funded` is the rest: the opening balance and the
  admins' top-ups and deductions.
- `slots`: the Redis key `concurrent:<user>`.
- `phase`: the statement at which the call's request handler, then its
  `finalizeCall`, stands.  `gone`: the request's context is cancelled.
- `run`, `want`, `fin`: the goroutine of `runCall`, the status it hands to
  `finalizeCall`, and how far the body of `finalized.Do` has come.  A second
  caller waits for the first, as `sync.Once` makes it.
- `mem`, `row`: the `CallbackCall` in memory and its row.  `hooks`: the statuses
  handed to the webhook service.  `merge`: deliveries left of the merge event.
- `leg`, `joined`, `wire`, `ch`: the channels in FreeSWITCH, which calls it has
  bridged, events sent and not yet handled, and `activeCall.eventCh`.
- `Webhook`: `row` (status, attempt_count), `due` (rows whose `next_retry_at` has
  passed, in that order), `queue` (the topic), one program counter each for the
  maker, the workers and the poller, and for every delivery how many `RetryDLQ`
  requests have found it in the dead-letter queue and are about to reset the row
  (`reset`), and how many are about to publish it (`publish`).
- `Routing`: `row` and `mem` (table and `aLegGateways`), `check` (the gateways a
  health check has still to visit, with the failure counts it read at the start),
  `admin` (a reload between its query and its swap).
- `CallSocket`: `wsRef`, `timers`, `attempts` and `status` are the refs and the
  state of the hook, for every mount, because the handlers of an unmounted layout
  live on; `socks` are the WebSocket objects whose `onclose` is still to come.
- `Session`: `me` and `meFetch` are the cache entry of `useAuth` and its request,
  by the credential it was sent with; `cred` is the cookie or stored token.
- `PageQuery`: `server` counts the writes the server's data has seen, `entry` is
  the cached copy; `row` is one way a query and a mutation of `ApiCache` relate.
- `Dialogs`: `dlg` keeps for which row something was typed, not what; `calls` are
  the requests under way and the opening they belong to.
- `PagedTable`: a table is a record of where its rows are (`local`), whether the
  handler pages them (`paged`) and how long its pages are when `n` rows are asked
  for (`perPage`); the kinds of filters it sends, those the handler reads
  (*heard*) and those it does not (*unheard*).
- `CsvImport`: an import is a record of its rows still to be sent, its request
  and what was added, refused and lost so far; `onServer` are the numbers in the
  server's table, some of them from before.

In the front ends an action is one turn of the event loop: a click, an answer, a
timer or an effect with everything it does. In the backend an action is one SQL
transaction, Redis command, publication, FreeSWITCH command or event; everything
the code does between two of these is in the same action. `PROJECT.json` gives
the lines of every definition.

### Abstractions

- A status change of `runCall` (memory, row, webhook) is one step.  The three
  writes follow each other without waiting for anything, and no other actor
  reads two of them.
- A failed SQL transaction is one that did not commit.  A failed Redis increment
  may have been applied all the same.
- In `Callback`, HANGUP events that follow the service's own hangup are left out,
  because `runCall` does not read its channel again; the A leg answers once.
- Durations are a small set of values; amounts are exact integers as in the code.
- Routing checks in `InitiateCallback` (`PickALeg`, `PickBLeg`, `SelectDID`,
  `insertCall`) may succeed or fail at will: `RouteFails` is always possible.
- The gates of `InitiateCallback` before the pre-deduction are one step
  (`Refuse`).  The daily counter of the compliance service, which stays
  incremented when a later gate refuses, is not modelled.
- `updateCallFinal` is the only statement that writes the uuids of a call's legs
  into its row.  So `ForceHangup`, which goes by the row, finds none for a call that
  nothing has finalized: it cancels the context and hangs up no leg itself.
- In `Webhook`, signature and payload are left out, the retry interval only
  decides between waiting and giving up, and one poller runs at a time.
- In `PagedTable`, sizes 1, 2, 5 and 10 stand for 10, 20, 50 and 100, so a row
  stands for ten.  A name a request uses matters only by whether the handler reads
  it: the dates of the CDR page go out as `date_from` and `date_to` and are not
  read.
- Time is left out of the front ends: a reconnect delay, `staleTime` or a polling
  interval has passed or not.  The query library, the WebSocket object and the
  browser are modelled by what the code relies on and marked external.
- In `Session`, "error", which `onerror` sets and `onclose` overwrites in the
  same task, is not a status of its own.  React runs each effect once per mount,
  as a production build does.
- `Console` follows one part of a page at a time, because the parts share nothing
  but the cache entry `PageQuery` is about.  Query and mutation hooks that relate
  in the same way are one row of `PageQuery`.
- `WsStatusBanner` is the portal's; the admin's layout imports one that is not in
  the repository at this commit (`admin/src/app/layout.tsx:45`), taken as its twin.
- In `Routing`, B-leg gateways and addresses are left out, `max_health_failures`
  does not change, and `health_check_failures` stops at `FailureCap`, from where
  every further failure gives the same verdict.

## 3. Runs

Every counter of faults is a budget (`Budget`, `Chances`): so many client
disconnections, failed statements, crashes, evictions, admin steps and so on.  A
budget of one per kind lets any fault meet any other at any point.  In `Webhook`,
`Troubles` bounds how many faults and admin steps there are in all.

| Run | Instance | Shows |
|---|---|---|
| `AdmissionContention` | 3 calls of one user, balance for 2 holds, 1 slot, a top-up | `SlotsExact`, `RejectedKeepsNothing`, `CreditRespected` where nothing fails |
| `AdmissionFaults` | 3 calls, 2 slots, calls up to an hour, one fault of each kind | `ConcurrencyLimit`, `SlotsCoverHolders`, `BalanceMatchesLedger`, `SettledOnce`, and that `Admission` implements `Escrow` |
| `CallbackFlow` | 1 call, events in any order, ForceHangup, refused originate, recording trouble | `BLegAfterAAnswer`, `NoOrphanALeg`, `NoEventDropped`, `ReportsAgree`, `EndIsFinal` |
| `CallbackFaults` | 1 call, channel of one place, slot faults, eviction, crash, Shutdown | types, `Callback` implements `Admission` |
| `CallbackDisturbed` | 1 call, dropped connection, cancellation, failed settlement or final row, overflowing channel | under the race of `runCall` and the sweep: `OpenHoldInReach` (a second settlement is never asked for, rather than refused), `SettledBeforeReported` and `EveryCallEnds` |
| `WebhookDelivery` | 1 delivery, 2 retries, 2 workers, poller; any three of two `RetryDLQ` requests, a duplicate, a crash, a lost update and a failed publication | types, `DeliveredMeansAccepted`, `ScheduleKept`, `RetryIsTaken`, `EveryDeliveryTried` |
| `RoutingALeg` | gateways of weight 2 and 1 and one to create, 2 admin requests with weights 0 and -3, both checks, a link that drops and returns, a failed statement | types, `CurrentWeightsBalanced`, `ReloadSettles`, `CandidatesFollowNetwork`, `NoStarvation` |
| `FrontShell` | either front end, 2 users, 2 mounts of the layout, 3 sockets, credentials that expire | `ChainSound`, `ShownTruthfully`, `IdentityShown`, `GuardResolves`, `PortalReturns` |
| `FrontConsole` | every row of `PageQuery`, every dialog with 2 rows and 2 requests, every table with up to 6 rows on pages of 1, 2, 5 or 10, both importers with a good and a bad file, numbers that are there, rows without one and lost answers, every type of item, both frames | types, `AckedIsShown`, `PolledCatchesUp`, `DialogSound`, `TableSound`, `ImportSound`, `FrameSound` |

`ReportsAgree` is about row, ledger and webhook; `ScheduleKept` joins
`DLQMeansExhausted` and `PostsBounded`; `CandidatesFollowNetwork` joins
`UnreachableLeaves` and `ReachableReturns`; `ChainSound` joins `OneChain`,
`RefNamesSocket` and `BackoffStartsOver`; `ShownTruthfully` joins `StatusTruthful`
and `BannerTruthful`; `DialogSound` joins `NoDoubleSubmit`, `NothingLeftOver` and
`BusyMeansWaiting`; `TableSound` joins `RowsMatchParams`, `PageHasRows` and
`EveryRowListed`; `ImportSound` joins `ReportTrue`, `CountedOnce`, `OneImport` and
`ImportEnds`; `FrameSound` joins `ClassMatchesTheme` and `ToggleTakesEffect`.  The types of `Admission` and `Shell`
are proved.

Why the bounds are enough.  The account and the counter are shared by the calls
of one user, so one user is the hard case; three calls allow one to be over the
limit while two race for the last slot.  Admission steps of different calls
interact only through the account and the counter, which `Admission` covers with
three calls; a call's own flow is private to it, so `Callback` looks at one.  Two
workers are what a duplicate message needs, two retries are the least that tell
the first from the last, and two requests for one row are what it takes for both to
find it in the dead-letter queue.  Weights 2, 1 and -3 add up to nothing, the
smallest case in which a negative weight does harm; how far current weights
drift then is cut at `DriftCap`, while picks among weights that are not negative are
not cut.  Five places in the event channel (ten in the code)
already suffice for every event of a call; one place makes it overflow.  Two
mounts let a socket and a timer of the first meet the second, three sockets let an
old one linger while both have one; the names of closed sockets are used again, so
runs are not bounded by them, and failed attempts are counted to 2 because only
zero and more than zero differ without time.  Two rows are what it takes to type
for one and send for the other, two writes to overtake an answer.  Six rows fill a
page of five and begin another, so that a handler whose pages are longer or shorter
than those asked for leaves pages empty or rows out; pages of one, two and five
have last pages that are full, ones that are not, and an index beyond them.  Two
rows of a file are one that is there already and one that is not.

Three further runs show where code and documents disagree:

| Run | What happens | Against |
|---|---|---|
| `CallbackOrphanLeg` | A hangs up while B rings; `runCall` hangs up A, not B | `.planning/research/PITFALLS.md:71` |
| `WebhookLost` | no fault at all: PollRetries publishes before it marks the row pending, and the worker's verdict is overwritten; nobody looks at a pending row again | `.planning/phases/03-freeswitch-webhook/03-CONTEXT.md:38` |
| `GatewayToggle` | the dialog announces that the gateway goes online and the request takes it offline: `confirmToggle` reads a `status` that gateways do not have | `.planning/phases/04-admin-dashboard/04-04-PLAN.md:30` |

Three more disagreements are in the models and checked properties are stated
around them:

- A client that disconnects during `InitiateCallback` keeps its hold: refund and
  release run under the cancelled context and their errors are dropped
  (`callback/initiate.go:119-139`).  `RejectedKeepsNothing` is checked with clients
  that stay; give `AdmissionContention` a budget with `"client"` to see it fail.
- The disconnect sweep does not cancel `runCall`, which then writes a live status
  over the ended row (`callback/callback.go:56`; against
  `.planning/phases/02-mock/02-RESEARCH.md:340`).  `EndIsFinal` is checked without
  disconnects.
- The merge event is published before the row is written
  (`callback/statemachine.go:444`; against
  `.planning/phases/03-freeswitch-webhook/03-04-PLAN.md:256`), so the worker's
  *ready* can be overwritten with *merging*.  No property claims otherwise.

In the front ends, known and left out of the properties by a named condition:
pairs of hooks that no refresh connects (`Unrefreshed`); an answer under way that
a write overtook (`raced` of `PageQuery`) or a login overtook (`raced` of
`Session`); a filter changed on a later page (`strayed`); a handler whose page is
longer (`PageHasRows`) or shorter (`EveryRowListed`) than the one asked for; rows
that were added although their answer was lost (`lost`); a dialog closed by the
answer to a request of an earlier mount (`cut`).  Also seen in the code: the
admin's socket never connects, because its token is looked for in
`document.cookie` and the session cookie is HttpOnly, so it retries for ever and
the live calls are not refreshed by events; a cancelled top-up is not aborted and
a second one charges again; the customers page shows a balance column that no
top-up writes; logging out only navigates; a layout left while its socket connects
goes on reconnecting.

Tables and imports meet handlers that do not do what the page asks:

- `ListDIDs` puts 50 numbers on a page whatever is asked (`routing/did.go:184-186`)
  and `QueryAuditLogs` reads `page_size` where the client sends `limit`
  (`compliance/audit.go:84`, `105-108`), so 20 rows.  Below those sizes the pages at
  the end are empty, above them the rows at the end are on no page.
- `ListBlacklist` sends all entries on every page and no total
  (`compliance/blacklist.go:126-148`), so its table never has more than the rows of
  one answer and shows all of them.
- The dates of the CDR page filter nothing (`admin/src/lib/api/client.ts:358`,
  `callback/list.go:19-20`).
- `ImportDIDs` skips numbers that are there (`routing/did.go:86-96`) and the toast
  tells how many it added; rows without a number are dropped before
  (`admin/src/features/did/index.tsx:68`).  If the answer is lost, the page reports a
  failed import of numbers that were added; the blacklist page counts such a row as
  failed.

`UpdateGateway` stores any weight (`routing/aleg.go:148-158`), and no CHECK of the
table keeps it from being negative.  Among candidates of weights 2, 1 and -3 the
total is nothing, so the winner pays nothing and the gateway of weight 1 is never
picked.  `NoStarvation` is therefore claimed of candidates whose weights are not
negative (`Unsigned`), and so is the bound in `CurrentWeightsBalanced`; that the
current weights add up to nothing holds for any weights.  `RoutingALeg` has such
weights, as far as `DriftCap` lets the current weights drift, so the rest of what it
checks is checked with them.

Known limits of the code that no property claims away: a counter lost by Redis is
never rebuilt (hence the condition `KeysKept`), calls under way when the process
dies are never reconciled (`PITFALLS.md:95`, `:118` ask for a sweep), a call longer
than 30 minutes can overdraw the account, a webhook whose publication failed
stays pending, and two admins whose reloads overlap can leave the copy of the
gateways behind the table.

### Fairness

Safety is checked without fairness.  `CallbackDisturbed` assumes that goroutines
that can run do run: the request handler, `runCall` with its timers (park
timeout, maximum duration, cancelled context), the body of `finalizeCall`, the
sweep.  It assumes nothing of clients, phones or the merge worker.
`WebhookDelivery` and `WebhookLost` assume that Encore delivers messages and
fires its cron job, that handlers end (the POST has a 10 second timeout) and that
time passes.  `RoutingALeg` assumes the cron job, requests that end (the probe has
a 5 second timeout) and, for `NoStarvation` only, that calls keep coming.  All of
it is weak fairness: each of these steps, once possible, stays possible until it
is taken.

`FrontShell` assumes that timers fire, that a request for "me" ends in an answer
or an error and that effects run, weakly; and strongly that a handshake the server
would accept gets through now and then, although the network may fail it in
between (`PortalReturns` is empty without it).  `FrontConsole` assumes that
requests end, that polling timers fire and that a query asked for again and again
is answered now and then (strong fairness, for `PolledCatchesUp`), and that every
request of an import ends.  Users owe nothing.

`CHECK_DEADLOCK FALSE` in the webhook runs: when every delivery has ended there is
nothing left to do.

## 4. Proofs

`AdmissionProofs` proves, for any finite set of calls, any users, rates, limits,
durations and budgets (the assumptions named in `Billing` and `Admission`):

- `AdmissionTypeCorrect`: `AdmissionSpec => []AdmissionTypeOK`.
- `ConcurrencyLimitHolds`: `AdmissionSpec => []ConcurrencyLimit`.
- `SlotsCovered`: `AdmissionSpec => []SlotsCoverHolders`.
- `SlotsExactHolds`: `AdmissionSpec => []SlotsExact`, with no fault that touches
  the counter (`evict`, `redis`, `crash`) and clients that stay, as
  `SlotsExact` is meant and as `AdmissionContention` checks it.

`ConcurrencyLimit` is not inductive.  That the limit holds after an increment
follows from the comparison only if the counter counts at least the calls that
hold a slot, so the invariant carries `CounterCovers`.  That in turn must survive
`ReleaseSlot`, whose second command resets a negative counter to zero: a counter
that covers its holders never becomes negative through a release of one of them,
so that command is never reached.  The invariant `LimitInv` says this: types,
and, as long as Redis has lost no key (`KeysKept`), the counter covers the
holders, admitted calls are within the limit, and no call is about to floor the
counter.  The proof has one step per action.  What an action does to the set
of holders is reduced to a lemma about one call moving in or out of a finite set,
so the arithmetic on cardinalities is done once.

Of the money `AdmissionProofs` proves, from the same assumptions:

- `SettledOnceHolds`: `AdmissionSpec => []SettledOnce`.
- `AdmissionImplementsEscrow`: `AdmissionSpec => EscrowSpec`, with a call's number
  of rows as its hold.
- `CreditLineHolds`: `AdmissionSpec => []CreditRespected`, if no duration exceeds
  1800 seconds, admins deduct nothing and no account starts below its line
  (`PrepaidOnly`, a condition on the constants; `AdmissionContention` satisfies it).
- `RejectedKeepsNothingHolds`: `AdmissionSpec => []RejectedKeepsNothing`, with
  clients that stay and settlements that do not fail.  Both conditions are needed
  (section 3): refund and release run under the request's context and their errors
  are dropped.
- `BalanceMatchesLedgerHolds`: `AdmissionSpec => []BalanceMatchesLedger`, with
  every fault there is.

The common lemma is `EveryStepMoves`: each step of `Admission` leaves the money
alone (`Keeps`), takes a hold (`Opens`), settles one (`Closes`) or is an
adjustment by an admin (`Adjusts`).  The three theorems then look at four cases
and not at every action.  `SettledOnce` is not inductive, since nothing in it
keeps Refund or Settle from writing a third row; the invariant `MoneyInv` adds
`RowsMatchPhase`, by which a call that can still be settled has exactly one row.
For the credit line, `Closes` needs that a call within the 30 minutes costs no
more than was set aside.  That is lemma `PreDeductionCovers`, about the rounding to
blocks of both legs.

`BalanceMatchesLedger` is a sum over the calls of an account, and the prover has
no induction over data.  `DataProofs` gets around that where a sum is concerned.
Among the sets of subsets of a finite set that contain the empty set and are closed
under adding one element, the set of *all* subsets is the least; that is a statement
about one set, and `FiniteSetTheorems` has it (`SubsetsReached`).  From it follow
that the recursive function under `SumFunctionOnSet` exists, and that a sum splits,
adds, is bounded and changes by what one term changes.  `NumbersReached` is the same
for numbers; with it `Among` is shown to return a list, of members of the list it is
given, and without repetitions if that has none.

`CallbackProofs` proves, for any number of calls, any channel size and any faults:

- `CallbackImplementsAdmission`: `CallbackSpec => AdmissionSpec`.  Each step of a
  call is a step of `Admission` or leaves its variables alone.
- `ServiceKeepsAdmission`: so `ConcurrencyLimit`, `SlotsCoverHolders`, `SettledOnce`,
  `BalanceMatchesLedger` and `EscrowSpec` hold of the whole callback service;
  `ServiceKeepsCreditLine` and `ServiceKeepsSlotsExact` carry `CreditRespected` and
  `SlotsExact` over, on the conditions they have in `Admission`.
- `CallbackTypeCorrect`: `CallbackSpec => []CallbackTypeOK`.
- `SettledBeforeReportedHolds`: `CallbackSpec => []SettledBeforeReported`, from
  `SettleOrder`: the reporting part of `finalized.Do` runs only on a settled call.
- `OpenHoldInReachHolds`: `CallbackSpec => []OpenHoldInReach`.  `Settle` has a guard
  on the phase of the call, under which a `finalizeCall` entered twice would merely
  stop; this says that the guard is never what keeps a second settlement away.  It
  rests on `HoldMatchesBody`, which ties the phase and `activeCalls` to the place of
  the body of `finalized.Do`, and on `MoneyInv`.

`CallFlowProofs` proves:

| Theorem | Of `CallbackSpec` | If |
|---|---|---|
| `BLegAfterAAnswerHolds` | `[]BLegAfterAAnswer` | - |
| `NoEventDroppedHolds` | `[]NoEventDropped` | the channel has 5 places (10 in the code) |
| `NoOrphanALegHolds` | `[]NoOrphanALeg` | the connection never drops, or the process never restarts |
| `EndIsFinalHolds` | `EndIsFinal` (an action property) | the connection never drops |
| `ReportsAgreeHolds` | `[]ReportsAgree` | the connection never drops, no settlement and no final row fails |

A call that is dropped and then finds a connection again after a restart may be over
with its A leg up; the sweep that races `runCall` is the second disagreement of
section 3; and `finalizeCall` goes on when a statement of its fails.  `CallbackFlow`
checks these properties under the same conditions.  Events are what makes
them not inductive: `LegInv` says of every event that is under way or unread what it
tells of the legs (`EventsTrue`), orders the legs by the place of `runCall`
(`DialOrder`), and bounds what is unread plus what the legs may still cause
(`Load`), from which the size of the channel follows.  `EndsOnce` orders the four
places that tell of an end, memory, row, webhook and `finalized`; `Agreed` compares
their contents.

`WebhookProofs` proves, for any sets of deliveries and workers, any number of
retries and any budget:

- `DeliveredIsAccepted`: `WebhookSpec => []DeliveredMeansAccepted`.
  `DeliverWebhook` writes *delivered* some steps after the answer it rests on;
  `DeliveredInv` has the worker carry the fact in between.
- `WebhookTypeCorrect`: `WebhookSpec => []WebhookTypeOK`.  That `PollRetries` lists
  no row twice follows from the rows that are due being distinct, which the rows of
  a table are and a sequence need not be (`WebhookTypes`).
- `ScheduleKeptHolds`: `WebhookSpec => []ScheduleKept`.

`ScheduleKept` bounds the POSTs the endpoint sees from above and, for a row in the
dead-letter queue, from below.  For the upper bound every delivery has an account.
`Threads` counts what can still lead to a POST: messages, busy workers, a row that
waits, requests of admins.  `Chances` adds to the POSTs sent those that these
threads and the schedule still allow.  No step of the service increases either;
a duplicate, a lost update and a crash do by what they are charged (`Paid`),
and there is one lemma per step that says so (`...Accounted`).  `RetryDLQ` gives the
delivery its schedule back, and every worker that is busy with it may start anew:
that is why `ScheduleBound` bounds `Threads` (`Crowd`), and sets the share of a reset
aside as soon as the request is under way, before the row changes (`Reserve`).
Several requests may have found the row in the queue, and each reset gives a
schedule to the messages of those before it: hence the term `A * (A - 1)` of
`PostsBounded`, which two requests reach.  For the lower bound `DLQEarned` follows what `handleDeliveryFailure` has read on its way to the
verdict, and holds while no update is lost and no worker dies, as the property says.

`RoutingProofs` proves, for any gateways, weights, checks, admins and faults:

- `RoutingTypeCorrect`: `RoutingSpec => []RoutingTypeOK`.
- `CurrentWeightsBalancedHolds`: `RoutingSpec => []CurrentWeightsBalanced`; its bound
  is on the condition that no weight of the copy is negative.
- `ReloadSettlesHolds`: `RoutingSpec => []ReloadSettles`, with one admin at a time
  (two reloads that overlap may be swapped in against the order of their queries).

It is tempting to bound a current weight by the weight of the whole pool, and small
instances agree, but gateways of weight 1, 1, 1, 1 and 6 exceed it when health
changes between picks.  What is kept is `Spread`: the current weights of any `k` of
`n` gateways add up to at most `k * (n - k)` times the greatest weight; with `k = 1`
and `k = n - 1` that is the bound of the property.  It has to be said of every set
of gateways, since a pick moves weight between those that are up and the winner,
and which these are changes from pick to pick.

`ShellProofs` proves, for any users, mounts, sockets and bound on the attempts
(the assumptions named in `Session` and `CallSocket`):

- `ShellTypeCorrect`: `ShellSpec => []ShellTypeOK`.
- `ChainSoundHolds`: `ShellSpec => []ChainSound`.
- `ShownTruthfullyHolds`: `ShellSpec => []ShownTruthfully`.
- `IdentityShownHolds`: `ShellSpec => []IdentityShown`.

None of these is inductive.  `SocketInv` says of every mount, also one that was
left, what `ChainSound` says of the one on the screen, and adds what makes the
cleanup hit the right socket: names are distinct among the sockets there are
(`IdsDistinct`), a ref names a socket of its own mount (`RefsLive`), a socket
that is connecting or open is named (`AliveNamed`), only a mount that was left has
one that is closing (`ClosingIsLeft`), and one that was never shown has nothing
(`Fresh`).  `ClosingIsLeft` is also why a lost socket of the page on the screen
reports a code that starts a timer.  `SessionInv` carries that an answer expected
or known is about the credential in use (`IdentityKnown`) and that without a
credential nobody is signed in (`GuestUnknown`), which excludes the one mount that
never tries to connect, a portal without a token, from a signed-in page
(`Trying`).  There is one lemma per handler of the hook, one per group of session
steps, and one that puts them together.

`ConsoleProofs` proves, for any rows, files, addresses, page sizes, row counts and
bounds, with the assumptions the modules of the pages name for their constants:

| Theorem | Of `ConsoleSpec` |
|---|---|
| `ConsoleTypeCorrect` | `[]ConsoleTypeOK` |
| `AckedIsShownHolds` | `[]AckedIsShown` |
| `DialogSoundHolds` | `[]DialogSound` |
| `TableSoundHolds` | `[]TableSound` |
| `ImportsAccountedFor` | `[](ReportTrue /\ CountedOnce /\ OneImport)`, the safety part of `ImportSound` |
| `FrameSoundHolds` | `FrameSound` |

Every part has an invariant of its own, and `ConsoleInv` is all of them together.

- `AckedIsShown` is about a page that is idle.  `Answers` says what holds before it
  is: an answer that was read has what was acknowledged, or is known to be overtaken,
  and an entry that lacks it is stale where nobody looks.  All of it rests on the
  tables: a mutation that writes what a query reads names a prefix of its key, but
  for the pairs of `Unrefreshed`.  `WritesRefresh` proves that of every hook of
  `hooks.ts` (`AdminTables`, `PortalTables`) against the endpoint that `client.ts`
  calls for it (`AdminEndpoints`, `PortalEndpoints`).
- `DialogSound` needs that a call under way keeps the button of its own opening
  disabled or that opening is over (`Guarded`), and that what is left in a form will
  be reset before it is shown for a row (`OwnForm`).  What the ten dialogs have in
  common, and all the proof uses of them, is `DialogFacts`.
- `TableSound` needs that an answer is kept under the parameters it was asked with,
  and that a page that was turned to begins before the last row.  It assumes nothing
  of how long the handler's pages are (`perPage`): where they are as asked, or all
  rows come at once, no page turned to is empty and no row is left out; where the
  handler has a size of its own, the first holds if that is not the larger and the
  second if it is not the smaller.  The arithmetic is in `PagesHaveRows` (the pages of
  a table are those that begin before its end) and `ClampParts` (a clamped index is
  one of a page).
- `ReportTrue` compares the page's count with the set of rows the handlers added,
  over skipped and repeated numbers, refusals and lost answers; for that the
  invariant relates, for every import under way, what was counted, what awaits its
  answer and what was lost to what was added, and says of every row that is behind
  that it is on the server or was refused.  `CountedOnce` needs that whatever an
  import added is on the server, where no other import can add it.  That a box has
  one import at a time needs that a box that imports is shown, since opening forgets.
- A text of `ConfigEditor` is saved as a value of its type because a switch is never
  edited as a text and a number's input holds no text that is not one (`ItemOK`).
- The theme's class is right although the effect skips renders with an unchanged
  `resolvedTheme`, since a toggle always asks for another look than that.

Only model-checked, because liveness is outside the prover's reach:
`EveryCallEnds`, `RetryIsTaken`, `EveryDeliveryTried`, `CandidatesFollowNetwork`,
`NoStarvation`, `GuardResolves`, `PortalReturns`, `PolledCatchesUp`, and
the liveness part of `ImportSound` (`ImportEnds`).  Every other property of a
passing run has a theorem.

## 5. Plan

In this order; the first four rows are done.

1. `Billing`, `Admission`, `Escrow`: money and slots, with the proof of the limit.
2. `Callback`: the call, refining `Admission`.
3. `Webhook`; `Routing` for the A leg.
4. The front ends: `CallSocket`, `Session` and `Shell` with their proofs, then
   `ApiCache`, `Pages`, `PageQuery`, `Dialogs`, `PagedTable`, `CsvImport`,
   `LocalForms`, `Chrome` and `Console`.
5. `Routing` for the B leg: `PickBLeg` with its failover chain read hop by hop
   while health changes, prefix administration, `SelectDID` and the assignment of
   numbers; two admins at a time.
6. `FSClientManager`: two connections, probe, reconnect loop, and the client the
   service keeps; composed with the sweep of `Callback`.
7. `Rates` and `Wastage`: `ResolveRate`, `classifyWastage` and `calculateCost` as
   operators against reference definitions.
8. `Recording`: `HandleMerge` step by step, redelivery, clean-up of local files.
9. `Compliance`, `Auth`, `Hub`: the daily counter and its expiry, blacklists, API
   keys and frozen users, slow WebSocket clients.

Theorems worth proving next: an abstract specification of a delivery (taken once or
given up after its schedule) that `Webhook` implements, and one of what a cached
query promises to the page that observes it; the reference definitions of rates and
wastage as far as they need no induction.

## 6. Not modelled

Deployment files, SIPp scenarios and the static file gateway keep no state.  Of the
front ends, components that only render their properties (the `ui` directory but
for the sidebar, charts, badges, columns), formatting, mocks and tests are left
out, as are the portal's pages that are placeholders, the sorting of tables (never
sent), rows that vanish while a later page is shown, development mode's double
effects, and `onmessage` of the socket: the admin's socket is never let in, no
page of the portal uses its events, and only tests call the hub's Broadcast.
Read-only endpoints (status, statistics, lists) are
left out, but for how the lists behind the tables page and filter (`PagedTable`).  ffmpeg, S3, HMAC, JWT and password hashing are library calls.  Rates,
compliance, authentication, the WebSocket hub, the connection manager, DIDs and
the B leg are in the plan above; until then they appear only as steps that may
fail (`Refuse`, `RouteFails`), as constants (the rates), or as the handlers the
front ends call (`ImportDIDs`, `AddBlacklist`, the endpoints of `ApiCache`).
