# G-Salas: a verification project

G-Salas rents rooms by the hour to professionals: a NestJS API
(`src/backend`) on PostgreSQL, Redis and BullMQ, and a React browser client
(`src/frontend`). Clients pay with *credits* (hours) that a contract grants
them; a reservation takes an interval of a room and debits a wallet in one
transaction. This directory holds TLA+ models of that system, the TLC
configurations that check them on small instances, and theorems that TLAPS
checks for instances of any size.

    tlc -workers 2 -config MCBooking_race.cfg MCBooking     # one run
    tlapm BookingProofs.tla                                 # the proofs, likewise SequentialProofs,
                                                            # LifecycleProofs, IntervalProofs,
                                                            # BillingProofs, ApiClientProofs,
                                                            # CatalogueProofs, PagesProofs

`PROJECT.json` lists the runs, the source lines of every definition, the
mutations each property must notice, the hazards and the findings.

## 1. Inventory

| Component | State | Operations | Correct when |
|---|---|---|---|
| Reservations (`reservations/`) | `reservations` rows under the exclusion constraint `reservations_no_overlap` | create, cancel, reschedule, no-show, complete | nobody shares a room; a reservation exists exactly with its debit; closed ones stay closed; the price matches the hours |
| Cancellation policy (`reservation-policy.service.ts`) | none; reads a contract | evaluateCancellation, canReschedule | at most `cancellationLimit` late refunds between renewals |
| Credits (`credits/`) | wallets and the append-only ledger | grant, debit, refund, adjust (expire has no caller) | never below zero; balances are the sums of entries |
| Contracts (`contracts/`) | contract rows, one wallet each | create, update, renew, upload a document, expiry sweep, expiry alerts | only overdue contracts expire, and they do |
| Schedules (`schedules/`) | weekly rules, blocked periods | create, update, delete; free slots of a day | slots are exactly what is open, not blocked and not taken |
| Interval arithmetic (`time-intervals.util.ts`) | none | subtractIntervals, mergeIntervals, HH:mm | equals set difference; maximal slots |
| Rooms (`rooms/`) | rooms, photos, cached views | create, update, image, photos | a cached view is refreshed; no stored image is lost track of |
| Payments, receipts, invoices | `payments`, `payment_receipts`, `invoices` | create, upload, approve, reject, cancel, mark overdue, remind | an invoice is paid exactly when a payment of it is approved |
| Sessions (`auth/`) | refresh tokens, failed attempts, lock | login, refresh (rotation), logout, forgot, reset | a token is used once; lockout counts every failure |
| Users (`users/`) | users, profiles, addresses, avatar | update, status, uploads | disabling a user ends their sessions |
| Jobs (`jobs/`) | two BullMQ queues | daily cron, run-now, two processors | sweeps finish eventually; alerts go out once a day |
| Notifications (`notifications/`) | rows | create, read, read all | once per event |
| Cache, rate limiter (`redis/`, `common/rate-limit/`) | Redis keys with TTL | wrap, invalidate; consume | stale at most a TTL; never more than the limit |
| Uploads (`uploads/`) | files | save, variants, delete | rows refer to stored files |
| Browser client (`frontend/src/api`, `store.tsx`) | tokens, a copy of the server's rows | api with refresh, hydrate, one function per button | shows the latest state; one refresh at a time |
| Dashboard, audit, guards, filters, health, config, pages, seed | none of their own, or write-only | | |

How they interact. Controllers call one service method per request.
Reservations calls Schedules (slots), Policy (decision), Credits (inside its
own transaction) and Notifications (same transaction). Contracts calls Credits
and Notifications; Receipts calls Payments; the worker process calls Contracts
and Invoices. All share one database, and none locks a row it only read. The
browser reloads everything (`hydrate`) after each change.

What is hard. Every handler is an async function: between two awaited database
calls any other request may run, in this process or another one. Handlers read,
decide, and then write **by id**, so what they decided on may be stale when they
write. Transactions run at READ COMMITTED. A process may die between two
transactions of one handler. The worker repeats a job from its start. The
section `hazards` of `PROJECT.json` lists the consequences line by line.

## 2. Modules

| Module | Models | Uses |
|---|---|---|
| `Runtime` | requests as processes: `pc[q]` (the next database call), `loc[q]` (local variables), the running job, the clock, process death | |
| `Credits` | wallets, ledger totals; grant, debit, refund, adjust | Runtime |
| `Contracts` | contract rows; create, update, renew, expiry sweep | Credits |
| `Schedules` | rules, blocked periods, room status; the slot engine | Runtime |
| `Reservations` | the reservations table, its constraint and five handlers | Contracts, Schedules |
| `Booking` | the composition, its types and its properties | Reservations |
| `RoomCalendar` | abstract: what the system promises about rooms | |
| `ContractAlerts` | the alerts half of the contracts job, before the sweep | Contracts |
| `ContractLifecycle` | contracts, clock and the whole contracts job, with fairness | ContractAlerts |
| `TimeIntervals` | the loops of `subtractIntervals` and `mergeIntervals`, one interval per step; HH:mm | |
| `Billing` | invoices, payments, receipts; the daily financial job | Runtime |
| `Sessions` | accounts, refresh tokens, reset tokens, throttle and lockout; what authorises a request | Runtime |
| `ApiClient` | a browser's tabs: stored tokens, calls, the single refresh of a tab | Sessions |
| `ReadThroughCache` | `cache.service.ts`: wrap, set, invalidate, with failing deletions | Runtime |
| `RoomCatalogue` | rooms, photos, images and their files, avatars, addresses, behind the cache | ReadThroughCache |
| `ClientStore` | the browser's copy of the system: hydrate read by read, the operations, logout, boot | |
| `Pages` | what each page, modal and menu lets the user do | ClientStore |
| `BookingProofs`, `SequentialProofs` | theorems about `Booking`: with any requests in flight, and one at a time | Booking |
| `LifecycleProofs`, `IntervalProofs`, `BillingProofs`, `ApiClientProofs`, `CatalogueProofs`, `PagesProofs` | theorems about `ContractLifecycle`, `TimeIntervals`, `Billing`, `ApiClient`, `RoomCatalogue`, `Pages` | those |
| `MCBooking`, `MCContractLifecycle`, `MCBilling`, `MCApiClient`, `MCRoomCatalogue`, `MCPages` | the small instances | |

Three compositions stay apart because nothing but the clock joins them: bookings and
contracts, billing, and sessions. The browser is modelled twice: `ApiClient` has the tokens
and the 401s and no data, `Pages` has the data and takes a call as answered or refused.

### From code to model

*Requests.* A request `q` is served once. A handler that reads, checks and then
writes is an action per database call whose result the next one depends on:
`XxxRead` for validation and the first reads, `XxxContract` and `XxxSlot` for
the ones in the middle, `XxxCommit` for the transaction or the update. Early
returns and exceptions are guards of the first action, or lead to `Finish` in a
later one. A handler with a single call that matters is one action (`Idle`).
Reads that nothing in the model can change in between (the user, a contract's
wallet) are merged with their neighbour; so are the three queries of
`getAvailableSlots`, which the code issues together. The latter merges nothing
in the concurrent runs, which change reservations but no schedule; and as
commits never look at schedules again, the order of the three queries can only
change which slot check passes, as running the check earlier or later does.

*Transactions.* A transaction is one step. At READ COMMITTED an UPDATE sees the
latest committed version of its row and keeps it locked, and the code's
transactions only update by id, decrement under a condition (`Covers`) or insert
under the exclusion constraint (`Admits`); each of these is decided on the state
the step acts on. Row locks, waiting and deadlock victims (reschedule locks wallet
then reservation, cancel the reverse) are left to a finer model, see the plan. A
deadlock victim behaves like `Abort`.

The receipt's approval is such a transaction too: it reads the payment between two of its
writes, but nobody sees its first write before it commits, and whatever decides the payment
after that read would have been overwritten all the same. `payments.approve` is the exception:
the same code runs inside that transaction and, called by the payments controller, on the
plain client, where its two updates are two steps (`ApprovePayment`, `ApproveInvoice`).

*Data.* An hour is the unit of time; instants are naturals and an interval is a
set of instants. Durations are multiples of an hour in the code as well; rules
and blocked periods may start at any minute there, and `TimeIntervals` shows that
the minute arithmetic computes exactly the set operations `Schedules` uses.
"There is no 24:00" survives the abstraction: a rule cannot open the last instant
of a day (`DayTimes`). Contract ids follow `createdAt`; a contract and its wallet,
created in one transaction, share their number. A reservation has the identifier
of the request that inserted it. The ledger is kept as totals: per wallet and type, and, for entries that
reference a reservation, per reservation and wallet (`charged`) and per reservation over all wallets (`spent`).
`spent`, `lateRefunds`, `unposted` and `approved` are history variables: no action reads them. `Array.prototype.sort`
is the stable sort (`Sorted`). What the seed puts into the browser model's database is `FirstRows`. A payment has the
identifier of the request that inserted it, and its one receipt shares it; notifications are
kept as counts per invoice and instant.

*Sessions.* A request of a tab is *sent*, served in steps like every other, *answered* with a
status, and taken up by the tab; `loc[q]` carries body, reads and answer. Tokens are numbered in
the order of their rows, and a token names its `parent`, the one it was traded for, and the
password it goes back to (`secret`): both are history. Access tokens are the number of the refresh
token issued with them, valid for `AccessTtl` from the same instant. The throttle counter of the login route is
kept, the others (same code, other limits) are not. `forgotPassword` mails the token; whoever
resets a password is a direct request.

*Catalogue.* One stage per call of PostgreSQL, Redis or the file store. Details of a room are
one value; an image is a number (the code draws a UUID) and is stored variant by variant. `faults` are Redis and
file-store calls that fail, which the code swallows. `calm` and `changed` are ghosts for the properties.

*Browser.* What `store.tsx` awaits is a *flow*: `plan` lists the calls and state changes it has still to
make. `hydrate` is four of them: the profile, the six lists asked for together, what comes after them up to the
block of setters, and the wallet. Each of the six reads is answered on its own: a change of the database that happens while they are under way is
seen by any subset of them (`Overtaken`). A list shows rows; a row is *one thing a page shows*, such as a
room's status, its details, one photo. The server of this model is one step per call and only
knows the effects a page can see; the handlers behind them are in the other modules. `Press` starts a flow
even while another is under way, since only forms disable their button (`Submit`), and only while they are on the screen: a
flow keeps its form until its page is left. That goes for the two pages of guests as well (`Swap`), so a second sign-in may
start while the first waits. `trusted`, `mixed` and `saves` are ghosts: the first is set by a flow that ends with the tab to itself;
`mixed` once a logout or a sign-in has overlapped another flow; `saves` counts the room forms sent with an administrator's tokens.

*Left out.* Audit rows (nothing reads them) and the wording of notifications; access rights in the server modules (owner or administrator: some requester may
always make the request; `ClientStore` has them); `startDate`, which no code looks at after creation;
`PENDING` and `REJECTED` reservations, which no code creates (the types keep them,
and the constraint and `cancel` treat PENDING as the code does).

## 3. Runs

| Run | Instance | Question |
|---|---|---|
| `race` | 4 requests, 2 in flight, crashes; 1 client, 1 room, 1 contract of 2 hours, days of 4 hours, clock 0..3 | `TypeOK`, `NoDoubleBooking`, `BookedIffDebited`; `ImplementsCalendar` (refinement of `RoomCalendar`) |
| `sequential` | 5 requests one at a time, renewals, contract switched off and on, daily job | `PaidForWhatIsHeld`, `LateRefundsWithinLimit`, `ClosedStaysClosed` |
| `schedule` | 3 requests one at a time; 2 weekdays, 2 rules, patches, blocked period, room closed and reopened; clock 0..5 | `SlotCheckSuffices`, `PlacedInOpenHours` |
| `money` | 2 clients, 2 contracts, 3 requests, 2 in flight; adjustments -2 and +1, renewals, closed contracts | `NeverOverdrawn`, `LedgerExplainsWallets`, `BalanceIsLedger`, `ChargedToOwner` |
| `lifecycle` | 1 client, 2 contracts ending at 0 or 1, patches, one renewal, days of 2, clock 0..3, worker deaths (1 while alerting) | `AlertedOncePerDay`; `OverdueIsExpired` (liveness) |
| `intervals` | all pairs of lists of up to 2 intervals over 0..4 | `SubtractsExactly`, `FitsIffFree`, `SlotsInOrder` |
| `billing_race` | 4 requests, 2 in flight, crashes; 2 invoices due at 4, days of 2, clock 0..4, the daily job | `TypeOK`, `UnderReviewHasReceipt`, `PaidByApproval`, `NotifiedOncePerDay` |
| `billing_sequential` | 5 requests one at a time, no crashes; 2 invoices due at 1, clock 0..2, the daily job | `ApprovedReceiptPays`, `ApprovedPaymentPays`, `PaidStaysPaid` |
| `sessions` | 1 tab with 2 calls and its refresh, 1 direct request, 1 account, 2 passwords, lost requests; tokens live 1 and 2, clock 0..2 | `TypeOK`, `LiveTokensEntitled`, `GuessesPaced`, `NoReplay`, `NobodyWaitsInVain` |
| `catalogue` | 3 requests, 2 in flight, deaths, 1 failing call; 1 room, 1 user, 2 images in 2 sizes, TTL 1 and 2, clock 0..3 | `TypeOK`, `PicturesStored`, `StaleNoLongerThanTtl`, `ExactWhenQuiet`, `TidyWhenQuiet` |
| `pages` | 1 tab with 2 flows, 1 client, 1 administrator, a client to be registered; 4 events of: 2 sign-ins, 2 presses, 1 fault, 1 call from another browser | `ShowsTheDatabase`, `ShownIsOwn`, `OnePerIntent` |
| `wrong_wallet` | 2 requests one at a time; 1 client, 2 contracts; expected to fail | `RefundedWhereDebited` |

`wrong_wallet` is expected to fail: it checks what a comment states of the program and the code does not keep (section 6).

*Bounds and why they are enough.* Every race of the hazards list is between two
handlers; a third and fourth request prepare the state (a booking to fight over) and
show the damage (a booking in the interval given up). Two credits make a one-hour and a
two-hour booking compete for the balance; days of four hours hold two disjoint bookings and
the hour no rule can open. Two intervals on each side reach every relative position
(disjoint, touching, nested, overlapping, equal, empty, inverted), a block that splits an
interval and a second one that rejoins it. A payment, its receipt, and two decisions that
race on them take four requests; two invoices let an approval pay the wrong one. An invoice made on the
first of the three days of `billing_race` is due on the last, so a job that lists it on the second may remind of it after
midnight, when the job of the last day lists it again (invoices fall overdue in `billing_sequential`). `Horizon`, `MaxContracts`, `Concurrency`,
`Deltas`, `ContractTerms`, `Patches`, `RenewalDates`, `RuleIds`, `RuleChoices`,
`RulePatches`, `BlockChoices`, `StatusChoices`, `Durations`, `DueDates`, `MaxDeaths`, `MaxResets`, `MaxLogins`, `MaxFaults`,
`MaxImages`, `MaxFiles`, `Patience`, `MaxPresses`, `MaxEvents`, `MaxElsewhere` and `OtherCalls` are the bounds; each is
a constant whose comment says so. For the new runs: two calls that meet a 401 together are what the single refresh is
for, and a third actor (an administrator, a reset link) revokes between them. Two images per room or
user give an old one to delete and a new one to store; three requests are a reader that computes an old view, a
writer that invalidates it and a reader that sees the result. In the browser a flow, whatever overlaps it, and a fault
or another browser's call in their middle are three events; the sign-in before them is the fourth. Two sign-ins
that overlap, the link between them and a form sent from the page that results are four as well. `Patience` is an assumption of
its own: a read that has computed a view stores it within that time. Requests are interchangeable, hence the symmetry set; the
liveness run uses none.

*One request at a time.* The properties of `sequential`, `schedule`, `billing_sequential` and the server side of `sessions` are about what
the operations mean; with two requests in flight most of them fail, for the reasons
in section 6. They are worth checking without concurrency because they need up to five
operations in the wrong order, clock included, to fail. A deadlock check is switched off
where the system may stop: when every request has been served and the clock has reached its bound.

Only `pages` leaves the deadlock check on: there a tab can always be reloaded.

*Fairness.* Only `lifecycle` assumes any. The scheduler enqueues the contracts job every day and the worker goes on with
the one it has taken: its query, its looks and alerts, and the step from alerts to sweep are weakly fair. The update of each
contract is strongly fair: the worker may die in a run, but not always before it gets to that contract (deaths while alerting are
bounded by `MaxDeaths`). A renewal in progress ends. Patches, renewals and the clock need no fairness. Without strong fairness
the property fails: a worker that dies in every run expires nothing.

## 4. Proofs

`BookingProofs` proves, for any number of requests, contracts, rooms, rules and clients,
any bounds and any choice of inputs within the named assumptions (`RuntimeAssumption`,
`CreditsAssumption`, `ContractsAssumption`, `SchedulesAssumption`, `ReservationsAssumption`):

* `TypeCorrect`: `Spec => []TypeOK`. The type of `loc` depends on `pc`: a request at a stage
  holds exactly the locals that stage needs. One lemma per service (`CreateEffect`,
  `CancelEffect`, ..., `SchedulesEffect`) shows that each action keeps the request table's types and has
  one of a few effects on wallets and reservations (`Effect`): nothing, one credit operation with
  an amount of the right sign, one admitted write.
* `ExclusiveRooms`: `Spec => []NoDoubleBooking`. Inductive with `TypeOK`: `AdmittedWrite` shows that one
  admitted write keeps the table free of overlaps. What requests have read does not enter, which is the point.
* `Solvency`: `Spec => []NeverOverdrawn`. Needs that refunds, grants and the durations of stored reservations
  are not negative, which is where the type invariant comes in.
* `LedgerIntegrity`: `Spec => []LedgerExplainsWallets`. Inductive with `TypeOK`, one case per credit operation.
* `AdjustmentsAreEntered`: `Spec => []BalanceIsLedger` where no request dies (`~Crashes`, as in `money`; section 6 has the other case).
  `LedgerLacksAdjustments`: what the ledger of a wallet lacks is the sum of the adjustments between their two writes
  (`SumsTo`, by an enumeration of the requests at that stage), so any number of them may be under way at once.
* `BookingImplementsCalendar`: `Spec => ImplementsCalendar`, the refinement of `RoomCalendar`. `WriteIsHold` maps an admitted
  write to `Hold` of the new row's instants, or of none if its status holds no room; the exclusion constraint gives `Hold` its guard. All other steps stutter.
* `BookedAndDebited`, `OwnersPay`: `Spec => []BookedIffDebited`, `Spec => []ChargedToOwner`. Neither is inductive: a commit trusts what
  its request read many steps before. `TrailOf` says what that is worth (a booking is not there yet; the reservation of any other
  request is there; the contract to charge is its user's), and `OwnersStay` and `RowsKept` why it lasts: rows are never
  removed and neither reservations nor contracts change hands. `Accounts` adds that debits are not negative and only what is booked is charged.

`SequentialProofs` takes the same module with `Concurrency = 1` and finitely many requests, the hypothesis of the runs `sequential`
and `schedule`, and leaves everything else open, deaths of requests included. `Solo` says that at most one request is in flight, and
none while a job runs; `Remembers`, that what it has read is still so. Together with `TypeOK` and the trails of
`BookingProofs` the two are inductive, and with them each commit acts as if its handler were one atomic operation
(`AtomicStep`), whose alternatives the rest is about:

* `SequentialClosedStaysClosed`, `SequentialPlacedInOpenHours` (action properties): what the handler checked holds where it writes.
* `SequentialSlotCheckSuffices`: the statuses the slot check looks at and those of the constraint agree on stored rows.
* `SequentialPaidForWhatIsHeld`: `Paid` relates the status and hours of a row to what was spent on it over all wallets.
* `SequentialLateRefundsWithinLimit`: with the hypothesis `LimitsNeverLowered`; an administrator who lowers a limit below the refunds
  already granted breaks the bound at once. `LateRefundsCounted` is the invariant.

`LifecycleProofs`, from `AlertsAssumption` and those of its modules, for any deaths and any day length:

* `AlertsOncePerDay`: `Spec => []AlertedOncePerDay`. `DueIsUnalerted`: what the job learned from its look-back is still so when it alerts, from
  the day the job began on, since it is the only one to alert.

`IntervalProofs`, for lists of any length over any range of minutes:

* `SubtractionIsExact`, `SlotsComeInOrder`, `FreeHoursFit`: `Spec => []SubtractsExactly`, `[]SlotsInOrder`, `[]FitsIffFree`. The loops are the behaviour, so
  induction over the lists becomes an invariant of the loops: `LoopCovers` (the minutes built so far, per loop), `NoneEmpty`, and
  `MergeOrder` (what is merged lies before, and apart from, what is to come). `PiecesAreDifference` is the case of one interval and one block.
* `ClockRoundTrip`: minutes to HH:mm and back, 24:00 included.

`BillingProofs` does the same for `Billing`, from `RuntimeAssumption` and `BillingAssumption`:

* `TypeCorrect`: `Spec => []TypeOK`, with lemmas for the reads, the writes and the job.
* `ReviewedWithReceipt`: `Spec => []UnderReviewHasReceipt`. `NextPayments` classifies every step by what it does
  to payments and receipts (`PaymentStep`); each kind keeps the invariant, whatever was read before.
* `PaidThroughApproval`: `Spec => []PaidByApproval`. Not inductive alone: the second update of a direct approval
  trusts an id its request has held since its first read. `ApprovalTrail` says what such an id is worth: a request holds the
  id of a payment that was made, a request that has yet to insert its payment has none, and the one about to pay holds an
  approved one. `InvoiceStep` is what a step may then do to invoices.
* `NoticesOncePerDay`: `Spec => []NotifiedOncePerDay`. `NoticesInvariant`: nobody is told of an invoice before it is made, the job lists made
  ones only, and it looks back to the start of its own day, hence of any later one, which is why going on after midnight does no harm.
* `SequentialPaidStaysPaid`, `SequentialReceiptPays`, `SequentialPaymentPays`: `PaidStaysPaid`, `ApprovedReceiptPays` and `ApprovedPaymentPays` with
  `Concurrency = 1` and finitely many requests, as in `billing_sequential`. `OneAtATime`: what the one request read still holds. Only the third
  needs that no request dies: a direct approval is two updates (section 6).

`ApiClientProofs` is about the browser's shared refresh and the sessions behind it, from `ApiClientAssumption`, `SessionsAssumption` and `RuntimeAssumption`:

* `TypeCorrect`: `Spec => []TypeOK`. `Fits` says what a request holds at each stage, so that every token that is
  stored, sent or answered names a row that was issued; rows are only ever added.
* `NobodyWaitsInVainAlways`: `Spec => []NobodyWaitsInVain`. Inductive with the domain of `pc`. `ServeMoves` and `LaneMoves`
  show that most steps move one request to a stage in which it waits for nobody, and never make a refresh new;
  `AwaitKeepsInv` is the call that joins or starts a refresh, `SettleKeepsInv` the refresh that ends and takes all waiters of its tab along.
* `OneTabNeverReplays`: `Spec => []NoReplay` for one tab and no lost answers, any number of requests being served. `Unrepeated` follows the tokens of that
  tab: the pair it stores, the one its refresh presents and those that answers bring have not been traded in, and no two are the same.
  Lost answers and a second tab do break it (section 6).
* `SequentialSessionsEntitled`, `SequentialGuessesPaced`: `LiveTokensEntitled` and `GuessesPaced` with `Concurrency = 1` and finitely many requests, as in
  `sessions`, for any number of tabs and calls *sent* together, lost answers included. `Served` = `OneServed` (one request is between its
  database calls), `Current` (what it has read is still so), `LiveTokensEntitled` and `Paced`: verified wrong passwords are exactly those counted, and a lock says
  how many lockouts must have run out.

`CatalogueProofs` is about `RoomCatalogue` behind its cache; all five hold for any requests in flight, deaths and faults, without hypotheses
beyond the named assumptions:

* `TypeCorrect`: `Types`, rows, cache entries and the locals of each stage.
* `PicturesAreKept`: `Spec => []PicturesStored`. `Pictures` says who may show, upload or remove an image: an image is shown in one place, uploads and
  removals are apart from each other, an upload is in no row before its last variant is stored, and what is removed is in no row any more.
* `StalenessBounded`: `Spec => []StaleNoLongerThanTtl`. `Fresh`: an entry, or a view on its way into the cache, is what the database says or was
  read no later than it changed.
* `QuietCacheIsExact`, `QuietStoreIsTidy`: `ExactWhenQuiet` and `TidyWhenQuiet`. The ghost `calm` makes `AtMostOne` in flight an
  invariant; a wrong view is then one that this request has still to invalidate (`Exact`), a file without a row the one it is uploading or removing (`Tidy`).

`PagesProofs` is about the browser, for any users, lanes (`IsFiniteSet(Lanes)`) and bounds. `ClientStoreAssumption` and `OtherCallsAssumption`
(other browsers sign nobody up or in, create no account or contract and change no contract) are all it uses. What the pages let a user do is first reduced to four kinds of step
(`Moved`, `Pressed`, `SignedIn`, `Crashed`), so that the invariants need not look at pages:

* `ShownIsStored`: `Spec => []ShowsTheDatabase`. `AloneReads`: a flow that has had the tab to itself has read what the database still holds;
  `Faithful`: the screen then shows it, but for the notifications that were marked on the server and not yet on the screen.
* `OwnDataOnly`: `Spec => []ShownIsOwn`. `Session`: until a logout or a sign-in overlaps another flow (`mixed`), every flow carries the
  tokens of the user on the screen.
* `IntentsMadeOnce`: `Spec => []OnePerIntent`, for `"createRoom" \notin OtherCalls`, as in `pages`: a room made by another browser is of
  no form of this one. `RoomsMade` counts rooms and the forms whose room is still to be made against the forms sent with an administrator's
  tokens. It does not rest on `Session`: sign-ins and logouts may overlap as they like.

Every invariant and action property of the passing runs has its theorem. Those about one request at a time have it under the hypothesis that their runs
set, since they are no invariants of the concurrent system. Only model-checked: the liveness property `OverdueIsExpired`, which needs fairness and
hence ENABLED.

## 5. Plan

Done: the modules of section 2. Next, in this order:

1. `BookingTx`: bookings statement by statement, with row locks, waiting, deadlock victims
   and rollback; refines `Booking`.
2. The wallet reads of the browser (credit entries, chart data) and two tabs in `Pages`.

## 6. Known limits of the code

`wrong_wallet` shows that a cancellation refunds the wallet of the contract active *now*, while `credits.service.ts:147`
says "Refunds previously debited credits". What follows was met while modelling; each is the
answer TLC gives when the named bound is relaxed or the named property is checked, or is read off the code.

*Bookings.* Stale reads break the properties of `sequential` and `schedule` as soon as `Concurrency` is 2: two
cancellations that read one reservation as confirmed refund it twice (`PaidForWhatIsHeld`), two late ones both use the
last allowance (`LateRefundsWithinLimit`), a cancelled reservation is completed by a request that read it before
(`ClosedStaysClosed`), two reschedules settle against the same old duration (`PaidForWhatIsHeld`), the sweep expires a
contract renewed after its query, a room is booked after it was closed (`PlacedInOpenHours`), and two patches of one
rule leave it ending before it starts. When a request dies, a balance may change without its entry (`BalanceIsLedger`
in `money` with `Crashes`; `schema.prisma:336` says it never does). A reservation may be rescheduled to hours that
have passed, which line 38 of `reservations.service.ts` refuses to new ones.

*Billing.* A direct approval is two updates outside a transaction, and a death between them approves a payment whose
invoice stays unpaid (`ApprovedPaymentPays` in `billing_sequential` with `Crashes`; `payments.service.ts:49` says "all
in one transaction"). Rejecting the receipt of a payment approved directly reopens the payment under a paid invoice. A
cancellation overwrites an invoice that was paid after it was read (`PaidStaysPaid` with two requests).

*Contract alerts.* A contract is alerted on every day of its last thirty; the comment of `alertExpiringContracts` speaks of "once per threshold".

*Sessions.* With two requests served at a time a refresh or a login issues its token after a reset or a suspension has revoked all
others (`LiveTokensEntitled`), and wrong passwords tried together count as one. When the *answer* of a
refresh is lost (`LossyAnswers`), or two tabs share the stored pair, the old token is presented again, taken for theft, and every session of the
user ends (`NoReplay`). A logout during a refresh clears the tokens before the refresh stores new ones. After a refused refresh the tokens are gone
and the tab still shows the application.

*Catalogue.* With requests that overlap or die, replaced images and avatars leave files behind, uploads of photos share positions and
`upsertAddress` leaves an address nobody refers to (`TidyWhenQuiet`). A view computed before a change may be stored
after the invalidation and lives for its TTL; so does one whose deletion failed.

*Browser.* `ReceiptModal` and `RejectModal` use icons that `modals.tsx` does not import (its lines 1 to 17), and there is no error boundary: opening
either takes the application down, so receipts cannot be sent nor rejected from the browser. Hydrations that overlap may show the older state. A
logout that does not wait for an operation leaves that operation's rows on the screen, and its remaining calls carry the tokens of the next user. The
links between the two pages of guests stay enabled while a sign-in waits and draw a form at rest, so two sign-ins may overlap: a late answer to
`/users/me` then makes the tab one user's with the tokens of another, whose lists it shows (`ShownIsOwn` fails if `mixed` is not set there), and an
administrator's page may send forms that are refused. A hydration that fails after a successful write is reported as a failed operation: trying again
makes a second contract or room. Buttons outside forms are not disabled while they work. Forms keep the values they were opened with. A sign-up makes
an administrator (`auth.service.ts:146`). The client's agenda does not know of other clients' reservations nor of blocked periods, so the server
refuses hours shown as free.

What survives all of it is what the database enforces in the writing statement itself, or what one
transaction writes together: `NoDoubleBooking`, `NeverOverdrawn`, `BookedIffDebited`, the agreement of
wallets and ledger, and `UnderReviewHasReceipt`; in the browser, the single refresh of a tab and `OnePerIntent`.

## 7. Not modelled

Components with status `not_modelled` in `PROJECT.json`, each with its reason: read-only aggregation (dashboard),
write-only rows (audit), configuration, probes, fixtures. Of modelled components: `uploadDocument` of a contract (a file and its key, which no other code
reads), the throttle windows of other routes, image transcoding and file validation, storage drivers other than which files they hold, themes, toasts, filters,
input masks, charts and the read-only pages. Row locks and deadlock victims inside a transaction are not modelled
either (section 2, *Transactions*).
