# The carbon credit marketplace in TLA+

The repository is a marketplace for carbon credits earned by electric vehicles: eleven services in
TypeScript (NestJS), Java (Spring) and Python (FastAPI), each with its own MySQL or PostgreSQL
database, that call each other over HTTP and exchange events over RabbitMQ, and a React frontend.
This directory holds TLA+ models of the parts that keep state others rely on, the TLC runs that
check them and the proofs that TLAPS checks. Every definition that models code is traced to its
lines in `PROJECT.json` (`map`); so are the hazards the properties are aimed at (`hazards`), and
the disagreements with a text of the repository that a run demonstrates (`findings`).

## 1. The system and its parts

| Component | State | Operations | Talks to | What is hard | What makes it correct | Module |
|---|---|---|---|---|---|---|
| Wallet_Service, escrow (`reserves.service.ts`, `reserve-cleanup.service.ts`, `transaction-event.consumer.ts`) | `wallets`, `reserves`, `wallet_transactions` | reserve, settle, release, release of expired reserves | called by HTTP and by `transaction.*` events | reads and saves with awaits between them, no locks; redelivery; cron against consumers; calls cut short | locks and charges once; audit trail never ahead; no money made; expired reserves come free | **Reserves**, **Escrow** |
| Payment_Service, payments (`payment.service.ts`) | `payments`, callbacks | create, return URL and IPN, expiry job | payment gateways, outbox | two callbacks and the expiry job on one row; failure between status and outbox | outcomes are true, one outcome and one event per payment | **Payments**, **PaymentLifecycle** |
| Payment_Service, outbox (`outbox-publisher.service.ts`, `outbox.service.ts`) | `outbox_events` | publish, retry, archive; a second job that only logs | RabbitMQ | two jobs on one table, stale rows, retries | only failures lose events, everything is sent in the end | **Payments** |
| Wallet_Service, money movements (`wallets.service.ts`, `withdrawals.service.ts`, `payment-event.consumer.ts`) | `wallets`, `wallet_transactions`, `withdrawals`, wallet cache | deposit, transfer, request, approve and reject a withdrawal, balance query | Payment_Service, admins, Redis | stale cache written back, row locks in two orders, two admins | balances agree with the ledger, a withdrawal is deducted once, locks are released | **Funds** |
| Transaction_Service (`transaction.service.ts`) | `transactions` | purchase of a listing | listing, wallet and credit services, certificate service by event | a saga without compensation: lost answers, crashes, concurrent purchases of one listing | completed means delivered, delivered means paid | **Purchase** |
| credit-service (`CreditServiceImpl`, `VerificationEventListener`) | `credits`, `credit_transactions` | create account, add, deduct, transfer; mint for an approved trip | trip-service by HTTP, events of Verification-Service | unlocked read-modify-write, minting that is not idempotent, a poison message | credits add up; one mint per trip and way | **Purchase** (transfer), **Minting** |
| listing-service (`ListingServiceImpl`, `TransactionServiceImpl`, `AuctionService`, `BidServiceImpl`) | `listings`, `bids`, `transactions` | create, update, delete a listing; buy at a fixed price; bid (two variants), cancel a bid, close expired auctions | Transaction_Service, users, cron, Certificate-Service by event | snapshots without locks or versions, cron against bidders, cancelled bids, ids of two forms | the highest bid wins, nothing oversold, every auction closes | **Listings**, **Auction**; **Purchase** (update, delete) |
| trip-service (`TripServiceImpl`, `VerificationEventListener`) | `trips` | upload, submit, complete, delete; verified by event | Verification-Service, credit-service | a remote call inside a transaction, status overridden by late events, two ways to mint | a trip earns once on each way | **Minting** |
| Verification-Service (`verification_service.py`) | `verifications` | create, approve, reject | publishes after its commit | a crash between commit and event | what is announced is minted | **Minting** |
| Certificate-Service (`certificate_service.py`, `consumer.py`) | `certificates`, PDF files | issue for a purchase or on request, download, revoke | events of listing-service and Transaction_Service | row and file without a common transaction, requeueing of every exception, a consumer that ends, no idempotency | one certificate per purchase, its file exists, none is forgotten | **Certificates** |
| User_Service (`auth.service.ts`, `user.service.ts`, `kyc.service.ts`, consumers) | users, profiles, KYC documents, cached profile | register, confirm the address, login, KYC documents and verdicts, profile, lock, suspend, delete | Admin_Service and Wallet_Service by events | whole-row saves, events out of order, a cache | account status is the last decision; KYC follows the documents; users see their own edits | **Accounts**, **Reviews** |
| Admin_Service (`user-management.service.ts`, `override-request.service.ts`, consumers) | managed users, override requests, audit log | decisions on accounts, edits of users, override requests | User_Service by events | two admins on one request, a copy of a row kept by events | decisions stand, the copy agrees | **Accounts**, **Reviews** |
| Wallet_Service, account events (`user-event.consumer.ts`) | `wallets.status` | suspend, reactivate, close a wallet | User_Service | five queues without a common order, whole-row saves that race with money | a wallet is usable iff its user is | **Accounts** |
| CCM-Frontend (`pages/`) | what a page shows and awaits | load, filter, search, turn pages, act on a row, look at it | all services | answers out of order, closures that read old fields, dialogs that vanish, two clicks | rows answer the last question, actions go one at a time, spinners end | **Screens**, **Pages** |
| Notification_Service (`notification.service.ts`, `event-consumer.service.ts`) | `notifications`, `notification_preferences`, cached unread counts | tell an event through two channels, preferences, mark read, delete | events of all services, the browser | preferences created by whoever finds none, redelivery, rows saved from memory, a cache that answers undefined | every event is told, once, where the user wants it | not modelled: no other service acts on what it does |
| Payment_Service, gateway providers | none | build URLs, check signatures | the gateways | pure functions of strings | | not modelled: Payments takes their verdict as an input |
| gateway, libs/events | none | routing, type declarations | | | | not modelled: no state |

How a credit is born and sold: a trip is uploaded and submitted, a verifier approves it, and the
`verification.approved` event mints credits (completing the trip mints them too); the owner lists
credits, at a fixed price or in an auction; a buyer tops up his wallet through a payment gateway
(`payment.completed` reaches the wallet through the outbox), buys a listing, Transaction_Service
reserves and settles the money and transfers the credits, and `credit.purchased` makes
Certificate-Service print a certificate. Administrators lock accounts, judge KYC documents and
decide withdrawals; what they decide travels by event from Admin_Service to User_Service to
Wallet_Service.

## 2. Modules

    Escrow                what the wallet promises about escrow, one step per call
    Reserves              the escrow as the code has it; implements Escrow
      MCReserves          its instances
      ReservesProofs      its theorems
    PaymentLifecycle      what Payment_Service promises about a payment
    Payments              payments and the outbox with its two jobs; implements PaymentLifecycle
      MCPayments, PaymentsProofs
    Funds                 deposits, transfers, withdrawals, the wallet cache, the escrow in one step
      MCFunds, FundsProofs
    Purchase              the saga: reserve, settlement and cleanup, credit transfer, listing update
      MCPurchase, PurchaseAndAccountsProofs
    Auction               what an auction promises
    Listings              listings, bids, auctions and the cron; implements Auction
      MCListings, ListingsProofs
    Minting               trip-service, Verification-Service and credit-service around one trip
      MCMinting, MintingProofs
    Accounts              one account in Admin_Service, User_Service and Wallet_Service
      MCAccounts, PurchaseAndAccountsProofs
    Reviews               KYC documents, the profile and its copies, override requests
      MCReviews, ReviewsProofs
    Screens               what each page of the frontend asks for, and when
    Pages                 the life all pages share, over Screens
      MCPages, CertificatesAndPagesProofs
    Certificates          certificates, their files and the queue of purchases
      MCCertificates, CertificatesAndPagesProofs

`PurchaseAndAccountsProofs` and `CertificatesAndPagesProofs` hold the theorems of two components
each, which share neither state nor definitions.

Conventions common to all of them:

- A call in progress is a handler (a worker, where services run threads): a variable (`pc`, or the
  `op` and `stage` of `work`) says where it stands, others hold the rows it has in memory. Each
  `await` of a TypeScript service is one step, and what happens between two awaits is part of the
  step. A Java request is one database transaction: it reads when it begins and writes when it
  commits, unless it calls or publishes on the way, which are steps of their own.
- A save of an entity writes the whole row held in memory. TypeORM and Hibernate compare it with
  the row they read to find what differs; a column the handler never touched is written back with
  the value it read, which is what a stale entity amounts to. Where a statement updates single
  columns, so does the model.
- Where a module does not have the queue of a message, any handler can start for any request at
  any time, up to `MaxCalls`. That covers duplicated, delayed, lost and reordered messages, which
  RabbitMQ and the unacknowledged consumers permit.
- `Abort` cuts one call short at an await or rolls it back; `Crash` ends all of them. Each is
  bounded by `MaxAborts`, `MaxFaults` or `MaxFailures`.
- Requests the code refuses change nothing and are left out.
- Variables commented "history" are read by properties only. They say where two calls overlapped
  (`crossed`, `torn`, `raced`, `disturbed`, `trouble`), or where something failed between two
  writes (`again`, `intact`): the code has no locks or versions there, and what it then does is
  not promised by anyone.
- Definitions introduced by "Fault:" are not part of any specification. They are the small
  programming errors each property has been tried against.

### Reserves

One handler per `reserveFunds`, `releaseFunds` or `settleFunds` call; `Cron` is the slot of the
cleanup job, which lists the expired reserves once (`sweep`) and releases them one by one. The
unique index on `reserves.transaction_id` is `MayInsert`, that on (wallet, reference, type) of
`wallet_transactions` is `AppendLog` and the guard of `SettleSaveLog`. `settleFunds` repeats its
search for the reserve and its reading of `locked_balance`; only the last repetition matters. The
amounts are integers: the decimal columns are exact.

Calls overlap as they like: nothing in the service keeps two of them apart. When two meet on a
wallet, either may save a row it read before the other's save, or both may act on a reserve they
found ACTIVE; `crossed` then marks every wallet that one of the two touches. What the books of a
wallet promise is stated for the wallets that are not marked, whatever happens to the others; what
survives every overlap is stated for all.

### Escrow and the refinement

`Escrow` locks, returns and pays in one step each. `Reserves` implements it under the mapping that
shows a wallet with the saves in progress already done (`SettledRow`): a call takes effect when it
saves the reserve, before it saves the wallets. Once a call is cut short, or two calls meet on a
wallet, the code repairs nothing, so the promise holds while `intact`, and nobody assumes that it
stays so.

### Payments

One handler per HTTP request; `batch` and `posting` are the run of the publisher, `skim` that of
the logging job, `sweep` that of the expiry job. Rows are saved as they were read, which is how
the logging job can mark PUBLISHED an event the publisher never sent. `payment_events` and the
callback records are read by nothing and left out.

`mode`, chosen by `Init` and constant, says which of the questions is asked: `jobs`, the outbox
jobs that run (the service schedules both); `apart`, whether callbacks and the expiry of one
payment are kept from overlapping; `faults`, how many failures there may be. `ImplementsLifecycle`
is about `apart`, `EventuallySent` about the publisher alone, `OnlyFaultsLoseEvents` and
`OutcomesAreTrue` about all of them. In `PaymentLifecycle` a payment has one outcome and announces
it once (`Announce(p, e)`).

### Funds

`Regimes` are the deployments a run considers, chosen by `Init`: `cached` (Redis works, or the
no-op fallback is in place) and `apart` (calls that touch a common wallet do not overlap;
transfers still do, since they lock rows). Transfers wait for row locks and write at commit;
`TransferDeadlocked` is the database's deadlock detection. A transfer to oneself, which the code does
not refuse, loads one wallet twice and keeps the copy with the credit: the balance grows, which
`Booked` counts. Each reference moves one unit, which is
enough to tell a lost update from a correct one. Two transfers into the same wallet that does not
exist yet, which InnoDB may stop by a gap-lock deadlock, wait here.

### Purchase

Of the wallet the saga needs the reserve alone, and that is looked at and saved in separate steps:
`SettleFind` and `SettleSave` are the two ends of `settleFunds`, `ReleaseFind` and `ReleaseSave`
those of the cleanup's `releaseFunds`. Both may find it ACTIVE (`contested`), and the later save
stands. What happens to the wallets meanwhile is the business of Reserves; whether there is enough
money is left open here. `Break` loses a call or its answer at any point, fails the save of the
COMPLETED row, or ends the purchase as a crash does. The credit and listing services run each request
in a database transaction without locks: they read, and write when they commit. `crossed` records
the accounts on which two of these overlapped. A listing may be deleted under a purchase
(`SaveFails`).

### Listings and Auction

Every request, and every run of the cron that closes auctions, is `Begin` (the snapshot a
transaction reads) and a commit. `Highest` is the query both ways of bidding use; it counts
cancelled bids, as the query does. `BidOrRaise` has no limit in its query for the highest bid and
throws as soon as an auction has two, so it serves for the first bid and for raising the only one.
`Stuck` is `UUID.fromString` on the id of the winner, which throws for ids of the integer form
that `BidController` takes: the listing is found expired again by the next run, for ever. `Buy` is
the listing service's own purchase at a fixed price: `BuyPublish` sends `credit.purchased` inside
the transaction, and only `BuyCommit` records the purchase, so that in between, and for good after a
rollback, the event tells of a purchase that is not there. `DeleteCommit` takes away a listing; an
auction that has a bid by then stays, and an UPDATE of a listing that is gone goes unnoticed, where a
save of the entity throws. `Auction` states the promise: an open auction's highest bid only rises, and a closed one
goes to who made it, or to nobody below the reserve price. `Listings` implements it for auctions
whose transactions did not overlap.

### Minting

Trips, verifications and credit accounts with the three queues between them (`submitted`, `heard`,
`approved`, counted per trip since their messages have no order that matters). `Complete` calls
credit-service inside its transaction (`Call`, `Answer`), publishes, and commits; `Abort` undoes
the trip and not the credits. `Mint` is the listener of credit-service, whose exception requeues
the message; `CreateAccount` is its first transaction. `Co2` 0 is a trip so short that rounding
leaves nothing: credit-service refuses to mint 0, each time it is asked.

### Accounts

One account, its three rows and the two hops of an administrator's decision: `AdminRequest` reads
the managed user, `SaveManaged` writes it, `Publish` sends `admin.user.status_changed`;
`HandleStatusChanged` reads the user, `SaveUser` writes it, `Publish` sends one of five events;
`HandleWalletEvent` and `SaveWallet` do the same with the wallet, and `StartMove` and `SaveMove` are
the read and the save of a deposit, withdrawal or purchase, which looks at no status and saves the
whole row, taken from the table or from the cache. Each of the five events has its
own queue: of `toWallet`, the first of its type can be taken (`First`), which is how a lock and
its lifting cross. `trouble` collects what can set the rows apart, so that the properties can say
exactly what they exempt.

### Reviews

What handlers of User_Service and Admin_Service do about one user, each await a step: a verdict on
a document saves it, finds the others, saves `kyc_status`, publishes; a profile edit saves,
invalidates the cache, reads it back; an admin's edit saves the managed user and publishes; an
override is decided, then executed. The audit log that each of these writes to cannot fail it:
`AuditLogService.log` catches whatever it meets (`audit-log.service.ts:26-47`). `disturbed` records the topics that two handlers were busy
with at once.

### Screens and Pages

`Screens` describes each of the routed pages, and the menu of notifications, by what differs: how
its table loads, what stays usable meanwhile, what can be done to a row, which buttons are
disabled, how details open and what covers them while they wait. Each definition stands for the
handler or the part of the markup it abstracts from. What the detail dialog of `Listings` asks for
is the buyer's balance, without which the purchase is disabled. `MyListings` alone shows what it
kept of another row while it waits, so `RowsAnswerWhatWasAsked` excepts it. Three admin pages reset
their filters and load in one handler, which still has the text it clears in its closure: `ClearFields`
asks for that text, and `stale` says that rows answer it.
AdminReports keeps its rows in sight while it asks again, under a flag of its own (`refreshing`), which
its timer does not look at (`Poll`). `Pages`
is the rest: gestures of the user, questions in flight, answers in any order or lost, the closure
of a handler that reads the fields as they were at the click. `PagesInit` shows any of `Shown`.

### Certificates

The consumer takes one message at a time, and a message it refuses comes back before any other.
Issuing is three steps, row, file and URL, and a failure may strike between them. listing-service
writes `purchasedAt` as a number, which the consumer's schema refuses: those purchases are
`Unreadable`. The service's publisher is never opened, so that none of its own events is sent, and
nobody publishes `verification.trip.verified`. A start of the process may find no database, ten times
over, and run on without one, or no broker, and run on without a consumer (`process`, `Started`);
the consumer's thread ends with its connection and is not started again (`Disconnect`). A crash at any
time starts the process anew, in any of these ways.

## 3. What the runs check

Each run finishes in under five minutes with two workers.

| Run | Module | Shows |
|---|---|---|
| `reserves_any` | MCReserves | `LockAppliedOnce`, `LogFollowsTables` (and `TypeOK`) in every interleaving of two handlers and the cron; `BooksBalance` and `BalanceWithinRecords` of the wallets that are not `crossed` |
| `reserves_two` | MCReserves | the same two of two purchases from one wallet; the refinement `ImplementsEscrow`; `ExpiredReserveReclaimed`, whatever overlaps |
| `payments` | MCPayments | in all modes `OutcomesAreTrue`, `OnlyFaultsLoseEvents`; with the publisher alone `EventuallySent`; with callbacks and expiry apart the refinement `ImplementsLifecycle` |
| `payments_swallowed` | MCPayments | violation of `PublishedMeansSent` with both jobs: the logging job marks an event PUBLISHED that nobody sent |
| `funds` | MCFunds | `WithdrawnOnce`, `ApprovedIsDeducted`; `LedgerAddsUp` with calls apart and the cache off; `RowsGetUnlocked` |
| `purchase` | MCPurchase | `CompletedIsDelivered`, `DeliveredIsPaid`, `CreditsAddUp` |
| `listings` | MCListings | `NotOversold`, the refinement `ImplementsAuction`, `EndedIsClosed` |
| `minting` | MCMinting | `MintedOnce`, `BalanceIsEarned`, `AnnouncedIsMinted` |
| `accounts` | MCAccounts | `UserFollowsAdmin`, `WalletFollowsUser`, `LockReachesWallet` |
| `reviews` | MCReviews | `ApprovedHasEvidence`, `AdminKnowsKyc`, `DecisionStands`, `OwnEditsAreSeen` |
| `pages` | MCPages | `RowsAnswerWhatWasAsked`, `RowsShowOwnActions`, `OneAtATime`, `SpinnersEnd`, on every page |
| `certificates` | MCCertificates | `CertifiedOnce`, `DownloadsSucceed`, `PurchasesAreCertified` |

Every module states a type invariant, `TypeOK` (`AccountsTypeOK`, `PagesTypeOK`), which is proved; that
of Reserves is checked by a run, too. `ReserveNeverReopens` is only proved. No run checks deadlock: a
finite number of calls is made, and the system rests when they are done.

Bounds, and why they are enough for what can go wrong here:

- Two handlers, and the cron or the consumers beside them. Every race in these services is between
  two holders of one row; a third adds none of a new kind. Accounts has one request and two
  deliveries: a delivery races with the request, or with the other delivery.
- Two to four calls (`MaxCalls`): one that does something, and one to three that repeat, contradict
  or follow it. One or two failures (`MaxAborts`, `MaxFaults`, `MaxFailures`): one to leave a call
  half done, one to hit its repetition.
- `reserves_any`: one purchase, its two handlers and the cron, four calls, two aborts or crashes,
  handlers interchangeable (symmetry); the seller has no wallet, so that `SettleCreateSeller`
  happens. `reserves_two`: two purchases whose sum exceeds the buyer's balance (`Poor`), so that the
  second is refused, or competes with the first's release; one handler beside the cleanup job, which
  is enough for two calls to meet; two calls and one cut.
- `payments`: one payment and the three events it can queue: INITIATED, its outcome, a second
  outcome. `MaxRetry` 2 stands for 5: what matters is that an event can fail, be retried, and be
  spent. Two failures are allowed only in the mode with the publisher alone.
- `funds`: two users who pay each other, one of whom has no wallet until he deposits, one
  withdrawal, one deposit, one purchase, and a transfer of one of them to himself; three calls.
- `purchase`: s sells 2 kg of which b buys 1 and c all of it, so that the seller lacks credits for
  one of them; b sells on what he has not bought yet; s deletes the listing meanwhile.
- `listings`: an auction with a reserve price of 2 and an offer of 2 kg; one bidder with a UUID
  and one with an integer id; amounts 1 to 3, so that a bid misses the reserve price, meets it, or
  outbids; three calls beside the cron, one rollback.
- `minting`: two trips of one driver, so that two transactions meet on his account; one of the
  trips is rounded to nothing and comes back to the queue for ever.
- `accounts`: two decisions in all, any of the administrator's five or the lock and the deletion of
  the internal API, beside logins and the confirmation of the address; one movement of money.
- `reviews`: two documents, so that verdicts can differ; one override and two admins; four calls.
- `pages`: two rows and four gestures (`MaxGestures`): enough to turn a page and search again while
  the first answer is out, or to confirm an action, leave its dialog and confirm it for the other
  row.
- `certificates`: two purchases, one of which cannot be read, so that it is before or behind the
  other; three requests beside the consumer; two faults, so that a process that has come up without
  its database can be replaced by one that has it.

Fairness. Node runs the continuations of a handler it started as long as the process lives, and a
database runs the transactions it has begun: weak fairness of each handler's steps (`Step(h)` in
Reserves, Payments' sends and marks, Funds, `CommitStep(h)` in Listings, `Finish(w)` in Accounts,
`Step(Consumer)` in Certificates, the handlers of Minting). Schedulers keep starting their jobs:
`CleanupFind` and `CleanupRelease`, `PublisherFind`, `CloseFind`. A backoff ends. Consumers are
given the messages in their queues (`Deliver`, `Receive`, the listeners of Minting), those of
Certificate-Service while its consumer runs, since nothing starts it again; that of credit-service
strongly (`SF` of `HearApproved(t)`): it is one thread, but each message in its queue is delivered
again and again, and one that is requeued does not keep out those that are prefetched beside it. A
browser ends every request with an answer or an error (`Answers`). No fairness is assumed of
requests, gateways, users, failures or the loss of cache entries. Failures are bounded; a crash or
abort uses up part of the bound and the job starts again.

### Where the code and its texts disagree

The run `payments_swallowed` demonstrates one: app.module.ts schedules `OutboxService` beside the
real publisher, and `outbox.service.ts:51` marks PUBLISHED what it has only logged, where
`payment-event.service.ts:86` says "This ensures transactional publishing with Outbox pattern".

The other disagreements met while modelling are exempted in the properties, which say what still
holds:

- "Clear Filters" (`AdminTransactionsPage.tsx:151`; the button is at :335) and "Reset"
  (`AdminListings.tsx:120`, `AdminWalletsPage.tsx:157`) ask with the text they have just cleared, with
  nothing overlapping or failing, and on the first page nothing asks again: `stale` rows are exempt
  from `RowsAnswerWhatWasAsked`, and without that exemption the run ends after two gestures with rows
  that answer a text no longer shown;
- two overlapping `settleFunds` calls of one transaction both find it ACTIVE
  (`reserves.service.ts:167`), where README_TEST.md:128 speaks of idempotency: the wallets of both
  parties are `crossed` then, and a settlement and a release that meet leave a purchase `contested`;
- a second decision on a withdrawal overwrites the first when both read it PENDING
  (`withdrawals.service.ts:256`, ADMIN_WITHDRAWAL_GUIDE.md:196); `WithdrawnOnce` still holds;
- a deposit saves a wallet it took from the cache (`wallets.service.ts:188`): `LedgerAddsUp` is
  about deployments without it;
- the rollback a comment announces for a failed saga does not exist
  (`transaction.service.ts:141-142`); `DeliveredIsPaid` still holds, and the money of a purchase that
  stopped before its settlement comes free with its reserve (`ExpiredReserveReclaimed`);
- `credit.purchased` is sent before the purchase is committed (`TransactionServiceImpl.java:125`), so
  that a rollback leaves a certificate without one: `NotOversold` exempts it;
- a deposit that read the wallet before a suspension makes it ACTIVE again (`wallets.service.ts:188`):
  `WalletFollowsUser` exempts handlers that had read the row at once;
- an auction won under an id that is not a UUID is never closed (`AuctionService.java:180`);
- an approval whose publication fails is lost (`verification_service.py:176`);
- a suspended user who confirms his address is ACTIVE and logs in (`auth.service.ts:222`);
- a KYC status set by hand in Admin_Service is not sent (`user-management.service.ts:201`);
- what `init_db` returns is ignored (`main.py:33`), and a consumer that has lost its connection is
  not started again (`consumer.py:191`): `PurchasesAreCertified` exempts the time in between;
- Certificate-Service's publisher is never opened (`publisher.py:46`), and `routes.py:252` names a
  `VerificationMethod.PUBLIC` that does not exist.

## 4. What is proved

All theorems hold for every value of the constants: any number of users, purchases, handlers,
listings, trips, and any bounds, from the assumptions named in each module (`PurchaseAssumption`,
`TotalAssumption`, `OpeningAssumption` and `SlotAssumption` in Reserves, `PaymentsAssumption`,
`FundsAssumption`, `PurchaseAssumption`, `ListingAssumption`, `MintingAssumption`,
`AccountsAssumption`, `ReviewsAssumption`, `PagesAssumption`, `CertificatesAssumption`), which only
say that the constants are of the kinds meant: among them that a reference is not a user, that
references of different kinds differ, and that there are finitely many trips, as there must be for a
sum over a driver's trips to be one.

| Theorem | Module | Statement |
|---|---|---|
| `TypeCorrect` | ReservesProofs | `Spec => []TypeOK` |
| `LockOnce` | ReservesProofs | `Spec => []LockAppliedOnce` |
| `LogFollows` | ReservesProofs | `Spec => []LogFollowsTables` |
| `NeverReopens` | ReservesProofs | `Spec => ReserveNeverReopens` |
| `BooksAlwaysBalance` | ReservesProofs | `Spec => []BooksBalance` |
| `BalanceStaysWithinRecords` | ReservesProofs | `Spec => []BalanceWithinRecords` |
| `EscrowImplemented` | ReservesProofs | `Spec => ImplementsEscrow` |
| `OutcomesFollowGateway` | PaymentsProofs | `Spec => []OutcomesAreTrue` |
| `EventsOutliveOverlaps` | PaymentsProofs | `Spec => []OnlyFaultsLoseEvents` |
| `FollowsLifecycle` | PaymentsProofs | `Spec => ImplementsLifecycle` |
| `TypeCorrect` | PaymentsProofs | `Spec => []TypeOK` |
| `DeductedOnce` | FundsProofs | `Spec => []WithdrawnOnce` |
| `ApprovalIsDeduction` | FundsProofs | `Spec => []ApprovedIsDeducted` |
| `LedgerAlwaysAddsUp` | FundsProofs | `Spec => []LedgerAddsUp` |
| `TypeCorrect` | FundsProofs | `Spec => []TypeOK` |
| `DeliveryIsPaid` | PurchaseAndAccountsProofs | `Spec => []DeliveredIsPaid` |
| `CompletionIsDelivery` | PurchaseAndAccountsProofs | `Spec => []CompletedIsDelivered` |
| `CreditsAlwaysAddUp` | PurchaseAndAccountsProofs | `Spec => []CreditsAddUp` |
| `TypeCorrect` | PurchaseAndAccountsProofs | `Spec => []TypeOK` |
| `OffersAddUp` | ListingsProofs | `Spec => []NotOversold` |
| `AuctionImplemented` | ListingsProofs | `Spec => ImplementsAuction` |
| `TypeCorrect` | ListingsProofs | `Spec => []TypeOK` |
| `CreditsMintedOnce` | MintingProofs | `Spec => []MintedOnce` |
| `BalanceIsAlwaysEarned` | MintingProofs | `Spec => []BalanceIsEarned` |
| `TypeCorrect` | MintingProofs | `Spec => []TypeOK` |
| `AccountsTypeCorrect` | PurchaseAndAccountsProofs | `AccountsSpec => []AccountsTypeOK` |
| `UserFollows` | PurchaseAndAccountsProofs | `AccountsSpec => []UserFollowsAdmin` |
| `WalletFollows` | PurchaseAndAccountsProofs | `AccountsSpec => []WalletFollowsUser` |
| `DecisionsStand` | ReviewsProofs | `Spec => []DecisionStands` |
| `ApprovalHasEvidence` | ReviewsProofs | `Spec => []ApprovedHasEvidence` |
| `EditsAreSeen` | ReviewsProofs | `Spec => []OwnEditsAreSeen` |
| `AdminsKnow` | ReviewsProofs | `Spec => []AdminKnowsKyc` |
| `TypeCorrect` | ReviewsProofs | `Spec => []TypeOK` |
| `PagesTypeCorrect` | CertificatesAndPagesProofs | `PagesSpec => []PagesTypeOK` |
| `RowsAnswer` | CertificatesAndPagesProofs | `PagesSpec => []RowsAnswerWhatWasAsked` |
| `RowsShow` | CertificatesAndPagesProofs | `PagesSpec => []RowsShowOwnActions` |
| `OneGoesAtATime` | CertificatesAndPagesProofs | `PagesSpec => []OneAtATime` |
| `TypeCorrect` | CertificatesAndPagesProofs | `Spec => []TypeOK` |
| `OnceCertified` | CertificatesAndPagesProofs | `Spec => []CertifiedOnce` |
| `DownloadsFindFiles` | CertificatesAndPagesProofs | `Spec => []DownloadsSucceed` |

Where a type invariant is inductive as it stands (Reserves, Certificates) it is proved first. In
the other modules the types a property leans on are carried along, as conjuncts of its inductive
invariant, and the whole of `TypeOK` is shown last: it says more than types where code subtracts,
counts or remembers, and takes an invariant of its own. In each, a property is not inductive by itself: it speaks of tables, and says
nothing of what the calls in progress know about them. That is what the strengthenings add.

**Reserves.** `SafetyInv` adds what handlers know:

- `LockerKnows`: a handler between the insert of the reserve and its RESERVE row has inserted that
  reserve, and the row is not there yet;
- `OneLocker`: no two handlers stand there for one transaction;
- `CloserKnows`: a handler past the save of RELEASED or SETTLED works on a reserve that is closed;
  one that is about to save SETTLED, or past it, has made sure that the seller has a wallet; one
  that is about to write SETTLE_IN has SETTLE_OUT behind it;
- `LogInv`: `LogFollowsTables` itself.

It is preserved because a reserve leaves NONE once (the unique index), is never made ACTIVE again
once closed, and wallets are never deleted. Steps that move no handler into or out of these places
are dispatched together by `QuietStep`, those that save a closed reserve or write behind it by
`ClosingStep`. `NeverReopens` follows from `TypeOK`: only `ReserveSaveReserve` writes ACTIVE, and
only over NONE.

The books need no assumption on the calls: they are about the wallets that no overlap has touched.
`CrossInv` says which those are, and `EscrowInv` what is known about them:

- `AloneInv`: of two handlers at work on a common wallet, every wallet that either touches is
  crossed, which `Start` begins and every step keeps, a handler never touching more than when it
  started;
- `LateRelease`: a release that goes on although its reserve has been settled has met that
  settlement, so the seller, whom a release does not touch, is crossed too;
- `Knows`: so what a handler holds that is not all crossed (`Clean`) is still what the tables say, and
  a row it is about to save differs from the one that is there by the amount of its transaction;
- `WalletInv`: a user without a wallet has no money and has reserved none;
- `BookInv`, until a call is cut short: the row of each user who is not crossed, or the row that the
  handler at work is about to save over it (`Booked`), is what the reserves account for and covers
  what is locked (`Good`), and `settleFunds` has nothing to reconcile there;
- `RecordInv`, also after that: the balance is between the two bounds of `BalanceWithinRecords`, and
  a settlement that still has money to move or a record to write keeps clear of them by its amount
  (`Slack`).

A step writes only what its own handler touches (`Frame`), so `FrameStep` leaves for each of the
twenty-two steps what it does to its own handler and wallets; `QuietBooks` deals with those that save
nothing, `RecordBooks` with those that append a record. What a status change does to the sums is
`SumsActivated`, `SumsReleased` and `SumsSettled`, from `TotalAssumption` alone. For the refinement,
`PromisedInv`: until a call is cut short or two have met, the wallets that Escrow shows are a function
of the reserves. So a step that changes no reserve is a stutter, the three that do
(`ReserveChanges`) are `Hold`, `GiveBack` and `Pay`, and afterwards Escrow promises nothing.

**Payments.** `PaymentInv`: the types of requests, outbox and payments; `GatewayInv`, one request
at most creates a payment, the payer cannot answer before it has saved the URL, and a callback
comes after the answer; `TrueRows`, every queued outcome is the gateway's; `KeptInv`, while
nothing has failed a COMPLETED payment has its event or a handler that has saved the row and is
about to queue it. Outbox rows are never taken away (`RowsStay`), and a job's stale save restores
an older status of its event, not another event (`Copies`).

That Payments implements PaymentLifecycle needs more, in the mode `apart`: whoever is about to save
an outcome finds the payment PENDING (`AloneInv`: a request that creates it is done before it is
late, one callback at a time works on it, and the expiry job does not); one row tells of an
outcome, the one the payment has (`NewsInv`); a slot of the outbox without a row was never sent
(`SentInv`). With these (`LifeInv`) each step maps to `Open`, `Close` or `Announce`, or to none:
an event is announced the first time it is sent, and sent again the lifecycle does not move.
For `TypeOK`, `RetryInv`: no row and no job's copy of one counts more retries than there were
failures.

**Funds.** `CallType` says what each call works on. `DeductInv`: a handler behind the insert of
the ledger row (`Deducting`, `Deducted`) has the row and is the only one that is about to save the
wallet, because the unique reference admits one; APPROVED is written and announced behind that
save only. Steps that go nowhere near are dispatched together by `QuietStep`.

`QuietInv` is about the deployment of which `LedgerAddsUp` speaks, and gives `LedgerInv` there. A
deposit saves the wallet and then the ledger, an approval the ledger and then the wallet, so that in
between the wallet is ahead of its ledger by one unit; `Settled` says that it is so then (`Ahead`)
and at no other time. `Place` says what a call holds wherever it stands: the wallet as it is, or the
wallet it is about to save; that a deposit past its look at the ledger has no row there; and that a
transfer past its reads has both locks and the sender's balance. `Apart` makes all of this survive
the steps of others (`OthersPlaces`), and `AheadAlone` says that nobody else is in between on a
wallet a call works on. What a row of the ledger adds to the sums of each user is `SumsGrow`; a
transfer to oneself adds and takes nothing, since the copy with the credit is what is kept.
`WholeType` carries the types of tables, handlers and bounds along with `CallType`.

**Purchase.** `SagaInv`: the types, and `Progress`, which relates the place of each saga to the
status of its reserve and to the credits delivered. A saga is the only one that acts for its
purchase, so that overlaps of purchases do not matter; the cleanup job is the only other one that
saves its reserve. `Paid` says what the two make of it: once the settlement has been saved the
reserve is SETTLED, unless the cleanup had found it too, which was recorded when the later of the two
found it (`contested`).

`CreditInv` is about the accounts: as long as no two transfers of a user overlapped (`crossed`), what
the one in progress has read of his account is what is there (`ReadIsCurrent`), and it is alone on
it. The delivery of t then moves its amount from one sum over `delivered` to another. That such a sum
grows by the amount of what is added, for every finite set and in every order of summation, is the
section Sums: `MapThenSumSet` is a recursive function whose steps are unique (`IterExists`,
`IterChanges`), shown by looking for a least counterexample, since a principle of induction cannot
be instantiated here.

`GoodsInv`, for `TypeOK`: a transfer in progress has read that the seller has what it takes, so that
even the stale balance that is saved of two that overlap is not below 0.

**Listings.** `OfferInv`: the types of offers, `Holds` (what a transaction in progress works on),
`Fresh` (a transaction on an offer that no other overlapped holds the row as it is, and is alone),
`StockInv`: what is left and what is sold add up, and nothing is sold of an offer that has not been
created; and `Recorded`, while nothing is rolled back: an event tells of a purchase that is
recorded, or whose transaction has still to commit. The seller's whole-row save then writes back the
stock as it is.

For the refinement, `HouseInv`. `HouseRows`: a bid is on a listing that exists, what does not exist
has no winner, and one bid on an auction is higher than all others. `Seen`: what a transaction has
made sure of among the rows it has read. `Linked`: bids are never deleted or moved, and a listing
that was deleted is not created again, so that an index into the rows read is still the same bid's.
`Current`: as long as no two transactions overlapped on an auction (`torn`), what the one at work
has read of it is what is there, and it is alone. So a commit on an auction is a step of Auction or
none (a bid raises the price, a close names the leader, a cancellation or the seller's save ends it,
a deletion ends one without a bid), and on any other auction it is none. What is torn is not
promised to be an auction. `ReadInv`, for `TypeOK`: a transaction has read the row of every listing
it works on, and of no other.

**Minting.** `MintInv`: `ApprovalInv`, a trip is approved once, and its message and its credits
together are at most one until a fault repeats the message; `CompletionInv`, the credits of a
completed trip that is neither torn nor struck are there only when it is VERIFIED or gone, or the
one request that has it open is about to make it so, and no other request presumes that it has
earned nothing (`Earning`).

`BalanceInv` is about accounts: as long as no two transactions met on a driver's account (`raced`),
it holds the CO2 of what was minted for his trips, and the one that is adding to it has read what is
there, or has read that there is no account and finds none, or is refused. A trip's credits add its
CO2 to the sum of its driver and to no other (`EarnsMore`), by the same section Sums as in Purchase.
For `TypeOK`, `QueuesInv`: what the listener of trip-service works on is still in its queue, so that
it never takes out more than was published.

**Accounts.** `AccountsType`: what each worker is doing and the row it has read. `AloneInv`: until
two workers met on a row (`trouble` says on which), one is at work on it and what it has read is
what is there, or of the wallet, with a deposit, what was in the cache (`stale`): so no save undoes
another, and every movement of money is in the row (`MovesKept`). The properties speak of the moment when everything has been delivered, so the
invariants have to speak of what is still on its way. `AdminInv`: the last decision under way is the
one the administrator's row shows. It is where the message has got to: a worker that has saved and
is about to publish, or else the end of the queue, or else the delivery at work; and if there is
none, the user has it. The last one is all that counts, because a decision that finds no other block
in place sets both flags. `WalletInv` says the same of the wallet (`LastIsMeant`), whose five queues
keep the order of publication unless two types crossed; it needs `DeletedIsLast` as well, since a
closed wallet ignores a reactivation, so that nothing may follow the deletion on the way there.

**Pages.** `PagesInv` is one invariant of every page. `ListInv`: as long as the list is undisturbed
one question at most is in flight, and it, or the rows if there is none, are what was asked for last,
as of the last action, unless that was a reset that still asked for its text (`stale`). `ActionsInv`: each action in flight took a gesture, which bounds the versions
of the rows. `FlagInv`: what the flag of a page let through keeps it up, and is alone. `DetailsInv`:
as long as no two questions about details crossed, the one in flight and the answer shown are about
the row of the dialog. Of the pages themselves only `DetailsAreKnown` is used, that their dialogs
open in one of the ways the model distinguishes, and it is proved for each page in `Routes`; the rest
is `GestureStep`, what any gesture does to the questions in flight: where it is undisturbed it sends
one at most, and that one is what the fields then ask for (`Meaning`).

**Reviews.** `ReviewType`: what each handler is about and the rows it may hold. A handler touches
one topic only (`Moves`), so that a step leaves the other topics as they are (`Away`, `MovesAway`),
and each property has an invariant about its own topic, which holds until that topic is disturbed.
In all of them one handler at most is at work on the topic. `Orderly` adds that the override is as
that handler read it; `PapersInv`, that it knows what it found, and that `kyc_status` and documents
may differ only between the verdict and its save; `ProfileInv`, that what it is about to cache is
what is there, and that an old copy stays only until it is removed; `ToldInv`, that the last event
in the queue, or else the row about to be saved for one, or else the row that is there, has the
status User_Service goes by, but while it is still to be published (`Told`). `Bounded` bounds the
calls, the faults and what may be disturbed, for `TypeOK`.

**Certificates.** `QueueInv`: a message stays at the head of the queue as long as the consumer
works on it, and purchases are announced once; `CertInv`: rows of a purchase whose message is
still queued exist only if the consumer is at work on it, or it was delivered again; `FilesInv`: a
worker that is about to save the URL has written the file, and so has every row with a URL.

Only model-checked: liveness (`ExpiredReserveReclaimed`, `EventuallySent`, `RowsGetUnlocked`,
`EndedIsClosed`, `AnnouncedIsMinted`, `LockReachesWallet`, `SpinnersEnd`, `PurchasesAreCertified`),
since what fairness gives rests on ENABLED, which is out of the prover's reach. Every other
invariant, action property and refinement that a passing run checks is a theorem. Induction over
data is reached only where, as for the sums above, a least counterexample can be taken among the
natural numbers.

## 5. What the models do not show

- The properties stated for the mode `apart`, or for what is not `crossed`, `contested`, `torn`,
  `raced`, `disturbed` or in `trouble`, fail without that restriction: the code has no locks or
  versions where they would be needed.
- Purchase leaves open whether a wallet can pay, and knows nothing of money but the status of the
  reserve; that the wallet keeps its books is the subject of Reserves, for the wallets on which no two
  calls meet.
- Doubles (credits, prices, CO2) are integers, and no rounding is studied but the one that leaves
  a trip without credits. Passwords, tokens, sessions, signatures of gateways, validation of
  requests, formatting, logging and reports are left out.
- `deductBalance` (Wallet_Service), `getListingDetails` (listing-service) and `retryFailedEvents`
  (Payment_Service) have no caller. `deductCredit` (credit-service) is called only by a purchase
  of `ListingServiceImpl` that nothing calls. The frontend has four pages no route reaches
  (AdminKYCNew, AdminWithdrawalsNew, pages/AdminTransactions, pages/AdminWallets).
- No amount is modelled in the browser. The button on a card of `Listings` opens the purchase
  without asking for the balance (only the detail dialog does), and compares the price with the one
  asked for last, 0 at first: a hazard of the page, which the services' own check makes harmless.
- Not modelled: Notification_Service, which other services only tell of events; vehicles, action
  logs and mails of User_Service; reports and the read-only wallet administration; the layout of certificates; the
  pure functions of the payment gateways; the nginx gateway and the shared event types, which have
  no state.

## 6. Plan

Done, in the order of what a failure would cost: Reserves and Escrow, Payments, Funds, Purchase,
Listings, Minting, Accounts, Reviews, Pages, Certificates, each with its theorems.

Left: Notification_Service. Its handlers run beside each other, `getPreferences`
(`notification.service.ts:233`) inserts what two of them find missing, and an event that is requeued is
told again: what a model would have to say is that an event reaches each channel its user left on.
