# RICEpay in TLA+

RICEpay sends USDC from a browser wallet through a fee contract on Base. The
API (`apps/api`, NestJS, Prisma, PostgreSQL) never holds keys: it records
transactions, hears about them from the chain, issues receipts and notifies
people. The web client (`apps/web`) drives the wallet and follows the status.
The contract (`packages/contracts`) takes the amount and splits it into what
the receiver gets and the fee.

This directory specifies the parts of that system that concurrency, failure and
arithmetic make hard, checks them with TLC on small instances, and proves what
matters most with TLAPS for every instance.

## Inventory

| Part | State | Operations | What is hard | What makes it right |
|---|---|---|---|---|
| Transaction tracking (`api/src/tx`, `webhooks`) | Transaction and Receipt rows, SSE stream | POST /tx, Alchemy webhook, cleanup and backfill jobs | every handler awaits several times and interleaves with all the others; events are lost, repeated, reordered; RPC calls fail or lag | status agrees with the chain, no return to PENDING, one receipt of posted details, confirmations never overstated, mined transactions get settled |
| Receipt share links (`receipt`, `auth`) | `shareToken`, nonce and signature caches | issue, rotate, revoke | read, then conditional write; late answers on the page | at most one live link; a revoke with an expected token removes no other |
| Fee contract (`packages/contracts`) | USDC balances, allowances | `transferWithFee`, `quote`, `minSend` | clamping, amounts around the minimum fee | balances are conserved; the contract keeps nothing; fee within its bounds |
| Fee preview (`fees`, `web/lib/fees`) | gas price cache | preview, policy | retry after a timeout, a second implementation of the fee from a market price | preview agrees with the contract when USDC is at par |
| Sending (`useUSDC`, `sendUsdcWithFeePull`) | wallet, allowance, pending hash | approve, transfer, POST /tx | any step may fail after the one before succeeded | a sent transfer is posted or can be found |
| Client status (`useTxStatus`) | refs: stream, poll, requests, timers; the status shown | follow a hash, poll, stream, reconnect, hide, go offline | answers and messages of an old hash, timers nobody clears, one lock for two requests | the page shows its own transaction, announces an outcome once, always listens to something |
| Rates and prices (`fx`, `prices`, `fees`) | caches with expiry, the last good snapshot | preview, get rate | late and incomplete answers, provider failure, two readings in one preview | what a client is told is at most so old and of one piece; every preview is answered |
| Compliance (`compliance`) | caches of lookups and blocked places, circuit breaker, sanctions table and its version | guard, preflight, sync | provider failures, stale caches, overlapping and partial syncs, a failing audit | nobody gets through to a listed address, decisions follow the tables, each leaves its row |
| Notifications, devices, push | rows by wallet | create, list, mark, register | repeated events | no promise stated in the code |
| Activity feed | receipts by cursor (read only) | page, filter | a page of the old filter arriving late | no page of another filter, none twice |
| Address book | one list in browser storage; what each page shows | create, update, remove, undo, mark used, list, filter | every operation reads and writes the whole list; two tabs, overlapping clicks, timers of older deletions | no address twice, only a stale save loses an entry, pages show the book |

Interactions: the client posts a hash (`POST /tx`) after the wallet sent the
transfer; the provider calls `POST /webhooks/alchemy`; both and the two jobs
write the same Transaction row, and the first two create its Receipt. Status
changes of the first two go to the SSE stream, which the client's status hook
hears beside its polls. The guard of `POST /tx` asks geofence and sanctions
first; the form asks for the fee preview and the rate before it sends, and takes
addresses from the address book. The webhook asks the notifications module for
rows. Share links change receipts afterwards, the activity feed reads them.
Start-up, health, layout, deployment scripts and
stateless request checks are not modelled (see `PROJECT.json`).

## Modules

    TxStore            tables, stream, chain, clock        (schema.prisma, tx.stream.ts, receipt.service.ts:45)
      TxService        POST /tx                            (tx.service.ts:24)
      AlchemyWebhook   POST /webhooks/alchemy              (alchemy.controller.ts, tx.service.ts:123, tx.handler.ts)
      TxJobs           cleanup and backfill                (tx.cleanup.cron.ts, tx.cron.ts)
        TxTracking     composition, properties, inductive invariant, refinement
          TxTrackingProofs   theorems on its states (TLAPS)
            TxLifecycleProofs  theorems on its steps, refinement (TLAPS)
          MCTxTracking       instance for TLC
    TxLifecycle        what tracking promises, without handlers or jobs

    ShareToken         the share link on the server        (receipt.controller.ts, receipt.service.ts:73-216)
      SharePages       pages that use it, properties, refinement (ShareIssueRotateButton.tsx, ShareRevokeButton.tsx)
        ShareProofs    theorems (TLAPS)
        MCShare        instance for TLC
    ShareLink          what a share link promises: requests that act at one instant

    TransferPull       contract, its fee and the API's preview of it (RicePayTransferPull.sol, fee-policy.util.ts)
      SendFlow         sending from several tabs, properties, refinement (SendUSDCForm.tsx, useUSDC.ts, sendUsdcWithFeePull.ts)
        SendProofs     theorems (TLAPS)
        MCSend         instance for TLC
    Payments           what sending promises of money

    TxStatusHook       how a page follows its transaction  (useTxStatus.ts, SendUSDCForm.tsx)
      HookProofs       theorems (TLAPS)

    GeoPolicy          whom the geofence refuses           (utils/geo.ts, geofence.service.ts)
    SanctionsSources   providers, breaker, sync            (sanctions.service.ts, providers/, sanctions.sync.service.ts)
      Compliance       guard and preflight over both, properties (compliance.guard.ts, compliance.controller.ts)
        ComplianceProofs   theorems (TLAPS)
        MCCompliance   instance for TLC

    AddressBook        the stored list and its pages, properties (local-address-book.ts, useAddressBook.ts, AddressBookPage.tsx)
      AddressBookProofs  theorems (TLAPS)
      MCAddressBook    instance for TLC

    RateCache          previews, prices and rates, properties (fees.service.ts, prices.service.ts, fx.service.ts)
      RateProofs       theorems (TLAPS)
      MCRateCache      instance for TLC

How state and steps of the tracking correspond to the code:

- A Transaction row is `tx[h]`; `status = "NONE"` means there is no row. `from`,
  `to`, `token`, `amount` are written together by every statement of the code
  and are one value of `Details`, or `Placeholder` (the zero addresses and
  nulls of a row a webhook created). `Complete` is what `essentialsReady`
  accepts.
- A handler or job is a record with a program counter and the local variables
  it still needs. Each step of a handler is the code between two awaits, with
  the effect of the awaited database or RPC call; everybody else's steps come in
  between. `UpsertPending`, `PushAndLook`, `PostSnapshot` are the three parts
  of `upsertPending`; `FindTransaction` ... `HookSnapshot` are the parts of
  `handle`, `handleTxConfirmed` and `applyWebhookUpdate`; `ListStale`,
  `AskHead`, `AskReceipt`, `Rectify` those of `cleanupStalePending`;
  `ListShallow`, `AskHead`, `AskReceipt`, `BackfillRow` those of
  `backfillConfirmations`.
- A Prisma upsert is one atomic step: its key is unique and its filter simple,
  so it becomes one `INSERT ... ON CONFLICT`.
- The environment: `MineBlock`, `DropTx`, `Age`, deliveries of any event that is
  true of the chain, at any time and any number of times, and the faults of
  `Faults`: a failing quote, a failing RPC call, an RPC node that lags, a
  handler or job that dies half-way.

Simplifications. One chain (a deployment has one, `lib/viem.ts`). A null number
and 0 are one value, since nothing here tells them apart. The explicit
`confirmations` field of a payload, which the code would use unchecked, is left
out: the provider's payloads the code reads do not carry it. The chain does not
reorganise. Rows of a batch are taken in any order, and the backfill's choice of
the rows updated longest ago is any choice. Requests rejected before they change
anything (guard, signature, IP lookup) are left out. A receipt is modelled by
its transfer and its source; rates and fees on it are not.

State and steps of the share links:

- `live` is the `shareToken` column of one receipt, 0 for null; `past` is a
  history variable, every token that has been in it. Tokens are random UUIDs
  that never repeat, so they are numbered as they are drawn; a request draws its
  token when it comes in, which nobody sees before it is written.
- `req[r]` is a request with its program counter: `ReadReceipt` is the first
  `findUnique` with the checks that follow it, `FillToken`, `ReplaceToken` and
  `RemoveToken` are the three conditional or unconditional updates, `ReadAgain`
  the second look of a request whose update matched no row. Each is one database
  call; the audit rows in between have no effect and their failure is caught.
- A request is signed by an owner of the receipt or not (`Owner`). Nonce,
  signature, origin and expiry concern one request alone: a request that does
  not pass them fails (`Fail`) without effect, like one that meets a database
  error. The nonce and signature caches are therefore not state of the model.
- `shown[p]` is the token a page shows. A page has one request of its link
  buttons and one of its revoke button in flight at a time, since each component
  disables its own buttons only; answers come in any order or never
  (`LoseAnswer`). A caller without a page may send any request, with or without
  an expected token.

`ShareLink` gives each request one step between call and answer. It is
implemented with the real steps as they are, and two places deserve a remark:
a revoke without expected token that finds no token to remove takes effect
there, before its second look, so that look may answer `noop` while a new link
is already live; and a revoke with an expected token that was overtaken takes
effect at its second look.

State and steps of sending:

- A contract call is atomic, so `TransferWithFee` is one step: the pull of the
  amount and the two parts handed on (`Paid`), or a revert that changes nothing.
  `Fee` is `_calcFee`; `PreviewFees` are the fees the API may announce for the
  same amount, at a quoted price of USDC. USDC's balances and allowances are
  external.
- A press of Send is a process, `form[f].press`; one tab has one at a time, since
  the button is locked while `isSending`. Its steps are the code between two
  awaits: preflight, reading balance and allowance (`CheckFunds`), the wallet
  signing an approval, its receipt, the gas estimate, the wallet signing the
  transfer, its receipt, POST /tx and its answer. `form[f].view` is `txState`
  with the transaction it is about, `form[f].hash` what `useTxStatus` follows.
- Every await can throw, or the owner decline: one catch shows "failed" and
  returns no hash (`Throw`). A tab can be closed or loaded anew at any point
  (`Close`). What the wallet has signed goes on without the tab.
- The button looks at the amount after 400 ms without typing, `transfer` takes
  the amount of the moment: `PressSend` lets them differ.
- `quote`'s FEE_TOO_HIGH is thrown inside the `try` that ignores a failing quote,
  so it stops nothing: `CheckFunds` has no such guard, and it is `Estimate` that
  refuses such an amount.
- The wallet numbers its transactions and the chain settles them in that order
  (`tx`, `settled`). The owner may have it replace a waiting one by the same call
  at a higher price or by an empty one. `waitForTransactionReceipt` then answers
  the receipt of the replacement, as viem does; `kept` is whether the hash the
  code goes on with is the one a block has.
- An estimate is made on the state of the last block (`est` remembers which).
  The wallet is used from these tabs only and receives nothing meanwhile.

Not promised, because the code does not: "failed" may be shown for a transfer
that was signed and is paid later (a wait or the POST threw), nothing is posted
then, a POST may be refused after the payment, and the status of an approval's
receipt is not looked at. The tracking learns of such transfers from the
webhook.

State and steps of the status hook:

- `hook` holds the refs and the state of `useTxStatus`. A stream, a poll, a
  request or a reconnect timer works for the hash of the render it comes from:
  that is its field `hash`, while `hook.hash` is the hash of now. Transactions
  are numbered in the order the page sends them. The comparison of a record's
  confirmations with `minConfirmations` is left out; the form keeps its default.
- A step is one handler of the page run to its end; `FetchOnce`, `StartPolling`,
  `StartSSE`, `FireCallbacks` are functions from one state of the hook to the
  next, which the handlers compose. An aborted request rejects right after the
  handler that aborted it, so its `finally` is part of that step (`Follow`):
  it unlocks, and delays, the requests of the new hash.
- Intervals, back-off and debounce are flags that `Elapse` takes back. A request
  answers any status the row has had since it was sent; a message of the stream
  comes at any time after its row was written, in any order.
- `haunted` remembers that a reconnect timer outlived its hash. Nobody clears
  that timer (useTxStatus.ts:254): it closes the stream of the new transaction
  for one of the old. What is promised of the page is promised until then.

State and steps of compliance:

- `req[q]` is a request in the guard or in the preflight, `check[q]` its call of
  the sanctions provider; `setting` is the configuration. Every provider is
  modelled, also those that the module's factory has commented out: a remote
  list asked each time, the same with cache and breaker, and the local table.
- `editions` are the lists as published; a sync asks for the changes since its
  version (`Read`, `Fetched`), writes row by row and stores the new one. Runs of
  several instances overlap. A row whose database call fails is swallowed, as
  the code does (`lost`).
- `BlockOn` holds the switches of the geofence that are on; `vpn_or_proxy` is one
  switch for two marks, as in the code.
- Time passes in ticks while no request is under way. The caches, the breaker
  and the histories `listedFor`, `placeAge`, `listsAge` count them.
- An audit row may fail to be written; what the answer then is depends on whether
  a `try` is around it (`Audited`).

State and steps of the address book:

- `stored` is the list in the browser's storage. A call (`call[c]`) is one click
  from its handler to its last reload, in steps between its awaits: `Load`,
  `Save`, `ListAgain`. Nothing locks the list in between.
- `page[p]` is what a tab shows, its filter, the deletion it offers to undo and
  the timers that are armed. A handler uses the state of the moment of its click:
  `filter` and `timer` of the call are these.
- `unseen` and `late` record for the properties why a page may show an older
  list: another tab wrote, or a click under an older filter reloaded.
- React runs the effect on `undoTimer`, which clears the timer before, soon after the
  state has changed: in `Offered` both are one step.

State and steps of rates:

- `req[r]` is a preview or a rate request with its step, the retries it has used
  and what it was told. Each step ends at an await: gas estimate, fee history,
  tip, prices for the gas, prices for the fee; or the providers of rates in their
  order.
- A snapshot of prices is the time it was asked for and whether it has both
  symbols; a rate is the time it was told. Gas limits and amounts are left out.

## Runs

| Run | Question | Instance |
|---|---|---|
| `TxRace` | Do POSTs and deliveries that overlap keep rows and receipts right? Does a payload of two transfers mix them up? Is `IInv` an invariant? | 2 transactions, 2 requests of each kind, 2 events, quote failures and aborts |
| `TxJobsRace` | Do the jobs write anything false, or break what is promised? | 1 transaction, 3 blocks, all verdicts, one run of each job, lag and aborts |
| `TxJobsLive` | Does the cleanup settle every stale row of a mined transaction, does the count reach the target? | 2 transactions, batches of 1, deliveries without event id for ever, RPC failures |
| `TxCleanupExpires` | refuted: a stale row whose transaction is in no block is given up | 1 transaction, no fault |
| `ShareRace` | Do overlapping issues, rotations and revokes answer the truth, and does a revoke remove only the link it is about? | an owner's page, a stranger's page, another owner's direct calls; 2 tokens drawn |
| `SendRace` | Is every payment whole, the screen true, the preview right and what is recorded settled, and does a simulated transfer revert only when another was paid meanwhile? | 2 tabs, an amount below every fee and one above the minimum, a leftover allowance or none, 3 transactions of the wallet, cancellations |
| `StatusHook` | Does the page show its own transaction, announce it once, and hear of its outcome at last? | 2 transactions of one page, rows pushed or not, hidden and offline at any time |
| `Compliance` | Does anybody get through whom the tables refuse, or pass without a row? Does the table cover its version? | 2 requests, 1 address, 2 syncs, 3 editions, the geofence in production and development, each provider |
| `AddressBook` | What do overlapping operations, reloads and timers leave behind? | 2 tabs, 3 clicks of any kind, 2 addresses, 2 filters, a book with an active or with a deleted entry |
| `Rates` | How old is what a client is told, is it of one piece, and is it told at all? | 2 requests, 1 preview, 2 providers, 5 ticks |
| `SanctionsCooldown` | refuted: the breaker is open only within the cooldown | 1 request at a time, the provider with a breaker |
| `SendCancelledRecorded` | refuted: what is recorded has a confirmation | 1 tab, replacements of both kinds |

Bounds: `MaxHead` bounds the blocks of a behaviour; everything else is finite by
itself (deliveries and posts repeat but the state they write does not grow). Two
requests of a kind are enough for every race in which one of them overtakes the
other; two transactions for everything that depends on which one an event, a
batch or a receipt is about; three blocks for a head read before the block of
a transaction, at it and after it. A batch of one with two stale rows is the
smallest in which the limit matters. `TxRace` leaves out what has runs of its own
or does not matter to it: the clock (`NoClock`, since only the cleanup looks at the
age of a row) and a second kind of details, so that receipts of one transfer differ
by who wrote them, POST or webhook, and those of two transfers by what was posted
for which. `TxJobsLive` is the smallest in which both jobs have work: no details are
complete, so that handlers end without a receipt, the target is one confirmation,
and the payload (`BareReport`) has neither event id nor block number, so that every
delivery resets the count.

`NotFoundIsNamed` is about a library. The cleanup looks for the word
`TransactionReceiptNotFoundError` in an error's message (tx.cleanup.cron.ts:103);
viem 2 has it in the error's name only, so the constant is FALSE of the code as it
is built. `TxJobsRace` takes TRUE and runs the branch that expires a row: its jobs may
die instead before they write, so its behaviours include those of FALSE. In a batch
of one a failed RPC call ends the run of the job, too, so the aborts stand for these
calls there. That a webhook's own RPC call fails, so that a row has a block but no
count, is in the proofs only, which hold for all faults and both values. `MaxDraws` bounds the
tokens of a behaviour of `ShareRace`: two are a link and the one that replaces
it, or the two tokens of issues that race (the proofs need no bound). `MaxSent`
bounds the wallet's transactions: three are an approval and two transfers that
compete for one balance or one allowance. The fee parameters of `SendRace` are
scaled down so that a rate above the minimum fee fits small balances; amounts at
the bounds of the fee are left to the theorems, which hold for all of them.
`MaxSends` bounds what a page of `StatusHook` sends: two transactions are an old
and a new one (the proofs need no bound). Its `CONSTRAINT` ends a behaviour
where a reconnect outlives its hash, which the properties except anyway; without
it the graph would only be larger. `MaxEdition` bounds the changes of the
sanctions list: three editions let a sync end with the version before the last
while another is at the last. `Threshold` is reached by three failures of two
requests with one retry each. Three clicks of `AddressBook` are the least in
which two of one tab overlap a third of another; an offer needs a deletion, and
a second deletion needs two. `MaxNow` lets prices run out twice in `Rates`. That
Alchemy's timeout is shorter than the time prices live is an assumption
(`RatesAssumption`), true of the defaults of five seconds and a minute.
`SYMMETRY` is used where no liveness is checked and the permuted values appear
in no `CHOOSE` and no order: handlers, requests, syncs, tabs and clicks.

Deadlock is checked in every run but two: in `AddressBook` each click happens
once and in `Rates` each request is answered once, so that these behaviours end.

Fairness. Of the tracking (`FairSpec`): weak fairness of each continuation of a
started handler or job, since Node runs it; weak fairness of listing, since the
cron fires for ever; weak fairness of the clock; strong fairness of the answers
of the RPC node to a call that is repeated for ever, since each failure ends one
attempt and the next run tries again. For receipts it is said of the calls of one
job together, which is enough where batches are of one row. Nothing makes a client post, the provider
deliver or the chain advance, and the liveness properties do not depend on it.
Of the status hook (`FairSpec`): weak fairness of the poll's interval and of
time, which the browser runs; of a connection attempt and of the first request,
which succeed or fail; strong fairness of an answer to the polls, which are
repeated for ever. Nobody has to come back to the page, and the API need not
push. Of previews (`Spec` of `RateCache`): weak fairness of each preview's next
step, as every wait of it has a timeout and a last attempt; the providers of
rates have no timeout in the code, so no fairness and no promise for them.

## What the code does besides

The runs check what holds. While modelling, these places were met in which the
code does something a reader may not expect; the models have all of them.

Tracking. A stale row whose transaction is in no block (dropped, replaced, of
another network, or never sent) is not expired: its not-found error is taken for a
failed call, the row stays PENDING and, being the oldest, is listed first in every
run, so that as many of them as a batch holds keep the cleanup from all others
(tx.cleanup.cron.ts:55, :103). That is the refuted claim of `TxCleanupExpires`; with
a message that names the error (`NotFoundIsNamed`) it holds, and then the cleanup may
also expire a row that a webhook has just confirmed, which the next verdict repairs.
A receipt whose quote failed is not made by the cron, as the comment at
tx.service.ts:107-108 has it: no job makes receipts. A later POST does, or a webhook
for the same row that is not a repetition of the last one; if neither comes there is
no receipt. No run says so. An event of several transfers updates the row of the
first only (alchemy.controller.ts:106), the others stay PENDING until the cleanup
finds them. A redelivered event
notifies again (alchemy.controller.ts:88). A nonce is looked up and deleted in
two steps (receipt.controller.ts:32).

Share links. A late answer to a revoke clears the new link of a rotation from
the page (ShareIssueRotateButton.tsx:201), although it works and stays valid for
everybody who has it.

Sending. A transfer that was sped up or cancelled in the wallet is shown as a
success and recorded under a hash that no block will have, whose row
stays PENDING, whether the money moved (sped up) or not (cancelled): the
refuted claim of `SendCancelledRecorded`. One catch serves the whole send
(useUSDC.ts:157); FEE_TOO_HIGH is thrown inside the try that ignores a failing
quote (sendUsdcWithFeePull.ts:66).

Status hook. A late poll replaces a final status on the page by an older one
(it is not announced again). The `finally` of an aborted request unlocks the
requests of the new hash. An open stream hears nothing of what the jobs write,
and its debounce drops a message that follows another within two seconds. A
reconnect timer outlives its hash, after which an outcome may be announced a
second time (the comment at useTxStatus.ts:18 says once).

Compliance. A lookup that failed is answered 500, and so are all requests from
that address while the failure is cached, instead of by the fail-open policy
(utils/geo.ts:241). The cooldown of the breaker has no effect: an open one lets
no call through that could succeed, and stays open (trm.provider.ts:44; the refuted
claim of `SanctionsCooldown`, and the theorem `NeverCloses`). A delisted address stays in the local
table, and a row that failed is never tried again (sanctions.sync.service.ts:94).

Address book. Two tabs, or two clicks, lose each other's changes. An undo
restores name and memo as they were last shown. An undo that ends after a newer
deletion drops that one's offer. A click made under the old filter leaves the
old filter's list on the page. `update` is offered by the hook and called by no
page.

Rates. The times to live of 15 and 5 at fees.service.ts:168 are milliseconds to
the cache. A snapshot without a symbol is cached and becomes the last good one,
so that previews fail until the next comes. A stale rate is answered only when
another request has just written one (fx.service.ts:47). The providers of rates
have no timeout. A caller whose address is not found makes `GET /fx` throw
(fx.controller.ts:22).

## Proofs

`TxTrackingProofs` proves, for all sets of transactions, details, requests,
events, payloads and faults, and from the ASSUMEs of the modules only:

- `TypeCorrect`: `Spec => []TypeOK`, one lemma per part (`PostStepType`,
  `HookStepType`, `JobStepType`, `EnvironmentType`).
- `Invariance`: `Spec => []IInv`. None of the safety properties is inductive by
  itself: a job writes the verdict it was told some steps ago, a webhook handler
  writes numbers computed when it arrived and a receipt from details it read
  earlier. `IInv` says what each of them knows that stays true while others act:
  what the node or the provider said of a transaction remains so (`HookOK`,
  `JobOK`, by `ChainStays`: a decided transaction stays decided), a listed or
  updated row still exists and has at most become posted (`Grows`), remembered
  details were posted (`PostOK`, `HookOK`). `RowStays`, `PostStays`,
  `HookStays`, `JobStays` show that the steps of others keep it,
  `PostStepInv`, `HookStepInv`, `JobStepInv` that one's own steps do.
- `StatusIsRight`, `ConfirmationsAreSound`, `ReceiptsShowPostedDetails`: its
  consequences.

`TxLifecycleProofs` proves, from `Invariance`, what steps do. `NextEffect` says that
every step changes nothing of the tables, is the upsert of a POST, gives a row a
new status and leaves its details (`Rewrites`: the chain's verdict, giving up or
the status it had), or writes a receipt where there is none (`Issues`); it is put
together from one lemma for each of the handlers and one for the jobs. The
theorems then go by effect:

- `NeverPendingAgain`, `OneReceiptForEver`, `DetailsSurvive`: the action properties.
- `LifecycleImplemented`: `Spec => ImplementsLifecycle`, with a lemma for each effect
  (`SubmitImplements`, `RewriteImplements`, `IssueImplements`) and one for the
  environment (`DecideImplements`).

`ShareProofs` proves, for all sets of pages and callers, whoever owns the receipt
and for any number of tokens:

- `ShareInvariance`: `Spec => []ShareIInv`. `ShownWasLive` needs to know where
  answers come from, `RevokeEndsWhatWasShown` which requests are a page's, and
  the refinement what a request may still rely on when others have written since
  it read: tokens in flight are unwritten and differ (`DrawsAreFresh`,
  `DrawsAreDistinct`), and an expected token that was overtaken cannot come back
  (`Course`). `ServerStepPreserves`, `ServerStepCourses`, `BeginPreserves` and
  `FinishPreserves` show that each kind of step keeps it; `ServerEffect`,
  `BeginEffect` and `FinishEffect` say once what these steps change.
- `ShareTypeCorrect`, `PagesShowLinks`, `RevokesAreCareful`: its consequences.
- `ShareLinkImplemented`: `Spec => ImplementsShareLink`, one lemma per group of
  actions (`ReadImplements`, `WriteImplements`, `ReadAgainImplements`,
  `FailImplements`, `BeginImplements`, `FinishImplements`).

`SendProofs` proves, for any tabs, accounts (which may coincide), amounts,
balances, leftover allowances, fee parameters, quoted prices and number of
transactions:

- `FeeInBounds`, `MinimumIsTheLimit`, `MoreArrives`, `PreviewClose` and
  `PaidByShares`, of the contract's arithmetic: the fee is in its bounds; an amount
  is refused as too small exactly below the minimum fee; who sends more pays no
  less and no less arrives (the rate is at most the whole, `FeeAssumption`); the
  preview is not below the fee while USDC is at par or above, and at most a unit
  above it at par or below; the transfer changes each account by its share of one
  payment. All but the last rest on `DivBounds` and
  `Scaled`, on rounded quotients.
- `SendInvariance`: `Spec => []SendIInv`. `RevertsNeedRace` is not inductive: it
  needs that an estimate that was good stays good until another transfer is paid
  (`StillOk`), for the presses and for the transactions signed with it
  (`NonceOK`), and `ScreenAgrees` and `RecordedAreSettled` need to know which
  transaction each press is about (`FormOK`). `TabSteps`, `SignSteps` and
  `ChainSteps` show that each kind of step keeps it, `SettleStep` and
  `BroadcastStep` what they have in common.
- `SendTypeCorrect`, `NoVainTransfers`, `ScreensAgree`, `RecordsAreSettled`,
  `PreviewsHold`: its consequences.
- `PaymentsImplemented`: `Spec => ImplementsPayments`. `SigningPlaces` and
  `SettlingSettles` are the steps that are not stuttering.

`HookProofs` proves, for any number of transactions of a page and any outcomes:

- `HookInvariance`: `Spec => []HookIInv`. `AnnouncedOnce` is not inductive: a
  stream, a poll or a request of an older hash could bring its record back. The
  invariant says that everything under way is for the transaction the page
  follows (`OwnAffairs`), until a reconnect outlives its hash; that what was
  announced is remembered in the refs (`Remembered`); and `NeverDeaf`.
  `QuietStep` is for the steps that hear nothing, `HeardStep` for those that do,
  `FollowFine` for the change of the hash.
- `HookTypeCorrect`, `HookListens`, `AnnouncesOnce`, `FollowsItsHash`: its
  consequences, the last one an action property.

`AddressBookProofs` proves, for any tabs, clicks, addresses, names, filters and
any lists stored at the beginning in which ids and active addresses differ
(`BookAssumption`):

- `ResultBook`, of the operations: what a call writes is such a list again and has
  every entry of the list it loaded, with its uses or more (`ChangedBook`,
  `AppendedBook`, `CreatedBook`).
- `BookInvariance`: `Spec => []BookIInv`. A call writes what it made of a list that
  was loaded some steps ago, so the loaded lists must be right (`CallFine`), and
  the name of a new entry must not be in any of them (`Named`); a page that does
  not show the book must know it or have a reading to come (`UpToDate`).
- `BookTypeCorrect`, `EachAddressOnce`, `PagesShowTheBook`, `OffersKeepTheirTime`:
  its consequences; `OnlyStaleSavesForget`: the action property, from
  `ResultBook`.

`RateProofs` proves, for any number of requests and queries, any times to live,
retries and providers, from `RatesAssumption` (the timeout is shorter than the
time prices live; `None` is no entry of a cache):

- `RatesInvariance`: `Spec => []RatesIInv`. What a client is told was read some
  awaits ago and written by another request before that, so none of the
  properties is inductive. The invariant says how old each cached entry may be
  (`CachesFine`), of which snapshots a cached preview is made (`PreviewsFine`), and
  of each request what holds of the items it has taken (`Sound`) and what it may
  still expect of the caches when it goes on (`Relies`). `OwnStep` keeps it for the
  others while one moves; `EarlySteps`, `FxSteps`, `AnsweredStep`, `ReadStep`,
  `RescueStep`, `ComeStep` are the steps.
- `RatesTypeCorrect`, `NothingOutdated`, `PricedByOneSnapshot`: its consequences;
  `KnownPricesSuffice`, the action property: while whole prices are remembered no
  preview fails for want of them.

`ComplianceProofs` proves, for any configurations, clients, places, headers, lists
and addresses, and any number of requests and of syncs that overlap, from
`SourcesAssumption`, `PolicyAssumption` and `ComplianceAssumption` (times to live
are positive, a client is somewhere, no address is the word for none):

- `ComplianceInvariance`: `Spec => []ComplianceIInv`. A request decides by what
  caches held at one of its awaits, and the caches hold what was so when they
  were written. The invariant says how these ages compare: a cached lookup or
  list that is younger than the last change is right (`GeoFine`), a cached clearing
  is at least as old as the listing it does not know (`BreakerFine`), the table
  covers what each sync read, and what it fetched but for the rows to come
  (`FeedFine`, `RunFine`). Of each request it says what it was told and what that
  was worth (`ClearIsUnlisted`, `JudgedRightly`, `RowsThere`), and which call of the
  provider is its own (`CallsMatch`). `OneRequest` keeps this for the others when
  one moves, `AllRequests` when the world changes, `TickStep` when time passes;
  there is a lemma for each step of a request, of a provider and of a sync.
- `AnyRuleRefuses`, of the rules alone: any mark of a suspect refuses, and nothing
  else does; only an allowed network comes before them.
- `ComplianceTypeCorrect`, `ListedRefused`, `GeofenceFollows`, `VerdictsAudited`,
  `SyncCovers`: its consequences; `NeverCloses`, an action property (`OpenForGood`)
  that no run checks: a breaker that opened while no call is under way stays open.

Each inductive invariant was checked by TLC on the instance of its component's
run before it was proved (`IInv` still is, in `TxRace`). The type
invariants of the tracking (a part of `IInv`), of the share links and of sending
are proved and not run.

Only model-checked: the liveness properties (`StaleMinedResolves`,
`ConfirmationsReachTarget`, `EventuallyAnnounced`, `PreviewAnswered`), since fairness is out of the prover's reach. Every other
property of a passing run is a theorem.

## Not modelled

The option `timeoutMs` of the status hook, which nobody passes; the activity feed
and the receipt views, which only read (a change of the filter while a page is
loading asks for nothing, useActivity.ts:24, and the page that then comes is of the
old filter); rows of
notifications and devices, which are single statements on one row; the address
registration at the provider; guards and signature checks, which accept or
reject a request by itself; the audit's contents; wording, layout, start-up,
health and deployment. Compliance is assumed to be switched on
(`COMPLIANCE_ENABLED`), and the explicit country and region of a request are the
headers'.

## Plan

Done: the tracking, the share links, sending, the status hook, compliance, the
address book, rates and prices. Left, in this order:

1. Compositions: sending with the tracking, so that a posted hash is a row; the
   tracking with the status hook, so that a pushed row is a message.
2. The nonce and signature caches of the share links as state, if a promise of
   theirs turns out to be worth stating.
