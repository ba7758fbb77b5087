# economy-lab in TLA+

TLA+ models of economy-lab, a double-entry ledger for a virtual-credit economy
(buyers, sellers, a platform, an external payout rail), with TLC runs on small
instances and TLAPS proofs for all of them. `PROJECT.json` maps every definition
to the source lines it stands for; paths below are relative to `src/src/`.

## The system

A host calls `economy.submit(operation)`. Each submit is one database
transaction on one of three interchangeable stores (`engines/postgres.ts`,
`engines/mysql.ts`, `adapters/memory.ts`) that claims the operation's
idempotency key, screens the subject's spend velocity, locks accounts, runs the
handler in `operations/`, posts balanced legs, enqueues events and records the
result under the key. A worker process (`worker/`) runs sweeps on a schedule: it
drives payouts through an external rail, renews subscriptions, expires promos,
drains parked seller shares, relays the outbox, drains the webhook inbox, seals
checkpoints, archives and deletes old rows. Sweeps may overlap each other, other
worker processes and submits; the database is all they share.

| Component | State | Operations | Meets | Hard behaviour | What makes it correct |
|---|---|---|---|---|---|
| payout handlers and sweep (`operations/requestPayout.ts`, `settlePayout.ts`, `reversePayout.ts`, `worker/payouts.ts`) | `payout_sagas`, `PAYOUT_RESERVE`, events | request, claim, submit to rail, probe, settle, reverse, dead-letter, bump | rail, webhooks, operators, other sweeps | stale copies, calls that time out after they worked, crashes between the rail call and the row, late reports | the reserve leaves once and matches the row; the rail gets the sealed amount; each payout ends |
| submit pipeline (`economy.ts`, `ledger.ts`) | idempotency rows, locks | submit, submitBatch | every handler | concurrent retries, rejections that roll back, transient conflicts | at most once per key, true answers, no waiting circle |
| spend and refund (`operations/spend.ts`, `refund.ts`) | sales, balances, `reversed:` keys | spend, refund | pipeline, retention, accrual | two identities per request (key and order) | one charge and one reversal per order |
| trust store (`trust.ts`) | attempts per subject | record, bump, read | pipeline | record-then-measure, rollback erases the attempt | the limit holds, probes are counted |
| retention (`worker/retention.ts`) | keys, session journals | delete old | pipeline | keys that still protect something | no second execution |
| clawback, reverse, adjust, topUp, promo, entitlements, subscriptions (`operations/`) | sales, promo grants, entitlements, subscriptions | one handler each | pipeline | reversals of reversals, shared order keys | each posting undone once |
| subscription, promo and accrual sweeps (`worker/`) | due rows, parked shares | renew, retry, lapse, expire, drain | submits of the same rows | a cancel racing a renewal, a refund racing a drain | charged once a period, a share paid once |
| outbox relay (`worker/relay.ts`) | outbox rows, attempts | claim, deliver, mark, dead-letter | dispatcher, other relays | delivered but not marked | at least once, never lost |
| webhooks and inbox (`server.ts`, `webhooks.ts`, `worker/inbox.ts`) | claimed event ids, inbox rows, attempts | claim, record, drain, dead-letter, revive | provider, submit, supervisor | redeliveries, overlapping drains, an answer lost after the posting | one posting per event, the queue drains |
| chain, checkpoints, archive (`chain.ts`, `worker/checkpoint.ts`, `archive.ts`) | chain links, heads, seals | append, seal, prune, verify | every posting | concurrent appends, pruned prefixes | one linear chain per account |
| netting, instances, cluster (`netting.ts`, `instance.ts`, `cluster.ts`, `router.ts`) | journal, escrow, epochs | open, net, settle, recover | ledger, orphan sweep | crash before settlement, split ownership | escrow returns in full |
| treasury and reconcile (`worker/treasury.ts`, `reconcile.ts`, `integrity.ts`) | platform balances | fee sweep, compare | ledger | sweeping revenue not matured | surplus never negative |
| balance cache (`economy.ts`, `adapters/redis.ts`) | cached balances | fill, invalidate | submits | a fill overtaken by an invalidation | staleness bounded |
| maturity, pricing, money (`maturity.ts`, `pricing.ts`, `money.ts`) | none (pure) | lots, splits, rounding | handlers | rounding, boundaries | sums preserved |
| supervisor (`ops/`) | detector state | detect, act, audit | worker | flapping | one action per episode |
| HTTP, adapters, config (`adapters/http*.ts`, `config.ts`) | none of their own | transport, parsing | all | none of protocol | not modelled |

The hazards list in `PROJECT.json` names the lines where these behaviours bite.

## Modules

| Module | Models |
|---|---|
| `PayoutSaga` | the payout saga: request, overlapping sweeps, rail, settle and reverse transactions, faults |
| `PayoutContract` | what a payout promises, without any of that machinery |
| `MCPayoutSaga` | TLC instances of `PayoutSaga` |
| `PayoutSaga_proofs` | the theorems about `PayoutSaga` |
| `SubmitPipeline` | `economy.submit` with spend and refund |
| `MCSubmitPipeline` | TLC instances of `SubmitPipeline` |
| `Inbox` | the webhook route from its replay gate on, the inbox, its drains, the supervisor's revivals |
| `OutboxRelay` | the outbox and its relays |
| `MCInbox`, `MCOutboxRelay` | their TLC instances |
| `Sums`, `Sums_proofs` | the sums balances are made of, and the facts about them every proof about money cites |
| `SubmitPipeline_proofs`, `Subscriptions_proofs`, `Market_proofs` | the theorems about those components |
| `Queues_proofs` | the theorems about `Inbox` and `OutboxRelay` |
| `Market` | the books: top-up, promo, spend, refund, clawback, reverse, adjust, entitlements, the accrual split and its drain, the promo expiry sweep |
| `Subscriptions` | subscribe, cancel and the renewal sweep |
| `Netting` | one instance lane and its netting session, from purchase to settlement, recovery and pruning |
| `Chain` | chain links, seals and the archive |
| `Chain_proofs` | the theorems about `Chain` |
| `Treasury` | credit maturity, backing, the fee sweep |
| `Settlement_proofs` | the theorems about `Treasury` and `Netting` |
| `MCMarket`, `MCSubscriptions`, `MCNetting`, `MCChain`, `MCTreasury` | their TLC instances |

Definitions commented "Slip" or "Mutant" are wrong variants of the one that
follows them. No specification uses them; each shows that a property notices
that bug.

### PayoutSaga

`row` is `payout_sagas`; `anchor` is the amount sealed in the reserve posting,
which `assertSagaAnchored` recomputes from the hashed chain; `books` holds the
net postings per saga; `outbox` its events; `rail` the external provider.

`claimDue` locks rows only for the length of its own autocommit statement
(`engines/postgres.ts:1463`), so a worker process is one item of one sweep
holding a *copy* of the row, and two of them may hold copies of the same row.
From there on the code's protection is the compare-and-set of `sagas.advance`,
whose patch leaves every column it does not name. The steps of an item are those
between which another process can act: the claim, the provider call, the write
after it, the probe, the reschedule, the dead letter, the bump. A provider call
that throws may still have reached the rail (`SubmitFails` with `takenUp`).
`StoreFault` is an exception of a store call, at every step that makes one;
where it goes next is the error boundary of `advanceOne` (`OnError`). Settle and
reverse load the row in one step and write in a later one, because the
autocommit writes of a sweep take no lock that the load would wait for.

Time is relative: `wait` is `dueAt - now` and `age` is `now - updatedAt`, capped
one past the last threshold the code compares it with. A copy waiting to be
judged keeps ageing, for `checkSubmitted` reads the clock when it runs.
`sinceSubmit` is a history variable.

`EditRow` is an edit of the saga table around the application. The code defends
against it by re-deriving every row from its posting, so the model contains it.

Abstracted: amounts are small numbers; the reserve's shards are one account;
the payee and accrual-debt gates of `requestPayout` only refuse more; its
maturity gate is in `Treasury`.

### SubmitPipeline

A call is a process. Its writes stay in its own record until commit (both
engines run READ COMMITTED); until then others see only its locks: the
placeholder of a claimed key, the velocity lock of the subject, the account
rows. `Begin` may submit any operation at any time, so retries, redeliveries and
concurrent duplicates are all present.

`idem` holds operation keys and `reversed:<order>` keys, each free, claimed with
no result (`null`) or recorded. `posts` counts postings per operation; the sale
row, the event and the attempt commit with the posting, so one counter stands
for them. Accounts are numbered in id order, the order of `lockAll` and
`lockMany`: 1 and 2 are the shards of `promo_float`, 3 `receivable`, 4 and 5 the
shards of `revenue`, 6 and 7 two wallets. Refund locks 1, 3 and 4, reads the
sale, and then locks the accounts of its posting.

Rejections roll back, and the attempt the rollback erased is recorded again
outside the transaction before the caller is answered (`Rebump`). `Conflict` is
the transient error that `withTransientRetry` retries, `Fault` any other error,
`Crash` the end of the process.

Abstracted: validation, authorization and the pause gate refuse without a trace;
one price stands for the legs of a spend, which `Market` has, and its maturity
gate, which `Treasury` has; the database's deadlock detector is not modelled,
since `CallEnds` holds without it.

### Inbox

`seen` is the replay store, `row` the inbox table, `posts` the postings under the
events' `whk:` keys, `drain` the running drains. `gated` says whether the host
wired a replay store; it is chosen once. `ReplayGate` and `HandleWebhook` are two
steps, since the gate's claim is a statement of its own and the handler a later
transaction.

As with payouts, `claimInbound` locks rows only for its own statement, so two
drains may hold copies of one row, and every write is one statement guarded by
`status = 'pending'`. A drain's step is one store call or one `submit`. `submit`
is taken at its promise (`SubmitPipeline` is its model): it answers committed the
first time and duplicate from then on, or declines, or throws, possibly after its
commit landed. Dead letters of thrown errors are logged before they are written;
the supervisor counts those log signals up to its threshold (`signals`) and
revives the oldest dead rows, at most `maxActionAttempts` times. Declined rows
are not logged as dead letters, yet a revival may pick them, as in the code.

Abstracted: decoding and signatures; the operation an event stands for; the
supervisor's cooldown and containment, which only suppress (its pass may at any
time do nothing).

### OutboxRelay

`row` is the outbox, `delivered` what the receiver has got, `relay` the running
relays with their copies and their tally of sent messages, which is marked at
the end of the batch in one statement. The dispatcher may throw before or after
the message arrived. A mark that fails is only logged; for the model that is the
same as a relay that dies before it. `failures` is a history variable.

The attempt counts of ended rows in both queues are set to 0, for nothing reads
them again.

### Market

`bal` holds every balance in the direction its account grows, `posted` the legs
of each transaction, `rows` the accrual rows, `grants` the promo grants, `keys`
the `reversed:` keys. A handler holds the locks of all it touches from its reads
to its commit, so it is one action; how such transactions interleave while they
wait for locks is `SubmitPipeline`'s subject. The promo sweep is not one action:
`claimDue` is a statement of its own, and the sweep goes on with copies, one
transaction for each grant.

A spend draws promo credits first, takes the fee rounded up (`feeForPrice`) and
gives the rest to the seller, or parks it with a row under the accrual setting,
which an operator may switch (`SwitchAccrual`). A refund goes by the rows of the
sale, caps what it takes at what an account holds, books the rest as a
receivable and leaves recovery rows for shares already drained; the drain nets
those against later shares and carries the rest (`Residual`). `corrected`,
`shortfall` and `refunds` are history: they say what operators moved by hand, up
and down apart, and what refunds could not collect, so that the invariants are
exact equations.

Abstracted: one seller a sale, one sku, one shard; a whole credit is the unit.

### Subscriptions

`row` is the table, `keys` the billing keys `sub:<id>:p<period>`, `perk` the
entitlement. As with payouts, a sweep works on copies, and `renew`, `recordRetry`
and `lapseAtomically` are transactions of their own. `recordRetry` writes the whole copy
back with `open`, which is an upsert: when the row has changed since the claim
(cancelled, renewed, lapsed), the retry undoes that. The model keeps such rows in
the history variable `rewrote`, because most promises about a row end there.
`RenewFails` with `committed` is a renewal whose acknowledgement is lost.

Abstracted: equal prices, a period of one tick, the split of the price.

### Netting

One lane. A purchase funds or holds, grants the item, reserves at the shared
registry, and is journaled in batches. A settlement posts the net in chunks, each
a transaction; a chunk the ledger refuses makes it compensate the posted ones
and replay the movements one by one; then the reservations are released under a
durable claim, refused grants are revoked, holds released, escrows returned, and
the settled event sent. `run["lane"]` is the owner's settle, `run["rec"]` that of
a recovery, by the orphan sweep or a failover host, which knows the journal and
the ledger only. Every store call of a settle can fail (`FaultSteps`), with its
transaction undone; `Crash` loses a process's memory.

Abstracted: every purchase costs one credit and buys its own sku; the hash chain
of the journal is its sequence numbers.

### Chain

`postings` are in commit-order sequence with the state open, stored, pruned or
void; a hash is the sequence number of the posting, which assumes no more than
that digests do not collide. A seal reads the heads (`SealStart`), proves, fully
or from the sealed heads of the last seal (`SealProve`), stores its checkpoint
and then the snapshot of heads, possibly half of it before it dies. The archive
reads a page, copies it to the sink, moves its signed boundary, prunes, each
in a statement of its own. Seals and archives run one after the other in one
worker; postings commit meanwhile.

Not here: edited rows. So what a seal refuses in the model is what it refuses on
an honest ledger, and `RefusalsExplained` lists all of it. The detection of
edits is a matter of hashing.

### Treasury

`postings` are the entries of the accounts the fee sweep reads, `balance` the
`account_balances` rows, `pruned` how many of the oldest postings the archive
deleted, `undone` those refunded or reversed. A lot of an account is a stored
posting that raised it; `Slice` is what it covers of the balance, newest first.
`FullScan` is `maturedBalanceFullScan`, the reference the repository's own tests
compare with.

Users are owed what is in `Custodial`: their wallets and the escrows of their
sessions (`classify`). Of a session there is what it posts. A lane reads a
buyer's matured funds and later moves them into the escrow (`FundRead`,
`EscrowPost`), takes purchases (`SessionBuy`), and posts their net in chunks
(`NetPost`); a chunk that is refused (`NetFails`) has the posted ones compensated
(`NetUndo`) and each movement posted alone or dropped (`ReplayBuy`). What an
escrow has left is read, and later returned (`ReturnRead`, `EscrowPost`). A lane
without an escrow nets from the wallets. An operator adjusts a row (`Adjust`) or
posts a transaction's opposite (`ReversePosting`).

Operations hold their locks and are one step; they wait for the rows a sweep has
locked. A fee sweep measures without locks (`SweepStart`), claims its key and
locks the bare trust row and the revenue rows (`SweepLock`), then reads the
wallets, escrows and trust rows one statement at a time (`SweepRead`), reads the
revenue and decides (`SweepChecked`), reads it again and posts (`SweepPost`).

`unseen` is history, of what the walk over the heads cannot see. At the locks: a
wallet or an escrow in funds, or an overdrawn trust row, had no posting left in
hot storage. While they were held, of a row the walk does not read, or not any
more:

- a wallet or an escrow was raised by an operator, or by a compensation;
- a wallet was raised by a top-up on a shard still to be read;
- an escrow was raised by a prefund out of a wallet still to be read, or a wallet
  by the return of an escrow still to be read;
- a trust row was lowered: a top-up on its shard was reversed.

A refund raises a wallet too, but waits for the bare revenue row.

Abstracted: whole credits and USD at a par of two to one; accounts no one here
reads (clearing, stored value, equity, receivable); a clawback, the charge of a
subscription and an adjustment downwards, which only lower a wallet; the reverse of
a payout's postings; a chunk takes any `NetWidth` of the positions left, and the
journal, the epochs, the crashes and the retries of a session are in `Netting`.
`RankOf` is the order of the account ids; the runs have the platform's first, then
`<user>:<session>:escrow` and `<user>:spendable`.

## Runs

Run a configuration with `tlc -config X.cfg MCModule`.

| Run | Checks | Instance |
|---|---|---|
| `payout_races` | `EventsMatchOutcome`, `KeepsContract`, `LiveSubmittedKept`, `FinishContract` | one payout, two overlapping sweeps, one settle or reverse transaction, two attempts, one fault, probe present; under fairness |
| `payout_books` | `TypeOK`, `BooksMatchState`, `ReserveBacksOpenPayouts`, `RailGetsSealedAmount` | two payouts of one seller sharing the reserve, two amounts, one sweep, one caller, one row edit, no probe |
| `submit_orders` | `VelocityHolds`, `UndoneOnce`, `AnswersAreTrue` | two orders of one buyer on different shards, funds and velocity limit of two, two refund requests of the first, two calls at a time, one fault |
| `submit_live` | `ChargedOnce`, `CallEnds` | two spends and a refund of one order, one key deleted by retention, under fairness |
| `inbox_drain` | `TypeOK`, `AppliedIsReal`, `AppliedIsFinal`, `QueueDrains` | two events, two drains with batches of one or two, two attempts, one revival, one fault, with and without a replay store, under fairness |
| `outbox_relay` | `RelayedWasDelivered`, `DeadWasTriedOut`, `EndIsFinal`, `OutboxDrains` | two events, two relays with batches of one or two, two attempts, one fault, under fairness |
| `netting` | `FinalOnceUnlessRetried`, `NeverOverGrants`, `SettledEventIsTrue` | two buyers, three orders, one of them late, plain and prefund lanes, nets of up to two chunks, one failing store call, two crashes, one spend and one top-up elsewhere |
| `subscriptions` | `ChargedOncePerClaim`, `ActiveIsPaidAndOwned`, `CancelStopsCharges`, `RenewalEnds` | one user who may subscribe twice, two overlapping sweeps, two periods, two attempts, two faults, matured, immature and promo credits; under fairness |
| `market` | `PostingsBalance`, `EscrowMatchesRows`, `SellersGetTheirShares`, `ReceivableIsOwed`, `PromoIsTracked` | three orders with shares of two and one credit, a promo grant, one switch of the accrual setting, one correction, drains of one or two rows |
| `chain` | `NothingLost`, `BoundaryIsPrefix`, `ProvableUnlessSkipped`, `RefusalsExplained` | three postings of two transfers that share no account, any of them open while others commit, four sweeps, pages of one, one crash |
| `treasury` | `MaturityAgrees`, `OldFundsClearUnlessArchived`, `SweepKeepsBackingUnlessUnseen` | one buyer, two shards, a top-up, a sale and its refund, a payout, an adjustment or a reverse, a session with an escrow and chunks of two, five postings and the draws of two overlapping fee sweeps, the archive |
| `treasury_archive` | `SweepKeepsBacking` (violated) | two buyers, one fee sweep |

What they show, beyond the names: `TypeOK` of the inbox says how far overlapping
drains can carry an attempt count past its cap (one bump for each but the first;
the outbox has the same), and `QueueDrains` and `OutboxDrains` that this still
ends, because the cap is tested with `>=`. `DeadWasTriedOut` holds although each relay compares a stale
count, because every bump in the row is a failure that was written down.

The names with `Unless` say under which exception a promise of the code holds. The
exception is always one that TLC shows to be needed: the promise without it is
defined next to it, and one of the configurations below refutes it. They
document where the code and a comment or a page of its docs disagree. `TypeOK` of
the modules whose runs do not list it documents their state; it is proved below
for all but the outbox and the chain, where it is checked by adding it to a
configuration, and the runs spend their time on the rest.
`treasury_archive` is a run of the project; the others are there to be run.

| Configuration | Property | What happens | Said otherwise |
|---|---|---|---|
| `TreasuryArchive.cfg` | `SweepKeepsBacking` | what users are owed is summed over accounts with chain links in hot storage; a wallet archived whole counts for nothing and the fee sweep takes its cash | `integrity.ts:210`, `concepts/solvency.mdx:55` |
| `TreasuryNewcomer.cfg` | `SweepKeepsBacking` | a wallet's first top-up, on another shard than the bare one, while a sweep holds its locks: the wallet is not in the walk, the trust row it raised is | `worker/treasury.ts:371` "Lock every account the surplus check reads and the posting writes, so a concurrent sweep, payout settle, or top-up can't move the numbers between check and post" |
| `TreasuryEscrow.cfg` | `SweepKeepsBacking` | a refund makes the draw stale, then a prefund, while the sweep holds its locks, takes credits from a wallet it has still to read into an escrow it does not read: less is counted as owed than is, and the draw passes | `worker/treasury.ts:371` (the same comment) |
| `TreasuryDrain.cfg` | `DrainCovers` | the archive prunes a revenue lot between the check and the drain; the legs do not cover the draw and the entry is refused | `worker/treasury.ts:521` "matured balances only grow, so the legs always cover it" |
| `TreasuryMixed.cfg` | `ImmatureUntouched` | a crypto top-up after a card top-up covers the balance twice over: both amounts can be spent while the card money waits | `concepts/credit-maturity.mdx:74` "so a spend can't draw funds still clearing" |
| `TreasuryClear.cfg` | `OldFundsClear` | a balance whose lots are archived has none to be covered by and stays immature for good | `maturity.ts:90` says an empty page is "only possible if a balance row outran its lots" |
| `ChainArchive.cfg` | `HonestLedgerSeals` | a seal, an archive run that prunes the sealed head of an account, a posting to it: the next incremental seal asks for the links after a hash that is gone, gets none and refuses with `CHAIN_BROKEN`, and so does every later one | `worker/archive.ts:12` "without weakening a proof", `chain.ts:450` |
| `MarketReverse.cfg` | `EscrowHoldsRows` | `reverse` of a sale with parked shares empties the escrow and leaves the rows for the drain to pay | `accounts.ts:141` "Holds exactly the pending accrual rows' total" |
| `SubscriptionsOverlap.cfg` | `LapsedIsUnpaid` | one sweep renews, an overlapping one lapses the row from its copy | `worker/subscriptions.ts:39` "nothing was charged" |
| `NettingFinal.cfg` | `FinalOnce` | three chunks, a crash between two compensations: recovery sees one compensation, replays every movement, and the chunk not compensated stays | `netting.ts:400` "every accepted movement ends in exactly one ledger-final outcome" |
| `NettingLate.cfg` | `OwnedIsPaid` | a purchase queued while the lane settled is served by the lane the manager has dropped: it is granted and never settled | `instance.ts:241` |
| `NettingRefused.cfg` | `RefusedIsFinal` | a session all of whose movements were refused leaves no posting; settled again by a failover after the buyer topped up, it charges for items that were revoked | `worker/orphans.ts:16` |
| `PayoutReserved.cfg` | `ReservedNotHandedOver` | the rail call precedes the compare-and-set, so a RESERVED row can have a live disbursement; `reversePayout` treats RESERVED as never handed over | `operations/reversePayout.ts:130` "it was never handed to the provider" |
| `PayoutSettledFault.cfg` | `SettledBlocksForceFail` | the reschedule that answers SETTLED is inside the error boundary; if it throws on the last attempt, the disbursed payout is dead-lettered | `concepts/payout-saga.mdx:65` "a reported `SETTLED` blocks the force-fail" |
| `PayoutDeferral.cfg` | `DeferralRespected` | the compare-and-set looks at the state only, so a dead letter or reverse decided before a PENDING deferral fails the payout after it | `worker/payouts.ts:242` "the timeout is deferred by refreshing `updatedAt`" |
| `SubmitOrderRace.cfg` | `ChargedOnce` | with `platformShards` above 1, two buyers' spends of one order lock disjoint accounts, and both charge | `operations/spend.ts:99` "reading the stored sale can't race another writer" |
| `InboxReplay.cfg` | `ReplayedIsRecorded` | the replay gate commits its claim before the handler runs; if the handler fails, redeliveries are answered `200 duplicate` and the event is never recorded | `reference/http-service.mdx:224` "so its work happens once" |

`submit_orders` keeps all keys (`MaxPurges = 0`) and the passing runs of
`ChargedOnce` keep one shard: those are the configurations for which the promise
holds. Two limits of the code that the runs leave out on purpose: the retention
sweep deletes `reversed:<order>` keys too, which opens an old order to a second
refund; and a key keeps the time of its first attempt, so a retry after the
velocity window is not counted in it (`VelocityHolds` sums what is recorded).

### Bounds

Two sweeps and one caller are enough for every race of two stale copies with a
third writer, since each actor touches the row only by a compare-and-set on
three open-to-final transitions. `MaxPayoutAttempts = 2` has both the bump and the
exhausted boundary; `MaxPayoutAge` of 0 or 1 has copies on both sides of the
age gate. Two payouts are needed only for the shared reserve, so `payout_books`
has them and fewer actors. `MaxFaults`, `MaxEdits` and `MaxPurges` bound what the
environment does; the clock needs no bound. In the pipeline two calls make every
pairwise wait; three operations make a retry overlap a rival. In the
queues two rows make one stand in the other's way, and two drains or relays make
every overlap of a stale copy with a write; a cap of two has a bump, an exhausted
copy and a count past the cap. The proofs below remove the bounds for all
safety properties.

Netting: two chunks make a first one that is posted and a second one that is
refused, and one compensation; three break the promise (`NettingFinal.cfg`), so
the property says two. Two crashes kill the owner and its recovery. Market:
shares of two and one make a debt larger and smaller than the share it is netted
against, with a third share for the rest. Chain: three postings are a sealed one,
an archived one and one after both; the two transfers share no account, so a
posting of one can commit below a posting of the other when a seal has read its
leaves or a page has been moved (accounts that share some of their postings are
left to the proofs, which hold for any set of transfers); pages of one put a
crash between any two postings. Treasury: the payout brings revenue to the bare
row and the sale to the other shard, so a draw spans both; card money is in
`TreasuryMixed.cfg` only, where adjustments, which wait as long, stand for it
otherwise. With five postings a draw is made stale (a sale, the sweep's measure, an
adjustment or a refund) and then missed by the walk: with the mark left out of
prefunds and returns, of compensations, or of reverses, the run finds the draw that
takes users' cash. First top-ups take two buyers (`TreasuryNewcomer.cfg`).

Symmetry is used for interchangeable calls, workers, sweeps, orders and payouts
only, and in no run that checks liveness. The runs of the five newer modules do
not check for deadlock: their environment acts a bounded number of times and
then everyone rightly rests. The others do.

### Fairness

*Payouts.* The sweep is scheduled, so a due row is claimed if it is due again and
again (SF) and a claimed item runs (WF); the rail resolves what it took up and
repeats its settlement report until it is applied (SF); a transaction ends (WF);
time passes. Nothing is assumed of crashes, faults, failing provider calls,
probe answers or operators.

*Submits.* A call in progress keeps going (SF on its steps): the engines queue
lock requests first come, first served, so one that is free again and again is
granted. Callers need not submit anything.

*Queues.* The drain and the relay are scheduled, and a running one goes on (WF on
the claim and the steps of each). Nothing is assumed of the provider, the
supervisor, the dispatcher or the answers of `submit`: a dispatcher that always
throws ends in dead letters.

*Subscriptions.* The sweep is scheduled and a running one goes on (WF on the steps
of each). `RenewalEnds` needs no more: failures are bounded by `MaxFaults`, and
refused renewals by the attempts cap. It excludes runs in which a retry has
rewritten a row: such a row can have a taken billing key and a due date, is
claimed and skipped for ever, and stands before the others in a batch.

## Proofs

Each theorem holds for every value of the constants that satisfies the named
assumptions of the component's module. Those are positivity of limits and
amounts, well-formed parties and, where money is summed, finite sets of payouts
(`FinitelyManySagas`) and operations (`FinitelyManyOps`): a balance is a sum over
them, and a ledger has finitely many. The bounds on faults, edits and time are
constants too, so they are gone.

`Sums_proofs` is the base of all that is said of money. `Total` is a fold over a
finite set; that the order of the fold does not matter, and from it that a sum
splits, shifts and compares as sums do, is proved by the smallest
counterexample: inclusion on the subsets of a finite set is well founded.

| Module | Theorem | Statement |
|---|---|---|
| `PayoutSaga_proofs` | `TypeCorrect` | `Spec => []TypeOK` (the attempt count never passes its limit) |
| | `BooksAlwaysMatch` | `Spec => []BooksMatchState` |
| | `EventsAlwaysMatch` | `Spec => []EventsMatchOutcome` |
| | `RailSealed` | `Spec => []RailGetsSealedAmount` |
| | `ReserveBacked` | `Spec => []ReserveBacksOpenPayouts` |
| | `OrderKept` | `Spec => StatesInOrder` |
| | `SubmittedKept` | `Spec => LiveSubmittedKept` |
| | `ContractKept` | `Spec => KeepsContract`: the saga implements `PayoutContract` |
| `SubmitPipeline_proofs` | `TypeCorrect` | `Spec => []TypeOK` (no buyer is overdrawn) |
| | `AnswersTrue` | `Spec => []AnswersAreTrue` |
| | `VelocityKept` | `Spec => []VelocityHolds` |
| | `UndoneAtMostOnce` | `Spec => []UndoneOnce`, given `MaxPurges = 0` |
| | `ChargedAtMostOnce` | `Spec => []ChargedOnce`, given `MeetOnALock` |
| `Subscriptions_proofs` | `TypeCorrect` | `Spec => []TypeOK` |
| | `ChargedOnce` | `Spec => []ChargedOncePerClaim` |
| | `ActivePaid` | `Spec => []ActiveIsPaidAndOwned` |
| | `CancelStops` | `Spec => []CancelStopsCharges` |
| `Market_proofs` | `TypeCorrect` | `Spec => []TypeOK` (no wallet, nor the escrow, is overdrawn) |
| | `Balances` | `Spec => []PostingsBalance` |
| | `EscrowExact` | `Spec => []EscrowMatchesRows` |
| | `SellersPaid` | `Spec => []SellersGetTheirShares` |
| | `RecoveryExact` | `Spec => []ReceivableIsOwed` |
| | `PromoTracked` | `Spec => []PromoIsTracked` |
| `Queues_proofs` | `AppliedAlwaysReal` | `Spec => []AppliedIsReal` |
| | `AppliedAlwaysFinal` | `Spec => AppliedIsFinal` |
| | `TypeCorrect` | `Spec => []TypeOK` (how far attempts pass their cap) |
| | `RelayedAlwaysDelivered` | `RelaySpec => []RelayedWasDelivered` |
| | `DeadAlwaysTriedOut` | `RelaySpec => []DeadWasTriedOut` |
| | `EndAlwaysFinal` | `RelaySpec => EndIsFinal` |
| `Chain_proofs` | `NothingEverLost` | `Spec => []NothingLost` |
| | `ArchiveIsPrefix` | `Spec => []BoundaryIsPrefix` |
| | `Provable` | `Spec => []ProvableUnlessSkipped` |
| | `Refusals` | `Spec => RefusalsExplained` |
| `Settlement_proofs` | `TypeCorrect` | `Spec => []TypeOK`, of `Treasury` (no wallet or escrow is overdrawn) |
| | `SweepTakesSurplusOnly` | `Spec => SweepKeepsBackingUnlessUnseen` |
| | `WalksAgree`, `MaturitiesAgree` | the newest-first walk equals the full scan in any typed state; `Spec => []MaturityAgrees` |
| | `WaitsEnd` | `Spec => []OldFundsClearUnlessArchived` |
| | `SessionTypeCorrect` | `NettingSpec => []NettingTypeOK` (no wallet or escrow is overdrawn) |
| | `ReservationsHold` | `NettingSpec => []NeverOverGrants` |
| | `SettledOnce` | `NettingSpec => []FinalOnceUnlessRetried`, given `~Overlap` |
| | `SettledEvent` | `NettingSpec => []SettledEventIsTrue`, given `~Overlap` |

Every component has its invariant (`IInv`, `RelayInv`, `SessionInv`) proved
inductive, one lemma for each action or group of actions, and the theorems follow
from it. What the invariants add to the
properties, and why:

*Payouts.* `RowsOK` (what a row keeps by itself), `WorkersOK` and `CallersOK` (what
a process whose copy is stale may rely on). The properties speak of rows and
postings only, while the steps act on copies. For instance, a dead letter posts
the amount of its *copy*: the books stay right because the step also requires
that the copy is anchored and that the row is still in the state of the copy.
`LiveSubmittedKept` needs `Forsaken`: once a worker or caller has grounds to give
a submitted payout up (the rail's word or its age), they do not go away before it
commits. Most actions have one of three shapes with a lemma of its own: a step
that leaves rows and books alone (`QuietStep`), one that patches an open row
(`NudgeStep`), one that finishes a payout (`FinalStep`). For the action
properties, `StepKind` sorts every step into silent, begins, settles or fails.
The reserve is summed over the payouts, and `BooksMatchState` says what each adds;
that no seller is overdrawn needs an induction of its own (`NobodyOverdrawn`):
only a request takes from a seller, and it has seen that the balance covers it.

*Submits.* `ItemOK` says what a call may rely on at each step, and `CallsApart`
that two calls share no placeholder, account or subject lock. The velocity limit
is the case in point: what must stay within it is not only what is on the books,
but that together with what the call under the subject lock is about to post
(`Reach`); and no other call of the buyer moves while it holds that lock.
The funds screened under the lock are those posted against for the same reason.
`UndoneAtMostOnce` counts reversals by their key (`OneReversal`), so it needs
retention to leave keys alone; without that the promise fails (see above).
`ChargedAtMostOnce` counts charges by the sale row (`OneSale`), which outlives the
keys; so it holds whatever is purged, provided the spends of one order meet on a
lock, as they do for one buyer or one platform shard; `SubmitOrderRace.cfg` shows
the rest.

*Subscriptions.* `CopyOK` says how far a copy can lag behind its row. Until a retry
rewrites the row, the row only moves on by a billing, which moves its period and
its due date together and leaves the period's key behind; so a copy that is
behind by one due date is behind by one period, its claim of that period's key
fails, and the stale sweep charges nothing. `Truth` says which keys and charges a
row that was not rewritten has, and that one charge after a cancel was the last.

*Market.* The equations on the escrow, the receivable and the sellers are not
inductive by themselves: a refund or a drain moves what its *rows* say. `SalesOK`
and `RowOK` tie the rows to the posting of their sale (the first row is the share
that was parked; a later row is a debt of a refunded order), `Apart` says that an
order has one unsettled debt at most, so that the residue of a debt a drain
splits is the only one, and `DrainsOK` that no drain uses the id of an earlier one, for
it drained a share no later drain can claim. A drain claims rows oldest first and
takes debts until the claimed shares are used up; `Repaid` says what that takes
and leaves, whatever the rows. Each action is then a swap of rows (`RowsMove`) and a
posting, and the equations follow by moving sums.

*Queues.* For the inbox, `MarksArePosted` adds that a drain about to mark a row has
its posting; for the outbox, `RunOK` adds that the attempts of every copy are
failures written down, that a tally holds delivered messages only, and that a
relay about to write a dead letter holds a copy at its last attempt. How far
attempts go is a budget (`Capped`): a row's attempts and the number of drains that
hold a copy they may still bump. A bump moves one from the second to the first,
and a claim adds to the second only while the row is two below its cap.

*Chain.* `NothingLost` needs only `Shape` (what a job in each step holds) and
`CopiedFirst` (a job past its copy step holds a page that is all in the sink).
The rest needs the history (`HInv`). `Table`: each posting chains every account
it touches onto the last committed posting below it, and nothing open precedes a
posting that shares an account with it. `Bound`: the boundary's rows are the heads
and sums of exactly the committed postings up to its watermark, below which
nothing is open, and a page on its way is exactly what follows; it is a prefix
of committed postings because the archive takes only postings dated before the
tick it runs in, and a posting is committed or void by the end of its own.
`Seals`: leaves read, signed or stored are links of their account with the
account's sum. `Unbroken`: until a sweep is stopped nothing is left behind and the
snapshot is what the last seal signed. A page then verifies, because the
accounts' links in it join at the boundary; and so a seal is refused only when
the tail it asks for starts at, or goes through, a link that is gone.

*Treasury.* `IInv` is `Ledger` (each balance is the sum of its postings), `Guarded`
(no user is overdrawn, the reserve holds the payout under way), `JobsOK` (one sweep
holds the locks, and reads each row once), `Counted`, `RestOK` and `SessionsOK` (a
session's chunks are net postings, which take from users only, so that a
compensation gives to them only). What makes a sweep safe is `Counted`: while nothing
was missed, the cash in the rows the walk is done with exceeds what it counted there
by at least as much as the credits in the wallets and escrows it is done with exceed
what it counted of those, at par. A posting may raise both sides (`RaiseCounted`),
lower the credits only (`NoneRaised`, `LoweredCounted`), or move credits to a row
still to be read or from a row the walk is done with (`MoveCounted`); one that lowers
the cash waits for the bare trust row, or is a reverse that marks the sweep. So at the post the real surplus is at least the counted one. The proof needs the
code's rounding: a top-up's cash up, the count and the draw down. `WalksAgree` compares two sums that go over the same
lots in opposite directions: the scan's drain before lot `i` is what was spent less
all older lots, until it reaches zero for good (`toDrain` is a recursive function;
instead of an induction the proof takes the first index at which the two differ),
and what remains of a lot is the same `Slice` of the balance.

*Netting.* `SessionInv` says that the journal is the flushed part of what the lane
accepted, in order (`Journaled`), that the lane's queue and its settle take turns
(`Serial`), and `GrantsOK`: per buyer, the counter plus accepted plus held is
exactly what the winner of the durable claim has given back so far. The claim
makes that one process; it walks the journal or the lane's own list once, and the
journal is a part of the list, so no more than was accepted comes back. `OnceInv`
adds what is on the ledger at each step of a settle. Chunks are posted from the
first and undone from the last, so with two of them the ledger is in one of few
shapes, and from each shape the recovery's probes (`FailedOver`) tell how to go on:
if a compensation or a movement is there, no chunk stands (`ProbesTell`). With
three chunks that fails, hence the exception; TLC shows it (`NettingFinal.cfg`). A
failed call of a settle that the same lane repeats from its start is the other.
`~Overlap` says that the sweep's age bound does what it is for: a recovery does not
start while the owner is up. Without it two settles of one session interleave.

The settled event speaks of amounts, and `EventInv` adds them, for an owner that is
up with nothing on the way that the property excuses. `Bought`: an order counts once
in the lane's list, and what is owned was served or is being served. `Flushed`:
unless a flush failed, what left memory is in the journal, so an empty queue means
a whole journal.
`Funded`: only a funded buyer has an escrow or a purchase. `Stage`: before chunk `i`
is posted, or undone, clearing holds exactly what the chunks below `i` left in it
(`Cleared`), which is zero at both ends because the chunks partition the journal
(`ChunksCover`, `PlacesAre`); in the replay exactly the other movements are
posted. `Closing`: from the report to the event, a refused grant is owned
only while it waits for its revocation, and an escrow is left only where a refund is
owed. None of these can be dropped: without `Flushed`, say, a settle could report
a net that misses a purchase whose item is owned.

Three statements did not survive the attempt to prove them and are corrected.
`PromoIsTracked` allowed for what operators moved in sum, and held on an instance
with one correction only: a correction down after one up hides the one up, so
`corrected` now keeps the two apart. `RefusalsExplained` blamed a pruned sealed
head only; with two transfers that share no account, a seal that read its leaves
before a posting below them committed can be followed by an archive run that
prunes that posting, *after* the sealed head of its account. The instance has
such transfers now, and the property names both links.
`SweepKeepsBackingUnlessUnseen` excused wallets that the archive hides and raises
by an operator's adjustment. A wallet's first top-up is missed by the walk as well,
with the cash it brings on another shard still to be counted
(`TreasuryNewcomer.cfg`), and so is a trust row that is overdrawn and archived
whole. So are credits that change rows behind the walk: a prefund and an escrow's
return lock nothing the sweep does (`TreasuryEscrow.cfg`), nor does the compensation
of a net chunk; and the reverse of a top-up takes cash from a shard already counted.
`unseen` has them all now.

Only model-checked: liveness (`FinishContract`, `CallEnds`, `QueueDrains`,
`OutboxDrains`, `RenewalEnds`), which is out of this prover's reach, as is
`ENABLED`. `OrderKept` is only proved; the runs check
`KeepsContract`, which looks at a payout's outcome and not at the states on the
way to it.

## Not modelled

`reconcile.ts` and `sweepTreasury`, `sweepFloatCoverage`, `reverifyCheckpoint`,
the reproof sweep and `verify-export.ts` compare and report, and write nothing that
another part reads back as truth. SQL text and row codecs, hashing and signatures,
HTTP transport, provider adapters, configuration parsing and vendored code keep no
protocol state of their own. The console and documentation apps under `apps/` and
the benchmark and harness scripts are clients of the library; they hold most of the
repository's lines and none of its state, so the share of all lines that
`PROJECT.json` maps stays small while that of the ledger's own operations and
sweeps is large.

Within what is modelled: overlap of two archive runs, or of a posting stamped
before a seal that commits after it, with the archive (a page is sealed by its
time); one subscription's lapse taking an item owned otherwise; two skus in a lane.

## Plan

Done: `PayoutSaga`, `SubmitPipeline`, `Inbox`, `OutboxRelay`, `Market` (spend,
refund, clawback, reverse, accrual, promos), `Subscriptions`, `Chain`, `Treasury` and
`Netting`, with the proofs of all safety properties the runs check.
Left, in order of importance:

1. `LockOrder`: lock sets of all handlers and the late extensions of refund and
   reverse (a reverse of a payout posting against a settle).
2. `Inbox` composed with `PayoutSaga`: a settlement reported before the row says
   SUBMITTED, dead-lettered, revived.
3. `PayoutSweep`: batch limit and claim order, starvation by wedged rows.
4. `Batch` (group commit and bisection), `BalanceCache`, the other passes of the
   supervisor.
