# Kalatori: a verification project

Kalatori is a payment daemon for Substrate chains. A shop creates an *order*
over HTTP; the daemon derives an account for it, watches the account on the
chain, marks the order as paid once its balance suffices, and transfers the
funds to the recipient. This directory holds TLA+ modules translated from the
Rust sources under `src/src/`, TLC instances of them, and TLAPS proofs.
`PROJECT.json` maps every definition to the lines it stands for and lists
the runs, hazards, findings and theorems.

## 1. The system

### Components, their state and operations

| Component (source) | State it keeps | Operations | Module |
|---|---|---|---|
| Order table (`database.rs`, `definitions.rs`) | one `OrderInfo` per order | `create_order`, `read_order`, `mark_paid`, `mark_withdrawn`, `mark_stuck`, list of active orders | `Ledger`, `OrderContract` |
| Database server (`database.rs`) | sled trees in memory and on disk, instance id, request channel (1024) | every request above, `initialize_server_info`, `Shutdown`, flushes | `Database` |
| State Handler (`state.rs`) | supported currencies, request channel (1024), handles of manager, database, signer | connect chain, is-supported, create, status, order paid, restore saved orders, shutdown | `DaemonState`, `StateHandler` |
| HTTP handlers (`handlers/`, `server.rs`) | one pending request each | `process_order` (check, then create), `status`, a peer that leaves | `StateHandler` |
| Chain manager (`chain/mod.rs`) | `watch_chain` and `currency_map`, request channel (1024) | `ignite` with its checks, `WatchAccount`, `Reap`, `Shutdown` with a 120 s timeout per tracker | `ChainManager`, `Currencies`, `Lifecycle` |
| Chain tracker (`chain/tracker.rs`, `chain/definitions.rs`) | connection, watched accounts, request channel (1024) | rotation over endpoints, `prepare_chain`, recheck, block scan, watch, reap, shutdown, watchdog | `ChainTracker`, `Currencies` |
| Payout (`chain/payout.rs`, `definitions.rs`) | a spawned task per `Reap` | connect, query block and balance, decide, build, have it signed, submit | `Payout`, `Amounts`; its place in the daemon in `ChainTracker` |
| Signer (`signer.rs`) | the seed, request channel (16) | public key, sign, shutdown (zeroizes the entropy) | `Signer`; `Lifecycle` for the entropy |
| Shutdown and task tracker (`shutdown.rs`, `task_tracker.rs`, `main.rs`) | cancellation token, reason, error channel | startup, early returns, `ignite`, Ctrl-C listener, `wait_with_notification`, exit codes | `Lifecycle`, `Daemon` |
| RPC client (`chain/rpc.rs`) | none | `assets_set_at_block`, `specs`; balances, block number, transfer events, blocks | `Currencies`, `Specs`; queries of a payout in `Payout`; `transfer_events` in `ChainTracker` |
| Extrinsics (`chain/utils.rs`) | none | calls, batch, transaction, storage queries; a node's properties; which event is a received payment | `Extrinsics`, `Specs`, `ChainTracker` |
| Arguments, errors, logging, `callback.rs` | none of their own | input parsing, texts; `callback.rs` is called nowhere | not modelled |

### How they interact

Every service is a task with an `mpsc` request channel; a caller sends a
request and, where it needs an answer, waits on a `oneshot`. HTTP handlers and
trackers send to the State Handler; the State Handler calls the database (and
waits inside its loop), the chain manager (and waits inside its loop) and, at
the end, the signer; the manager forwards to the tracker of the currency's
chain without waiting, so the tracker answers the State Handler directly;
the tracker's block watcher feeds the same channel that carries accounts,
reaps and the shutdown request; a tracker spawns a payout task per `Reap`, and
that task asks the signer. A failed task sends its error to
`wait_with_notification`, which cancels the token. The State Handler alone
turns the token into an orderly end: chains first, then the database, then the
signer.

### What is hard about it

* **Concurrency.** Payments are reported while orders are created, modified and
  restored; the State Handler awaits others inside its loop; trackers wait for
  room in its channel.
* **Repeated reports.** One block scan can report an order twice, a reconnect
  and a restored order report it again: one payout must follow.
* **Stale copies.** The tracker holds its own copy of an order's amount and
  death; the currency is checked in one request and used in another.
* **Crashes.** sled flushes in the background and `mark_paid` is answered
  before; a restart finds an earlier version.
* **Shutdown.** Timeouts, tasks spawned by tasks, failures on the way, a second
  Ctrl-C, replies sent before the flush and a flush whose error is dropped,
  channels dropped with requests in them.
* **What the network says.** Asset lists that are cut short, symbols that clash,
  properties of many shapes, runtimes without the pallet that is looked for.
* **Money.** Floats times powers of ten, a subtraction of unsigned integers, a
  literal nonce, and between two awaits of a payout a chain that goes on.
* **Recipients.** An account belongs to the recipient configured when the order
  was made; the next start may have another one.

### What makes each component correct

* Order table: an order's account never changes, a paid order is never pending
  or modified again, a payment succeeds once (`OrderContract`, `OneReceipt`).
* Database server: the disk is an earlier version of memory, every caller is
  answered, and nothing is recorded once the ledger is told to close.
* State Handler: payouts follow the record, at most one per order; it always
  comes back to its channel; restored orders are all handed over.
* Manager and tracker: no acknowledgement is lost or doubled, on no error path;
  every chain that is reported has exactly the currencies asked for, and every
  supported currency can be routed.
* Payout and signer: what is signed is the transfer the order calls for, from a
  balance in the window, once while the account lives, and to the recipient the
  customer paid for; whoever asks the signer is answered.
* Process: a graceful exit cuts nothing off, erases the entropy of the seed, and
  its code and reason agree; shutdowns complete.

## 2. The modules

```
Ledger ──────────── Database ── Database_proofs
  │  └ OrderContract ◄┘ (INSTANCE, refinement)
  └ DaemonState ─ StateHandler ─┐
                ─ ChainManager ─┼─ Daemon ── Daemon_proofs ─┬─ DaemonLedger_proofs
                ─ ChainTracker ─┘    (INSTANCE OrderContract) └─ DaemonAcks_proofs
Amounts ────┐
Extrinsics ─┼─ Payout ── Payout_proofs
Signer ─────┘
Specs ──────── Currencies ── Currencies_proofs
Lifecycle ── Lifecycle_proofs
Ledger_proofs    used by the proofs of Database and Daemon
MC<Module>       the instance for TLC
```

Definitions named `x_reason` directly above `x` and commented `Mutant:` are
deliberately wrong variants of `x`; no specification uses them. Each records
how one property was seen to fail.

### Ledger and OrderContract

`Ledger` has the six table operations of `database.rs` as operators from a table
to a reply and a table; a `Blank` entry is an unknown order. Terms (amount and
currency) are one value, since a pending order that is created again has both
replaced, and its death with them, while its account and its callback stay
(`database.rs:421-423`); no code acts on the callback, so it is left out. A
payment's status and the withdrawal's are separate because the guards read them.
`mark_withdrawn` and `mark_stuck` look up the *raw* id where every other
operation looks up the SCALE-encoded key; `key` is the order whose encoded key
equals that id, `Blank` if there is none (even a printable id can be such a key:
a length prefix is a printable character for some lengths). `OrderContract` is
what the legal record promises: entries appear, terms change while pending,
pending becomes paid, and nothing goes back (`MovesForward`).

### Database

The server of `database.rs` with its bounded channel, callers that wait,
`Reboot` (a crash or kill at any moment, then a start on what the disk has),
`BackgroundFlush` (sled, at any moment) and `WindDown` (the last flush and the
end of the channel). The reply of `Shutdown` comes before the flush, as in the
code. `FinalFlush` may fail: `drop(database.flush())` (`database.rs:279`) drops the
error, and the task ends as if all were saved. So nothing here says that what a
stopped server had recorded is on disk; what holds is that the disk is an
earlier version (`DiskIsEarlier`) and that a flush or a failure of it keeps the
contract. `Daemon` has the same choice.
`instance` is a number that `InitializeServerInfo` draws if the disk has none.

### Daemon

`DaemonState` declares the shared state; `StateHandler`, `ChainManager` and
`ChainTracker` hold one action per handler branch and stretch between two
awaits; `Daemon` adds the chain, the clock, flushes, interrupts and crashes.
How state corresponds: `stateQ`, `cmQ`, `chainQ` are the `mpsc` channels, `ack`
the `oneshot` each waiting task holds, `sh.pc` and `trk.pc` the await at which
handler and tracker are, `trk.todo/drop/sends` the rest of a loop over watched
accounts, `watched` `watched_accounts`, `feed` the block watcher, `payout` the
spawned payout tasks. Decisions a reader should know of:

* Calls of the handler to the database are one step: the handler is the sole
  caller once the daemon runs, and the server never waits for anybody. The
  detailed server is `Database`.
* The manager's channel has no bound in the model: it never holds more than one
  request per waiting task, far below 1024.
* There is one chain and it serves all currencies. Routing among chains and the
  end of several trackers are in `Currencies` and `Lifecycle`.
* A failed connection attempt changes nothing, so it is a stutter. Fairness of
  the tracker therefore says that some endpoint answers in the end.
* A block's Transfer events come from the Balances pallet only, so a payment in
  an asset may go without one (`ScanAccount` may skip the event branch).
* The old block watcher ends with its connection when the tracker rotates.
* `Watchdog` (120 s without a message) fires only when handler and manager rest
  and no block can be delivered: local steps take far less than 120 s.
* The account of an order is the order's id (`public(o) == o`); the derivation
  is injective for the daemon's purposes.
* The arithmetic of a payout is reduced to whether the balance is in the window
  the code accepts (`InWindow`), a wrapped difference being outside it.
* `Saved` are orders an earlier run left pending; `Leavers` are requests whose
  peer may disconnect; `Discards` allows a tracker to exceed `SHUTDOWN_TIMEOUT`.

### Lifecycle

One `main` value per step of `async_try_main`; an early return (`StartupFails`)
drops the runtime and everything in it (`Dies`). Ctrl-C before the listener is
spawned kills the process. `ignite` takes two steps, reason then token, because
it awaits a lock in between. An error that arrives after the operator's Ctrl-C
is read and logged, but does not change the reason, so the exit code stays
success (`ReadLateError`). A panic of a task aborts the process: the hook calls
`blocking_read` inside the runtime, which panics itself
(`public_payment_account` is a `todo!()`, so a panic can be had). The database
also closes when the last handle goes with the handler, the manager when handler
and restore task are gone. The signer's channel never closes by itself: main
holds a handle until it returns. Block watchers are part of their tracker;
one payout per paying chain stands for all.

### Currencies and Specs

`Ignite` builds `watch_chain` and `currency_map` entry by entry, with
`EmptyEndpoints` and `DuplicateCurrency`; trackers run beside it. What the
endpoints of a network may say is a constant, `Offers`: the specs a node's
properties give, and the assets of any part of the pallet's key list: an error
ends the paging silently, the first page is asked for with the block hash as
start key, and a key whose value is null is skipped (`rpc.rs:321-322`). `Specs`
takes address prefix, decimals and unit from JSON values of many shapes: an
array counts for its only element, numbers must fit into `u8` and `u16`, the
prefix must agree with the runtime's constant. An endpoint that gives no specs
is left at once. `assets_set_at_block` keys by symbol, the last asset winning;
`Wanted`/`RequestedCount` are the filter and the count of `prepare_chain`;
`update_currencies` is the handler's `ConnectChain`. The maps are extended by
`Extended`: what `HashMap::insert` does, without the operators of `TLC`, which
the provers do not know. Two entries with one chain name make the second replace
the first in `watch_chain`: the instance has such a config, and `RoutedToOwner`
is stated for distinct names. When a native token is configured the asset id is
not compared, so `ReportedIsRequested` leaves it out.

### Payout, Amounts, Extrinsics, Signer

`Payout` follows an order from the derivation of its account to the transfer of
its funds. Created again while pending, it takes the new price and the new
currency (`Ordered`), as `database.rs:421-423` does; the account stays, and may
hold funds in both currencies. Its death is of no consequence to a payout.
`task[o].pc` is the await at which the payout task of `o` is: `spawned`
(connect), `connected` (best block), `at_block` (its number), `numbered` (the
balance at that block, decided and built on arrival), `built` (send to the
signer), `signing` (its answer), `signed` (submit). Between two of them
customers pay, blocks come, the handler stops the signer, or `Restart` ends
everything and starts again with any earlier version of the orders and any
recipient.

* `Amounts` has the float: a mantissa of `MantissaBits`, ties to even, a product
  with a power of ten, `round`, the saturating cast. `Surplus` is the
  subtraction modulo `2^BalanceBits` of a release build; a debug build panics
  there, which ends the process.
* `Extrinsics` has the templates of the constructor library as records of
  fields, each with the kind of its type. A lookup that fails leaves the first
  pallet or method of all (`Selected`), as the code does without an error; a
  template with unfilled fields gives nothing to sign (`Signable`), one without
  an author nothing to send (`Sendable`).
* `Signer` is the task with its channel. Keys are named by the hard junctions of
  their derivation, `<<recipient, order>>`; a signature carries what it is over.
* The chain executes an extrinsic whose signature is by its author, over the
  payload it has, whose nonce is the account's and whose era has not ended. An
  account that is emptied in every currency is removed, its nonce with it.
  `Forget` stands for everything else a pool or a runtime may do with it.

Left out: transaction fees and existential deposits of the chain, other
branches than the best one, and a second chain: the currencies of an instance
are those of one chain. After a restart an order may be pending again, with the
price and the currency it had last. How a report leads to a `Reap` is in `Daemon`, so
`OrderPaid` here is report, record and reap in one step; that there is one per
order and start is `OneReapPerOrder`.

## 3. The runs

All runs have `CHECK_DEADLOCK FALSE`: the process really ends (and in
`MCDatabase` the server stops), and the bounded chain and clock come to rest.

| Run | Instance | What it shows |
|---|---|---|
| `database` | 1 order, 2 terms, 2 accounts, 2 callers, queue 2, 2 boots, a last flush that may fail | type, `OneReceipt`, `DiskIsEarlier`, `WaitersAreQueued`, `NoReceiptAfterDisk`, refinement of `OrderContract` by the disk, `EveryCallIsAnswered` |
| `daemon` | 1 order, 2 amounts, 1 client that may leave, crashes, interrupts, discards, a last flush that may fail | `OneReapPerOrder`, `AwaitedIsInFlight`, `LedgerIsStill`, refinement of `OrderContract` |
| `daemon_orders` | 2 orders, one of them perhaps restored, 2 amounts of which none is raised (`CalmSpec`), partial payments, 3 blocks | `ReapIsRecorded`, `PaidIsFunded`, `CheckedStaysSupported` |
| `daemon_liveness` | 1 order, perhaps restored, interrupts, roomy channel | `HandlerComesBack`, `RestoreCompletes`, `ReportedIsRecorded`, `CancelledStops` |
| `lifecycle` | 2 chains, one payout, up to 2 failing tasks | `GracefulExitIsComplete`, `EntropyIsErased`, `ExitTellsCause`, `CancelHasCause`, `LedgerOutlivesChains`, `ShutdownCompletes` |
| `payout` | 1 order modified between 2 prices and 2 currencies, 2 recipients, 5 runtimes, 2 boots, signer's channel of 1 | `SentIsAsOrdered`, `PaysInWindow`, `PaidOnceWhileAlive`, `PaidToOwner`, `EveryoneIsAnswered` |
| `currencies` | 7 configs after `configs/`, 3 networks with 8 nodes whose key lists may have gaps, channel of 1 | `ReportedIsRequested`, `SupportedIsRoutable`, `RoutedToOwner`, `UnmixedIsServed`, `SupportedStays`, `ServedGetsSupported` |
| `daemon_unwatched` | 1 order, 3 blocks | **fails**: a live unpaid order loses its watch at the first scanned block |
| `daemon_stale` | 1 order, 2 amounts | **fails**: after its amount is raised an order is paid below it |
| `daemon_cycle` | 1 order, 2 clients, channel of 1 | **fails**: handler and tracker wait for each other |
| `daemon_dropped` | 1 order, interrupt | **fails**: a reported payment is dropped at shutdown |
| `currencies_mixed` | one chain with native token and asset | **fails**: it is refused although both are there |

The five failing runs contradict comments or documents of the repository; the
text is quoted in `PROJECT.json` under `findings`:

1. `tracker.rs:121` compares the death the wrong way round: it is live orders
   that are dropped and dead ones that stay, against `docs/structure.md`.
2. `state.rs:323`: a modified order changes in the table only; the tracker goes
   on with the old amount.
3. `state.rs:314` (and 130): the handler awaits the tracker inside its loop
   while the tracker awaits room in the handler's channel. The real
   capacity is 1024; a burst of that many requests behind a slow endpoint is
   needed, and the instance has a capacity of 1.
4. `state.rs:145`: what arrives while the handler waits for the manager's
   shutdown is dropped, against the comment there.
5. `tracker.rs:225`: the filter keeps only the native token, the count includes
   the assets; `configs/testnets.toml` has such an entry.

### Bounds

`MaxHeight` 2 or 3 blocks: one before and one with the payment, and a third to
come after a dropped watch, or to include the payout. `MaxClock` 1: both sides
of a death at `Lifetime` 1; 0 where no property looks at it. `MaxBoots` 2: one
restart, after which the state is again an initial one for some disk. `StateCap`
and `ChainCap` of 1 or 2: a full channel is reached at once. In `database` two
callers with one request each never fill a queue of two, so nobody blocks on it
there; `daemon_liveness` has a `StateCap` of 7, larger than the number of
requests the instance can hold, because with a full channel liveness fails
(`daemon_cycle`). `MaxFailures` 2: an error read during the shutdown another one
started. `MaxReports` 1: trackers wait for room. Crashes in `daemon` are not
bounded.

`payout` scales the numbers down and keeps their relations. A float has 7 bits
and a balance 8, so that 0.07 and 0.3 are inexact but their products with 10 and
100 are rounded back, and a difference wraps. Payments come in portions of 9, in
either currency and up to 18 in any two together, with a tolerance of 6 and a
limit of 8: the balances read lie below the amount, in the window and on its
border, in the range for manual intervention and on its border, and above. The
five runtimes are those of an asset hub, one without the Assets pallet and
`transfer_all`, one without Utility, one with plain account ids, and one whose
authors are not accounts. `MaxHeight` 1 with `EraPeriod` 0: an extrinsic may
come too late. `MaxBoots` 2: the second recipient may differ from the first, and
an order may be paid out a second time. A `SignerCap` of 1 makes the handler and
the payout compete for the channel.

Encoded keys that alias ids (`RawKey`) are in no run: the theorems about
payments hold for every `RawKey`.

`PaidIsFunded` is checked under `CalmSpec`, in which no order is amended to a
larger amount. It holds there although copies of an amount grow stale (an
amendment to a smaller one is never passed on to the tracker) and payments are
partial. It fails in `daemon_stale`, where the amount may be raised: that is a
finding. `ReapIsRecorded` and `CheckedStaysSupported` are checked in the same run,
and so under `CalmSpec` too; they are proved for `Spec`. The
run's next-state relation, `MCCalmNext`, has the steps of `CalmSpec` that the
instance can take, but no background flush: without crashes nothing reads the
disk.

### Fairness

Weak fairness per task: tokio polls every task that is ready. `NoticeFailure`
and `FinalFlush` are steps of tasks as well. `TrackerStep` and, in `Lifecycle`,
`PayoutEnds` and `RestoreEnds` include answers of endpoints, so fairness there
assumes that queries are answered or fail in the end (the WebSocket client gives
up on a request) and that some endpoint can be connected to. There is no
fairness for customers, the operator, blocks, crashes, background flushes,
timeouts or failures. In `Payout` the signer, the handler and each payout task
are weakly fair, and sending to the signer strongly: a bounded tokio channel
hands out its room in the order in which it was asked for. `Currencies` needs
strong fairness for `ConnectsFully`: the endpoints come in turn, again and again
one gives its whole list, and the channel, first come first served, has room.
`ShutdownCompletes` excludes a failed State Handler: then nobody tells connected
trackers or the signer to stop and the daemon stays, a hazard listed in
`PROJECT.json`.

## 4. What is proved

Every invariant and every safety property of an action or of a refinement that a
passing run checks is also a theorem. The proofs hold for any number of orders,
clients, callers, chains and blocks and any channel capacity, from the
assumptions named in the modules, which TLC evaluates on every instance.

**Ledger_proofs** has the lemmas on the table: `MovesForward` is reflexive and
transitive, `create_order` and `mark_paid` move forward, a paid order stays
paid under each of the operations, raw-id ones included. The proofs about
`Database` and `Daemon` use them.

**Database_proofs.** `TypeCorrect`; then `PaymentInv`, the conjunction of

* `TypeOK`,
* `ReceiptMeansPaid`: an order with a receipt is paid in the table, once,
* `PaidOnDiskIsPaid`: an order paid on disk is paid in the table.

`OneReceipt` alone is not inductive: nothing in it says that a second
`mark_paid` must find the order paid, and after a restart nothing links memory
to disk; the last two conjuncts supply that. From it follow `PaidOutOnce` and
the action property `SavedPaymentIsFinal`. With `NoAliasedIds` also
`MemoryIsAhead` (the disk is an earlier version) and `DatabaseKeepsContract`:
every step of the server is a step of `OrderContract` on the disk or leaves it.
Aliased ids are excluded there because `mark_withdrawn` can then put one order's
record under another id; the payment theorems do not need it. `WaitersQueued`
rests on `ChannelInv`, the same fact in three parts that a step touches one at a
time: no two requests of one caller are queued (`OneRequestEach`), whoever has
one is waiting, and whoever waits has one.

**Daemon_proofs.** `TypeCorrect` takes one lemma per task. `PaidOutOnce` and
`PayoutFollowsRecord` rest on `PayoutInv`: `TypeOK` and, for every order, the
number of `Reap` requests queued anywhere plus its payout task is at most the
number of times it is recorded as paid, 0 or 1. That inequality is inductive
where the two properties are not: only `RecordPaid` raises the left side, and
it does so in the step in which `mark_paid` turns a pending order into a paid
one. The lemmas before it count the elements of a queue under `Append` and
`Tail`, for any predicate on them.

**DaemonLedger_proofs.** What the tasks do to the record:

* `LedgerInv`: besides `TypeOK`, the database closes only
  when the handler has left its loop (`ClosingIsFinal`), and the disk is an
  earlier version of the table. `HandlerLedger` and `OtherLedger` reduce every
  action to four things that can happen to table, disk and database: nothing,
  a legal step of the table, a flush, a crash. `LedgerStaysStill` and the refinement
  `DaemonKeepsContract` follow, neither of which needs the last flush to succeed;
  the second is the same theorem as the one on `Database`, for the whole daemon.
* `FundingInv` follows a report backwards: whatever says that an order is paid,
  a request in the handler's channel, the tracker about to send one, or the
  record, there is a block of the chain in which its account held an amount an
  order asks for (`ReportsAreBacked`). It needs that the tracker scans blocks
  there are (`ScansKnownBlocks`) and checks accounts it watches
  (`ChecksWatched`): a watched amount is one of `Terms`. `PaymentsWereSeen`
  is what this gives for any amendments.
* `PaidWasFunded` says more, under `CalmSpec`: the account of a paid order held
  what the order asks for now, not what some order asks for. `CalmInv` is the
  reason. Every copy of an order's amount, in a queue, in the watched accounts or
  in the restore list, is at least what the table asks for (`CopiesAskEnough`),
  since the table goes down only; and an order that is reported has
  already held what the table asks for (`ReportsAreFunded`). Amounts may differ
  among orders and over time. `NoRaise` cannot be dropped: with an amendment to a
  larger amount the run `daemon_stale` violates the property. A crash may bring
  back the larger amount of an amendment that was lost; copies and reports are
  lost with it, and a record that is paid on disk has the amount it was paid with.
* `CheckedSupported` needs no more than that `supported` goes back only in a
  crash, which ends the clients' requests too.

**DaemonAcks_proofs.** `NoAckIsLost` for the handler and the restore task:
`AckInv` has, per asking task, that the requests in the manager's and the
tracker's channel, the payouts that hold an acknowledgement and the one that has
arrived add up to 1 if it waits and to 0 if not. As the property counts with
`Cardinality`, the set of payouts has to be finite (`Accounted`). Three facts
make it inductive: `PayoutInv`, by which the payout that is started is the only one
of its order and overwrites none; the manager stops on the shutdown request at the
head of its queue (`StopsOnRequest`), and there is no restore task before the
handler has started (`RestoresOnce`). `RequestSent`, `RequestMoves`, `AnswerTaken` and
`DroppedIsAnswered` are the four moves of an acknowledgement; each action makes at
most one of them.

**Lifecycle_proofs.** `IInv` says who can still be running at which step of
`async_try_main`: tasks are spawned in the order of startup and those spawned
stay until they end (`SpawnedInOrder`, `NotCut`); the database, the manager, the
signer and the handler end only where the handler's shutdown sequence lets them
(`OwnEnds`, `HandlerInPlace`, `ChainsFirst`); an error that was read or is still
unread, and a reason, have a failed task behind them (`ErrorsHaveCause`); when
main joins the listener nobody runs (`Settled`). None of the
five properties is inductive without it: they speak of the end of the process,
and the facts that decide it lie many steps before. `EndIsFinal`
adds that no step follows the end.

**Currencies_proofs.** `RoutingInv` relates the two maps of the manager to the
part of the config `ignite` is past (`Done`): the maps have exactly its
currencies and names, and distinct ones (`MapsAreBuilt`); trackers
run for entries of it only (`TrackersAreStarted`); all assets a tracker holds or
has reported are the requested ones (`ReportsAreRequested`); accounts were
routed by the maps (`WatchingIsRouted`); and a refusal found something missing or
mixed (`RefusalsAreInvalid`). `PreparedIsReport` and `CompleteIsValid` are the
two directions of the filter of `prepare_chain`: that the counts agree means
that all that was requested is there. This is where cardinalities of filtered sets enter
(`RequestedSize`). `TypeCorrect` adds that whatever a node says of its decimals
and its prefix fits the width of the code (`SpecsParts`), and so does what is
kept of an asset, the last entry with its symbol (`HasGreatest`).

**Payout_proofs.** `PaidOnce` and `OwnerIsPaid` hold for any orders, recipients,
runtimes, currencies, prices and numbers of restarts. `PaidToOwner` speaks of
executed transfers only, so `PayoutInv` follows what leads to one: every account
handed out names the recipient it was derived for (`OrderOK`), every request for
a signature carries a call that pays the recipient of this start (`RequestOK`),
every signature, also one in a node's pool that outlived a restart, is by the
keys of the recipient its call pays to (`SignatureOK`), and whatever is built or
sent has nonce 0 (`BuiltOK`, `PoolOK`). `TransactionPays` is the lemma on
`Extrinsics`: a call that could be filled completely and is a transfer has the
recipient as destination, even where a pallet or method was not found and
another was taken instead.

`PaymentInv` extends it by the progress of a payout (`IsProgress`): what the
task has asked, decided and built at each await, for the price and the currency
its order has, which no longer change once the payout is on its way.
`TransactionIsOrdered` is its lemma on `Extrinsics`, for every runtime that
keeps to the assumptions `RuntimesAreUsual`, `CallsStartOpen` and `ErasAreKnown`
below: if the transaction can be signed at all, it is one mortal transfer of the
order's currency, its recipient and its amount. `SentAsOrdered`, `TypeCorrect`
and `WindowIsKept` follow. The balances keep their width because an executed
transfer takes from an account no more than it has (`ExecutedInRange`).

### Assumptions

* Bounds and capacities are numbers, the marks `Blank`, `None` and `Nobody` none
  of the values they stand beside (`BlankIsNoInvoice`, `NoneIsNoValue`, ...).
* `ConfigsAreLists`: entries have the types of `struct Chain`, as `serde`
  checks; `NetworksAnswer`: a JSON number is one with a `u64`, the others being
  refused (`chain/utils.rs:918`, `:1099`), and decimals of an asset are a
  `u8`, which the code demands of them.
* `RuntimesAreUsual`: every pallet lists a call, a batch takes calls and a
  transfer has a destination and, where it is not of all there is, an amount.
  `CallsStartOpen`: the call a selector starts at has an argument. Without it, a
  runtime whose first call has no argument, and which lacks the pallets the
  daemon looks for, would have that empty call signed. `ErasAreKnown`: the era
  of an extrinsic is of one of the two types the code fills in.
* `DepositsAreUnits` and `UnitsAreBalances`: payments and parsed prices are
  unsigned, as `u128` and the saturating cast make them.
* `DistinguishedAreExact`: a price that is a whole number of units and less than
  a quarter of what a mantissa can hold survives the two roundings of `parse`.
  TLC evaluates this for each price and currency of an instance. It is the one
  fact about floats the proof takes from there: `FloatOf` chooses an exponent by
  the size of its argument, and the provers know of `2^n` only that it is an
  integer. `BalancesOutrangeFloats`: an `u128` has room for such a price and the
  tolerance.
* `HandlerIsNoOrder`: clients of the signer have a oneshot each.

### Only model-checked

The liveness properties: `EveryCallIsAnswered`, `HandlerComesBack`,
`RestoreCompletes`, `ReportedIsRecorded`, `CancelledStops`,
`ShutdownCompletes`, `EveryoneIsAnswered` and `ServedGetsSupported`; they need
fairness and ENABLED, which the prover does not handle. The exactness of floats
is evaluated on the instance only, as said above.

## 5. What is not modelled

* Command line, environment and TOML parsing (`arguments.rs`); error types
  and texts (`error.rs`), logging (`logger.rs`), `callback.rs` (no caller).
* SCALE bytes, storage hashers, address formats (`chain/utils.rs`,
  `chain/rpc.rs`): what they are built from and into is in `Extrinsics`, the
  bytes are a library's.
* Derivation of keys and signatures as such: a library's, named by their inputs.
* `fetch_constant`, `pallet_index`, `get_nonce`, `Balance::format`: no caller.
* The axum server itself, and the choice between several endpoints of a chain.
* `force_withdrawal`, `health` and `public_payment_account`: not implemented in
  the code (the last one as a panic in `Lifecycle`).

## 6. Plan

Order of writing, most important behaviour first. Done: (1) `Ledger`,
`OrderContract`, `Database`, their refinement and proofs; (2) `DaemonState` and
the three task modules, `Daemon`, its runs and first proofs; (3) `Lifecycle`;
(4) `Currencies`;
(5) `Amounts`, `Extrinsics`, `Signer`, `Payout` and its proofs; (6) `Specs`.

Next, to extend the model:

1. Several chains in `Daemon`: the manager sends to one tracker's full channel
   while others wait; an abstract manager that `ChainManager` implements.
2. The endpoint rotation of the tracker with nodes that lag behind one another,
   so that a block is seen twice or not at all, and the death of restored
   orders.
3. An abstract payment process (created, paid, paid out) that `Daemon`
   implements per start and `Payout` completes.

Then, to prove more: the abstract payment process as a refinement once it is
stated, with `PayoutInv` and `FundingInv` as what maps its steps; that a watched
order is pending or was reported, the safety part of `ReportedIsRecorded`; that
the two queues of `daemon_cycle` are the only cycle of waiting.
