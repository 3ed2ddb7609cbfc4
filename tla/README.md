# Auramaur: a verification development

Auramaur (`src/auramaur`) is an autonomous trading bot for prediction markets: one asyncio event
loop runs some thirty "pillar" tasks that analyse markets, place and watch orders on Polymarket,
Kalshi, IBKR and Kraken, book what was filled and keep a realized-P&L ledger, all on one SQLite
file.  Paper trading is the default; live orders need three gates, and a `KILL_SWITCH` file halts
everything.

These modules model the parts of it where money is moved or counted by several actors at once, or
at several moments by one.
TLC checks them on small instances, and TLAPS proves for every instance each safety property that
the passing runs check.

| module | what it is |
| --- | --- |
| `LiveOrders`, `LiveOrdersProofs` | the life of a live order, between placement, monitor, cancels and the venue |
| `SharedConnection`, `SharedConnectionProofs` | `Database`: the tasks that share one SQLite connection, and that it implements ... |
| `AtomicStore` | ... what `Database.transaction()` promises its callers |
| `Books`, `MCBooks`, `BooksProofs` | the four tables of the live book and the four tasks that write them |
| `TransferLedger`, `MCTransferLedger`, `TransferLedgerProofs` | `TransferManager`: withdrawals against a daily cap |
| `CallBudget` | the daily budget of Claude calls |
| `Redemption`, `RedemptionProofs` | on-chain redemption by two processes |
| `EntryCap` | the stake cap that entries are checked against |
| `DirectedOrders` | orders directed to IBKR, under a daily cap |
| `Exits` | the exit loop and its suppression keys |
| `KalshiBook` | one Kalshi market's rows while its settlement is booked |
| `MarketMaker`, `QuoteFormation`, `QuotingProofs` | the quoting task, and the quote it forms |
| `RiskGate` | paper or live, decided twice |
| `PaperBook` | the paper wallet and its resting orders |
| `LimitsProofs` | the proofs about `CallBudget`, `EntryCap`, `DirectedOrders`, `PaperBook` and `RiskGate` |
| `MCDesk`, `DeskProofs` | small instances of the components from `TransferLedger` on, one at a time; their types |

## 1. Inventory

What each part keeps, what it does, whom it meets, and what makes it correct.  `PROJECT.json`
lists the same parts with their sources and their status, and the hazards at their lines.

**Live order lifecycle** (`exchange/client.py`, `bot_order_monitor.py`).  State: the in-memory map
`_live_pending` of the orders the bot believes rest on the CLOB; the `trades` rows; the CLOB's own
book.  Operations: `place_order`, `reconcile_open_orders` (re-pull and adopt), `get_order_status`,
`cancel_order`, `cancel_open_orders_for_token`; the monitor polls every tracked order, books fills,
updates rows, cancels what is older than its TTL, and sweeps orphaned rows.  Hard: every call to
the venue is an `await` in a worker thread with a timeout, so a lost answer does not mean a lost
order; five tasks write the map and the rows.  Correct when a fill is booked once, for what
matched, on the token that traded; when rows do not run ahead of the venue; when no exposure is
left without a task that winds it down.

**Execution gateway** (`broker/execution_gateway.py`).  State: `trades` rows, quote pairs.
Operations: cap check, submit, multi-leg placement, the trades mirror, cancel-resting.  Calls the
client, `record_fill` and the database.  Hard: the aggregate cap is read before an `await` and not
reserved; a leg may fill while its twin fails.

**P&L booking** (`broker/pnl.py`, `broker/ledger.py`).  State: `fills`, `cost_basis`,
`pnl_ledger`, `daily_stats`.  `record_fill` is one transaction behind an idempotency look-up; the
ledger row follows in a statement of its own, whose errors `record_ledger_event` swallows.  Hard:
replay, a crash or a failed write between the two, mode and token keys.

**Position sync, settlement, redemption** (`broker/sync.py`, `broker/reconciler.py`,
`broker/redeemer.py`, `broker/onchain.py`, `broker/kalshi_settlements.py`,
`strategy/resolution_tracker.py`).  State: `portfolio`, `cost_basis`, settlements.  Several paths
see the same resolution; each realization must be booked once.

**Exits** (`bot_exits.py`, `risk/exit_lifecycle.py`).  State: suppression keys per position, retry
walls, durable lifecycle rows that only report.  Placed by the portfolio monitor, ended by the
order monitor.  Hard: a key nobody clears suppresses a position's exits.  Correct when a position
that should be left is tried again.

**Redemption** (`broker/onchain.py`, `cli/redeem.py`).  State: the `redemptions` table, shared by
the bot and the CLI, and the nonce of one Safe.  Hard: the replay guard is read long before its row
is written; a receipt may never come.  Correct when a winner is sent once and a recorded redemption
has paid.

**Kill switch and shutdown** (`killswitch.py`, `bot.py`).  A file; one-shot sweep that cancels
resting orders.  Hard: placements in flight when the sweep lists what to cancel.

**Shared database connection** (`db/database.py`).  State: an asyncio lock with a count of its
waiters, the owner of the open transaction, the connection.  `transaction()` runs a body between
`BEGIN IMMEDIATE` and `COMMIT`; a legacy `execute()` runs one autocommitted statement; `commit()`
and `rollback()` are no-ops.  Hard: statements run on a worker thread and cannot be retracted, so
every cancellation point leaves work behind; COMMIT and ROLLBACK themselves may raise.  Correct
when batches are all or nothing, told truly, and nobody is wedged.

**Treasury transfers** (`treasury/transfers.py`).  State: reservations in an SQLite file of its
own, shared by processes.  `transfer()`: guardrails, human approval, reservation, withdrawal,
release or finalization.  Hard: two processes, a lost answer, a crash, midnight between two reads
of the clock.  Correct when the daily cap holds and money that may have left stays counted.

**Paper trading** (`exchange/paper.py`).  State: queued limit orders; the wallet has no balance of
its own but is computed from the books.  Hard: an order is granted before its fill is in the books.

**Risk** (`risk/`).  Fifteen checks, Kelly sizing, drawdown, exposure, graduation ladder: mostly
pure functions over snapshots.  Hard: which checks apply depends on whether the entry is real money,
and that is decided again, later, by the gateway and the client.

**Directed orders** (`broker/directed_orders.py`).  State: audit rows with a daily cap.  Hard: gate
and row are two awaits; the wait for the broker ends before the order does.

**Market making** (`strategy/market_maker.py`, `experiments/strategies/market_maker.py`).  State:
active quotes, orders to poll, counted inventory.  Hard: two legs placed one after the other, a
watchdog that abandons a cycle anywhere, fills that cross cancels.

**LLM layer** (`nlp/`).  State: a row a day that counts Claude calls for all processes, and what a
process could not write.  Hard: check before a call of minutes, count after it, midnight, a write
that fails or half fails.

**Allocation and routing** (`broker/allocator.py`, `broker/router.py`), the **other strategies**
(`strategy/`), **arbitrage execution** (`bot_arb*.py`), **other venue clients** (`exchange/`),
**Kraken pillar** (`treasury/kraken_pillar.py`), **scheduling and composition**
(`bot_scheduling.py`, `composition.py`, `lineage_observer.py`), **research, experiments,
evaluation, backtest**, **data sources**, **monitoring**, **CLI, web, agent interface**,
**configuration, deployment, scripts**: signal arithmetic, I/O, reports and wiring.  They act on
money through the parts above.

How the parts interact: strategies hand intents to the gateway; the gateway asks risk and the cap,
calls a venue client, mirrors the order in `trades`; the monitor resolves what rests and books it
with `record_fill`; sync, settlement and redemption write the same tables from the venue's side;
all of them go through `Database`; the kill switch ends the loops and sweeps the map.

## 2. How the project is built

One module per component, one action per stretch of code between two `await`s (or between two
statements, where another process may come in between).  A module states its constants with named
assumptions, its type invariant and its properties; its mutants stand above the definitions they
change.  What another component does is taken from what it promises: a `transaction()` is one step
of `Books` because `SharedConnection` implements `AtomicStore`; the order monitor that reaps and
adopts orders for `Exits` and `MarketMaker` is `LiveOrders`; the position mirror of `Exits` is that
of `Books`; the size `MarketMaker` gives a quote is within what `QuoteFormation` forms.

Written in the order of what they put at risk: live orders, the connection, transfers, the books,
entries, exits and redemption, the call budget, Kalshi's books, market making, the risk gate, the
paper wallet.

## 3. LiveOrders

The code between two `await`s is one action; every `await` is a point where any other task may
run.  `pc` fields name the await a coroutine is suspended at.

| variable | code |
| --- | --- |
| `venue`, `aged` | the CLOB's record of each order, and those `get_order` no longer returns (external) |
| `pending` | `PolymarketClient._live_pending`: the `Order` kept for each id, reduced to the market id and token it names |
| `place[o]` | the placement coroutine of each order: `place_order` and the gateway's mirror |
| `rows[o][w]` | the status of the `trades` rows written by the gateway and by the monitor's fallback INSERT |
| `fills[o]` | the `fills` rows of the order |
| `mon` | `_task_order_monitor`: where it is, its orders left, the one in hand with its `Order` and status, the orphan sweep's batch |
| `cxl` | cancel calls in progress, per caller: reaper, gateway, exit, retire sweep |
| `retire` | `_cancel_resting_live_orders` |
| `phase` | running, halted by the kill switch, exiting, down |

Actions: `PlaceChecked` .. `SubmitTimesOut` and `MirrorOrder` (placement); `Gateway*`, `Exit*`
(cancels); `Monitor*`, `Adopt*`, `Sweep*` (the monitor's loop); `KillSwitch`, `Shutdown`,
`Retire*`, `Crash`, `Restart`; `Venue*` (the CLOB matches, closes and forgets orders by itself).
A cancel request acts on the venue first and its answer is handled in a later step: the order may
be matched, or the answer lost, in between.  A submit that times out may still land (`late`).

Abstractions.  The monitor's UPDATE and its fallback INSERT are one action: the second statement
finds no row a third task could have written between, except the gateway's mirror, which `rows`
keeps apart anyway.  `clob_call`'s lock is left out: more interleavings than the code has.  An
`Order` is the two fields a fill is booked with.  Prices, books and balances are left out, as are
the guards of `place_order` that only refuse (`PlaceRefused` stands for any of them).  Kalshi's lane
of the monitor is not modelled; its paper lane is in `PaperBook`.

Runs.

* `live_orders_pair` (two orders of one share: an entry and the exit of a NO position).
  `BookedBeforeMarked`: the monitor polls, adopts and sweeps by turns, over answers that may be old;
  a fallback row is only of a booked fill, a row says "filled" of an order still tracked only behind
  its fill, and the orphan sweep, which books nothing, keeps off the orders a poll would still book.
  It is stated where statements do not raise (`DbFaults` FALSE), as a booking that raises is logged
  and the row marked all the same.  `BookedWithinMatched`: nothing is booked the CLOB did not match.  `RowsNeverAhead`: no
  task writes a terminal status over an order that still rests, or "filled" over one that was not
  matched.  Two orders are the least for which a batch (`cancel_open_orders_for_token`, the sweep's
  UPDATEs) mixes orders in different states; one share each, as partial fills are the next run's.
* `live_orders_recovery` (one order of two shares, so that it can be partly filled; one crash with
  restart, one kill-switch or shutdown sweep, statements that raise).  `OrdersWindDown`: while the
  process stays up in the end, an order that rests or is tracked comes to neither, whether its
  submit was lost, its cancel was lost or a stale re-pull put it back.  The run stops when the
  process is down and may not crash again, so deadlock is not checked.
* `live_orders_race` (finding): a cancel that the CLOB refuses with "matched" drops the order
  from `_live_pending` with its fill unbooked, though two comments promise the next poll will
  resolve it.
* `live_orders_token` (finding): the exit sell of a NO position is built without `token=`, and its
  fill moves the YES row of the cost basis.
* `live_orders_orphan` (finding): a pending row whose order aged out of the CLOB's index stays
  pending for ever, though the sweep's docstring says it resolves.

Fairness.  The event loop resumes what it suspended (weak fairness of the monitor's steps, of
`SubmitReturns` or `SubmitTimesOut`, and of `Restart`, which the supervisor does).  Strong fairness
is used where the code repeats an attempt for ever and each may fail: the periodic re-pull, the
poll of an order, and a cancel that is acknowledged (the TTL reaper tries again at every poll).
`FairSweepSpec` adds that cancels in progress resume and that the orphan sweep comes round and is
answered; the finding holds even so.

Proved, for any orders, sizes and numbers of failures: `TypeOK`, `BookedBeforeMarked`,
`BookedWithinMatched`, `RowsNeverAhead`.  The last is not inductive: four tasks write rows from
answers they got earlier.  The invariant `IInv` adds what each task knows between two of its steps:
an order anybody knows of has reached the book (`KnownReached`), an acknowledged cancel names
orders that are over (`AckedOver`), and a status in hand, or in the sweep's batch, is still true
(`AnswersHold`).  It is kept because an order that is over never changes again.  For
`BookedBeforeMarked` it adds `MarksFollow`: the orders in the sweep's batch are not tracked, the ones
a re-pull may adopt are not marked, and the poll marks what it has just booked.  The liveness
property is only model-checked.

## 4. SharedConnection and AtomicStore

`AtomicStore` says what `transaction()` promises: the writes of a call land together or never; one
that returned has landed; one that raised has not and never will; only a call its task was
cancelled in may have landed, or may land later.

| variable | code |
| --- | --- |
| `pc`, `sent`, `fate` | where each task awaits, the statements of its body that are done, how its call ends |
| `waitq`, `holder`, `waiters` | `_txn_lock` (a FIFO asyncio.Lock) and `_write_waiters` |
| `owner` | `_txn_task` and `_txn_owner` |
| `jobs`, `reply` | aiosqlite's queue and the answers its worker thread gave (external) |
| `open`, `work`, `disk` | SQLite: `in_transaction`, the open transaction's writes, what is durable (external) |
| `cancels`, `faults` | bounded counters |

A statement is queued by its task and run by the worker later.  A task that is cancelled stops
waiting, but what it queued runs all the same (`heard = FALSE`): this is what makes `BEGIN`,
`COMMIT` and the forced `ROLLBACK` delicate.  Actions follow `transaction()` from top to bottom:
`Arrives`, `Acquires`, `Begins` or `TripwireExpires` .. `OrphanAnswered`, `BeginSucceeds` or
`BeginFails`, `BodyExecutes`, `StatementDone`, `BodyEnds`, `CommitAnswered`, `BodyRaises`, with
`Finally` for the `finally` block.  `Cancel*` are the cancellation points: the lock, the tripwire's
sleep, BEGIN (with the ROLLBACK queued behind it), the body and COMMIT, and the shielded rollback,
once and twice.

Abstractions.  The tripwire's polling loop is its two outcomes.  Other processes' locks are the
statements that raise.  The fifteen seconds are no bound: the tripwire expires whenever the
transaction has stayed open.  Not modelled: `close()`, the companion read connection, the
re-entrant `transaction()` (it joins its caller's, so its statements are the caller's), the schema
and its migrations, and a body that swallows the exception of a statement.

Runs.

* `shared_connection` (two transactions of two statements and a legacy writer; three
  cancellations, two raising statements of which any may be a ROLLBACK).  `WaitersCounted`: the
  serializer's count is the number of tasks that wait.  `KeepsStorePromise`: the refinement of
  `AtomicStore`, with `disk` as its store and the fate of a finished call as what its caller was
  told.  `EveryCallReturns`: whoever queues for the connection returns, so nobody is wedged
  behind a cancelled task or an orphan transaction.  Three cancellations are needed to cancel a
  call, then its shielded rollback twice; two faults to lose a COMMIT and the ROLLBACK behind it;
  two batches so that one meets what another left; two statements so that half a batch can exist.
* `shared_connection_orphan` (finding): COMMIT and the forced ROLLBACK raise; a legacy statement
  joins the orphan transaction and is acknowledged; the next `transaction()` rolls it back.

Fairness.  The event loop resumes every task that can go on and the worker thread works through its
queue.  The lock is FIFO in the code and in the model, so weak fairness is enough.

Proved, for any tasks, body sizes, cancellations and faults: `TypeOK`, `WaitersCounted` and
`KeepsStorePromise`.  Durable writes alone are not inductive: a COMMIT may be on the queue with
nobody listening.  `IInv` says that the lock is held by exactly the task inside its slot
(`LockHolds`), that a statement someone waits for is last on the queue (`HeardIsLast`), that a
body's statement or a COMMIT is next to run, in the transaction it was meant for, and would land
the whole body and nothing else (`NextToRun`), and how far each call has come (`Progress`).  The
refinement then maps `RunsCommit` to the store's `Land`, the step at which a call ends to `Return`,
`Raise` or `Cancel`, and everything else to stuttering.  `EveryCallReturns` is only model-checked.

## 5. Books

The tables `fills`, `cost_basis`, `portfolio` and `pnl_ledger` of one Polymarket market held on two
tokens, and the four tasks of the event loop that write them.

| variable | code |
| --- | --- |
| `history`, `wallet`, `ended`, `redeemable` | the venue: our trades, our shares, the end of trading, the oracle's word (external) |
| `fills`, `basis`, `portfolio` | the tables, as sizes |
| `bySell`, `byTrade`, `bySettle` | `pnl_ledger` by the prefix of `source_ref` |
| `tallied`, `accrued` | what `daily_stats` and the running totals have added, of the operator's trades and of settlements; they have no key |
| `missed` | settlements whose ledger write raised and was swallowed |
| `crashes`, `faults` | deaths of the process, statements that raised |
| `cursor` | `manual_trade_state` |
| `rec`, `owed` | each call of `record_fill`, and the ledger event it holds after its commit |
| `pos`, `mon`, `res` | the locals of `_task_position_sync`, the portfolio monitor and the resolution checker |

`Rec*` is `record_fill` (look-up, transaction, ledger row); `Pos*` the sweep of off-bot trades, then
the mirror of the wallet; `Mon*` the monitor's sync and merge; `Res*` the settlement of a detected
outcome and the venue sweep; `Crash` loses the tasks and keeps the tables.  A statement may
raise, and each place handles it its own way: `record_ledger_event` swallows it, so that a sale
(`RecBookFails`) or a settlement (`ResBookFails`) goes on without its row, while the sweep of off-bot
trades looks for its row and gives up the pass (`PosBookFails`); `_settled_keys` answers that nothing
is settled (`PosMissesKeys`, `MonMissesKeys`); the settlement's clean-up logs some of its statements
and goes on (`ResCleanSkips`), or rolls back (`ResCleanFails`).

Abstractions.  A realization is the number of shares it accounts for; what they cost and fetched is
left out.  A statement that raised wrote nothing; raises are modelled where the ledger, the totals
or the keys depend on them, not in the mirror's own statements, whose pass is repeated.  `record_fill` is called for one order at a time,
as the monitor polls its orders one after the other: two calls past the look-up are not modelled.
One market, so that a query over all markets is a query over its tokens.

Runs.

* `books` (two purchases, one of each token, a sale of ours and one of the operator's).  All four
  tasks at once over four trades is out of reach, so a behaviour is a *scene*: which trades are
  made, which tasks come round, how often the process dies and how many statements raise.  The nine
  scenes hold every pair of tasks that write the same rows, all three periodic ones together with
  one purchase, and one raise with one death wherever totals without a key are added to.
  `RecordedOnce`: a fill is applied once.  `TalliedOnce`: a trade of the operator's is added to
  `daily_stats` once, and not without its ledger row.  `AccruedOnce`: a settlement is added to the
  running totals once for its row and at most once more for each write that failed.
  `HoldingsConverge`, `SettledStaysGone`, `HeldLegsSettle`: the sizes the
  mirror, the merge and the fills overwrite for each other end up as the venue has them; a settled
  leg may be resurrected, but not for ever; a leg the wallet holds at the end of its market is
  settled though its fill was never recorded.
* `books_double_sale` (finding): the sweep of off-bot trades sees a partial exit of the bot's before
  `record_fill` has recorded it, books it as the operator's, and `record_fill` books it again.

Fairness.  The event loop resumes a task that is under way and each periodic task comes round again
(weak fairness of `PosSteps`, `MonSteps`, `ResSteps`, and of a `record_fill` that has begun).  The
wallet's fetch and the sweep's request may fail at any time and are repeated for ever: strong
fairness of their success.  Nothing makes the order monitor record a fill: it may have dropped the
order.

Proved, for any trades, sizes, scenes, crashes and faults: `TypeOK`, `RecordedOnce`, `TalliedOnce`,
`AccruedOnce`.  `RecordedOnce` rests on one call per order at a time: the look-up of `record_fill` is
not in its transaction, and nothing in the transaction looks again (`Looked`).  `TalliedOnce` rests
on the row the sweep looks for after writing it and on the cursor moving with the tally (`Tally`).
`AccruedOnce` rests on what the checker knew when it read the ledger (`InHand`): a leg it did not know
is behind what its row and its failed writes allow.

## 6. TransferLedger

Each call of `transfer()` is a process of its own, as `scripts/kraken_transfer.py` runs it; tasks
of one process would interleave less.  `at`, `told` are the call's place and the status it
returned, `reservation`, `day` its row, `writer` the file's write lock (`BEGIN IMMEDIATE`),
`kraken` what became of its withdrawal, `utcDay` the UTC day, `killed` the kill-switch file.

Actions: the guardrails (`Blocked`, `NotArmed`, `AsksApprover`, `Approves`, `Denies`); `_reserve`
in two (`ReserveReads` takes the lock and reads the sum, `ReserveInserts` reads the clock again),
with `ReserveFails`; `Withdraws`; the answers `Uncertain` (an exception, or no refid), `Refused`,
`Accepted`; `Releases`, `MarksExecuted`, `SettleRaises`; and `Dies` at any step.  `Midnight` may
come between any two of them.

Assumed: Kraken's error answer means nothing moved; the clock does not go back; amounts are
natural numbers (a number of cents), so that the SQL SUM is exact.  `Spent`, the SUM, is a constant
operator with its two laws as assumptions; TLC evaluates them for the sum of `MCTransferLedger`.
The one-time import of the JSON ledger is not modelled.

Checked in the run `desk`, with a large and a small transfer of which only one fits under the cap,
over two days, enough to have midnight fall between the sum and the row.  `CapKept`: no day's
reservations exceed the cap.  `WithdrawalsCounted`: a withdrawal that was sent and not refused is
on the ledger whatever its call was told.  `ExecutedIsFinal`: a call that finalizes finds its
reservation, and "executed" is only told of money that left.  `transfer_kill_switch` (finding): the
kill switch is touched while the approver is asked; the withdrawal is sent all the same.

Proved, for any calls, amounts, caps and days: `TransferTypeOK`, `CapKept`, `WithdrawalsCounted`,
`ExecutedIsFinal`.  The cap is not inductive, because the row may be dated a day later than the sum
that admitted it.  The invariant's conjunct `FitsCap` says that a call between the two has room in the
day it read and that no later day has a row yet; it holds because the call keeps the write lock and
no row is dated in the future.  A row dated on a later day is then the first of that day, and its
amount alone fits under the cap.

## 7. The desk

Components that share no state with each other are checked in one run, `desk`: `MCDesk` chooses
one of them, the *focus*, in the initial state; its actions fire and the variables of the others
stand still.  The run therefore explores each component by itself; it is no composition.
`DeskRunsComponents` proves that a behaviour of the desk is, for each component, a behaviour of that
component's specification, so that what is proved of those holds on the desk; `DeskTyped`, that
all their states are of their types (`DeskTypeOK`), for every value of the constants.  The
fairness of each component holds in the behaviours that follow it.  Deadlock is not checked: the
bounds stop the components that do not go on for ever.

Some properties hold but for a case the code leaves open.  A *ghost* variable, which no guard reads,
then records exactly when that case has occurred, and the property says that nothing else breaks it.

**CallBudget** (`nlp/call_budget.py`, `nlp/analyzer.py`).  `row` is `claude_calls` of today;
`pending`, `memCalls`, `memDay` a process's memory; `calling` who is between check and count.
`CallStarts` checks, `Counts` is `record_call` with its three outcomes: it lands, it misses the
lock, or it lands and the read after it raises.  `PeakOpens`, `BudgetMidnight`, `BudgetRestart`.
Counts are kept apart by caller; the code's numbers are their totals.  `CountExact`: what is
counted is what was made, but for what a death lost (`lost`) and a failed read repeats
(`recounted`).  `CeilingKept`: callers that stop at a ceiling pass it by less than the calls they had
under way plus the failed reads and writes; at a ceiling of none, a call that began before midnight
still counts for the new day, so the limit is then one.  Two callers share the bot, one, which may
spend nothing before the peak, runs in a CLI; two days, one error, one death.  Left out:
`set_db_path` and a budget of zero, which means none.  Proved: `BudgetTypeOK` and `CountExact`, with
the invariant that no process remembers a day to come, so that the memory expires when the day
turns; and `CeilingKept`.  That one is a bound on sums over the callers, which need induction; here a
count is a finite set of pairs, one for each call (`Tally`), and a sum its cardinality, so that sums
are compared by injections.  Its invariant has two parts: what the processes have not written, and what died
unwritten, is at most one call for each fault (`FaultsCover`); and what any callers that stop at a limit
made or have under way exceeds it by less than their number and the faults (`WithinReach`).

**Exits** (`bot_exits.py`, the loop in `bot.py`).  `keys` is `_exit_pending`, `walls` the failures
whose retry time has not come, `selling` the tracked SELLs, `tick` the loop.  `Attempt*` follow the
executor, with the token it looks up by market.  `ExitsKeepTrying`: a position that should exit is
attempted again and again, unless a key was left with no tracked SELL to clear it (`orphaned`), or
the market left the portfolio.  Up to two SELLs of a token, one restart, either token dust or a lot.
Fair: the loop and the mirror come round, time passes, and a SELL that rests is polled until it
ends.  Proved: the types.

**Redemption** (`broker/onchain.py`, `cli/redeem.py`).  `guard` is the table, `mempool` and
`claimed` the chain, `attempt` each sender.  A transaction signed with a nonce that another one
used runs no more.  `ConfirmedMeansPaid`; `SentOnce`: a sender has one transaction of a condition
in flight, but for broadcasts the table does not show (`untracked`); `RedemptionRetried`: a winner
is tried again while the gates are open, unless its row says it was sent.  Two senders, a standard
and a negative-risk condition, two transactions in the mempool.  Fair: the bot's task comes round
hourly and each of its waits has a timeout; nothing is asked of the chain or of the CLI.  Proved:
types, `ConfirmedMeansPaid` and `SentOnce`, by following a transaction from broadcast to row.

**EntryCap** (`_exceeds_market_cap`, `submit`, `place_legs`).  `stake` is the side's cost basis,
`reserved` a batch's own legs, `resting` what is ordered and not booked.  `ExposureBounded`: stacked
entries pass the ceiling by less than what was ordered and not booked at once.  The cap itself is no
bound, as orders in flight do not see each other; and a batch's reservations are compared with the
ceiling apart from what is held.  Left out: market-maker quotes and mirrored positions, which the
cap does not look at.  Proved for any entrants and batches: the bound, which is inductive with the
types of what it adds up, and `EntryTypeOK`, for which what is at work must be the sum of what rests
and what is reserved (`WorkingSums`, a cardinality again).

**DirectedOrders** (`broker/directed_orders.py`).  `place` is the coroutine, `audit` and
`submittedAt` the row, `broker` IBKR.  `Answerable`: whatever works at the broker or filled there
counts in the table, through crashes and timeouts.  `DailyCapKept`: the cap holds but for orders
gated before another's row was written, or before midnight (`overtaken`).  One kind of order: trades
and treasury orders have caps of their own.  Both proved, for any orders and dollars: an order
that passed its gate and was not overtaken still fits.

**KalshiBook** (`sync_positions` in `exchange/kalshi.py`, `broker/kalshi_settlements.py`).  `sync`
is the pass over three tables, a statement at a time, from a list fetched before them; `sweep` the
booking of the settlement; `ledger` its rows, each behind a write whose failure is swallowed
(`Ledgered`).  `KalshiPnlBooked`: the profit of a settled market is
booked although the sync may delete the basis the sweep reads, unless both sides were ever bought,
when nothing tells which one was held.  `KalshiBooksClear`: a settled market leaves the books for
good.  One market that settles to yes or no, two fills, one restart.  The tracker runs
before the sweep in one task, so neither runs inside the other; the sweep of the CLI is left out.
Fair: sync and sweep come round, and a ledger that is written again and again takes the row (strong
fairness of `SweepLands`); the order monitor and the resolution tracker are not relied on.  Proved:
the types.

**MarketMaker** (`strategy/market_maker.py`, `_task_market_maker`, the gateway's quote pairs).
`active`, `polled`, `inventory` are `_active_quotes`, `_pending_orders`, `_inventory`; `maker` the
task, which the watchdog may abandon at any await while its request goes on (`mishaps` counts these,
lost answers and restarts).  `QuotesDoNotStack`: a side of the book holds one order of the maker's
and one more per mishap.  `TrackedWithinCapacity`: the counted inventory stays within
`max_inventory`.  Two pairs, one mishap.  One market; fills in full; an accepted order answers
"pending"; a size is anything the counted inventory leaves room for.
Proved, for any number of pairs and mishaps: `MakerTypeOK`, `QuotesDoNotStack` and
`TrackedWithinCapacity`.  The first of these needs to know which orders the maker accounts for
wherever its task is (`InPlay`: shown, to be cancelled, posted or awaited): they are of one pair and
have reached the book but for the one it waits for, and the orders that rest out of play number at
most the mishaps (`StraysCovered`).  The second needs, while nothing was lost, that what is polled is of
the quote shown (`PolledShown`) and that each leg still to be counted fits whether or not its twin was
(`Fitting`).
`market_maker_exposure` (finding): without any mishap the *held* inventory passes `max_inventory`,
because a leg that fills while its quote is replaced is never counted.

**QuoteFormation** (`form_coupled_quote`).  A pure function over the best prices, in tenths of a
cent, and the inventory, as the set of answers the code may give: it computes in binary floats, so
what falls on a tie may go either way.  `QuotesAreSound`: neither leg crosses the book, the pair
costs less than a dollar, each leg is worth the venue's minimum and fits the capacity.  Checked over
books at both ends of the prices and in the middle, narrower and wider than what is quoted, for
seven inventories.  The model follows the code where a comment does not: the docstring of the skew
(`strategy/market_maker.py:389`) says "lower bid and raise ask" for a long inventory; the code
lowers both.  Proved for any prices, inventory, spreads and size.

**RiskGate** (`RiskManager.evaluate`, `ExecutionGateway.submit`, `PolymarketClient.place_order`).
`intent` is an entry with what was decided of it; `halt`, `latch` and `demoted` turn meanwhile.
`LiveIsScreened`: what a live-only check would refuse never goes out with real money because
something that kept it on paper turned between the gate and the order, unless the kill switch was
lifted while it was under way (`lifted`; `manager.py:234` and `:250` read it apart).  Two entries,
three turns.  The live flags of the configuration are taken as set.  Proved for any entries and
turns: the invariant keeps, at each step of an entry, what made it paper (`ScopeHolds`), as its last
step looks at that and no longer at its cause.

**PaperBook** (`exchange/paper.py` and the paper lane of the monitor).  `paper` is where each order
is, `walk` what `check_fills` has left to look at, `traded` what it has to book.  `PaperCashKept`:
the positions' cost stays within the wallet, but for orders granted while another waited to be
booked (`late`).  Entries only, three orders, a wallet for two small ones, no profit.  Proved for
any orders, wallet and costs that add up: together with what was booked in turn, the one order that
was granted in turn and waits to be booked fits in the wallet, and a walk that is over has looked at
every order.

## 8. What is proved and what is only checked

TLAPS checks every theorem of the eight `*Proofs` modules, from the named assumptions on the
constants alone; each module with an ASSUME is extended by the module of a passing run, where TLC
evaluates it.

Every safety property of a passing run is a theorem, and so is the refinement of `AtomicStore`.  The
invariants above name what had to be added to make each inductive.  Where a law of sums is needed,
it is either an assumption on a constant operator that TLC evaluates (`Spent`, `Dollars`, `Costs`:
additive over disjoint sets) or a cardinality (`Total`, `WorkingSums`), for which the library's
facts on finite sets suffice: induction over data is out of the provers' reach.

Only model-checked: the liveness properties (`OrdersWindDown`, `EveryCallReturns`,
`HoldingsConverge`, `SettledStaysGone`, `HeldLegsSettle`, `ExitsKeepTrying`, `RedemptionRetried`,
`KalshiPnlBooked`, `KalshiBooksClear`), as TLAPS has no rules for
fairness here; and the seven findings (`live_orders_race`, `live_orders_token`,
`live_orders_orphan`, `shared_connection_orphan`, `transfer_kill_switch`, `books_double_sale`,
`market_maker_exposure`), each a counterexample TLC prints.

## 9. Not modelled

The definitions stand for some 6,400 of 85,000 lines.  What is left out is mostly not a
transition system: settings, schema and migrations, HTTP clients and parsers of venue answers,
prompts, reports, displays and the CLI.  A second part is arithmetic on floats over market data
(risk checks, Kelly sizing, signals, the Kraken pillar, research and backtests): sequential
functions that unit tests reach and TLC, without reals, would only transliterate.  Arbitrage
execution places its legs at once and rolls back by cancelling; its hazard, a cancel that meets a
match, is the one `live_orders_race` shows.  IBKR's and Kraken's own order books differ from
`LiveOrders` in transport, not in what their tasks do to the tables.

Seen in the code, and covered by no property:

* a swallowed ledger write (`ledger.py:241`) loses the row of a sale for good, as the replay of its
  fill is ignored (`Books`: `RecBookFails`); a settlement that lost its row, brought back by the
  monitor, is accrued again, which `AccruedOnce` bounds by the failed writes and does not exclude,
  though `resolution_tracker.py:638-641` says the ledger row keeps the totals from counting twice;
* one Kalshi settlement may be on the ledger under `settle:` and under `kalshi-settle:`, as tracker
  and sweep look for their own reference only (`kalshi_settlements.py:98`; `KalshiBook` reaches it);
* two trades rows of one order, written out of order: an order that fills before the gateway
  mirrored it gets the monitor's fallback row and the gateway's own, and the shutdown sweep writes
  "cancelled" over "filled" (`bot.py:2124`; both are in `LiveOrders`);
* an exit's key is added after two awaits, so its SELL may end before (`bot.py:545`); `Exits` models
  it and excepts it (`orphaned`);
* `place_legs` compares a batch's reservations with the ceiling without what is held
  (`execution_gateway.py:943-964`), and market-maker quotes are not checked against the cap at all;
* a graduation grant's notional is read from the mirrored portfolio (`graduation.py:202`);
* the counters of the other LLM providers live in memory only (`llm_router.py:108`);
* the alert for a redemption without receipt advises a re-send that the guard then skips
  (`bot.py:752`);
* the paper monitor compares a NO order's limit with the YES price (`bot_order_monitor.py:138`), and
  `cancel_expired` ignores its TTL (`paper.py:268`; `QueueExpires` has it so);
* an arbitrage whose leg answers "pending" counts as complete, and a raise inside `gather` skips the
  rollback (`bot_arb_execute.py:521-575`);
* a settlement at 0.5 (VOID), and the residual quantity of a venue correction
  (`resolution_tracker.py:353-375`).

## 10. Running

    tlc -workers 2 -config SharedConnection.cfg SharedConnection
    tlapm SharedConnectionProofs.tla

`books` and `desk` take about two minutes each, the other runs a minute or less; the proofs
take some minutes from nothing.
