# Formal models of the Bharat trading platform

TLA+ modules that describe the stateful core of this repository and the rules it
trades by, model checked with TLC and, except for liveness, proved with TLAPS.
The models are written from the code under `packages/` and `apps/`; `PROJECT.json`
maps each definition to the lines it stands for and lists every run, every known
hazard and the properties that answer it.

Nothing in the platform keeps shared state in memory across requests except the
replay task manager. Everything else that can go wrong between two callers goes
wrong in the database: each request opens an `AsyncSession`
(`packages/database/session.py`), the services read with plain `SELECT`s, keep
what they read in Python objects, flush, and leave the commit to the caller.
The models are therefore about transactions that interleave between their
statements, about events that arrive late, twice or in another order, and about
processes that die in between.

## Inventory

### Order execution: `packages/execution`, `packages/broker_adapters`

* **State machine** (`state_machine.py`). A pure reducer over `OrderState`:
  status, filled quantity, broker order id, last event time, processed event
  ids, version, reconciliation reason. Operations: `initial_order_state`,
  `apply_order_event`. Hard: events are repeated, reordered and contradictory;
  the order of the checks matters; `RECONCILIATION_REQUIRED` absorbs.
  Correct when fills and status agree, an ended order stays ended, nothing is
  counted twice.
* **Repository** (`repository.py`). Two tables, the order row and the event log.
  Operations: `create`, `load` (two statements), `apply` (load, reduce,
  versioned UPDATE, insert), `events`. Hard: concurrent callers, a torn load, a
  crash before the commit, waiting for row locks. Correct when it behaves as an
  atomic ledger and the log replays to the row.
* **Reconciliation** (`reconciliation.py`). A pure comparison of local orders
  with the broker's. Correct when "safe to trade" means that the two agree.
* **Adapters** (`base.py`, `dhan.py`, `upstox.py`). Stateless; `place_order`
  checks the risk decision and the execution authorizer, sends one POST and
  never repeats it; `cancel_order` sends one DELETE. Hard: an unclear answer.
  Correct when one local order is at most one order at the broker.

The code that glues these together (a coordinator that records the events of one
order around `place_order`, and a handler that applies the broker's callbacks)
is not in the repository; the models state how it must use the parts.

### Risk and paper trading: `packages/risk_engine`, `packages/paper_trading`

* **Risk engine** (`engine.py`). A pure function from intent, context and limits
  to a decision. Exits skip every entry lock and are bounded by the position.
* **Risk persistence** (`persistence.py`). One decision per intent with a
  fingerprint of its inputs; effective-dated limits; the kill switch with its
  audit events. Hard: a decision is used later than it was made; the switch is
  read and written without a lock.
  Operations: `load`, `set_kill_switch`, `activate_automatic_kill_if_required`,
  `evaluate`, `evaluate_with_persisted_configuration`. Correct when an intent has one
  decision whoever asks again, and the switch is what its last audited change made it.
* **Paper broker** (`broker.py`). Ledger (cash, peak equity), positions, orders,
  fills, P&L snapshots. Operations: `initialize_account`, `execute_market`,
  `mark_to_market`. Hard: overlapping fills and marks, retried idempotency keys,
  partial closes and reversals. Correct when cash, position, average and
  realized P&L account for exactly the filled orders, once each.

### Replay: `packages/replay`, `apps/api/replay.py`, `apps/api/main.py`

* **Engine, coordinator, session repository** keep a cursor and an optimistic
  version per session. Operations: step, seek, snapshot, save.
* **Scheduler** advances a session serially and commits every frame.
* **Task manager** owns at most one scheduler task per session in its process:
  an in-memory map under an `asyncio.Lock`, a stop event and a status per task.
  Operations: start, status, stop, close.
* **Run rows** (`task_persistence.py`) are the durable evidence: RUNNING before
  the task starts, a terminal outcome after it ended.
* **HTTP API** reads the session, checks the expected version, then calls
  `start`; steps and seeks go through the coordinator directly.
  Hard: races of start, stop, end, shutdown and crash; several processes with
  one database; a commit whose answer is lost. Correct when a playback shows
  consecutive candles, its row says what it did, a stop is prompt, and every run
  ends in a terminal row.

### Market data: `packages/market_data`, `apps/api/market_data.py`

* **Validation** (`validation.py`). A pure pass over a batch: duplicates, order,
  gaps, drift, malformed bars. It reports and never repairs.
* **Ingestion** (`ingestion.py`, `repository.py`). Raw rows, normalized candles and
  quality events, inserted with ON CONFLICT DO NOTHING and committed together.
  Hard: retried and overlapping batches; a bar that had not ended when it came.
* **Calendar** (`market_data.py`). Sessions with a publication time, immutable,
  each import audited. Hard: racing imports of one day.
* **Aggregation and the reader** (`aggregation.py`, `list_candles`). Stored closed
  candles as of an instant, combined into intraday, daily or weekly buckets. Hard:
  short and special sessions, partial ranges, evidence published later. Correct
  when what was answered about an instant stays so, and an aggregated candle
  is made of the whole bucket and nothing later.

### Structure detection: `packages/smc_ict`

* **SMC/ICT engine** (`engine.py`). A pure function of a sequence of closed candles:
  swings, breaks of structure and turns, liquidity sweeps, displacements, equal levels,
  fair value gaps with their mitigation, invalidation and inversion, order, mitigation
  and breaker blocks, reference levels and price zones, and the overlays of a chart.
  Called again on every longer sequence. Hard: nothing may be said before the candle
  that shows it, and nothing said may change; a walk that keeps a trend and the swings it
  has used up; days and weeks of a calendar. Correct when no finding repaints.

### Decisions and backtests: `packages/strategies`, `packages/decision_engine`, `packages/backtesting`

* **Regime and strategies** (`regime.py`, `engine.py`). Pure functions from a snapshot of
  features to the kind of market and to a signal of one of five strategies, behind a
  common gate of session, events, liquidity and regime. Nothing in the repository
  builds a snapshot or runs them yet.
* **Decision engine** (`engine.py`). A pure function from a strategy's signal and its
  scores to a decision: an entry that fails a gate becomes no trade, an exit is
  never held back.
* **Backtest** (`engine.py`). A loop over closed candles with a position, one queued
  decision, an equity, a peak and two curves, around a decision provider it is given.
  Hard: the order of what happens in one bar (queued decision, stop and target, the
  provider, the mark), gaps, the end of the data. Correct when nothing is executed on
  the bar it was decided on, no decision is lost, no fill is better than its bar allows,
  the curves account for every trade, and what is open was justified where it was
  decided and is bounded where it was filled.

### Access and models: `packages/auth`, `packages/machine_learning`

* **Tokens** (`tokens.py`, `persistence.py`, `apps/api/main.py`). Configured tokens with
  roles and expiry, deactivated by configuration or revoked for good by an operator, with
  an audit event. Hard: two revocations of one token at once. Correct when a token has one
  revocation, one audit event, and everybody is told the evidence that is durable.
* **Model registry** (`persistence.py`). Versions with immutable metadata, a stage each,
  and a log of predictions. Hard: promotions read the champions before they replace them.

### Datasets and option chains: `packages/replay`, `packages/options`

* **Datasets and sessions** (`datasets.py`, `persistence.py`). Candles under their digest,
  and sessions on a dataset; the same request gets what is there, another one a conflict.
* **Option chains** (`options/persistence.py`). A provider's event and the chain made of
  it, in two tables that are written together and read one after the other. Hard: an
  ingestion that commits between the two reads. Correct when a caller is told the content
  that is durable, or an error.

### The rest

Options analytics and indicators are floating-point calculations. Settings, domain declarations, logging, migrations and the
web console have no state machine of their own.

## The modules

    OrderStateMachine          the reducer
      OrderLedger              abstract: one atomic application per change
        ExecutionOrderRepository         transactions over row and log
          MCExecutionOrderRepository     instance for TLC, replay of the log
          ExecutionOrderRepositoryProofs theorems
        OrderExecution         coordinators, broker, callbacks   (+ Reconciliation)
          MCOrderExecution
          OrderExecutionProofs           theorems
    PaperAccounting, RiskEngine          pure functions
      PaperTrading             authority and paper broker, overlapping callers
        MCPaperTrading
        PaperTradingProofs               theorems
    Aggregation                closed buckets of trading sessions (pure)
      MarketData               operators that import, readers as of an instant
        MCMarketData
        MarketDataProofs                 theorems
    ReplayPlayback             managers, schedulers, operators, one session
      MCReplayPlayback
      ReplayPlaybackProofs               theorems
    DecisionEngine             signals and scores to decisions (pure)
      Backtest                 the bar loop, any candles, any provider
    MarketRegime               features to the kind of market (pure)
      Strategies               the five strategies (pure)      (+ DecisionEngine)
        StrategyBacktest       a backtest that runs them       (+ Backtest)
          MCStrategyBacktest
          BacktestProofs                 theorems, of both
    MarketStructure            swings, gaps, displacements, equal levels (pure)
      StructureBreaks          breaks, turns, sweeps, blocks (pure)
        MarketAnalysis         every prefix of the candles     (+ PriceLevels)
          MCMarketAnalysis
          MarketAnalysisProofs           theorems
    FindingsLog                abstract: said once, never before, never otherwise
    Transactions               calls with sessions at READ COMMITTED
      RiskControls             limits, kill switch, decisions  (+ RiskEngine)
      AccessControl            tokens and revocations
      ModelRegistry            versions, champions, predictions
      AccessControl
        EvidenceTables         replay datasets and sessions, option chains
        SafetyControls         all of these composed
          MCSafetyControls
          SafetyControlsProofs           theorems
    WriteOnce                  abstract: a key is recorded once, answers agree

**OrderStateMachine** splits `OrderState` into the row and the set of processed
ids, because the database keeps them in two tables and reads them separately.
The checks of `apply_order_event` are operators of their own (`Stale`,
`ConflictingBroker`, `Allowed`, `Overfills`) in the order of the code;
`Refused` is where it raises `ValueError`. Decimals are counted in units.

**OrderLedger** is what the repository promises: `Record(e)` applies one event
with a new id to the durable state and logs it with the resulting version.

**ExecutionOrderRepository** runs `apply()` as `LoadRecord` (row), `LoadEventIds`
(ids, possibly newer than the row, then the reducer), `UpdateRow` (waits for the
row lock; matches the version or ends in a conflict) and `Commit`; `Rollback` at
any point is the caller's error, cancellation or death. `holder` is the
transaction that has the row lock.

**OrderExecution** composes the ledger (whose implementation by the repository
is proved) with coordinators, a broker with its own book and stream, and the
callback handler. `call` is the `place_order` call in flight. Any callback of the
stream may be delivered at any time and any number of times; `inOrder`, chosen
initially, restricts the stream to first deliveries in order, for the properties
that need it. Coordinators may record cancellation requests and risk answers at
any time; `CoordinatorDies` loses the call in flight.

**RiskEngine** and **PaperAccounting** are the pure parts. **PaperTrading** runs
the calls as transactions. The autoflush of the position query is modelled as
what it is: the fill takes the ledger row *after* it has read the cash balance
and *before* it reads the position. `overlap`, chosen initially, says whether
transactions of the account may overlap; what holds only if they do not is
stated with `~overlap`.

**Aggregation** counts time in units, with days and sessions of a few of them; the
bucket arithmetic, the completeness test and the weekly rules are those of the
code. **MarketData** runs an import of candles as `CheckSourceEvents` (the endpoint's
test that ids kept their content), `CompareWithStored` (validation, then the read of
what is stored) and `Store` (the insert-ignores and the commit, which take effect in
the order of commits since the second insert of a key waits for the first), and an
import of sessions as `BeginImport` and `CommitImport`. `ListCandles` is the reader,
an operator over the committed tables. `overlap` is chosen as in PaperTrading. A
session closes after it opens, on its day, which is what the domain and the endpoint
demand of one (`domain/models.py:201-205`, `market_data.py:129-141`). The number of
candles of a whole bucket is a quotient the code rounds down, and no candle is checked
for where it begins (`aggregation.py:92-98`); `OnGrid` says where neither matters: a
session is a whole number of candles and every candle is one of these, or a daily candle
begins with the session of a trading day. The properties of aggregated answers are about
candles on the grid: in a standard session of 375 minutes, bars of 1, 3, 5 and 15 minutes
that begin at its open.

**ReplayPlayback** has one `pc` per playback request and one for an operator.
The manager's lock is held exactly while a task is `starting`, which is the only
`await` inside it. The scheduler's `sleep` is an interleaving point: `Play` may
come any time after the commit. Each save is `UpdateSession` (row lock, version
in the WHERE) and `CommitFrame`. `Crash` and `Close`/`Exit` are a process dying
and shutting down; `CommitUnanswered`, `StartFails` and `RecordFails` are commits
whose caller sees an error. `history`, `asked` and `lost` are auxiliary: they are
never read by an action's guard, except that the operator's bound counts `history`.

**DecisionEngine** keeps scores and weights as functions from names to hundredths, in
which the score of a missing model is missing. **Backtest** is the loop: `Bar` is one
pass, `PlayBar` the order of what it does, `Finish` the end of the data. The data is
not given beforehand: each bar's candle and the provider's answer to it are chosen
when the bar comes, so that what is checked is checked for every series, and what
happened cannot depend on what comes. Time is the number of the bar, and the provider
stamps its decisions with the bar it is asked about. `book` is what the loop carries
from bar to bar. A drawdown is the fall and the peak it is divided by in the code.

**MarketRegime** and **Strategies** are one operator per rule of the code; a rule that
the code writes once per direction is one operator of a direction. What may be missing
from a context is a set of at most one element. **StrategyBacktest** is a `Backtest`
whose provider evaluates a strategy on a snapshot with the close of the bar, decides on
the signal, and remembers in `basis` what a queued or open trade was decided on. The
snapshots are enumerated: what computes the features is not in the repository.

**MarketStructure** and **StructureBreaks** read each kind of finding off a sequence of
candles. The code walks the candles of `_structure` once, with a trend and the set of
swings it has consumed; here a break is the first close beyond a swing while that is the
latest of its side, and a turn is a break whose predecessor went the other way. Both
statements are of sets, so that they can be proved about. **PriceLevels** holds what the
newest candle may replace. **MarketAnalysis** closes one candle after the other; its
state is nothing but the candles, and its findings are those of `analyze` on them.

**Transactions** is what the services of **RiskControls**, **AccessControl**,
**ModelRegistry** and **EvidenceTables** share: a call reads, keeps what it read in `txn`, writes at its end and
is committed or rolled back as a whole. None of them reads after its first write, so a
write, the lock it waits for and the commit are one step; the promotion of a model is the
exception, an UPDATE that finds its rows before it waits for them, and has a step of its
own. `told` is what a step answers its caller. An UPDATE writes the columns that differ
from what was read (SQLAlchemy leaves the others out), which is what `Written` says.
**EvidenceTables** keeps a chain and its raw event as one record, because one transaction
writes both; reading them is two steps, and what the first found is in `txn`. Sessions are
there without their progress, which is the state of ReplayPlayback.
**SafetyControls** composes them over the same callers; `overlap` is as in PaperTrading.

## The runs

| run | instance | what it shows |
|---|---|---|
| ExecutionOrders | 2 callers, a 2-unit order, 9 events | the row and log stay one history; the repository implements `OrderLedger`; the log replays to the row; ended orders stay ended |
| OrderExecution | a 3-unit order, 3 instants, 7 local events | at most one broker order; never ahead of the broker; reconciliation is safe only when in step, and always once everything is delivered |
| PaperTrading | 2 callers, 3 intents, 2 prices | position and idempotency under any overlap; cash, average, profit, equity and peak in turn; an exit decided on the position it meets reduces it |
| ReplayPlayback | 2 processes, 2 playbacks, 2 candles, 1 move by hand | consecutive frames, one task per process, truthful rows, prompt stops, and every run ends in a terminal row |
| MarketData | 2 operators, 2 sources, 4 batches, 2 calendars, days of 6 units | answers about an instant are stable, agree between instants and ranges, and are exactly the whole buckets; candles are traceable and differences reported when imports take turns |
| MarketAnalysis | every sequence of up to 7 candles of 5 shapes, 3 days, 2 weeks | no finding repaints or is dated back; one candle breaks one way; levels follow the sessions; charts only extend |
| Backtest | up to 5 bars of 5 shapes, 5 strategies on 7 snapshots, 2 scores, exits | what is queued or open is justified and bounded; decisions take effect on the next bar and not before; fills are conservative; equity, curve and drawdowns add up |
| SafetyControls | 2 callers, any 4 calls | decisions, revocations, versions, predictions, datasets, sessions and chains are written once and everybody is told the same; revocations and the switch are audited; no entry under the switch; one champion |
| CancelRace, LostCash, StaleExit, OpenCandle | the same instances (CancelRace two units and two instants) | the four disagreements below |

*Bounds.* Two callers are enough for every race here: each is between one
transaction that reads and one that writes in between, and the repository's
safety properties are proved for any number, as those of the paper account, the
playbacks and the controls are. A two- or three-unit order is the smallest
with a partial fill, a full one, an overfill and a partial fill inside a pending
cancellation. The events of ExecutionOrders hold one of each hazard: two
timestamps, a second broker id, and one event id used by two events.
Seven local events are five to reach the broker and two more (a second cancel, a
late risk answer). The paper intents are a buy, a sell that reverses it and an exit,
both entries resized at the higher price; retries are the same intents again, and
an exit approved earlier increases the reversed position. Prices are multiples of
three so that the averages of these fills are exact: the code keeps eight decimals,
and rounding is not what the properties are about. Two candles with step limits
of one and three make each outcome reachable: `step_limit`, `complete`, `stopped`,
`failed`. The batches of MarketData hold each thing validation looks for, an event id
whose content changed, a second source that differs, and a week of daily candles
under a calendar with a holiday and a shortened day; two instants of the clock, in
the middle of a bar and after the week, let a bar be stored open and seen again
closed, and three instants readers ask about tell the publication of each calendar
and the ends of the buckets apart. Five bars are enough for two trades one after the other, each decided, opened,
and closed, or refused; the candles are a calm one, one that touches
both stop and target, a climb to the long's side, and a gap beyond either side. The
snapshots are a bull and a bear market in which a strategy of each kind finds its
entry, a range with a sweep, and each of them once more with one lock closed or one trend
turned; one of the scores lacks the confidence the decision engine asks for. Every
strategy is the basis of some trade. Prices are
multiples of a hundred with ten per cent of slippage and costs, so that these divide
evenly: the code's decimals are exact there too. Slippage below the whole price is an
assumption (`BacktestAssumption`): beyond it a fill price is not positive, and the
code's sizing divides by it. ReplayPlayback has liveness and so may not use symmetry; two candles keep the
product TLC searches small, and runs that show none, one and all of them remain.
Seven candles hold an external swing with its two candles on either side, its break, a
turn, a gap that is filled and inverted, and a block that is tested and broken; the
five shapes are a calm candle, a small climb, a displacement up and one down, and a wide
reversal. Four calls are two that race and two that prepare or judge the outcome: a
change of the switch, an evaluation, its repetition under the switch and the release; two
registrations and two promotions. Which order they come in is free.
Deadlock is not checked where the system may stop: an order that has ended with
its stream delivered, a session or callers whose requests are used up, a sequence of
candles at its bound, and a backtest at the end of its data.

*Fairness.* One run, ReplayPlayback, checks liveness, under `FairSpec`. `RunsAreRecorded` assumes that the database
answers, that row locks are granted in the order they were asked for, which PostgreSQL
does (strong fairness of the updates), that a session is committed or rolled back when
its block is left (`async with database.sessions()` does one of the two on every path),
and that the event loop runs a task that is waiting for nothing else. No request is
assumed to be made, nobody is assumed to stop, and crashes, failed commits and refused
rows are never excluded; a run that lost its terminal write is in `lost`, and the
property says so. That a call of `apply()` ends is not a run of its own: what could
keep it waiting is a lock without an owner who can end its transaction, which
`WriterIsCurrent` excludes for any number of callers.

*What overlapping callers can do* is part of what the runs state, in the `InTurn`
properties, which hold without overlap and fail with it: an automatic kill that overlaps
a release can leave the switch released with the automatic reason, since each UPDATE
writes only the columns it saw differ (`risk_engine/persistence.py:230-258`); two promotions
can leave two champions (`machine_learning/persistence.py:103-117`); an entry whose
configuration was read before the switch was set is approved after
it. None of the three contradicts a statement of the documents, which
speak of one change at a time.

*Mutants.* Every property has a mutant of the code (operators commented as
slips, placed before the definition they replace): a dropped version check, an
unlocked read, a transition too many, an id that is not kept. Each makes the
property fail, so none of them holds by the shape of the model.

## Disagreements between the code and what it says

* **CancelRace.** A partial fill in `CANCEL_PENDING` sets the status to
  `PARTIALLY_FILLED`; the broker's confirmation of the cancellation then has no
  transition and raises, in a complete and ordered stream
  (`state_machine.py:95,128`, `docs/architecture/order-lifecycle.md:9-12`).
* **LostCash.** Overlapping fills lose a cash flow: the balance is read without a
  lock and written as a value (`broker.py:127-140`,
  `docs/architecture/paper-trading.md:18-19`). The position does not lose the
  fill, so cash and position drift apart.
* **StaleExit.** An exit approved on one position and filled against a smaller
  one reverses it (`engine.py:154-164`, `broker.py:281-298`,
  `docs/architecture/risk-engine.md:24-26`).
* **OpenCandle.** A bar stored before it ended is compared whole, `is_closed`
  included: a retry of the same event ids after its end is recorded as a conflict
  with itself, and the bar is never returned (`ingestion.py:44`,
  `validation.py:97`, `docs/api/historical-market-data.md:27-28`).

A fifth was met and has no run: a playback that fails after committing frames is
recorded with zero frames and no version (`tasks.py:128-138`, against
`docs/architecture/replay.md:92-93`, by which every task persists its frame count and
resulting version); `RunsTellWhatHappened` is about the runs that did not fail.

## What is proved

### The order repository

`ExecutionOrderRepositoryProofs` proves, for any set of callers, any set of
well-formed events and any positive quantity, under the named assumptions
`QuantityAssumption`, `EventsAssumption` and `WorkersAssumption`, and nothing about
fairness:

* `TypeCorrect`: `Spec => []TypeOK`;
* `FillsCorrect`: `Spec => []FillsMatchStatus`;
* `LogCorrect`: `Spec => []LogIsAHistory`;
* `WriterCorrect`: `Spec => []WriterIsCurrent`;
* `LogReplays`: `Spec => []LogReplaysToRow`;
* `ImplementsLedger`: `Spec => LedgerSpec`;
* `TerminalStaysFinal`: `Spec => TerminalIsFinal`.

The argument is the inductive invariant `IInv`: the type, the fills, the history,
`LockIsOwned` (whoever has the row lock has updated the row), and `SnapshotsSound`, which says what a caller in the middle of `apply()` may still
rely on. `WriterIsCurrent` alone is not inductive: the event ids come from a second
`SELECT`, so it takes the facts that versions only grow, that a base with the
durable version *is* the durable row, and that an event not refused and not a
duplicate when it was reduced still is neither as long as the version has not moved.
Every theorem follows from it: a step that changes the durable state is a `Commit`
of a writer that is current, which is a `Record` of the ledger (`CommitRecords`),
and fills and final states are then facts about one application of the reducer.
`LogReplaysToRow` folds the reducer over the log in the order of versions. Its invariant,
`RowHasHistory`, says that *some* function of versions starts at the new order, takes the
step of the logged event at each version without refusing it, and ends at the durable row;
a `Record` extends it by one version. That the replay is that function is an induction on
versions (`LeastNumber`, below).

### The order at the broker

`OrderExecutionProofs` proves, for any quantity and any bounds on instants and
local events, and under `BrokerAssumption` (the broker's order id is not the
absent one) beside `QuantityAssumption`:

* `OneBrokerOrder`: `Spec => []AtMostOneBrokerOrder`;
* `DoubtStaysUnsafe`: `Spec => []DoubtIsUnsafe`;
* `OrderTypeCorrect`: `Spec => []TypeOK`;
* `NeverAhead`: `Spec => []NeverAheadOfBroker`;
* `DrainedReconciles`: `Spec => []DrainedMeansReconciled`;
* `FillsAreKept`: `Spec => InOrderFillsKept`.

`AtMostOneBrokerOrder` is not inductive: nothing in it stops a second submission.
The invariant adds `SubmissionInv`, that a local status before submission means that
nothing was sent and nothing is in flight (`SUBMIT_STARTED` is recorded once, in
`APPROVED`, and no transition leads back to it, which is `NextStatusFacts`), and
`KnowledgeInv`, that the local row knows neither a broker id nor a fill of an order
the broker has not received. `DoubtStaysUnsafe` then is a case split on what the
broker reports: nothing (the local order is missing at the broker,
`UnassignedIsUnsafe`), an order the row does not refer to (`UnknownIsUnsafe`), or
the order itself with another status or quantity (`MismatchIsUnsafe`; the broker
never reports the local-only statuses).

The others take `StepInv`, which relates the two books through the stream:
`StreamInv` (callbacks are numbered, and an end is the broker's last word),
`DeliveryInv` (the ids in the log are those of local events and of callbacks of the
stream), `RowInv` (a local end is that of a callback applied, with all before it if
the stream is in order) and `FillInv`, that the local fills are the sum of the
callbacks applied and the broker's the sum of all. The invariant says that *some* function
of sets of callbacks is such a sum (`Sums`: zero of nothing, additive, monotone), and every
new callback extends it, so that no induction on the set is needed. `NeverAheadOfBroker` is then monotonicity, and in
`DrainedMeansReconciled` the callbacks applied are all of them.

### The paper account

`PaperTradingProofs` proves, for any callers, intents, prices and costs, under
`PaperAssumption`:

* `PaperTypeCorrect`: `Spec => []TypeOK`;
* `FilledOnce`: `Spec => []FilledOnceAsDecided`;
* `FreshExitsReduce`: `Spec => FreshExitReduces`;
* `MarksAreTrue`: `Spec => MarksAreTrueInTurn`;
* `PositionAlwaysAddsUp`: `Spec => []PositionAddsUp`, under any overlap;
* `CashAddsUpInTurn`: `Spec => [](~overlap => CashAddsUp)`;
* `FillsRoundLittle`: in turn, a fill moves cash, position at cost and realized profit
  apart by less than a unit for each unit then held;
* `BooksBalanceWhenExact`: `Spec /\ NothingRounded => []BooksBalanceInTurn`.

The invariant says what a call may rely on between its statements. A fill that was flushed
holds the ledger row (`HolderInv`), so that until it commits no order has its key and
the position is the one it read (`FlushedInv`); what it is about to store was approved for
that intent (`FillInv`), and what was decided is what the risk engine says at some price
(`DecisionsInv`). The first two theorems follow. For the third, only a committed fill adds
an order (`OnlyCommitsFill`), the engine bounds an exit by the position it was shown
(`ExitFits`), and the position after the fill is a matter of arithmetic. Callers who take
turns write on what they read (`MarkInv`, `TurnsInv`), which is the fourth theorem.

The sums over all orders are folds of the community modules. `Sums(f, SUBSET S, v)` says of
a function of the subsets of S that it is such a sum: zero of nothing, and of any other set
the value of a chosen element and the sum of the rest. One exists (`SumsExist`), two agree
(`SumsAgree`), it does not matter which element is taken out (`SumsTakeOut`), so that one
more order adds its value (`TotalAdds`), and the fold is one (`TotalIsTheSum`). The
invariants `SumsInv` and `CashInv` then hold with one step per fill: of the position under
any overlap, since a fill reads it with the ledger row held, and of the cash when callers
take turns, since then the balance a fill read is the balance it replaces.

The balance of the books is where the attempt showed what was missing. The code divides
the cost of a position by its size whenever a fill adds to it and keeps eight decimals;
the model divides and rounds to units, and with any prices the last equation of
`BooksBalanceInTurn` fails by what was rounded. `FillBalances` computes a fill's effect,
over openings, increases, partial closes and reversals: it is nothing but that remainder.
So the theorem says how much at most (`FillsRoundLittle`), and where nothing is rounded,
nothing at all. In the run nothing is: its prices are chosen so, and TLC finds
`NothingRounded` true of it.

### Playbacks of a session

`ReplayPlaybackProofs` proves, for any processes, playbacks, datasets, step limits
and moves by hand, under `ReplayAssumption`:

* `ReplayTypeCorrect`: `Spec => []TypeOK`;
* `RunsUninterrupted`: `Spec => []RunsAreUninterrupted`;
* `OneTask`: `Spec => []OneTaskPerProcess`;
* `EvidenceTrue`: `Spec => []RunsTellWhatHappened`;
* `RowsFollow`: `Spec => []RowsFollowTasks`;
* `StopPrompt`: `Spec => []StopIsPrompt`.

The version of the session is the length of its history and what a writer remembers of
it was the session at that length (`SessionInv`); whoever updated the row holds it and
nobody has committed since (`HolderInv`). So a task that commits a frame continues from
the last change of the cursor, and if it has shown a frame before, that change was its own:
`FramesInv` says that the version a looping task remembers is the start of the run plus the
frames it committed, the last of them being its own. `ManagerInv` says of each process
that what is live is what it owns; `start()` may leave the old task there as long as it is
done. `Sound` says of a result, a status or a row that is final that it is true, and
`EvidenceKept` that it stays so, whoever commits. A step touches one writer, one process or
the tasks of a process that dies: `OthersKept` says once and for all what it leaves alone,
and `QuietStep`, `CommitStep` and `ProcessStep` reduce every action to what it does to its
own task.

### The controls

`SafetyControlsProofs` proves, for any callers, requests, limits, tokens and models, under
`ControlsAssumption` and the assumptions of the parts:

* `RecordsAreWrittenOnce`: `Spec => RecordsAreOnce`, the refinement of `WriteOnce` by the
  seven tables together;
* `ControlsAudited`: `Spec => []ControlsAreAudited`;
* `OneChampion`: `Spec => []OneChampionInTurn`;
* `NoEntryUnderKill`: `Spec => NoEntryUnderKillInTurn`.

Each table only gets entries of its own kind (`TablesInv`), and the unique constraint is
tested in the step that inserts, so that every step of the composed system is a step of
the abstract table or a stutter (`TableSteps`, `StepRecordsOnce`). The other three are of calls that take
turns, and take what such a call knows when it writes: the champions it found are all
but its own (`PromotionInv`), the switch is what it loaded (`SwitchingInv`), and the context
it evaluates shows an engaged switch as engaged (`KillInv`).

### The backtest

`BacktestProofs` proves, for any candles, any provider, any number of bars and any
costs, under `BacktestAssumption` and `DecisionAssumption`:

* `TypeCorrect`: `Spec => []TypeOK`, which holds also that nothing is traded without
  a whole unit;
* `FillsLater`: `Spec => []FillsComeLater`;
* `DecisionsAreEffective`: `Spec => DecisionsTakeEffect`;
* `FillsNeverFlatter`: `Spec => []FillsAreConservative`;
* `BooksAlwaysAddUp`: `Spec => []BooksAddUp`.

The invariant `IInv` says of the book that it is in order (`InOrder`: a trade is decided
one bar before it is entered and after the trade before it is over) and, until the end
of the data, that what is queued can be executed (`Executable`: an exit of what is open,
an entry into what is not). Without the second the order is not inductive: an entry
queued while a position is open would be dropped at the next open. Each part of a bar
has a lemma of its own (`CloseInOrder`, `EnterInOrder`, `ExecuteInOrder`,
`ExitInOrder`, `QueueInOrder`) and `BarInOrder` puts them together: what the open did
is not undone by a stop or a target on the same bar, it only becomes a trade.
`FillsAreConservative` takes the same parts (`FairAt`, `Untouched`): the open is a price of
the bar, a stop is taken at the worse of itself and the open, and a position that is still
there after the exits was not touched. `BooksAddUp` takes `MoneyInv`: the equity moves by
the net of each trade closed (`Balanced`, and `NetOf` is a sum by induction on the trades),
and the peak is the highest point of the curve so far, or at the end of the data the mark
the last point took the place of.

### The strategies

`BacktestProofs` proves further, for any candles, snapshots, thresholds, scores and
costs, under `StrategyAssumption`, `SnapshotsAssumption`, `AnswersAssumption` and the
assumptions of the backtest:

* `StrategiesAreAProvider`: `SSpec => Spec`, so that everything proved of a backtest
  with any provider holds of this one;
* `StrategyPositionsAreJustified`: `SSpec => []PositionsAreJustified`.

`AnswerIsJustified` goes from the locks of the gate over the rule of the strategy to the
thresholds of the decision engine; `ApprovedIsBounded` from the policy's sizing to what a
trade risks. `Backed(book, basis)` carries both through the parts of a bar.

### The analysis of charts

`MarketAnalysisProofs` proves, for any candles, windows, tolerances and calendar, under
`ConfigAssumption`, `CandlesAssumption` and `CalendarAssumption`:

* `AnalysisNeverRepaints`: `Spec => NothingRepaints`;
* `AnalysisBreaksOnce`: `Spec => []OneBreakPerCandle`;
* `LevelsAlwaysFollowSessions`: `Spec => LevelsFollowSessions`;
* `ChartsAlwaysExtend`: `Spec => ChartsOnlyExtend`.

The first needs no invariant but the type of the candles: for each kind of finding there
is a lemma that one more candle leaves what there was and adds only what is known at that
candle (`GrowsAt`, `GrowsTo`), each from those of the findings it is made of. The second
compares the latest swing of each side with one close (`OneBreak`). The third is about the
calendar: the last day before the newest candle's stays while the day goes on, and is the
day that was when another begins (`PeriodsFollow`). For the fourth each kind of figure is
drawn either once and for all, or to the newest candle until a candle ends it, and there is
one such candle at most, which stays (`UntilStays`, from the `GrowsTo` of the first theorem).

### Market data

`MarketDataProofs` proves, for any operators, feeds, batches, calendars, timeframes,
instants and lengths of a day, under `SessionAssumption` and `MarketDataAssumption`:

* `ImportsAreAlwaysAudited`: `Spec => []ImportsAreAudited`;
* `CandlesAndRawsAlwaysAgreeInTurn`: `Spec => []CandlesAndRawsAgreeInTurn`;
* `RetriesOfClosedAreIdempotent`: `Spec => RetryOfClosedIsIdempotent`;
* `AnswersAlwaysAgree`: `Spec => []AnswersAgree`;
* `AnswersAreAlwaysStable`: `Spec => AnswersAreStable`;
* `AggregatesAreAlwaysWholeBuckets`: `Spec => []AggregatesAreWholeBuckets`.

The tables have invariants of their own: a day has one session and the audit events count
them (`CalendarInv`), an identity has one candle and a closed one has ended (`CandleInv`).
What an import in turn found is what is stored when it stores (`TurnInv`), so that each of
its records becomes a candle or is reported. A retry is quiet because the batch was judged
before, at an earlier instant, and left its events then (`RetryInv`, `Covers`): the codes of
a record depend on the clock through the drift only, and on the records before it in its
batch.

Stability and agreement are one lemma (`AnswerGrows`): a reader who sees more candles, for
longer, under sessions that say the same of the weeks in question, is told what the other
is told, unless refused. Candles that came later, a later instant and a longer range are
three ways of seeing more. The lemma needs that a whole bucket stays whole, hence that it
has no room for another candle: its candles lie in different slots, and it has no more
slots than the quotient says, which is true on the grid. For the last theorem the members
of a bucket are compared with its slots, one by one, in both directions.

The attempts corrected the statements. Without `OnGrid` two of the three about aggregated
answers are false: when a session is not a whole number of source candles (bars of 30
minutes in 375), the last bucket is whole for the code when its last part is missing, is
given out, and is taken back when that part is stored. The run never met it, since its
timeframes divide its sessions. In the same way an event that is sent in two batches is
judged by other records before it in each, and the second may report what the first did
not; `RetryOfClosedIsIdempotent` is of batches that share no event.

### What the proofs share

Some definitions recurse over data: the replay of a log, the net of trades, sums over
sets. They are recursive functions or folds, never RECURSIVE operators, and facts about
them are proved by induction in the form of a least counterexample: `LeastNumber`, a
consequence of the library's `NatLessThanWellFounded` and `WFMin`, picks the least number
at which a fact fails, and the step before it refutes that. `LeastNumber` is
stated in each module that uses it.

### Only model checked

`RunsAreRecorded`, which is liveness under fairness and out of the prover's reach, and the
four properties that runs refute. Every other property of a run is a theorem, two of them
with a hypothesis: `BooksBalanceInTurn` where nothing is rounded, and the properties of
market data within the conditions they state themselves.

## Not modelled

Payload building, parsing of broker answers and read-only endpoints; validation
of limits and contexts; digests of datasets and of tokens and their constant-time
comparison; indicators, options analytics, and the training, calibration and artifact
files of models, which are floating-point or file operations; rendering. Of market data:
the import of instruments, rounding to eight decimals, candles not aligned to their
timeframe, and feeds that share event ids. Of the SMC/ICT engine: kill zones, confidences
and the wording of evidence; of the strategies: confidences and factors. Of the backtest:
the metrics derived from its result, the itemized India costs, splits, walk-forward and
Monte Carlo validation, and reports. Of the replay API: the answer of `stop()`, which looks
the status up again after it waited, and the listings.

The history of implied volatilities is not modelled either, but reading it showed a
disagreement that no run states. `options/persistence.py:1` calls the persistence
idempotent, and `docs/IMPLEMENTATION_STATUS.md:147` says the history is "stored idempotently
by provider event identity". The column holds ten decimals (`database/models.py:136`), while
the platform's own solver halves an interval and returns more (`options/analytics.py:320-331`).
PostgreSQL rounds such a value when it is stored, and `ingest` compares what it reads with
the unrounded value (`options/persistence.py:124`): a retry in another session is refused as
different content.

## Plan

What is left, in this order:

1. Market data off the grid: the last bucket of a session that its candles do not divide,
   as a run of its own in place of one that is proved; feeds that share event ids.
2. The stop request as an actor of `ReplayPlayback`, with what it is told.
3. The bound on what rounding may add up to over many fills of the paper account.
4. The history of implied volatilities with the rounding of its column.
