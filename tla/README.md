# Verification of MMH

MMH is two programs in one repository: `src/nexus/` (Go), a trading platform
whose central process is *nexus-hunter*, a bot that discovers, buys and sells
tokens; and `src/src/` (Python), an earlier event-driven trading system around a
write-ahead log and Redis streams.  This directory holds TLA+ modules of the
Go platform, the TLC instances that check them, and proofs that TLAPS checks.

All paths below are relative to `src/nexus/internal/` unless they start with
`cmd/` (`src/nexus/cmd/`) or `py/` (`src/src/`).

## 1. Inventory

### nexus-hunter (Go)

| Part | State | Operations | Hard behaviour |
|---|---|---|---|
| sniper engine, `sniper/sniper.go` | positions, exit trackers, `csmCancel`, daily budget and loss, all under one `RWMutex` | `OnDiscovery`, `executeBuy`, `UpdatePrice`, `executeSell`, `executePartialSell`, `ForceClose` | the lock is released around every swap; three kinds of goroutine sell the same position |
| continuous safety monitor, `sniper/csm.go` | per position: ticker, `warningFired` | `Run`, four checks, panic and warning callbacks | reads `Status` without the lock, sells under a context others cancel |
| exit engine, `sniper/exits.go` | `ExitTracker`: levels hit, exits hit, remaining percent | `Evaluate`, `ApplyDecision` | the tracker is advanced before the sell it stands for |
| swaps, `adapters/jupiter` | none | `executeSwap` | a transaction can land although its caller sees an error, and the reverse ("pending") |
| pipeline, control plane, shutdown, `cmd/nexus-hunter/main.go` | `controlState`, `processingMints`, `entryScores` | scanner callback, `/control/*`, `onPositionClose`, signal handler | flags read and acted on later, two stores per handler, a shutdown that waits for only some goroutines |
| token scanner, `scanner/scanner.go` | seen pools | one goroutine per DEX, polling, cleanup | two DEXes with one pool, displacement in a full map |
| L0 sanitizer, `scanner/sanitizer.go` | blacklist, passes per deployer | `Check`, `CleanupDeployerHistory` | a sliding window built from a first time and a count |
| analysis, sell simulation, scoring, `scanner/*` | weights | `Analyze`, `SimulateSell`, `Score` | five dimensions, bonuses and a threshold decide together |
| entity graph, `graph/*` | graph of wallets and tokens, labels, distances, snapshot file | `AddTransfer`, `MarkRug`, propagation, maintenance, save and load | labels spread in a goroutine of their own; maps are encoded outside the lock; crashes |
| deployer clusters, `correlation` | tokens per cluster, pattern and risk | `RecordTokenLaunch`, `UpdateTokenStatus`, `MarkRugged`, `Cleanup` | risk is stored and time passes |
| other flow analysis, `honeypot`, `copytrade`, `liquidity`, `narrative`, `regime` | bounded histories and patterns | record, detect, expire | numeric scores over expiring windows |
| Solana RPC, `solana/live_rpc.go` | circuit breaker, token bucket, all atomics | `call`, `Close` | half-open circuit, retries, several callers between load and store |

### nexus-core and nexus-intel, strategies and execution (Go)

| Part | State | Operations | Hard behaviour |
|---|---|---|---|
| market data service, `market`, `quality`, `cmd/nexus-core` | streams, alert channel (256) | `Start`, `Stop`, `handleTrade`, `handleTick` | shutdown order of streams, writer, producer; an alert channel that is never closed |
| ClickHouse writer, `clickhouse/writer.go` | two buffers, `closed`, `cancel`, `done` | `WriteTick`, `Flush`, `Start`, `Close` | concurrent flushes, rows drained before an insert that can fail, `Close` beside `Start` |
| features, `features/*` | five ring buffers per symbol | `OnTrade`, `OnTick` | running sums kept beside the buffer, late timestamps, eviction |
| Kafka, `bus/*` | `closed` flag, client buffer | `Produce`, `Publish`, `Consume`, `Close` | auto-commit with failing handlers |
| strategy runtime, `strategy/runtime.go` | registered strategies | `OnMarketEvent`, `OnTimer`, `OnIntelEvent`, `processSignal` | strategies are called outside the lock by several goroutines |
| momentum strategy | position, cooldown | callbacks | its position changes only when the fill comes back |
| risk engine, `risk/engine.go` | kill and freeze flags, exposure, daily PnL | `Check`, `Kill`, `Freeze`, `Resume`, `UpdatePnL` | the check is not a reservation |
| order execution, `execution/*` | orders, positions per strategy and netted | `Execute`, `HandleFill`, `CancelOrder`, order state machine | duplicate intents, fills racing acks and cancels, an order and its position updated in two steps |
| paper broker, `execution/paper_broker.go` | intents seen, resting orders | `SubmitOrder`, `SimulateFill`, `CancelOrder` | a market order sleeps between acceptance and fill |
| backtest, `backtest/runner.go` | simulated clock, two books of every fill | replay loop, timers | the books must agree when a position turns around |
| intel service, `intel/*` | cooldowns, counters per hour and day, rows | triggers, `ProcessTrigger`, scheduler | limits read before a slow call and counted after it |
| audit trail, observability, config | hash chain, counters | append, verify | outside the trading path |

### Python system

| Part | State | Operations | Hard behaviour |
|---|---|---|---|
| write-ahead log, snapshots, replay, `py/wal` | segments, index, checkpoints | append, rotate, compact, recover, replay | crash between write, index and sync |
| Redis bus, consumer, dead letters, `py/bus` | streams, pending lists, retry counts | publish, read group, ack, claim, DLQ | at-least-once delivery, redelivery against idempotency |
| idempotency, `py/events/contracts.py` | keys with expiry | check, mark | check and mark around the action |
| circuit breaker, rate limiter, `py/utils` | state, tokens | call, acquire | awaits inside the decision |
| executors, positions, `py/executor`, `py/position` | nonces, positions, exit levels | execute, open, update, close | a buy that landed and was not recorded |
| risk fabric, control plane, `py/risk`, `py/control` | limits, freeze levels, kill switch | check, freeze, command | command ordering |
| collector, sanitizer, enrichment, scoring, wallet, telegram, db | caches, windows | poll, check, score | mostly I/O and numbers |

`PROJECT.json` lists the same parts with what is modelled of each, and every
hazard with the line where it bites.

### How the parts interact

*nexus-hunter.*  One scanner goroutine per DEX (`Discovery`) calls the pipeline
callback of `main.go`.  The callback reads the control flags, locks the mint in
`processingMints`, runs the stages (`Sanitizer`, `Scoring`, which ask `Graph` and
`Clusters`), reads the control flags again and calls `Engine.OnDiscovery`, which
reserves budget, buys, stores the position and starts its monitor goroutine.
From then on the position can be sold by its monitor (panic: all of it; warning:
25 to 50 percent), by the goroutines that `UpdatePrice` starts for an exit
decision, and by `ForceClose`, which the kill switch and the shutdown call.  All
of them meet in `executeSell` and `executePartialSell`, which hold the engine's
lock before and after the swap and not during it.

*nexus-core.*  The exchange adapters' channels feed one stream goroutine per
symbol; a stream hands every event to the quality monitor, the producer and the
batch writer.  `main` starts and stops them in an order that `MarketData` keeps.

*nexus-intel.*  Triggers and a scheduler run `ProcessTrigger`, which asks the
`Brain`, which asks providers; results go to a writer and to the bus.

*Strategies.*  Market events, timers and intel events reach the strategies through
the runtime, whose signals the execution engine turns into orders after the risk
check; an exchange or the paper broker fills them.  These parts are wired to each
other by tests and by the backtest, not by one of the three processes.

## 2. Modules

| Module | Models | State and actions against the code |
|---|---|---|
| `Sniper` | `sniper.go`, `csm.go`, the outcomes of `jupiter.go` | one variable per field that decides something (`status`, `amount`, `retries`, `spent`, `loss`, `csm`, ...); one action per critical section or external call, so that every interleaving of goroutines is a behaviour. `spc[s]` says where seller `s` is inside `executeSell` or `executePartialSell`, `dpc[d]` where scanner goroutine `d` is inside `OnDiscovery`/`executeBuy` |
| `PositionLifecycle` | what a position promises: opened once, sold by attempts that end, closed once with one report and one booked loss, or given up after `MaxSellRetries` | abstract specification; `Sniper!KeepsLifecycle` is the refinement |
| `Hunter` | `cmd/nexus-hunter/main.go` | extends `Sniper`: the pipeline callback around `OnDiscovery`, the two-store control handlers, the kill goroutine, shutdown |
| `ExitEngine` | `exits.go` with real levels for one position, and the results of its sells | prices, ages and sell results are chosen freely; the monitor panics and sells on warnings past the tracker; `Sniper` abstracts its decision to "full exit, partial exit of n, or none" |
| `Discovery` | `scanner/scanner.go` | per DEX goroutine the steps of `handlePool`; only the look into `seenPools` and the entry are one critical section |
| `Sanitizer` | `scanner/sanitizer.go` | `Check` with its six filters, one step, as each filter locks itself and only the last writes |
| `Scoring` | the filters of `sanitizer.go`, `analyzer.go`, `sellsim.go`, `scoring.go`, every `ScoreImpact`, stages 0, 4 and 5 of the pipeline | the algorithms as operators of what speaks for a token and what is known against it, in exact thousandths; what is known grows, and `SetWeights` may come at any time |
| `Graph` | `graph/engine.go`, `persistence.go` | operations under the lock; the propagation that `MarkRug` starts and the encoder of a snapshot are goroutines, and the encoder reads entry by entry while the graph changes; a crash loses all but the last snapshot; `reports` and `paid` remember what was reported and transferred in all lives, for `LabelsTraced` only |
| `Clusters` | `correlation/crosstoken.go` | one action per operation; the pattern and the risk are stored, time passes without them |
| `SolanaRpc` | `solana/live_rpc.go` | every load, store, add and compare-and-swap of the breaker and the bucket is a step |
| `BatchWriter` | `clickhouse/writer.go` | buffer, batches in flight, stored and lost rows; a step per critical section or insert; `Start` writes its two fields in two steps |
| `MarketData` | `market/service.go`, `quality/monitor.go`, `cmd/nexus-core/main.go`, the producer | extends `BatchWriter`: streams as its callers, `main` as the caller of `Close` |
| `Intel` | `intel/*` but `roi.go`, `cmd/nexus-intel/main.go`, `clickhouse/intel_writer.go` | handlers step through `ProcessTrigger` and `Brain.Query` |
| `Features`, `Window` | `features/*` | five calculators over the ring buffer of `Window`, with late trades; `fed` remembers what was fed since the last reset, for `FeaturesExact` only |
| `StrategyRuntime` | `strategy/runtime.go` | dispatchers collect their targets under the lock and call them outside it; a call returns a slice of up to `MaxBatch` signals, which are validated and executed one by one; an operator registers, disables, unregisters |
| `Momentum` | `strategies/momentum/strategy.go` | its callbacks, with the timestamps of events up to `Lateness` old and in any order, and a market (external) that fills orders within `Latency` |
| `Execution` | `execution/engine.go`, `order_sm.go`, `risk/engine.go`, with an external exchange | traders call `Execute`, handlers `HandleFill`, cancellers `CancelOrder`; each critical section, atomic load of the risk engine and adapter call is a step (`xpc`, `hpc`, `cpc` say where a goroutine is). `After` is the transition table of the order, `Book` enters a fill in the order, `Apply` in the positions |
| `PositionBook` | `execution/position.go` | the arithmetic of `applyFillToPosition` as operators, used by `Execution` and `Backtest` |
| `PaperBroker` | `execution/paper_broker.go` | one action per critical section; a submitter may sleep or go away between two |
| `Backtest` | `backtest/runner.go` | the replay loop with timers; both books of a fill |
| `MCSniper`, `MCHunter`, `MCExecution`, `MCScoring`, `MCGraph`, `MCServices`, `MCComponents` | constants for TLC, and the compositions of the runs `services` and `components` | |
| `SniperProofs`, `HunterProofs`, `ExecutionProofs`, `ServicesProofs`, `PaperProofs`, `ScannerProofs`, `StrategyProofs` | theorems | `ServicesProofs` is about `MarketData` and `Intel`, `PaperProofs` about `PaperBroker`, `Backtest` and `SolanaRpc`, `ScannerProofs` about `Discovery`, `Clusters`, `Sanitizer`, `Graph` and `Scoring`, `StrategyProofs` about `StrategyRuntime`, `Momentum`, `ExitEngine` and `Features` |
| `SumLemmas` | lemmas | what the sums of the models do when a term or a set changes |

What composes: `Hunter` extends `Sniper`, `MarketData` extends `BatchWriter`,
`Execution` and `Backtest` build on `PositionBook`.  The stages before
`OnDiscovery` reach the engine only as "accept or not", which `Hunter` leaves
open, so they have modules of their own; the execution engine is wired to the
strategy runtime and the paper broker by tests only, and `Execution` models what
it does for any callers.

Amounts are whole tokens and whole SOL units; percentages of positions are rounded
outwards, so that `Sniper` allows every amount the code can produce and some more.
What a chain check, a provider or an exchange answers is a free choice.  Each
module's header names what it leaves out.

A definition that is commented `Mutant` is a plausible bug; nothing uses it, and
it is there to show that a property fails when the code is changed that way.

## 3. Runs

| Run | Instance | Shows |
|---|---|---|
| `sniper_live` | 2 positions with a mint each, 1 scanner, 1 price worker, 1 `ForceClose`, swaps land or fail, budget for one buy | types; a CLOSING position always has a goroutine selling it and leaves CLOSING; failed sells use up their retries for good; CLOSED means that at least what `AmountToken` recorded at the buy was sold, whether the buy delivered more or less (1 or 3 where 2 are recorded); spending stays within the daily cap |
| `sniper_dry` | dry run, 3 positions, 2 scanners, limit 1, one midnight | the position limit is overshot by at most one per further scanner |
| `sniper_progress` | dry run, 1 position, worker and `ForceClose`, holder check on | CLOSED is final; the monitor of a closed position ends also when it was registered after `ForceClose` looked; `ForceClose` closes what it found; with a persistent price feed an open position is closed |
| `solo` | 2 positions, each sold by its monitor only, swaps land, fail, go unanswered, stay pending | the engine implements `PositionLifecycle` with its fairness, and an open position always has its monitor |
| `hunter` | 2 pools of one mint, 2 scanners, kill, pause, resume, signal | one mint is never bought twice together; after a kill each scanner adds at most one position; every return path unlocks the mint |
| `fills` | 1 buy of two and 1 sell of one against it, 2 fill handlers, 1 canceller, fills early, late and repeated, adapter answers lost | orders, strategy positions and the netted position agree in quantity and cost; FILLED means complete; a CANCELLED order trades no more |
| `services` | nexus-core with 2 streams, 3 rows, batches of two, or nexus-intel with a trigger caller and the scheduler | after `Stop` nothing is left in memory; no row is in two places; `Stop` returns unless `Close` met a writer inside `Start`; the hourly and daily limits are overshot by at most one less than the goroutines |
| `components` | twelve components side by side; the first state picks one | see the next table |
| `graph` | 3 wallets, room for 2, depth 2, 3 calls, 1 snapshot read entry by entry | `LabelsTraced`: who is called a serial rugger was reported for rugging twice or was led money, over some hops, from one that was, also after evictions, torn snapshots and restarts; `NeighboursAreRisky`: who dealt with one scores above neutral even before the label spreads |
| `filled_active` | as `fills`, without repeated fills | *violated*: a completely filled order stays active (finding) |
| `reopened` | live, one position, worker and monitor | *violated*: a CLOSED position becomes OPEN again (finding) |
| `no_retry` | live, price feed that goes on asking | *violated*: a failed full exit is never retried (finding) |

In `components`:

| Component | Instance | Shows |
|---|---|---|
| intents of `Execution` | 2 goroutines, 2 intents, kill switch, freeze, resume, daily loss | `SubmittedOnce`; `HaltBounded`: while trading is halted a goroutine sends at most one more order |
| `PaperBroker` | 2 submitters, 2 market and 1 limit order | `BrokerAgrees`: an intent is executed once; an acknowledged order is resting, asleep or given up |
| `Backtest` | 3 fills of one or two, two prices, a fee | `TwoBooksAgree`: trade records and position manager tell one story |
| `StrategyRuntime` | 2 strategies, feed and timer, slices of up to two signals, 3 changes | `LateSignalsBounded`: after a strategy was disabled each dispatcher executes at most the one slice it had coming, and after it was unregistered at most one signal |
| `Momentum` | orders are under way for at most one unit, events late by at most one, cooldown of three | `OneEntry`: never more than one position held and asked for |
| `Features` | 4 events, windows of two, trades up to one late | `FeaturesExact`: every buffer holds what was fed last, in order, and the running sums are the sums over it |
| `SolanaRpc` | 2 callers, threshold 2, 1 retry | `OpenIsTemporary`: an open circuit has exactly one goroutine that will close it, a closed one none |
| `Discovery` | 2 DEXes, 2 pools, room for one | `AcceptedOnce`: a pool is emitted once unless the full map displaced it |
| `Sanitizer` | limit 2, window 2, clock to 4 | `DeployerBounded`: at most twice the limit of one deployer in any window |
| `Clusters` | 2 deployers, room for one, 2 hours | `StaleIsCautious`: the stored risk never ranks below a fresh calculation |
| `Scoring` | up to two signs against a token, two sets of weights; bought is what the sanitizer, the kills and the total all let through | `RugSignsNeverHelp`: a further sign against a token never raises its total, lifts a kill or turns a refusal into a buy, but for the exception its comment names |
| `ExitEngine` | default levels, three prices, bought just now or a day ago, failing sells, a warning and panics of the monitor | `SalesCovered`: what the tracker still wants to sell and its sells under way are covered by what is held and what warnings sold; `OverdueBounded`: after 24 hours boundedly many updates decide a full exit of whatever the tracker has left |

Bounds.  A collision needs two actors and one object, so every race of the
engine happens with one position, one worker, one monitor and one closer; the
second position is there for what one seller does while another position is
touched (`ForceClose` lists, budget).  `MaxSellRetries = 2` gives a first
failure, a last failure and a failure after the last.  `BuyTokens = 2` lets a
partial sell leave something.  `hunter` has one token of amount 1 and dry-run
swaps, since its question is who gets to open positions; colliding sells are
the business of the `sniper_*` runs.

In `fills` one trader, two handlers and a canceller are what a fill can race:
other fills, the answer to its own order and a cancel.  Duplicates and halts are
decided before a fill can exist, so `components` checks them with two traders
and no handler.  `Switches` names the commands of the risk engine that a run
uses (`"early kill"` in `fills`: before the first order only; none in
`filled_active`), `MayRepeat` allows repeated fills.  Opposed orders of two and of
one make a position grow, shrink, close and flip.  Prices are multiples of 12, so
that the average of the quantities that occur is an integer and costs can be
compared exactly; the code divides decimals, and their rounding is left out.

In `services` three rows in two streams with batches of two give a full batch, a
rest for `Close` and a flush beside another; a limit of one query per hour
(`MaxPerHour`, `MaxQueries`) is the smallest that two goroutines can overshoot.
In `components` and `graph` every capacity (`MaxTrackedPools`, `MaxNodes`, `MaxClusters`,
ring buffers) is smaller than the number of objects, so that it is reached; every
window is shorter than the run.

Two components that share no state need no interleaving, so `components` and
`services` let the first state pick one: the state space is the sum and not the
product.  `MCComponents` extends the modules themselves, so that TLC checks their
assumptions and the formulas of the proofs, not copies of them.  Symmetry (`Alike`) is used only in runs without liveness properties:
over positions of one mint, scanners, goroutines and intents of `Execution`, and
in `components` over traders, in `graph` over wallets.

Deadlock checking is off: every system here may come to rest (all positions
closed, no discoveries left, a service stopped).

Fairness of the engine (`Sniper!Fairness`).  The Go scheduler runs every goroutine
that can run; swaps return because their contexts or the HTTP client have
deadlines; the monitor's ticker fires.  Nothing is assumed of discoveries, prices,
warnings, panics, midnight or signals.  `ExitReached` and `FailedSellRetried` state
the assumption that they need about the price feed, `PriceKeepsAsking`, in the
property, since no code in the repository guarantees it.

Fairness of the services (`MarketData!MFairness`, in the run `CoreFairness`).  Weak
fairness of main's steps, of a stream that handles an event or was told to stop,
and of the writer's flush and exit: they are goroutines that can run, and an
insert has a deadline.  Strong fairness of the writer's last turn (`BgLast`): its
`select` is between a ticker and its context, and Go chooses among ready cases
at random, so a context that stays cancelled is noticed.  Nothing is assumed
of events or of the signal.

## 4. Proofs

All theorems hold for any number of goroutines and objects, any limits and any
behaviour of the outside world that the modules allow.  They assume the named
assumptions on the constants and nothing else, unless said so.

`SniperProofs` (`Sniper`):

- `TypeCorrect`: `TypeOK` is inductive.  The steps worth reading are
  `SettlePartial` (the subtraction is guarded, so no pair of concurrent partial
  sells makes an amount negative), `CsmWarn` (`WarnShareType`: a capped severity
  never asks for more than there is) and `SettleSold` (the booked loss).
- `ClosingOwned`: `ClosingIsOwned` is inductive together with `TypeOK`: the step
  that ends a seller's work on a full sell also changes the status, so a second
  seller of the same position cannot be left without a first.
- `RetriesBounded`: `NoRetryLeft`, by `SaleInv`, which adds that whoever sells,
  watches or lists a position has a stored one, and that scanners buy different
  ones: so nothing makes a position OPEN anew with its failures behind it.
- `OpenBounded`: `OpenBound`, by `LimitInv`, which counts open positions together
  with the purchases that are about to be stored.  It is about dry runs, in which
  no swap is waited for (`NoSwaps`): in live trading a sell that fails late opens a
  position again (section 5).
- `SpendCapped`: `DailySpendCap`, by `Covered` (the budget covers what was paid
  and what is reserved), within one day, without shutdown and without buys that
  land unanswered, as the property itself and section 5 say.
- `ClosedStays`: `ClosedIsFinal` for dry runs, where no sell can fail late.
- `MonitorStays` (`MonitoredWhileOpen`) and `LifecycleImplemented` (the safety part of
  `KeepsLifecycle`, step by step under the refinement mapping) for the setting of the
  run `solo`: only monitors sell, no shutdown, one day.  Both by `SoloInv`: a position
  is CLOSING exactly while its monitor sells it, and a monitor that ended left it
  closed or given up.
- `ClosedSold`: `ClosedMeansSold` for finitely many sellers, a mint per position and
  no "pending" swaps.  It is about the amount that `AmountToken` records at the buy,
  which is not the amount delivered (section 5): `Received` may be anything.  `SoldInv`
  says that what was recorded is covered by `AmountToken` and what was sold (`Covers`),
  and that a seller in `executeSell` sells all of `AmountToken` (`SellsAll`).  Partial
  sells that landed and are not booked yet are the set `Unbooked` of sellers that
  carry them, so that overlapping full and partial sells are told apart.

`HunterProofs` (`Hunter`):

- `EngineWithin`: `HSpec => Spec`.  The process only uses the engine through its
  operations, so the theorems of `SniperProofs` hold of the process.
- `MintsExclusive`, `MintsOwned`: by `MintInv`: who works on a mint holds its lock,
  no two work on the same, and `OnDiscovery` runs inside the pipeline.
- `KillBounded`: `KillExposure`, by `KillInv`: a scanner that opened a position after
  the kill is on its way out of the pipeline, and the next one stops at the flag.

`ExecutionProofs` (`Execution`):

- `TypeCorrect`: needs that a goroutine at work has an intent or a fill in hand
  (`AtWork`).  It includes that no order records more than its quantity.
- `IntentsSubmittedOnce`, `CancelledStaysDead`: both by `Sending`: an order has at most
  one goroutine that carries it from insertion to answer, finds it in the state
  in which it left it, and submits it while the exchange does not know it.
- `FilledComplete`: by `Filling`: an event FILL that was decided from an older
  remainder is still right, since what remains only shrinks.
- `TerminalStays`: terminal orders are final, from `Transitions` (where each event
  leads from and to) and `Sending`.
- `HaltIsBounded`: by `Halting`: who has sent an order since the halt is before the
  risk check.
- `QuantitiesConserved`: `QuantitiesAgree`, with no condition on prices: what the
  orders of a symbol have filled is what its strategies hold together with the fills
  that handlers have entered in the order and not yet in the position.  `Book` moves a
  fill to those in between (`RecordSums`), `Apply` from there to both positions
  (`ApplySums`), no other step touches a term (`SumsStay`).
- `BooksConserved` (`BooksAgree`), `NettingIsConserved` (`NettingConserves`): the same of
  the money, for any fills whose averages leave no remainder (`NoRemainder`).  The
  condition is what the code's decimals have up to their precision; without it the
  costs differ by roundings and the equations are false.  It is not vacuous: in `fills`,
  where prices are multiples of 12, TLC finds it true in every state.

`ServicesProofs` (`MarketData` with `BatchWriter`, `Intel`):

- `RowsAreConserved`, `StopLeavesNothing`: by `MarketInv`: the types, where each row is
  (`Places`), which stream holds which event (`Events`), what main has done before
  what (`Order`), and that the background goroutine is gone or flushes once more
  when `Close` waits for it (`BackgroundGone`).
- `LimitsNearlyHold`: `OvershootBounded`, by `LimitInv`: the counter together with the
  handlers that have passed the check and not yet counted is at most the limit plus
  the number of handlers less one.

`PaperProofs` (`PaperBroker`, `Backtest`, `SolanaRpc`):

- `BrokerKeepsOrders`: by `BrokerInv`: an intent is in one place at a time, resting,
  asleep or given up, and nobody has one that the broker has not seen.
- `BacktestBooksAgree`: by `BooksInv`: the open entry and the position have one
  quantity, price and sign, case by case through open, add, reduce, close and flip.
- `BreakerRecovers`: `OpenIsTemporary`, by `BreakerInv`, the pairing itself: only the caller
  that finds the breaker closed starts a resetter, and only a resetter closes it.

`ScannerProofs` (`Discovery`, `Clusters`, `Sanitizer`, `Graph`, `Scoring`):

- `DiscoveredOnce`: by `DiscoveryInv`: a pool whose entry is gone without having been
  displaced is too old for the age filter, and so is one that was collected for
  deletion and entered anew meanwhile.
- `CautiousForever`: `StaleIsCautious`, by `ClustersInv` and `TimeLowersRisk`: as time
  passes launches leave every window, so a fresh calculation can only be milder.
- `DeployersAreBounded`: by `SanitizerInv`: the windows of one deployer begin more than
  `HistoryHours` apart and let at most the limit pass, so any 24 hours meet two of them
  at most (`TwoWindows`).

- `LabelsAreTraced`: `LabelsTraced`, by `GraphInv`: the graph, what the encoder has
  written so far and the snapshot file are each sound (`GraphSound`) with respect to
  the history: a label is led to from a wallet that was reported twice, over transfers that took
  place (`LedBy`), no counter exceeds the reports, and every edge stands for a
  transfer.  As the history only grows (`LedGrows`), a snapshot whose parts come from
  different moments stays sound.  The same about the graph's own counters and edges is false: a
  torn file can hold a label without the rugs and edges that explain it
  (section 5).  Paths are followed by the recursive
  function in `Within`, and one hop more or less by least counterexample.
- `RuggersNextDoorCount`: `NeighboursAreRisky` needs nothing but the shape of the score
  and that a query looks at least one hop far (`LabelPropDepth >= 1`, the default
  being 2): the penalty of a rugger next door outweighs what anything else takes away.
- `NoSignHelps`: `RugSignsNeverHelp`, sign by sign through each dimension: one lemma for
  the filters of the sanitizer (`IsClean`) and for every dimension a sign can touch,
  then the total, the kill and the purchase.
  `ScoringInv` says only that tokens and weights are among those of the constants;
  `ScoringAssumption` asks that amounts and weights are natural numbers and that
  a pool has something in it.

`StrategyProofs` (`StrategyRuntime`, `Momentum`, `ExitEngine`, `Features`):

- `LateSignals`: by `RuntimeInv`: what a dispatcher has in hand matches its step
  (`WorkInHand`), the counts begin anew with every enabling (`CountsAnew`), what was
  executed since and what is still coming of a slice fit in one slice (`Room`), and a
  signal of an unregistered strategy is executed only if it was validated before
  (`LastWord`).
- `MomentumEntersOnce`: `OneEntry`, by `EntryInv`: no order is older than `Latency` and
  no timestamp than `Lateness`, so with a cooldown longer than both together an entry has been filled before the next is asked for
  (`MomentumAssumption`).
- `SalesAreCovered`: `SalesCovered`, by `SellInv`, which adds the types: a partial exit takes
  from the tracker what it commits, a sale that ends takes from the position no
  more than it committed, and what a warning takes is counted in `warnedSold`.
- `OverdueIsBounded`: `OverdueBounded`, by `DeadlineInv`: each overdue update has marked a
  level or an exit, and a mark is only left by an exit that sells a part.  It
  needs that the configuration sells everything in the end (`ClosesInTheEnd`), as the
  defaults of `DefaultExitConfig` do: without such an exit nothing bounds the wait.
  It bounds the decision and not the position's life: one whose full exit failed is
  OPEN with nothing remaining, and no update counts (`no_retry`).
- `FeaturesAreExact`: `FeaturesExact`, by `FeaturesInv`: each buffer is a ring of its capacity
  (`Ring`) that holds the last entries of what was fed (`Recent`).  `RingDrops` and
  `RingPushes` say what becomes of the k-th oldest entry, modulo the capacity;
  `RunningSum` follows a sum through eviction, overwriting and entry, and shows
  that the guard against negative sums never acts.  The momentum ring adds that a
  recorded sample time means a sample in the ring.

`SumLemmas` has no theorem of the system: the sums of the models are
`SumFunctionOnSet`, a fold in an order that `CHOOSE` picks, and its lemmas say that
the order does not matter (`SumRemove`), how a sum changes with one term (`SumChange`,
`SumAdd`, `SumMore`, `SumLess`), that it is monotone, and how one over `0 .. n - 1`
splits (`SumFirstSplit`).  Induction is out of the prover's reach where it takes an
operator as its parameter; these proofs, and those about paths, take a least
counterexample instead (`LeastNumber`, `SmallestFinite`), as a set of numbers or
of subsets has one by the well-foundedness of the naturals.

Every safety invariant and action property that a passing run checks is stated by a
theorem.  With TLC only:

- everything with fairness or liveness (`SellSettles`, `MonitorEnds`,
  `ForceCloseCovers`, `ExitReached`, `StopReturns`, the fairness that `KeepsLifecycle`
  implies): the prover has no `ENABLED`;
- what the theorems leave to their settings: `ClosedIsFinal` and `MonitoredWhileOpen`
  are proved for the setups of the runs that check them, and fail outside them
  (section 5);
- `NoRemainder` in `fills`.

## 5. Where the code departs from its documents or comments

Three are runs that TLC finds violated (see `findings` in `PROJECT.json`):

- a sell that fails after another sell of the same position has closed it sets
  the position OPEN again (`sniper.go:622`; the comment at 412 speaks of
  preventing a double sell);
- `ApplyDecision` empties the tracker before the sell is tried, so a failed full
  exit is not retried from the price feed (`exits.go:277`; `sniper.go:621` logs
  "will retry next cycle");
- two fills whose events are decided from the same remainder complete an order
  that stays PARTIAL and active (`execution/engine.go:371`; a test,
  `engine_test.go:346`, says that a filled order is not active).

Others, met while modelling, limit what is claimed above.

In nexus-hunter:

- Concurrent scanners overshoot `MaxPositions` (bounded by `OpenBound`).
- A discovery refused after the reservation keeps its share of the daily budget
  (`sniper.go:217` ff.), and a refund after midnight is taken from the new day
  (`sniper.go:734`).  `DailySpendCap` is therefore checked within one day.
- A buy that landed but whose status query failed is refunded and forgotten
  (`jupiter.go:238`).  `DailySpendCap` is checked without such answers.
- What a buy records in `AmountToken` is the adapter's `AmountOut`, a placeholder
  computed from the SOL put in (`jupiter.go:255`, `sniper.go:300`), and not what the
  wallet received.  A CLOSED position can leave tokens in the wallet that it never knew
  of, and a sell can ask for more than there is; `ClosedMeansSold` speaks of the
  recorded amount only.
- Warning sells lower `AmountToken` and not the tracker (`sniper.go:325`), so the
  exit engine can promise more than is held, and its last partial sell is capped
  (`SalesCovered` counts what warnings sold).
- A full exit that failed leaves the position OPEN with nothing remaining for any
  number of updates (`no_retry`, and the note at `OverdueBounded`).
- A "pending" swap counts as success (`jupiter.go:239`), so `ClosedMeansSold` is
  checked and proved without it.
- A monitor that ticks while another seller's failing sell is under way ends for
  good; `MonitoredWhileOpen` holds where the monitor is the only seller.
- A position can be opened after the kill switch closed all
  (bounded by `KillExposure`) and can be open when the process exits.
- `entryScores` is keyed by mint, so a second close of a mint finds no score.
- Nothing in nexus-hunter calls `UpdatePrice`: take profits, stop losses and
  timed exits run only in tests.  The modules model them as the engine offers
  them.
- `sanitizer.go:30` speaks of a maximum in 24 hours; a window that starts at its
  first pass lets up to twice as many through (`DeployerBounded` is tight).
- A token whose holders the RPC could not tell scores better than one whose
  holders are known to be concentrated; and SERIAL, the graver pattern, replaces
  ROTATION and costs fewer points (the exception in `RugSignsNeverHelp`).
- The comment at `scoring.go:328` speaks of an instant kill one hop from a rugger;
  `scoreEntity` only zeroes its own dimension.  It is the sanitizer that drops such a
  token (`sanitizer.go:281`), so evidence that enters the graph between its query
  and the one of the scoring costs a token one dimension and may leave it bought.
- Polling, the scanner's fallback without subscriptions, asks and emits nothing.
- Labels and propagations since the last snapshot are lost in a crash, and a full
  graph ends the process with a nil dereference.
- `SaveSnapshot` encodes the live maps after it let go of the lock
  (`persistence.go:31`, 61).  The file mixes moments: a restarted graph can hold a
  label that its own rugs and edges do not explain (`LabelsTraced` is about what
  was ever reported), or the runtime ends the process for a concurrent map write.

In execution and the services:

- A fill that arrives before the order is ACKED, and a partial fill after a
  cancel was requested, are refused by the order and lost to the positions.
- A cancel that the adapter refuses leaves the order in CANCEL_PENDING for good.
- An order whose submission failed on this side and succeeded on the other is
  REJECTED here and live there (the outcome `lost` of `Route`).
- `HandleFill` does not look for repeated fill IDs; a repeated fill counts as long
  as it fits.  `BooksAgree` therefore relates orders to positions and not to the
  exchange.
- The writer's `Close` waits forever when it runs between the two stores of `Start`
  (`writer.go:110`; `StopReturns` names it as the only way to hang).
- The goroutine that logs alerts waits for a channel that nobody closes, so the
  main of nexus-core never comes to "Shutdown complete" (`cmd/nexus-core/main.go:131`).
- The backtest charges the fees of an entry again at every partial close.
- `Disable` and `Unregister` return while a dispatcher still works through a slice of
  the strategy's signals: a disabled strategy has the whole slice executed, since
  `processSignal` asks only whether it is registered (`runtime.go:410`).
- The momentum strategy repeats an exit at every timer until the fill comes; its
  cooldown compares timestamps of events (`strategy.go:363`), and a late event sets
  the last signal's time back, so one entry at a time depends on fills and events
  that are together faster than the cooldown.

## 6. Not modelled

- **The Python system.**  It shares no code, no process and no data with the Go
  platform.  Its log, bus and executors are systems of their own; this
  development stays with the Go platform.
- **Numeric scores**: the histories of liquidity, narratives, copy trading,
  honeypot patterns and regimes, the learning of weights, ROI and metrics.  They
  are sums and averages of floating-point numbers over expiring windows; what
  they contribute to a decision is a free choice, or a table in `Scoring`.
- **Code that no process runs**: the websocket monitor, Jito, the fee estimator's
  answers, pool states, trades for the copy-trade tracker, the regime detector,
  the audit trail; `PanicSell`, `ShouldPanicSell`, `UpdateExposure`, and
  `SnapshotState` with `RestoreState` of strategies have no callers.
- **Input and output**: exchange adapters' connections and parsing, the ClickHouse
  client, HTTP handlers that only read, configuration, logging, metrics, the
  reading of replay files, and the statistics over finished backtests.
- **Within modelled parts**: `target_position` signals of the execution engine (an
  intent is a change of position here), the fields of one node of the graph at
  different moments of a snapshot (its encoder reads each node as a whole here),
  exchange wallets and amounts in the graph, costs
  and confidences in nexus-intel, and the rounding of decimals.
