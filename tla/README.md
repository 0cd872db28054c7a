# Formal models of the Quant Autoresearch Harness

TLA+ models of the program in `src/`, the TLC runs that check them on small
instances, and TLAPS proofs of their main invariants for every value of the
constants.  `PROJECT.json` holds the machine-readable side: components, runs,
mutants (a plausible bug for every property, which must break it), the source
lines behind every definition, hazards, findings and theorems.  All source
paths below are relative to `src/`.

## 1. The system and its parts

The harness asks a language model for a change to a trading strategy, checks
and repairs the proposal, calculates the features the strategy reads, back-tests
the candidate on local data in several stages, decides by eight gates which
strategy the next generation starts from, and writes what happened into an
append-only journal.  Around that core stand the memory files (champion,
frontier, rescue pool, knowledge), a controller that starts and stops the
processes, a local job scheduler, a dashboard that reads the files, a client for
paper orders and its gates.

Almost nothing runs in threads: concurrency comes from several *processes*
(research worker, memory worker, evaluator, dashboard, CLI calls) that share
files and one SQLite database, from the threads of the local scheduler, and
from a broker that fills orders while the client polls it.

| Component | State | Operations | Interacts with | What is hard | What makes it correct |
|---|---|---|---|---|---|
| Evidence journal `memory/evidence_store.py` | table `events` in SQLite | `append`, `events`, `checksum` | every evaluation, the readers | several processes append; a caller may die before or after COMMIT and resend | a resent event is taken once, rows never change, an acknowledged row survives, every prefix is readable |
| Evidence reader `memory/research_evidence.py` | none | `research_evidence` | journal, dashboard, CLI | it refuses a whole journal with one bad run | whatever the writers can leave behind is accepted |
| Evidence session and evaluation `runtime/evidence_session.py`, `orchestration/evaluation_runner.py`, `orchestration/evidence.py`, `dashboard/ledger.py` | run id, generations, `test-records.jsonl` | `evaluate`, `finish_generation`, `finish_run`, `freeze_manifest`, `append_funnel_results` | journal, knowledge, research loops | every call may raise between two events | one attempt and one manifest describe one condition; a copy never exists without its evidence |
| Knowledge projection `memory/evidence_knowledge.py` | `knowledge.jsonl` | `sync_knowledge` | journal, mimir, evaluations of all runs | read, merge and replace by several processes | what was known stays known; the projection equals the journal |
| Research loops `runtime/research_loop.py` | generation, intent, repair and fallback state, `status.json` | `run_autoresearch`, `run_repeated_evaluation` | director, intent bridge, repair agent, evaluator | a faulty proposal, repair and evaluation in every order | bounded work per generation, a record for every generation, an honest final status |
| Intent bridge `research/llm/intent_bridge.py`, director, `codex_exec.py` | request cache | `apply_intent`, `propose`, `complete` | loop | untyped payloads | a rejected intent leaves the parent as it was |
| Evaluation pipeline and selection `orchestration/pipeline.py`, `evaluation/` | the results of one call | `GenerationPipeline.run`, `select_candidate` | engine, features, benchmarks, local evaluation | windows over three kinds of sequences (bars, days, inputs), optional limits, incomplete years | a stage sees its own days only; what is handed on has passed every hard gate |
| Features `core/features/` | the registry | `_feature_values`, `calculate_feature`, `align_series` | engine, external series | missing values, warm-up, late observations, weekly series | no value depends on the future; a feature answers where its windows are whole |
| Backtest engine `core/backtest/engine.py` | cash, positions, pending entries and exits, daily block | `run_backtest` | features, costs, strategy IR | order of exits, entries, stops and blocks within a bar | no look-ahead, limits respected, cash conserved |
| Data and validation `core/data/`, `core/validation/` | none | pure functions | pipeline | split and alignment edges | no future data, disjoint tests |
| Job queue, scheduler, permits, heartbeats `runtime/queue.py`, `scheduler.py`, `resource_manager.py`, `heartbeat.py` | jobs, leases, permits | `enqueue`, `claim`, `succeed`, `fail`, `reconcile_stale`, `acquire`, `release`, `run` | caller's handlers | threads, leases that run out, a heartbeat that cannot be written | limit respected, permits returned, settled jobs stay settled |
| System controller `runtime/system_controller.py`, `system_worker.py` | `system.json`, worker state files, child processes | `start`, `status`, `stop` | OS processes | partial starts, handles that are lost or replaced, a container that outlives its client | a failed start undoes itself; stop ends what its server started |
| Dashboard supervisor `runtime/dashboard_supervisor.py` | none | `run_supervisor` | dashboard process | restarts without end | at most one dashboard per port |
| KIS paper client `integrations/kis/client.py`, `paper_orders.py` | token, throttle | `place_market_order`, `run_buy_then_sell`, snapshots | broker | late and partial fills, lost replies, midnight | nothing is sold that the run did not buy; a result says what is true of the account |
| Gates `integrations/kis/live_gate.py`, `paper_adapter.py` | approval, kill switch | `evaluate`, `enable`, `submit` | tests | expiry | no order without a valid approval |
| Memory files `memory/promotion.py`, `frontier.py`, `rescue_pool.py`, `core/integrity/` | champion, frontier, rescue pool, audit log | `promote_candidate`, `update`, `append` | CLI, dashboard | read-check-write, a crash before the audit line | a champion has an audit line and a matching hash |
| Experiments `experiments/` | cache, plans | `get_or_run`, search | evaluator | re-use of a result | a hit has the same identity |
| Mutation and strategy IR `mutation/`, `strategy_ir/` | none | pure functions | loop | schema bounds | a mutation yields a valid strategy |
| Strategy import `strategy_import/` | sources, catalog | `register`, `normalize` | CLI | catalog read-modify-write | one record per source |
| Dashboard `dashboard/`, `dashboard.py`, CLI `cli.py`, scripts | none | views | all files | reads while others write | shows what the files say |

`PROJECT.json` lists the same parts under `components`, the ones that are not
modelled with their reason, and under `hazards` what can go wrong in each and a
test would hardly reach.

## 2. The modules

```
EvidenceLog ──> EvidenceStore ──refines──> RunLedger
     └────────> EvidenceSession
ResearchLoop
FeatureCells ─> FeatureCalculators ─> Features <─ FeatureCatalog
BacktestRules ─> Backtest, BacktestSingle ──refine──> RiskPolicy
                    └─────────┴─> BacktestLoops
Evaluation
Scheduler
SystemController
PaperOrders
```

Each `X` with state has an `MCX` and one or more `.cfg` for TLC (`MCBacktest`
checks the loops of `BacktestLoops`) and an `X_proofs`; the proofs about
`ResearchLoop` and `Evaluation`, which together are one generation, are in
`Generation_proofs`, those about all the loops in `Backtest_proofs`.  `EvidenceLog`,
`BacktestRules`, `FeatureCells`, `FeatureCalculators` and `FeatureCatalog` hold
operators only.  A module whose property is shown to fail by a mutant defines
the mutated operator next to the right one, as a *variant*.

**EvidenceLog** has the rules of `EvidenceStore.append` inside its `BEGIN
IMMEDIATE` transaction (`Resent`, `Admits`, `Refuses`) and the structural rules
of the readers (`Readable`).  A row is a record of identity, kind, run and
payload; the checksum is equality of rows.

**EvidenceStore** puts arbitrary clients around it.  `journal` is the table,
`call[c]` the append of client `c`, `reply[c]` what the transaction did with it,
`acked` the history of appends that returned.  A transaction is one step, since
SQLite holds the write lock; a client may die before or after the commit.

**EvidenceSession** composes the journal with its writers and readers.
`proc[r].pc` says where the process of run `r` is between the calls of
`EvidenceSession`, `run_local_evaluation` and `sync_knowledge`; `lock` is the
SQLite transaction that `sync_knowledge` keeps open while it reads the journal
and replaces `knowledge.json`; `files` is what `freeze_manifest` would hash now.
Three kinds of runs are told apart by who calls: `run_autoresearch`,
`run_repeated_evaluation`, and one standalone evaluation.  `SummaryAccepts` is
`_run_summary`.

**ResearchLoop** is one run of `run_autoresearch`: the locals of the function
are the variables, `repairVars` the repair state that the loop carries from
preflight to evaluation, and each action one pass through a loop body, with the
handlers' early exits.  Intents are model values.  Which of them preflight
accepts is chosen again for every generation; evaluations succeed or raise.
The journal is left to EvidenceSession, where the loop's calls are the actions
of an `Automatic` run.

**Features** is a feature of a strategy over a history that grows by one bar a
step: `_feature_values` with the alignment of an external series, the calculator
and the lag.  A value is *the set of bars and observations it was computed
from*, or `None` where the code has none (**FeatureCells**).
**FeatureCalculators** has one operator per calculator of `calculators.py`, built
from the few shapes their loops have (a rolling window, a seed and a running
value, a lag, an accumulation over the whole history), and a calculator that
raises returns `Raises`.  **FeatureCatalog** says which features there are and
which fields of a bar they read; what strategies call indicators is among them.
What is computed from a window is left out, so that a zero denominator, a NaN and
the price itself play no part; where a comparison of two parts may end at the
first, `early` chooses.  For lookbacks 3 and 4 the None-patterns and the read
sets were compared with those of the Python functions on 37 098 states that TLC
dumped (each input changed in turn, to see whether the output changes): they
agree.

**Backtest** and **BacktestSingle** are the loops of `BacktestEngine` over
several symbols and over one, with the risk section of the strategy: the open
sells, then buys what the previous bar of that symbol decided, and the close
decides again and marks the book against the daily limit.  **BacktestRules** is
the arithmetic they share: costs, sizes, stop and target, exposure, daily loss.
**BacktestLoops** puts three loops beside each other, one of which a behaviour
is of (`loop`): the portfolio loop with a limit that stops, the same with one that
reduces and room for one position, and the single-symbol loop.
Money is in whole numbers (see 4).

**Evaluation** is one call of `GenerationPipeline.run` up to the strategy that
`run_local_evaluation` hands to the next generation.  `bars` is the data set as
the code orders it (by symbol, then by day), `benchmark` the benchmark prices,
named by their days, so that the windows of the two (`FastSlice`, `Splits`,
`BenchmarkSlice`, `BenchmarkSelect`) can be held against each other; `results`
is what the gates said of each candidate, and `handedOn` the candidate chosen.
The numbers a back-test returns are chosen; the gates, the years of the yearly
report and the choice by score and hash are the code's.

**Scheduler** is the queue, the pool's threads and the permits.  The queue has
no lock, so that a method that checks a status and then assigns it is two steps
(`Succeed`/`Store`, `Fail`/`Mark`, `FindStale`/`Reconcile`).  `worker[j]` is the
place of `_execute`; leases are `live` or `past`; `lost` counts permits whose
thread died outside the `try`.  In the repository `LocalScheduler`,
`ResourceManager` and `reconcile_stale` are used by tests only, all from one
thread; `monitored` adds a thread that reconciles while jobs run.

**SystemController** is `start` and `stop` as the MCP server calls them, one
request at a time.  `handles` is `_processes`, `named` says whether
`_container_name` is set, `proc` is the life of each child, `box` the container
that has a server's name, `system` and `report` the files of `state/system/`.
`start` is cut where a server can die: between two spawns and before the write
of `system.json`.  `ServerRestarts` forgets the handles, as a new process does.

**PaperOrders** is `run_buy_then_sell` beside a broker.  The client's `pc`,
`waiting`, `slept`, `filled` and `report` are its place and locals: read the
position, buy, poll and sleep until a fill or the deadline, sell what was filled,
wait again, read the position, report.  The broker's `order`, `position` and
`day` change on their own: an order is filled in parts, also after the client has
given up, and midnight passes.  Any call may raise before the broker acted on it
or after, which is how a lost answer looks from the client.

Abstract specifications: **RunLedger** (runs open once, take events while open,
close for good) is what the journal promises; **RiskPolicy** (no entry while
blocked, stopped or at the limit of positions; a stop is final) is what the risk
section promises, without money, prices and orders.

## 3. The runs

| Run | Instance | What it shows |
|---|---|---|
| `evidence_store` | 2 clients, 2 runs, 3 identities | the journal stays readable under every interleaving, crash and resend; an acknowledged append is durable and identities agree; it implements `RunLedger` |
| `evidence_session` | an autoresearch run of 2 generations, or a repeated run beside a standalone evaluation; 2 data versions; 3 evaluations a generation | readers accept whatever kills, failed writes and changed files leave behind; one condition per run; copies follow evidence; a projection is complete and loses nothing; loops close their run; every run settles |
| `evidence_session_failed` | smaller | *violation*: see 6 |
| `research_loop` | 3 intents, 2 generations, 1 or 3 allowed repairs | at most one repair call and three evaluations per generation, records and final status are honest, the run settles |
| `research_loop_aborts` | 1 generation, 3 repairs | *violation*: see 6 |
| `features` | every calculator with lookbacks 1 to 4 over up to 9 bars of which 2 are odd; one of every shape over a daily and a weekly external series, with and without a lag | no value and no condition reads what its bar could not know; windowed features answer at every whole window and from no older bars; seeded ones exactly after a whole seed; later data leave earlier answers as they were, with the exceptions the property names |
| `features_open_period` | a weekly series, 7 bars | *violation*: see 6 |
| `backtest` | 2 symbols over 5 timestamps with a daily limit that stops; the same with a limit that reduces and one position allowed; the single-symbol loop over 7 bars | exposure and entries are right when symbols miss timestamps, no buy on a losing day, positions held at a breach are sold at their next open, the limit of positions holds, a trade costs its cost, both loops implement `RiskPolicy`, a single-symbol exit happens at the next open |
| `evaluation` | every run of days of one symbol within 4 years of 3 days, with and without all limits; five data sets of two symbols; two candidates; benchmarks present, absent or incomplete; the sealed zone | of one symbol, every stage keeps to its own days and benchmarks, and folds are tested after their training days, once; what is handed on passed its gates in every year the data covers and in every fold |
| `scheduler` | 3 jobs, 1 permit, 2 attempts, with and without a monitor | permits are accounted for, retries are used up exactly, a status says what the handler did and stays, runs end |
| `system` | 2 starts, 2 servers, 2 ports | a failed start undoes itself; stop tells everything to end that its server started and did not replace |
| `paper_orders` | 2 shares or none, 1 held before, 1 bought earlier the same day, a deadline of 2 sleeps, 1 midnight, every name of an exchange | the account ends between what it was and that plus what was asked; what a result leaves out was filled after its wait had ended; FLAT is reported of a flat account only; the command ends |

Deadlock is not checked where the program really stops: a session or loop that
is over, a back-test or a history at its last bar, an evaluation or an order
command that has returned, a controller with no starts left and every process
gone, a scheduler with nothing to run.  `evidence_store` checks it.

## 4. Bounds, and why they are enough

- *EvidenceStore*: two clients interleave; two runs contend for three
  identities, so that a resend, a conflict and a closed run all occur.  One
  payload is enough, since events of one identity still differ in kind or run.
- *EvidenceSession*: `Together` is the set of runs that share the directory.
  An autoresearch run is alone with itself in time but not with its own earlier
  generation; a repeated run and a standalone evaluation meet in the lock and in
  `knowledge.json`.  `MaxTries` = 3 is the largest number of evaluations the
  loop makes of one generation (`BoundedWork` of ResearchLoop).  Two conditions
  are enough for a change of files between two evaluations.  One outcome with a
  rejected and a surviving candidate gives two categories of knowledge.
  `injected` is chosen at the start: an evaluator passed by a caller records
  nothing, and the loop then writes the generation as unverified.
- *ResearchLoop*: three intents tell a proposal, its repair and a second repair
  apart; a second generation shows what outlives the first (`repaired`).
  `allowed` is chosen from `RepairLimits` at the start.
- *Features*: lookbacks 1 and 2 are where a period is clamped (`max(2, ...)`,
  `lookback // 2`), 3 and 4 an odd and an even one, which `hma`, `dpo` and `hurst`
  tell apart; the slowest windows need `2 * lookback` bars, so that 9 bars hold a
  first answer and another after it.  `MaxOdd` = 2 missing or
  late values are two gaps, or one gap and a late observation; a week of 3 bars
  gives a closed week, an open one and the one before them.
- *Backtest*: prices 1 and 2, a cost of an eighth and a cash that is a power of
  two make every division exact (`ExactAmounts`, checked by TLC), so that
  rounding and the engine's tolerance of 1e-9 play no part.  A price that doubles
  or halves reaches stop, target and daily limit in one bar.  Four or five
  timestamps hold a breach, a missing bar, the sale after it and another entry.
  The bars, closes and the matching of rules are chosen by TLC at every step.
- *Evaluation*: three days a year are the fewest with a January, a December and a
  day that is neither.  Twelve days give none to four walk-forward windows, every
  remainder of the sizes by 2 and 4, and years that are whole, begun and
  unfinished.  `MaxSold` = 1 and `MaxScore` = 1 put every number below, at and
  above its limit; at most one fold falls short, and in one way
  (`FoldOutcomes`), since a fold is accepted or not by itself.
- *Scheduler*: one permit and three jobs leave a waiter that another overtakes;
  `monitored` is chosen at the start.  Several permits are covered by the proofs.
- *SystemController*: `MaxStarts` and `MaxServers` bound the history; two of each
  give a replaced handle and a server that takes over.  A third start only
  repeats the second; the proofs are for any number.
- *PaperOrders*: two shares are the least that can be filled in parts; `Initial`
  and `Earlier` let a share that was there before be mistaken for one that was
  bought; a midnight is enough for an order and its query to have different
  dates.  The proofs are for any quantities and deadlines.

## 5. Fairness

`EvidenceSession` and `ResearchLoop` assume weak fairness of the process's own
work (`Work`): evaluations are finite and provider calls have a timeout.
Failures, kills and changes of files are never forced.  Waiting for the store's
lock needs nothing stronger than weak fairness, since a holder that is killed or
fails gives it up (SQLite drops the lock) and one that works on releases it; a
caller that runs out of the busy timeout takes `StoreFails`.  `Scheduler`
assumes weak fairness of the caller's submissions and of every thread: threads
are scheduled and handlers return or raise.  Nobody needs to start a run, let a
lease expire or reconcile.  `PaperOrders` assumes weak fairness of the client
(`Client`): its HTTP calls return or time out and its sleeps end.  The broker
need not fill anything and no midnight need pass.  The other modules state no
liveness.

## 6. What the runs found

Checked by a run:

- `evidence_session_failed` (`orchestration/evaluation_runner.py:141`): the
  attempt is journaled as COMPLETED before `test-records.jsonl` is written; when
  that write fails the evaluation raises, and the attempt stays COMPLETED with
  its candidates, although failed evaluations are documented as FAILED and empty.
- `research_loop_aborts` (`runtime/research_loop.py:535`): `repaired_intent` is
  read where it may never have been assigned, and the `UnboundLocalError` ends
  the whole run.
- `features_open_period` (`core/features/series.py:82`): `resample_completed`
  keeps the last period even if it is not over, so that a bar in the middle of a
  week sees that week's latest observation.  It is not data from the future, but
  not what the design says of higher timeframes either.

Seen while modelling, and visible in the models where a module is named:

- *Research loop* (`runtime/research_loop.py:278`): the signature of a repair
  enters `attempted_repair_payloads` when the repair returns, before its
  preflight, so that the next repair is always skipped as a duplicate although no
  call about that payload was made (`BoundedWork`: one call per generation,
  whatever `intent_repair_attempts` says).  `docs/operations/recovery.md:19` says
  that a repair is skipped when its payload *has already failed*.
- *System controller* (`runtime/system_controller.py:361`): a server that takes
  over from one that ended answers STOPPED and overwrites `system.json`, while
  everything the first one started runs on.  `StopEndsOwn` is therefore about
  what the running server started.
- *Scheduler* (`runtime/scheduler.py:41`): the first heartbeat of `_execute` is
  written after the permit is taken and before the `try`, so that an `OSError`
  there loses the permit (`lost`) and leaves the job RUNNING.
- *Paper orders*: when the sell fails, the command prints a status and a reason
  (`cli.py:477`) and not the quantity that was bought, as the design of 2026-09-02
  asks; the holdings are read once and not until flat or the deadline; and
  `account_snapshot` knows other names of exchanges than the orders do, so that
  only NASD passes both.
- *Features*: seven registered features never answer, and five more do not for a
  lookback above 1, because they seed a moving average with the None of another
  one's warm-up (`Unseeded` in `SeedDecides`); a seeded feature never answers when its external
  series starts after the first bar; `kama` and `mcginley` raise when the data are
  shorter than the lookback; `volume_breakout` gives the bar of its first full
  window a value only once a later bar exists (`OldAnswersStand`); features of
  sessions, profiles and order flow are registered but make a back-test raise; and
  `pin_bar`, `shooting_star`, `morning_star` and `evening_star` are all calculated
  as `engulfing`.
- *Evaluation of several symbols*: `StagesKeepToTheirDays` is claimed of one
  symbol because it fails for more.  The fast stage takes the first half of every
  symbol's bars but the first so many of the symbol-major inputs
  (`orchestration/pipeline.py:76`), so that the second symbol's fast bars read the
  first symbol's *later* values.  Walk-forward windows run over symbol-major
  positions, so that test days may precede training days, and
  `benchmark_data.select` (`pipeline.py:220`) takes per-day prices by the position
  of a bar: the evaluation raises (`FoldRaises`), or compares other days.  And for
  symbols that follow one another in time in another order than by name the first
  and the last day of the yearly report are wrong (`evaluation/yearly.py:67`),
  which `HandedOnHolds` leaves out.

## 7. The proofs

Each is for every value of the constants under the module's named assumptions.
The inductive invariant is `IInv`, or has a name of its own where a module proves
two systems; TLC checked it on the small instance before it was proved.

- **EvidenceStore_proofs** (`WellFormedAssumption`, `NoCallAssumption`): type
  correctness, `AlwaysReadable`, `AckedDurable`, `AppendOnly`, and the
  refinement of `RunLedger`.  Readability is inductive only together with
  *distinct identities* and with *what was replied but not yet returned is
  stored*, the state a crash can lose.
- **EvidenceSession_proofs** (`SessionAssumption`, `FreeAssumption`): types,
  `ReadersAccept`, `OneConditionPerRun`, `EvidenceBeforeCopies`, `LoopsClose`,
  `ProjectionIsComplete` and `KnowledgeGrows`, for any runs, conditions and
  outcomes.  No reader's rule is inductive: that a run's generations are `1..n`
  rests on where its process is.  `ProgressOf` says for every place of a process
  which of its events are in the journal, `GroundsOf` and `Grounded` what the
  next record and every stored one rely on, `Identities` that an event's identity
  is made of its kind, run and number (so that a repeated append is recognised),
  and `ProjectingOf` that a projection under way has the lock and is still the
  current one.  Without the lock or without the merge, a sync loses what another
  one wrote.
- **Generation_proofs** (`LoopAssumption`): of ResearchLoop, types,
  `BoundedWork`, `RecordIsHonest`, `FinalIsHonest`.  `Phases` says for each place
  in the loop what the locals can be; `BoundedWork` needs that after one call
  every payload a second could be about is in `attempted`.
- **Generation_proofs** (`EvaluationAssumption`): of Evaluation, `HandedOnHolds`
  and `StagesKeepToTheirDays`, for any data set, funnel, candidates and length of
  a year.  `PipelineInv` keeps what the gates said until the choice is made: who
  was not rejected has passed them under this call's limits, and the one handed on
  is the best of the eligible ones by score and hash.  The rest is about the
  operators: `Arranged` lists a set in order (`Arrangement`), so that bars of any
  number of symbols are ordered, the first and last day of the yearly report are
  those of the data, the years it counts are the complete ones, and the positions
  of a window are days that follow one another; tests lie behind their training
  days and leave less than one test at the end.
- **Features_proofs** (`FeaturesAssumption`, `NoneAssumption`): all four
  properties, for every calculator of the catalog, any lookback, lag and
  timeframe and any history.  `NoFutureData`: a series is *causal* if each cell is
  made of what is known at its bar; every shape of FeatureCells makes causal
  series of causal series.  `OldAnswersStand`: two histories that *agree* up to a
  bar have the same values up to it.  `WindowsAnswer`: a windowed series has two
  numbers, after how many bars it answers and how far it reaches back, and every
  shape a rule for them.  `SeedDecides`: a seeded one has a first answer, after
  which it answers exactly at whole bars, or it is empty for ever.
- **Backtest_proofs** (`BacktestAssumption`, `RulesAssumption`,
  `SingleAssumption`): cash and units never go negative, `ConcurrencyLimit`,
  `ExposureWithinLimit`, `NoBuyOnALosingDay`, `ReducedAtNextOpen`,
  `EntriesFollowSignals`, `TradesConserveEquity`, `OnePositionAtATime`,
  `SingleExitsAtNextOpen`, and the refinement of `RiskPolicy` by both loops, for
  any symbols, prices, limits and costs up to the whole notional.  `Orders` relates
  pending orders to what the last bar of the symbol decided, `LosingDay` the
  lowest equity of the day to the block, `SingleOrders` an exit to the close that
  ordered it.  Sums over the symbols are folds: that one summand's change is the
  sum's is proved by induction over the sets the fold walks through.
  `Conservation` has a hypothesis, `WholeUnits`: what is invested divides by every
  price, since the code's units are fractions and the model's whole numbers
  (`ExactAmounts` has TLC check the like of its instance).
- **Scheduler_proofs** (`SchedulerAssumption`): types, `PermitsAccounted` for
  any number of permits and jobs, `RetriesAreUsedUp`, `AnswerDecides`,
  `SettledStays`.  The accounting is about the cardinality of the threads inside;
  each step adds or takes one.  The last two rest on there being threads during a
  run only and of its own jobs (`ThreadsOfTheRun`), on reconciliation keeping out
  of runs (`Alone`), and on what a thread's place tells of its job's status
  (`PlaceTells`).
- **SystemController_proofs** (`SystemAssumption`): types, `FailedStartIsUndone`,
  `StopEndsOwn`.  `Progress` ties the first components of a start to the handles,
  `Owned` says that a live process of the running server has a handle or was
  replaced, `Boxed` the same of its container, and `Used` that later starts have
  no processes and no container belongs to a later server.
- **PaperOrders_proofs** (`PaperAssumption`): types, `PositionBounded`,
  `UnseenFillsOnly`, `FlatWhenReported`, for any quantities (negative ones, too,
  which the code refuses), deadlines and dates.  `Balance` says that the account
  is what it was plus what was filled, `OrdersBounded` that no order is filled
  beyond its quantity and that the sell asks for no more than the buy's fills,
  `Progress` which orders exist at each place of the client, and `Reported` what
  the locals know of the broker.

Folds, running values and ordered lists are reasoned about by induction over a
*set* of numbers (`SetInduction`, `UptoInduction`, from the well-foundedness of
`<`), since the library's induction theorems take an operator and the provers
cannot instantiate those.

What the proofs corrected in the models: two calculators whose period is never
below two (`AtLeastTwo`); calculators whose CASE had two branches true at once;
which features have no seed at lookback 1 (`Unseeded`), which is why the run has
lookbacks 1 and 2; that a missing value must differ from every set of points
(`NoneAssumption`); that a lock nobody holds is not a run's (`FreeAssumption`);
and the last day of a data set without a bar, which `LastDay` left undefined.

Only model-checked, and out of the prover's reach: liveness (`EveryRunSettles`,
`RunSettles`, `RunsEnd`, `RunEnds`), which rests on fairness and so on ENABLED.
The three violations of section 6 are TLC's counterexamples.  Everything else
that a passing run checks is a theorem.

## 8. What is left out

- Values: what a calculator computes, scores, metrics, texts and hashes.  Where
  the control depends on them the model chooses.
- Within modelled parts: the engine's buy-and-hold and signal modes and its
  trade records; the comparison of runs in `research_evidence.py`; the contents
  of heartbeat and status files; the checks of `preflight` one by one; a
  `docker run` that creates its container after it was told to end; the token
  cache and the throttle of the KIS client, which can only make a call wait or
  fail; the promotion gate of `select_candidate`, whose `champion_score` no caller
  sets; the evaluator's own failures other than a feature that raises.
- Code that only tests call: `promote_candidate`, the frontier, the rescue pool
  and the audit log; `PaperTradingAdapter` and the live gate; the registration of
  proposed features and `calculate_specialized`; `GenerationRunner`,
  `PlateauDetector`, `allocate_sources`; the other splits and gates of
  `core/validation`; the experiment cache and the result store.
- Whole parts: the ones with status `not_modelled` in `PROJECT.json`, each with
  its reason.

## 9. Plan

Done, in this order: journal, session and projection, research loop, scheduler,
back-test loops, system controller, paper orders, features, evaluation.

Every safety property that a run checks is a theorem.  Theorems next, none of
which a run asks for yet: that the readers accept the same journal when they
compare several runs, and what the windows of several symbols do keep, where
`StagesKeepToTheirDays` says nothing.

Modules next: the catalog of `strategy_import/registry.py`, with two commands at
once and crashes between a record's files and the catalog; the rules of
`research/llm/intent_bridge.py`, that a rejected intent leaves the parent as it
was.  Runs that ask about one module under several configurations share an
instance by choosing the configuration at the start, as `allowed`, `monitored`,
`Together` and `loop` do.
