# Verification of brad-quant-agent

This directory holds TLA+ specifications of the parts of the platform in which several actors
change shared state, or in which a result depends on the order of many small steps; the TLC
configurations that model-check them on small instances; and proofs of their safety that the TLA+
proof system checks for every value of the constants. Paths below are relative to
`src/backend/app/` unless they start with `src/`.

Check a run with `tlc -config <X>.cfg <module>`, and the proofs with `tlapm <module>Proofs.tla`.
`PROJECT.json` lists the runs, the source lines of every definition, the hazards with the
properties that cover them, a mutant of the code for every property, and the theorems.

Contents: 1 the system, 2 the modules, 3 the runs, 4 the proofs, 5 what is not modelled, 6 what is
left to do.

## 1. The system

A research platform for A-shares: FastAPI processes serve users, worker processes compute
backtests and predictions and run the scheduler, PostgreSQL holds the state, Redis carries leases,
caches and WebSocket fan-out, a bridge process talks to a broker, and a Next.js frontend shows it
all. Several API and worker processes may run at once. Nearly every service follows the same
protocol: short transactions that lock one row, a long computation or an external call between
them, and a token or a timestamp in the row that says who may write next. What is hard is what
happens between two such transactions.

| Component | State | Operations | Interacts with | Hard behaviour | What makes it correct |
|---|---|---|---|---|---|
| Simulated trading (`services/trading.py`, `trading_rules.py`) | accounts, positions, orders, trades | place, cancel, settle, match | scheduler, quotes | the matcher works from an unlocked list; the date is read more than once | promised shares and cash exist, money is conserved, T+1 |
| Ingestion (`services/ingest.py`, `backtest/data.py`, `src/backend/scripts/bootstrap_prediction_market.py`) | bars, factors, ingestion runs, manifests | backfill, standalone write, bulk import, load | providers, backtests | crashes between datasets, two writers of one window, partial answers | what a reader accepts is what one run vouched for |
| Daily universe (`services/universe_membership.py`, `backtest/universe.py`, `full_a.py`, `runner.py`) | members and snapshot of a day | build a day, build a range, run on a range | imports, releases, backtests | builders of two releases, a builder that dies, imports under a reader, two statements that see two states | no run mixes two builds of a day |
| Backtest queue (`services/backtest_jobs.py`, `backtest_run.py`) | jobs, runs | enqueue, cancel, claim, save, finish | workers, account deletion | slow and dead workers, cancellation races | a job ends once; run and completion agree |
| Backtest engine (`backtest/`) | the account of one run | one bar after the other | strategies | intents wait for a bar over days; limits, volume, T+1 | fills on the next bar, no overdraft |
| Scheduler leader (`services/scheduler_leader.py`, `runtime.py`) | one Redis key, a flag per worker | tick, renew, release | Redis | a call that is executed but not answered, lost keys, stalls | one scheduler among timely workers; eventually one |
| Decision chain (`services/decision_chain.py`) | runs, events, evidence | reserve, bind, decide, fail, alarm | allocation, notifications | takeover, lost acknowledgement, crash after commit | one audit chain, stable evidence, alarms not lost |
| Allocation and protocol (`services/authoritative_allocation.py`, `decision/protocol.py`) | none shared | preview, six actors | decision chain | thresholds and vetoes that argue with each other | no concern is overruled unreported |
| Decision notifications (`services/decision_notifications.py`) | notifications | emit, deliver, retry | pub/sub, Feishu | overlapping deliveries, lost answers | delivered at last, twice only for a fault |
| Decision room (`services/decision_room.py`) | mode, kill switch, overrides, audits | change, activate, release, override | grants, broker gateway | the switch acts in another transaction | every effect is paid for; the switch stops orders |
| Step-up (`services/step_up.py`) | factor, recovery, throttle, grants | enroll, grant, consume, reset | decision room | replayed codes, concurrent failures, resets | a code and a grant are used once; guesses are bounded |
| Broker gateway (`services/broker_gateway.py`, `broker/`) | bindings, orders, submissions | enqueue, claim, submit, reconcile, revoke | bridge, kill switch | results late or lost, leases, look-alike orders | at most once, never after a stop, found again |
| Evolution programs (`services/evolution.py`) | programs, commitments, observations, attributions | commit, evaluate, degrade, promote, attribute | predictions, overrides | claims that run out, transitions during an evaluation, prices that are incomplete | predicted before known, promoted by the book, overrides compared fairly |
| Prediction registry and operations (`services/prediction_*.py`) | jobs, models, champion, forecasts | train, infer, promote | training of models | takeovers, interrupted attempts | one judged model per job; jobs end |
| Training data (`services/training_data.py`, `training_dataset.py`, `artifact_deletion.py`) | consents, traces, candidates, datasets, outbox | record, review, build, withdraw, purge, remove | chat, account deletion | withdrawal races with a record and with a build | frozen data are allowed data; what is queued is removed |
| Strategies (`services/strategy.py`, `strategy_signals.py`, `sandbox`) | heads, versions | create, update, copy, run | edit page, backtests | copies without locks, edits from old forms | what runs is the version that was named |
| Chat and reports (`services/chat_memory.py`, `brief.py`, `ai/`, `agents/`) | sessions, turns, reports | ask, stream, store, delete | model providers | clients that leave at any yield, failing models, pieces of text | turns know their predecessors, rows end as what they are, no advice is shown |
| Quotes (`services/market.py`) | thread pool, caches | refresh | providers | calls that hang | the refresh goes on |
| WebSockets (`ws/`, `src/frontend/src/lib/ws/`) | connections, subscriptions | connect, subscribe | pages | late events of old sockets, breaks without a sign | the server has the topics the pages want |
| Frontend pages (`src/frontend/src/`) | state of a page | clicks and late answers | API | answers out of order | what is shown is what was chosen |
| Authentication (`services/auth.py`) | users, tokens | register, log in, refresh, delete | everything of a user | deletion races | covered where it meets other components |
| Prediction modelling, rate limits, providers, configuration, migrations | none shared, or single commands | computation, I/O | - | - | - |

The complete list with the source files is `components` in `PROJECT.json`; the hazards with their
lines are `hazards`.

## 2. Modules

| Module | Models |
|---|---|
| `SimTrading`, `TradingRules` | `services/trading.py` with the fees of `trading_rules.py`, for one account |
| `Ingestion` | daily bars and factors of one instrument: backfills, bulk import, reader |
| `BacktestJobs` | `services/backtest_jobs.py`, `_save_run`, `delete_account` |
| `UniverseSnapshots` | `services/universe_membership.py` and the readers in `backtest/` and `services/backtest_run.py` |
| `JobContract` | abstract: what a user may rely on; `BacktestJobs` implements it |
| `BacktestEngine` | the event loop of `backtest/` over its matching account |
| `SchedulerLeader` | the election, the life cycle of a worker; discrete time |
| `DecisionChain` | `services/decision_chain.py` |
| `DecisionProtocol` | `authoritative_allocation.preview` and the six actors of `decision/protocol.py`, as values |
| `DecisionNotifications` | `services/decision_notifications.py` |
| `DecisionRoom` | mode, kill switch, overrides, audits of one user |
| `GrantContract` | abstract: what a grant is worth; `StepUp` implements it, `DecisionRoom` uses it |
| `StepUp` | `services/step_up.py` |
| `BrokerGateway` | `services/broker_gateway.py` with the polling of `broker/emt_bridge.py` |
| `TradingControls` | composes `DecisionRoom` and `BrokerGateway` with the transactions they share |
| `Evolution` | `services/evolution.py`, one program |
| `BehaviorAttribution` | the attribution of overrides in `services/evolution.py` |
| `PredictionOps` | `services/prediction_ops.py`, `prediction_registry.py` |
| `TrainingData`, `ArtifactDeletion` | consents, traces, datasets; the outbox of removals it includes |
| `StrategyVersions` | `services/strategy.py`, its readers, the edit page |
| `BacktestPage` | the page that runs backtests and searches; extends `StrategyVersions` |
| `ChatTurns` | `services/chat_memory.py`, the event stream of `api/v1/ai.py` |
| `ChatPanel` | `components/ai/chat-panel.tsx` |
| `Reports` | morning brief and deep research |
| `GuardedStream` | the guard of a streamed answer in `ai/orchestrator.py`, `ai/compliance.py` |
| `MarketFeed` | `_fetch_with_timeout` and its callers in `services/market.py` |
| `MarketSocket` | `marketSocket.ts`, the ticket, `ws/routes.py`, `ws/manager.py` |
| `Total` | the sum of a function over a finite set of ids |
| `MC*` | the instances TLC checks |
| `*Proofs` | theorems and their lemmas |

A faulty variant of a definition, such as `StaleADayLate`, stands directly before the definition
it varies. No specification uses it: replacing the definition by the variant shows that a property
notices the bug.

Common conventions: a transaction is one action; a read outside of one, and a call of another
system, is an action of its own; `pc` is where a process stands between two of them. A lease is
one bit (`fresh`, `leased`) where only its end matters, and a number where durations are compared
(`SchedulerLeader`, `StepUp`). Claim tokens are numbers or the names of their holders where a
holder cannot have two. Crashes, stalls and failing calls are actions bounded by a `Max` constant.

### Simulated trading and prices (host `MCMarket`)

*SimTrading.* Every write of the service locks the account row, settles it for the current day,
changes it and commits, so it is one atomic action: `PlaceOrder`, `CancelOrder`, `SettleAccount`,
`MatchOne`. `Settled` is `_settle`, `Fill` is `_fill`, `FreezePending` is `_freeze_pending`,
`Matched` is `_try_match_pending_order` with its early returns. Two things are not covered by the
lock and are kept: the matcher (`ListPending`) lists orders without a lock and tries them later,
and `place_order` reads the date once to settle and once more for the order (`SpansMidnight`).
Money is an integer, rounding is `RoundDiv`; average cost, names and pushed messages are left out.

*Ingestion.* A backfill takes the lock of the instrument (`Begin`), fetches and stores a dataset
(`Fetch`, `Store`), audits what is stored (`Audit`) and records its run (`Finish`); tasks fail and
processes die between any two of them. The bulk import (`Bulk...`) takes no lock. A row is who
wrote it and its stamp; `Load` and its parts are what `backtest/data.py` accepts.

### Backtests (host `MCBacktests`)

*BacktestJobs.* `jobs` is the table, `fresh` says that `updated_at` is newer than the lease,
`token` is `claim_token`; a worker claims, begins, reports progress, computes, checks, saves and
finishes. `CheckActive` and `EnqueueFullA` are the two transactions of `enqueue_full_a`. `Stall`
lets the lease of a live worker pass, `Crash` kills it, `DeleteAccount` removes the rows under it.
`JobContract` says: a job starts, ends once, and one that was asked to stop ends only as
cancelled; the mapping is `state`, `asked`, `saved` (`ContractKept`).

*BacktestEngine.* One action is one bar of the clock (`Step`): `settle_t1`, `execute_open` with
waiting intents, then the strategy's intents. Which instruments trade, which are eligible, limits,
slippage and volume are inputs.

### Operations (host `MCOperations`)

*SchedulerLeader.* `owner` and `left` are the Redis key and its remaining time. A tick sends one
command; `Execute` runs it, `Answer` lets the worker see the result, `CallFails` loses the call
before or after execution. A worker that is not stalled acts before its timer passes zero.

*DecisionNotifications.* `Emit` stores an alarm or finds it stored, `RetryPending` and
`DeliverNext` are the retry job, `Take` and `WriteBack` the two transactions of `_deliver`, with a
call that succeeds, fails, or loses its answer between them.

*MarketFeed.* A call of a source runs on a pool thread; the caller waits for a limited time and
leaves it behind. While somebody waits for a source nobody else calls it.

*BehaviorAttribution.* `List` is the query of `attribute_due_overrides`; `Read`, `Evaluate` and
`Save` are `_attribute_override_batch` for one override; `Complete` and `CountFailure` update its
attempt. `Rebalance` is `_rebalance`, a fold over the instruments; the prices of each evaluation
are an input, or cannot be used (`EvidenceFails`). A row is kept as its prices, from which
`Compared` gives both of its sides.

### Decisions and conversations (host `MCConversations`)

*DecisionChain.* One action per transaction of `run`: `Reserve`, `ReadClaim`, `Preview`, `Bind`,
`Decide` (events and verdict in one commit whose acknowledgement may be lost), `Read`, `Notify`,
`MarkFailed`, `Raises`. A row of evidence carries what the actors make of it.

*DecisionProtocol.* One computation per behaviour, one actor per step, over whole numbers.

*UniverseSnapshots.* A builder reads in one step (`BuildForDate`, `ReadChunk`) and commits in
another (`Commit`), which primary keys refuse if somebody else was faster. A run reads snapshots
and rows in two statements: `BindMembership` for the codes a user chose, `LoadChunk` and `RunChunk`
for all shares. `Update` imports under them. A digest is what it is taken of.

*ChatTurns, ChatPanel, Reports, GuardedStream, MarketSocket.* The turn of a request with the lock
object of its session; the panel with its generation counter and calls that answer in any order;
a report whose reader may leave at any yield; the buffer that holds back what may begin a banned
phrase; the client's socket, with close events that arrive late.

### Research (host `MCResearch`)

*Evolution.* The daily job and two routes of an administrator call the same functions: each
transaction and each read outside of one is an action; commit and settlement hold the claim.
*PredictionOps.* Claim, heartbeat, publication and end of a job are transactions that check the
token; an advisory lock is held during the execution.

### Controls (`TradingControls`, host `MCTradingControls`)

`DecisionRoom` and `BrokerGateway` share the kill switch and the grants: `EnqueueOrder` pays and
enqueues in one transaction, `RevokeQueue` revokes after the switch was committed, `RevokeLost` is
its failure, which is only logged.

### Accounts (host `MCAccounts`)

*StepUp* counts time in periods of a code. *TrainingData* makes the transactions under the
lifecycle lock one action and splits those that do not take it (record, purge, session deletion);
`ArtifactDeletion` is the outbox. *StrategyVersions* appends versions under the head's lock, copies
without one; the edit page keeps the form of its first rendering but the version of the last
fetch. *BacktestPage* adds the page that lists strategies once and polls a search.

### Hosts with a part

The hosts `MCMarket`, `MCBacktests`, `MCOperations`, `MCConversations`, `MCResearch` and
`MCAccounts` put components that share no rows into one specification: the variable `part` is
chosen at the start and says which component moves, the others keep their initial state. So each
behaviour is a behaviour of one component, the properties are those of the components, and a run
checks several of them at the cost of the sum, not the product, of their states. Components that do
share state are composed for good: `DecisionRoom` with `BrokerGateway`, `TrainingData` with
`ArtifactDeletion`, `StrategyVersions` with `BacktestPage`.

## 3. Runs

| Run | Question | Result |
|---|---|---|
| `market` | Do the books of an account stay true, and can a reader trust stored prices? | holds, if no placement spans midnight |
| `backtests` | Does the queue keep its contract and end every job; are intents filled on the next bar? | holds |
| `operations` | One scheduler and always another; do its jobs reach their ends? | holds |
| `decision` | Do decisions, conversations, reports, streams and sockets keep what they promise? | holds |
| `research` | Is a Champion promoted by the book, and do the jobs publish once? | holds |
| `controls` | Is an order sent once, only when allowed and paid for, and found again? | holds |
| `accounts` | Do factors, grants, training data, strategies and their pages keep what they promise? | holds |
| `sim_midnight` | The books when midnight falls into `place_order` | **violated**: shares promised twice |
| `decision_alarm` | Is a severe disagreement always notified? | **violated**: a crash after the commit |
| `training_withdrawal` | Does a withdrawal clear what is not frozen? | **violated**: a record in flight |
| `backtest_cash` | Is a purchase cut to what the cash pays for? | **violated**: the minimum commission |
| `lost_edit` | Does a stale edit get a 409? | **violated**: the version is refetched, the form is not |

What the properties of the passing runs say:

- `market`: `OrdersBacked` (each pending order is backed by shares or cash promised to no other),
  `BooksBalance` (the trades account for all money; what is sold was bought before that day),
  `NoOvernightFill` (a DAY order fills on its day, however old the matcher's list), `CertifiedRows`
  (a window that loads on the word of a backfill has no rows of another one), `ReadyIsLoadable`
  (what a backfill brought completely is accepted).
- `backtests`: `OneActiveFullA`, `ContractKept` (the refinement), `JobsEnd`, `OnNextBar` (an intent
  is filled on the next bar of its instrument, once).
- `operations`: `OneScheduler`, `SchedulerRunsAgain`, `AlarmsDelivered` (delivered in the end,
  truthfully reported, twice only for a fault), `OvernightOrdersEnd`, `QuotesGoOn`,
  `OverridesSettled` (an override is in the end attributed, or given up after its attempts; and
  `ComparisonsFair`: the two sides of an attribution start from one account and obey limits, volume,
  cash and the day of purchase, what was accepted makes no difference, and what was rejected buys
  nothing).
- `decision`: `DecisionSound` (nothing is allocated over a refusal, a limit or an unreported
  concern), `OneAuditChain`, `RepeatedRequestsEndRun`, `OutcomesKept` (a report ends as what it
  is), `ShownIsSafe` (no banned phrase is shown, however it is cut), `TopicsRestored`,
  `EarlierTurnsKnown`, `LastChoiceShown`, `UniverseAgreed` (a backtest used of each day exactly what
  one build stored of it, judged by the filters of its own release; exempt from the filters is a day
  that a filtered run has from the second statement of `eligible_map` alone, see section 5).
- `research`: `PredictedBeforeKnown` (no commitment rests on evidence read after its day, and they
  are settled in order), `PromotedByTheBook`, `MissedEndsProgram`, `OneModelPerJob`, `OpsJobsEnd`.
- `controls`: `AtMostOnce`, `StoppedNeverSent`, `EffectsPaidOnce`, `SentOrdersFound`.
- `accounts`: `OneUsePerCode`, `GuessesBounded`, `GrantsKept` (the refinement of `GrantContract`),
  `FrozenAllowed`, `QueuedIsRemoved`, `VersionsFaithful`, `RunsWhatIsShown`.

Type invariants and a few weaker properties (`SharesReserved`, `FrozenCashMatchesOrders`,
`PendingNeverRejected`, `RunsMatchJobs`, `LeadershipStable`, `AlarmsJustified`, `EvidenceStable`,
`VerdictFinal`, `RevokedNeverSent`, `KillSwitchClears`) are proved and therefore no longer part of
a run.

### Bounds, and why they are enough

- *Account*: one instrument (instruments share only the cash), three orders (a buy to own shares
  and two sells that compete for them, or two buys that compete for cash), three days (placed,
  stale, the day after), one matcher with a list as old as it likes, prices and sizes 1 and 2,
  cash 6 so that two larger buys do not fit, fees with a minimum that binds. *Prices*: two days,
  backfills of both, a bulk import of the second, readers that ask for either window; two writers,
  two runs, one upset (a crash, a failed task or the bulk import). More writers only repeat what two
  can do, since the lock orders all backfills of an instrument.
- *Queue*: two jobs, two workers, two concurrent requests of one user, a stall and a crash.
  *Engine*: two instruments over three bars: an intent of one waits while the other trades, and
  there is a bar after the one that fills it.
- *Operations*: two workers, a lease of 6, a renewal every 2, a latency of 1 (30 s, 10 s and 2 s,
  scaled, with `Renew + 2 * Latency < Ttl`), two faults; one alarm (rows share nothing), the
  request that raised it and the retry job, three tokens, two faults; two orders across midnight;
  two sources that both hang once with a pool of two threads; one override (rows of their own), an
  account with shares of one instrument and cash for few, three markets (both trade with a volume
  that binds, one opens at its lower limit, the other at its upper), accepted, rejected or modified
  in two ways, two attempts instead of six, one crash or failure of the database.
- *Decision*: one key (runs of different keys share nothing but ids), two requests, two pieces of
  evidence, three claims (a takeover of a takeover), two stalls, one crash. *Actors*: two
  instruments of one industry, forecasts on both sides of every threshold, three markets, four
  drawdowns: 13 824 inputs. *Chat*: three requests in two processes, for a lock that one holds,
  one waits for and one finds removed. *Panel*: three calls and four choices. *Report*: three
  questions with a concurrency of two, two revisions, two faults. *Stream*: phrases of two and three
  letters, one a rotation of the other's letters, in all texts of up to five letters and all ways
  to cut them. *Universe*: one instrument over two days in chunks of one, two builders of which one
  runs another release, one backtest, one import. *Socket*: two sockets, two tickets, four changes;
  one topic, since topics share nothing.
- *Research*: a program of two days of simulation and one of shadow with a day to spare, the daily
  job and an administrator, one fault; a training and an inference job, two workers, two attempts,
  two faults.
- *Controls*: two orders that look alike, two bridges, two grants, one activation, two faults.
- *Accounts*: one grant, two purposes, two secrets, two failures to the lock, three periods (a lock
  of two); one session with two turns and one version, or one turn with two removers, one crash;
  two strategies with two (in `lost_edit` three) revisions, two built-in types and custom source,
  one page, one call, one slot of the sandbox, searches of two combinations.

`CHECK_DEADLOCK FALSE` is set where the system may stop: all ids of the instance are used, the
clock has reached its last day, all faults have happened, or no client asks for anything; that
something goes on where it must is what the liveness properties say.

### Fairness, and why the code justifies it

- *Account*: the clock runs and the settlement job of the scheduler runs every day
  (`services/scheduler.py:240-257`).
- *Queue*: worker threads poll in a loop and are restarted with their process
  (`services/backtest_jobs.py:406`); leases run out. No client is assumed to do anything.
- *Leader*: time passes, a live worker acts, a dead process is restarted by its supervisor; the
  number of faults is finite, which is what "again" needs.
- *Decision*: a request that was made continues until it returns, and the lease of a dead one runs
  out. That clients repeat a request is the premise of `RepeatedRequestsEndRun`.
- *Notifications*: the retry job runs every minute, time passes, and a receiver that is called over
  and over accepts one call (strong fairness, an assumption on the outside world).
- *Feed*: threads take what is queued, callers time out, the refresh jobs run, and a last source
  that is called again and again answers once (strong fairness, as above).
- *Overrides*: the scheduler starts the job every day (`services/scheduler.py:105`), a process that
  lives goes on, and the time until the next attempt passes. Nothing is assumed of the prices.
- *Evolution and prediction jobs*: leases run out, the scheduler calls its jobs again, a call that
  was made continues; the heartbeat is not assumed.
- *Controls*: some bridge polls every second and finishes what it began; strong fairness for the
  claim and the snapshot, which a change of the lease may disable in between.
- *Removals*: claims grow old, the job of the scheduler takes up rows, and a removal that is tried
  again and again succeeds once.
- No fairness is assumed of a user: chat, panel, page and socket have safety properties only.

### Findings

1. `sim_midnight`: `place_order` settles with one reading of the date and stamps the order with a
   later one (`services/trading.py:322`). An order placed across midnight is not stale on the new
   day, so the settlement of that day returns all shares to `available_qty` while the pending sell
   still counts on its own. The theorems about shares assume `~SpansMidnight`.
2. `decision_alarm`: the verdict is committed before its alarms are stored
   (`services/decision_chain.py:431-433`). If the process dies in between, no row exists and the
   retry job has nothing to retry, although `SPEC.md` and `docs/decision-room-design.md` promise
   the notification. A client that repeats the same request repairs it.
3. `training_withdrawal`: the trace of a turn is stored by a transaction that takes no lock of the
   lifecycle (`services/training_data.py:270-319`). A withdrawal that commits between its read of
   the consent and its insert does not see it, although `src/backend/README.md:154` promises that a
   withdrawal clears what is not frozen.
4. `backtest_cash`: a purchase is cut to what the cash buys by the commission rate, without the
   minimum commission (`backtest/broker.py:206`), so the cash can become negative.
5. `lost_edit`: the edit page sends the version of a query that refetches on focus with the values
   of its first rendering (`src/frontend/src/app/(app)/strategies/[id]/edit/page.tsx:31`), so the
   409 that `src/backend/README.md:231` promises does not come.

## 4. Proofs

The theorems hold for every value of the constants: any number of orders, jobs, workers, bridges,
sockets, sessions or requests, and any number of crashes, stalls and other faults.

`BacktestJobsProofs`, `EvolutionProofs`, `SchedulerLeaderProofs` and `ConversationProofs` extend the
modules of their runs, which instantiate `BacktestEngine` as `E`, `PredictionOps` as `Ops`,
`DecisionNotifications` as `Notes`, `BehaviorAttribution` as `Behavior`, `ChatPanel` as `Panel`,
`DecisionProtocol` as `Protocol`, `Reports` as `Report` and `ChatTurns` as `Turn`: the theorems
speak of the definitions the runs check.

| Module | Theorems | Inductive invariant |
|---|---|---|
| `SimTradingProofs` | `TypeCorrect`, `FrozenCashCorrect`, `WaitingOrderNeverRejected`, `SharesReservedCorrect`, `OrdersBackedCorrect`, `NoOvernightFillCorrect`, `MoneyConserved`, `BooksBalanceCorrect` | `IInv` (types, frozen cash is what pending buys hold), `SharesIInv` (pending orders are of the day of the last settlement), `BooksIInv` (trades account for money and shares) |
| `IngestionProofs` | `CertifiedRowsCorrect`, `ReadyIsLoadableCorrect` | `IngestIInv`: a backfill starts after all before it have ended or died, so stamps order the rows of different runs; `LoadIInv`: an audit still says what is stored as long as all rows are its run's |
| `BacktestJobsProofs` | `TypeCorrect`, `OneActiveFullACorrect`, `RunsMatchJobsCorrect`, `ContractCorrect` (queue); `UniverseAgreedCorrect` (universe); `OnNextBarCorrect` (`E!EngineSpec`) | tokens are unique, and a worker that still holds its claim finds its job in the state it left; a day that is built stays as it is, and a run has found its days built; an intent that waits is no older than the last bar of its instrument |
| `SchedulerLeaderProofs` | `TypeCorrect`, `OneSchedulerCorrect`, `LeadershipStableCorrect` (election); `NotesTypeCorrect`, `DuplicatesCorrect`, `ReportedCorrect`, `ReportsStayCorrect` (`Notes!Spec`); `ComparisonsFairCorrect` (`Behavior!Spec`) | a leader that is not late owns the key, which outlives its deadline by what the rest of its tick may take; lease tokens are unique, whoever holds the row of an alarm finds pending what it is about to send, and what was sent, with what senders that lost their lease may still send, is at most one more than the faults; workers keep prices of the day, and after each instrument of a fold the account is what its fills make of it |
| `ConversationProofs` | `Invariance`, `TypeCorrect`, `OneAuditChainCorrect`, `AlarmsJustifiedCorrect`, `EvidenceStableCorrect`, `VerdictFinalCorrect` (chain); `ShownIsSafeCorrect` (stream); `TopicsRestoredCorrect` (socket); `LastChoiceShownCorrect` (`Panel!Spec`); `DecisionSoundCorrect` (`Protocol!DecisionSpec`); `OutcomesKeptCorrect` (`Report!Spec`); `EarlierTurnsKnownCorrect` (`Turn!Spec`) | claims as above; the end that is held back is as long as a phrase less one letter; the last message under way about a topic, or the server's state, is what the client wants; a generation belongs to one call, and the load of the current one is of the conversation that was chosen; each actor's words follow from the allocation that is stored, which keeps the limits; the place of a generator says what was run, judged and stored; the references of a lock object are counted exactly, by requests of one session and process |
| `EvolutionProofs` | `TypeCorrect`, `PredictedBeforeKnownCorrect`, `PromotedByTheBookCorrect` (programs); `OneModelPerJobCorrect` (`Ops!Spec`) | whoever still holds the claim finds the commitments as it read them; tokens count the attempts of a job, and who holds the current one has found no judged model |
| `TradingControlsProofs` | `AtMostOnceCorrect`, `RevokedNeverSentCorrect`, `KillSwitchClearsCorrect`, `StoppedNeverSentCorrect`, `EffectsPaidOnceCorrect` | one bridge at most has an order in hand, and until it submits it the broker has not seen it; used grants are counted by the effects they paid for |
| `AccountProofs` | `OneUsePerCodeCorrect`, `GuessesBoundedCorrect`, `GrantsKeptCorrect` (step-up); `FrozenAllowedCorrect` (training data); `VersionsFaithfulCorrect` (`StrategiesSpec`), `RunsWhatIsShownCorrect` (`BenchSpec`) | what passed is older than the counter or the secret; the failures of the interval are those the throttle counts; whatever text a version took is linked to its trace; rows are numbered from 1 without gaps and every head or copy that was read has its row; a form that names a strategy shows the definition of its row |

Why the invariants need strengthening:

- *SimTrading.* That cash never becomes negative depends on frozen cash being exactly what the
  orders hold, and that a match never fails on the fee being monotone in the amount: a lower fill
  price never costs more than was frozen (`Commission` and `RoundDiv` lemmas). The settlement may
  return all shares because every pending sell is older than the day it settles. Inside an
  operation one order is in transit, hence the predicates that exempt it. That the trades account
  for everything is a statement about sums over the orders (`Total`), and each operation adds at
  most one trade to them; T+1 holds because what may be sold was bought before the settled day.
- *Ingestion.* A reader sees only stamps. That they tell runs apart needs that the lock is held from
  before a run is recorded until it has ended: so a row is younger than the start of its run and
  older than the start of the next one, and a run that vouches finds no stamp outside its own time.
  The least and greatest stamp are those `Min` and `Max` choose; that they exist is proved from the
  well-foundedness of `<` on the naturals.
  `ReadyIsLoadable` says that the reader's conditions are not too strict for what `Finish` has just
  recorded. Its invariant compares each audit with the tables under the condition that nothing but
  the run's own rows is there, which the import can only falsify, never repair
  (`ImportFresh`); that no failed or open run stands in the way needs that the run is the latest
  (`CompleteLoads`).
- *BacktestJobs, DecisionChain, Evolution, PredictionOps.* Writes are fenced by a token, so the proofs follow the
  holder of each token; a late process writes nothing. `ContractCorrect` maps each action to a step
  of `JobContract` or to a stutter.
- *Universe.* That a run is over says nothing of what it read on the way. The invariant is about
  each run and builder on its own, by where it stands, and about days that are whole or empty; it
  survives the steps of the others because nothing changes a day that is whole.
- *BacktestEngine.* A bar folds over its orders, and over the intents to find those that go on
  waiting. For each fold it is proved that the function behind it exists; then, order by order, that
  only the instrument of the order is filled, and, intent by intent, that what waits had no bar. That
  there is exactly one order of the sales and purchases of a bar is left to TLC: the theorem holds for
  each.
- *SchedulerLeader.* The argument is about time: while a worker may still act as leader its key has
  more time left than the worker needs to notice its loss, from `Renew + 2 * Latency < Ttl`.
- *TradingControls.* An order is claimed once in its life; nothing that reconciliation does moves
  one back to a state it can be claimed from. For `EffectsPaidOnce` the effects are a sum of three
  counts, one of which every transaction that consumes a grant raises by one.
- *Step-up.* The counter of codes starts again after a reset; it is the pair of secret and period
  that never comes back. Failures that the throttle has forgotten lie before the lock it set.
- *Training data.* Versions and builds may take text only from linked traces; a withdrawal
  deprecates whatever is linked, so a frozen version has no text of a withdrawn consent. The lock
  of the lifecycle is what keeps a build's reads current until its commit.
- *Strategies.* What a head says is compared with a row, and copies and requests read the head and
  the row in different transactions. The invariant gives a head that was read its row for ever; that
  the row is the only one with its number needs that the numbers of a strategy are `1` to its
  version, and that what was validated once stays the same when it is validated again
  (`FilledTwice`, `NormalFine`). The page sends only the number of a version, so the invariant
  follows the form from the list it was filled from to the answer of the server.
- *Notifications.* A process may lose its lease in the middle of a delivery and go on, so that two
  send the same alarm. `DuplicatesNeedFaults` alone is not inductive: the invariant adds to what was
  sent what processes may still send without the lease, and each of them was paid for by the stall
  or crash that cost it. That a report was accepted needs that only the holder of the token writes,
  and that tokens are never reused while someone remembers them.
- *Attribution.* `Rebalance` folds over the instruments twice, and `After`, which says what fills make
  of an account, folds over the fills. `OneMoreFill` relates them: a fill that the account can pay for
  or holds, within the volume and the limits, leaves a result that its fills explain. That the sales
  of one fold are of different instruments (`SaleStep`, `NoFillOf`) makes this hold for each of them;
  that no purchase exceeds the cash is the choice of `Affordable`, with the minimum commission.
- *Decision protocol.* The limits are limits of sums over the instruments, which the module computes
  with a fold of the community modules. That the function behind the fold exists, is unique and
  obeys the laws of sums (`SumSteps`, `SumsCompare`, `SumGrows`) is proved by induction over finite
  sets; the induction is about a set of the sets for which a law holds, for an operator could not be
  instantiated. The sleeves, the cuts to the limits and the reduction in a drawdown each keep the
  limits of name, industry and gross exposure; the claims of the researcher quote the allocation;
  so it never refuses what `Preview` has stored.
- *Reports.* A report that is shown has passed stages which leave no trace in the row. The invariant
  says for each place of a generator which analysts ran, what the judge saw last and whether the row
  was stored; a fault, counted once, accounts for every row that is left as generating.
- *Turns.* A lock object is created by one request, used by others and removed by the last. Its
  count of references is the cardinality of the set of requests between taking and leaving it, all
  of them of one process and session; hence an object that the registry forgets has no user, no
  second object of the session has one, and the lock on the object protects the turns.
- *Chat panel.* A late answer is recognised by its generation only. The invariant says that the
  generations of calls under way differ, that none is above the counter, and that the load whose
  generation is current is of the session chosen last, or that none was chosen yet.
- *Stream.* A phrase that ends in what was not shown yet begins at most its length before the end,
  which is held back; so no phrase begins in what was shown and ends in what comes.
- *Socket.* Messages of one connection arrive in order, so the last one about a topic decides.

Assumptions of the theorems are the `ASSUME`s of the modules: finite sets, natural bounds and
reserved names; `ProceedsAssumption` (a sale pays for its own fees, true of one lot from 0.06 yuan
a share); `TimesAssumption` (periods of the election); `RangesAssumption` (windows begin before
they end, `schemas/backtest.py:89`); `FlagsAssumption` (phrases are not empty and have letters of a
text); `JobsAssumption` (jobs are numbers other than zero); `EvidenceAssumption` (the ends of a
forecast's interval are sorted, `prediction/modeling.py`; nothing is held short, and there is
capital); `ReportsAssumption` (revisions are not negative, `brief_graph.py:55`); `TurnsAssumption`,
`SendersAssumption` and `CodesAssumption` (requests, jobs and instruments are finite sets);
`AttributionAssumption` (an instrument opens within the limits of its day, and a sale within them
pays for its fees, as above);
`DraftsAssumption` and `CatalogAssumption` (what the schemas of the requests let through, and
defaults within their declared ranges); `~SpansMidnight` in the theorems about shares and T+1; and
`GrantsLast` in `GrantsKeptCorrect` (a grant lasts at least one period, and `reset_totp` is a
purpose).

Model-checked only:

- every liveness property (`JobsEnd`, `SchedulerRunsAgain`, `AlarmsDelivered`,
  `OvernightOrdersEnd`, `QuotesGoOn`, `OverridesSettled`, `RepeatedRequestsEndRun`,
  `MissedEndsProgram`, `OpsJobsEnd`, `SentOrdersFound`, `QueuedIsRemoved`): liveness under fairness
  and ENABLED are out of the prover's reach. The safety parts of `AlarmsDelivered` are proved
  (`DuplicatesCorrect`, `ReportedCorrect`, `ReportsStayCorrect`); that each alarm is delivered in
  the end is not. That of `OverridesSettled` is `ComparisonsFairCorrect`.

All safety properties of the passing runs are theorems. What a fold computes is proved only where a
theorem needs it, by induction over sets: the sums of `DecisionProtocol` and the folds of
`BacktestEngine` and `BehaviorAttribution`.

## 5. Not modelled, and why

- Row locks and isolation levels inside a transaction: each transaction is atomic. `services/auth.py:234`
  takes locks in another order than a saving job and may deadlock with it.
- A commit whose acknowledgement is lost, for backtest runs; for decision runs it is modelled.
- Numerical code (`prediction/`, metrics), text (`ai/router.py` routes by patterns, prompts, tools),
  I/O with data providers, configuration and migrations.
- Rate limits and quotas: single Redis scripts; the local fallback of the cost gate reads the date
  before it takes its lock.
- The broker's event chain, rate window and rehearsal records; minute bars, financial vintages,
  capital flow, status history and news of Ingestion.
- Which instruments the universe may contain at all, panels and prices of its backtests, and the
  metrics they end with.

Seen while reading, and not turned into a run:

- `MarketFeed`: calls that hang for ever in every thread of the pool stop all sources
  (`services/market.py:231`, `251`); the run has fewer hangs than threads.
- `MarketSocket`: the close event of an old socket sets `ws` of the new one to null
  (`marketSocket.ts:182`) and `connect` leaves a timer of the old one running; a ticket that expired
  is answered with 1008, after which the client stops; topics are not counted, so a page that
  closes unsubscribes for the others.
- Reports: a client that leaves during the single-shot fallback leaves the row `generating`
  (`services/brief.py:535`), as does a crash.
- Chat panel: `loadSession` sets session and consent after a stale load; `stop()` after the commit
  says that nothing was saved.
- `PredictionOps`: a process that dies in the last attempt leaves the job running; `OpsJobsEnd`
  excepts it.
- Backtest page: the review of one report is appended under the next one; a failed poll leaves its
  job running; answers of `loadReport` may come out of order.
- Notifications: a local send after a publish that was executed but not answered is a duplicate.
- Ingestion: `_complete_dates` raises after a backfill has overwritten the source of a day; a bulk
  import more than three days late certifies nothing.
- Universe: `eligible_map` compares the fingerprints of the snapshots its first statement returned
  (`services/universe_membership.py:550`), but its map also has the days whose rows only the second
  statement saw (`:533`, `:555-557`). A filtered backtest so uses a day that a builder of another
  release commits in between, although the function raises for days of other filters (`:551`), and
  nothing compares them later. `UniverseAgreed` exempts these days (`Uncompared`) and no others; a
  full-A run compares the filters of each chunk and has no such days.
- Decision: in `preview` the caps of an industry and of the gross exposure never bind, since there
  is one proposal; the committee penalises a mismatch of evidence that cannot occur.

## 6. What is left

1. The step refinement of `DecisionRoom` to `GrantContract` is by construction (it calls the
   contract's actions).
2. Models of what section 5 leaves out and several actors share: the shared quote cache,
   the saving of synchronous runs.
