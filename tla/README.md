# Moonwalker: specification and proofs

TLA+ models of the trading core of Moonwalker, a Python/asyncio bot that buys
and sells spot deals with DCA safety orders, take profit and an optional
"sidestep" lifecycle (sell, wait flat, re-enter), and of the services around it:
price feed, configuration, plugin reload, market history, fan-out, cache,
autopilot. TLC checks each part on small instances; TLAPS proves every safety and
action property the passing runs check, for every value of the constants that the
assumptions of section 4 admit. The liveness properties are model-checked only.

    cd tla
    tlc -workers 2 -config budget_hard_limit.cfg MCBudgetPaths
    tlapm CapitalLimitProofs.tla

Source paths are relative to `src/`; `S/` stands for `src/backend/service/`.
PROJECT.json maps every definition to its lines.

## 1. The system

One process, one asyncio event loop, several long-lived tasks:

- the **DCA worker** takes price events from a queue and runs one tick per event
  (`S/dca.py`): re-enter a waiting mission, take profit, place a safety order,
  write statistics;
- the **signal plugin** (`backend/signals/*.py`) opens deals; a config change
  cancels it at whatever await it is in and starts another (`S/signal.py`);
- **dashboard requests** buy, sell, stop and activate (`backend/controller`);
- the **watcher** feeds prices, the **housekeeper** deletes old rows.

They share the SQLite tables `OpenTrades` (one row per running deal), `Trades`
(its buys), `ClosedTrades`, `UnsellableTrades` and `SpotCampaigns`; in memory the
budget lock and its leases, the admission reservations, one sell lock per symbol,
and caches; and outside the process the exchange, which moves by itself. There is
no preemption: between two awaits a task runs alone. Every action of the modules
is what one task does between two awaits, or one database transaction, or one
call to the exchange.

### Components

| Component | State | Operations | What makes it correct | Module |
|---|---|---|---|---|
| capital budget (`capital_budget*.py`) | lock, leases; reads rows, buys, profit | acquire, check, release | exposure within the limit; lock and leases owned; buys end | `CapitalBudget` |
| signal admission (`signal_runtime.py`) | reserved symbols | resolve batch, size, release | deals and reservations within `max_bots`; nothing lost | `SignalAdmission` |
| orders (`orders.py`) | sell locks, order payloads | buy, sell, TP order, dashboard orders | each fill booked once, books never above the exchange | `CapitalBudget`, `SpotSell`, `TpLimitOrder` |
| limit sell (`exchange_limit_*`, `exchange_sell_*`) | order on the exchange | place, poll, cancel, confirm, fall back | nothing sold twice, attempts end | `SpotSell` |
| order persistence (`order_persistence.py`) | the trade tables | buy, close, sidestep, partial, archive, stop | one transaction per fact; a row describes its own deal | the modules of its callers |
| DCA worker (`dca*.py`) | TP state per symbol | tick | acts on rows that still exist, sells on confirmed prices | `CapitalBudget`, `TpLimitOrder`, `Missions`, `ExitRules` |
| sidestep (`spot_sidestep_campaign.py`) | campaign row | exit, wait, re-enter, activate, stop | row and campaign agree; profit booked once; waiting ends | `Missions` |
| signal lifecycle (`signal.py`) | plugin task | reload, restart, stop | one plugin at a time; last config wins | `PluginReload` |
| watcher (`watcher*.py`) | queues, candles, symbol tasks, client | put, get, batch, reload | newest price is ticked; candles are right; deals are streamed | `PriceFeed`, `WatchTargets` |
| fan-out (`websocket_fanout.py`) | producer, queues of one | subscribe, broadcast, stop | the newest payload reaches whoever stays | `Fanout` |
| TTL cache (`async_cache.py`) | cached reads | read, fill, clear | no read older than a clear | `TtlCache` |
| configuration (`config*.py`, `trade_lifecycle_config.py`) | stored rows, a snapshot in each process, messages | save, toggle, activate, restore, listen | processes agree; guards hold at the commit | `ConfigStore` |
| autopilot (`autopilot*.py`, `green_phase*.py`) | mode, green phase, symbol memory | evaluate, grant, refresh | no flapping; extra deals are funded; trust is fresh | `Autopilot`, `GreenPhase`, `SymbolMemory` |
| market history (`data*.py`), housekeeper, replay archives | candles, archives | sync, delete, archive, repair | a sync tells the truth; archives only improve | `MarketHistory`, `ReplayArchive` |
| trading controls | pause flags | pause, resume | a pause refuses entries | `SignalAdmission`, `Missions`, `ConfigStore` |
| database, strategies, backtest, monitoring, frontend | see section 6 | | | not modelled |

What is hard in this code: checks that read several tables across awaits before
they decide; reservations that must be returned on every path, cancellation
included; an exchange that fills between a read and the use of what was read;
bookkeeping split over several transactions; retries of calls that did succeed.
PROJECT.json lists these hazards line by line with the properties aimed at them.

## 2. Modules

| Module | What it models |
|---|---|
| `CapitalBudgetLogic` | pure arithmetic of `capital_budget_logic.py`: ladders, requirement, buffer, stretch, the verdict |
| `CapitalBudget` | `capital_budget.py`, the budgeted buy path of `orders.py`, the tick of `dca.py`, and the row writes the next check reads |
| `SlotPool` | abstract: a pool of at most MaxBots slots, taken in batches and given back |
| `SignalAdmission` | `signal_runtime.py`, one decision window of a plugin, and the deals that open, wait, re-enter and close meanwhile |
| `GreenPhase`, `Autopilot`, `SymbolMemory` | the detector of green phases, mode and extra deals, trust of symbols |
| `SpotSell` | `receive_sell_order`, the limit sell and its market fallback, booking; the exchange as environment |
| `TpLimitOrder` | the standing take-profit order: armed and reconciled by the tick, cancelled by whoever sells, stops or adds |
| `Missions` | campaign and deal rows of one symbol: legs, waiting, re-entry, activation, stop, pause, close, repair |
| `ExitRules` | what a tick decides about a deal: take-profit with confirmation and trailing, stop loss, both ladders |
| `PriceFeed` | from a trade on the exchange to a DCA tick and a stored candle |
| `WatchTargets` | which symbols are streamed, main loop, warm-up, client reload, shutdown |
| `Fanout`, `TtlCache` | `websocket_fanout.py`, `helper/async_cache.py` |
| `PluginReload` | `signal.py`: the plugin task and the two tasks that replace it |
| `ConfigStore` | stored configuration, what each process remembers, the guards of a change |
| `MarketHistory`, `ReplayArchive` | candles fetched, stored, deleted and archived |
| `MCCapitalBudget`, `MCBudgetPaths`, `MCSignalAdmission`, `MCAdmission`, `MCSpotSell`, `MCTrading`, `MCServices` | the small instances |
| `SumTheorems` | facts about `SumFunction` over finite sets |
| `CapitalBudgetProofs`, `CapitalLimitProofs` | typing and lock protocol of the budget; its hard limit |
| `AdmissionProofs` | admission, green phase, autopilot and symbol memory |
| `TpLimitOrderProofs`, `MissionProofs` | the standing order and the missions as modules of their own |
| `TradingProofs` | sells and confirmations, and what the two above say of `MCTrading` |
| `ServicesProofs` | every part of `MCServices` |

`CapitalBudget` extends `CapitalBudgetLogic`; `SignalAdmission` has an INSTANCE
of `SlotPool`. Everything else is a state machine of its own: what one needs of
another (a buy that fills, a row that appears, a limit that changes) is an action
of its own that may happen at any time, which covers whatever the neighbour does.
`MCAdmission`, `MCTrading` and `MCServices` put several of them into one state
space with a variable `part` that says which one moves (the part a module is named for is extended, the others are
instances whose properties the MC module restates); parts share no variable a
property relates, so an interleaving of two parts would show nothing new and
would multiply the states. Definitions marked "A mistake:" are plausible bugs. No
behaviour uses them; each run's properties are tested against them (PROJECT.json,
`mutants`).

### CapitalBudget

`rows` and `ledger` are OpenTrades and Trades reduced to what a check reads;
`usage[b]` is what task b has read so far, because `_load_usage` awaits three
times: `ReadOpenTrades`, `ReadTrades`, then the profit and the decision in
`GrantLease` / `RefuseLease`. A granted buy goes `ExchangeFills` -> `PersistBuy`
-> `ReleaseLease`, or `ExchangeFails`, with the retry at the baseline size
(`GiveUp`). `CancelTask` is a plugin reload at any await; `leaked` is the lease
of a cancelled task that waited in `release`, which has already marked itself
released. The worker works on `snap`, read at the start of its tick, and its
statistics writes (`WriteSoCount`, `WriteCost`) come last, after an existence
check that is a query of its own, so they may be stale.

### SignalAdmission and the autopilot

`seen` is the set of active symbols the resolver read before its await; `Decide`
combines it with `pending` as of now and reserves a batch. `lease` is the batch
of the running plugin. The score is abstracted to `Ranked`: any choice of the
best that fits. Re-entries fill while a decision is pending; ghost rows (existence
check, then upsert) are `FindRow` and `WriteStatistics`.

`GreenPhase` keeps `closes` with their times and compares the recent window with
the ramp by cross products; `entering` and `leaving` are history variables that
count the evaluations the properties speak of. `Autopilot` splits a resolution at
its awaits (`run.pc`): open deals, green phase, free balance. `SymbolMemory` has
`mem` (what the traders are told), `stored` (the row), and a refresh that may
fail before, at and after the transaction, and while it marks the failure.

### SpotSell, TpLimitOrder, Missions, ExitRules

*SpotSell.* The sell lock admits one attempt per symbol and a second caller
returns at once, so an attempt is one process with program counter `pc`; between
two of its steps the exchange may fill (`LimitFills`), end (`LimitEnds`) or fill
an order nobody follows any more (`StrayFills`). `sell` is the mutable order
payload: `requested` is `requested_total_amount`, `amount` is `total_amount`,
`partial` what is to be reported as sold, `market` the amount of the last market
order. `sold` is what the exchange has really sold; `booked`, `closed` and
`archived` are what the database says of it. `Lookups` and `Faults` say which
calls may fail and how.

*TpLimitOrder.* Two tasks, `actor["worker"]` and `actor["dash"]`, and the lock
`_get_sell_lock`. The tick takes `snap` first and reconciles its order later
under the lock, when `row` may name another order or another deal. `closings` and
`booked` count per order what entered the books; `lost` and `stale` collect the
orders to which one of the named accidents happened.

*Missions.* One symbol. `row` is OpenTrades, `camps` are the campaign rows,
`actor[a].snap` is what a task read before it decides on a transition. The repair
at the start of a tick (`ensure_campaign_for_open_trade`) is split at its awaits:
`ReadRow` reads the row, `LookUp` and `Repair` fit its exposure to the campaign it
names, `Search` and `Attach` give it one when it names none; `found` is the row as
it was read. `crossed` collects the campaigns whose row changed between such a read
and the transaction that used it; `earned` is what the legs realized, `closed` what
ClosedTrades says.

*ExitRules.* `pending` and `peak` are the dictionaries of `dca_tp_state.py`,
keyed by symbol, over deals that come and go; `exit` records the grounds of the
last sale. `armed` and `above` are history variables: since when, and on how many
ticks, the price was above the target. A tick of a mission that tries a sidestep
exit ends there, sold or not, and leaves `pending` as it is (`SidestepExit`).

### Services

`PriceFeed` has `events`, the coalescing pair `pending`/`queued` with `dcaQueue`,
and the writer with `candleQueue`, `buffer` and `tickers`; `handled` remembers
which prices a candle was made of. `WatchTargets` follows a change of the open
trades from the save hook (before the commit) to the task of the symbol.
`PluginReload` names the place of the reload task (`drain`), of the plugin it is
ending (`old`), and of the restart that sleeps (`restart`). A shutdown goes through
its awaits (`stop`): it cancels and awaits the restart, then the reload, then runs
the hook of the plugin and cancels it. `down` is `_shutting_down`, which a reload
takes back; configurations keep coming all the while, and `late` records that one
did. `ConfigStore` has the rows `db`, one memory `mem[i]` per process, an inbox of
key messages, and requests that check first and commit later. What asks for the dry
run is a word: the check of a save reads it in one way (`ReadsDry`), the rows store
it in another (`Typed`). `MarketHistory` and `ReplayArchive` reduce a
candle to its time: what is asked of them is which candles are there.

## 3. Runs

| Run | Bounds | Shows |
|---|---|---|
| `budget_hard_limit` (FairPathsSpec) | 2 symbols, worker and plugin, principal 3, stretch up to 1, one entry size 2, reloads, restarts | HardLimit, UsageCoversExposure, BuysEnd with sidestep missions and profit that moves the limit |
| `budget_paths` (PathsSpec) | 1 symbol, 3 tasks; scenario "plain": a dynamic ladder of one order, buffer 50 %, reserve on, dashboard buys and stops; scenario "sidestep": missions, reloads, activation and stop | TypeOK (no negative lease), LeaseOwned, LockOwned, PendingFrozen |
| `admission` (MCSpec) | 4 symbols, 3 slots, limits 1 and 3, both plugins, reloads, restart; green phase: ramp 4, recent 1, confirm and release 2, 3 closes, time 5; autopilot: 3 deals with 1 safety order, fund 6, up to 2 extra; memory: 1 symbol, 2 closes, 2 events | SeenCoversDeals, SlotsBounded, ImplementsSlotPool, Hysteresis, ExtraDealsFunded, TrustBacked |
| `trading` (MCSpec, fair) | sell: amounts 5 and 8, step 2, dust 2, 2 foreign coins, 2 retries, lost replies, failed reads and lookups, abort at every await but one; order: 2 orders, 1 deal, 1 request, 1 crash; mission: 2 campaigns, 2 legs, 1 switch of the mode; exits: 5 prices, 6 settings, 2 deals or missions, 2 ticks each, time 2 | BookedIsSold, ClosedIsSold, MarketAlone, SellEnds; OrdersTracked, SellsAlone, BookedOnce, FillsAreBooked; MissionsAgree, MissionBookedOnce, WaitingEnds; SpikesFiltered |
| `services` (MCSpec, fair) | feed: 2 symbols, 2 prices, 2 minutes, 3 trades, queues of 2 and 1 (full feed: 1 and 1), batches of 2; targets: 1 deal, 1 list of signals, 3 configurations; 2 clients, 3 versions, 1 stop; cache: 2 readers, lifetime 2, time 5; plugin: 4 configurations; configuration: 1 process with 7 updates and 2 backups, then 2 processes; history: 5 candles; archive: 4 | CandlesSpan, StoredInOrder, NewestTicked; DealsWatched, NewestClient; NobodyBehind, NewestShown; FreshAfterClear; OnePlugin, QuietAfterShutdown, NewestLoaded; InstancesAgree, ChangesGuarded; SyncTold; ArchiveImproves |
| `budget_safety_orders`, `budget_lease_leak`, `budget_double_reentry`, `admission_leak`, `sell_double`, `sell_phantom`, `history_gap` | see each cfg | a claim of the documentation or a comment that the code does not keep (section 5) |

Why the bounds are enough to mean something. *Budget:* two buyers already give
every order of two checks, and the principal (3) leaves room for one buy of 2 but
not for two, so every double spend shows; with three tasks one may release while
another waits and a third reads. The profit is followed up to ProfitBound = 2,
past the point where the stretch (half of it, at most 1) is used up. Every deal
may spend up to SpendBound, so a deal can be bought, sold and bought again.
*Admission:* three slots and four candidates leave one symbol out in each batch,
and a re-entry, a buy and a close may be going on beside a decision; symbols are
interchangeable, so symmetry is sound (no liveness is checked there). *Green
phase:* time 5 lets both windows pass over the same close and evaluations agree,
break off and agree again. *Sell:* 5 is not a multiple of the step and 8 allows
several fills around each look at the order; two foreign coins in the account are
what a second sell of the same coins needs. *Standing order:* two orders let one
be refreshed while the other fills. *Missions:* two campaigns and two legs let a
task come back to a campaign that another leg or another mission has replaced.
*Exits:* the prices lie below the stop, between the rungs, above the target, and
far enough above it to start and to end a trailing stop. *Feed:* three trades let
a burst replace a price that waits, and a late trade come after its minute; the
full feed has room for one symbol of two. *Services:* three configurations make a
burst during a reload; two versions after a first one make a read that a clear
crosses and another that follows it.

Deadlock checking is off in every run: all buys done and the market silent, or a
deal sold, is a proper end.

### What each property says

- `HardLimit`: deals that are open never cost more than principal and stretch.
  It relates all tasks, all deals and the profit; a race of two checks breaks it.
- `UsageCoversExposure`: at the moment of decision, what the check has read plus
  what is pending covers what has been spent. A buy that moves from lease to row
  between the two halves of the check would break it.
- `LockOwned`, `LeaseOwned`, `PendingFrozen`: the protocol that makes the former
  true: who owns the lock, how long a lease lives, and that no lease moves
  under a reader. `BuysEnd`: whatever fails or is cancelled, the lock is freed
  and the buy ends.
- `SeenCoversDeals`: the rows read before the await cover every deal at the
  decision. `SlotsBounded`: deals and reservations stay within `max_bots`.
  `ImplementsSlotPool`: every step is a step of the abstract pool or a stutter,
  under the mapping taken = deals and reservations together.
- `Hysteresis`: a green phase begins and ends only after enough evaluations in a
  row, over failed reads and switches, and does so after as many.
  `ExtraDealsFunded`: an extra deal leaves the safety orders of all deals paid.
  `TrustBacked`: trust moves a price or a rank only while it is fresh.
- `BookedIsSold`: neither `sold_amount` nor ClosedTrades ever claims more than the
  exchange has sold. `ClosedIsSold`: a closed deal is sold out in the books.
  `MarketAlone`: no market order while the limit order is open. `SellEnds`: each
  attempt gives the sell lock back.
- `OrdersTracked`: no open take-profit order is forgotten, but for three named
  accidents. `SellsAlone`: nobody sells what a tracked order still offers.
  `BookedOnce`: what an order sold is booked once, but for the orders reconciled
  on a stale row and the crash between booking and clearing. `FillsAreBooked`: it
  is booked in the end.
- `MissionsAgree`: a live campaign that nothing crossed is the one the row names,
  there is no second one, and both say the same of its exposure, although a repair,
  an exit or a re-entry writes what it read some awaits before. `MissionBookedOnce`: the closed profit of
  a mission is what its legs earned. `WaitingEnds`: a mission that waits is bought
  back, paused or ended.
- `SpikesFiltered`: with confirmation, a take-profit needs the price above its
  target on enough ticks on end and for long enough, counted for this deal, among
  the ticks that look at the target: one that ends with a failed sidestep exit
  does not.
- `CandlesSpan`, `StoredInOrder`: candles are made of the prices that arrived, and
  the feed writes each once, in order (a history sync writes the same table, which
  has no unique constraint; nothing is claimed of its rows). `NewestTicked`: the last price of a symbol is the last
  one the worker sees. `DealsWatched`: an open deal gets its stream.
  `NewestClient`: the last client is built from the last configuration.
- `NobodyBehind`, `NewestShown`: a client that stays has or gets the newest
  payload. `FreshAfterClear`: a cleared cache does not serve what was cleared.
- `OnePlugin`, `QuietAfterShutdown`, `NewestLoaded`: never two plugins; none that
  was not told to stop, and no helper task, once a shutdown ended, whatever reload
  or restart it interrupted, unless a configuration came after it began; and the
  last plugin is the one for the last configuration.
- `InstancesAgree`: a process differs from the rows only while a message is under
  way or for a named reason. `ChangesGuarded`: what an undisturbed request stores
  keeps the three promises of the guards (a sidestep names its re-entry strategy,
  the mode stays while a deal is open, live trading is entered by activation only),
  but for a save of the word the check takes for dry and the rows for live; and a
  restored backup keeps the first.
- `SyncTold`: a sync reports success exactly when the exchange has candles of the
  window and all are stored, unless a page failed, a row was deleted under it, a
  warm-up minimum applied or the stored candles had a hole.
  `ArchiveImproves`: an archive is replaced by a better one only.

### Named exceptions

Several properties except something: "unless crossed", "lost", "stale", "raced",
"late", "missed", "spoiled", "excused". Each is a variable that one named action sets at
the place in the code where the accident happens; a behaviour that reaches the
bad state in any other way still breaks the property. The accidents themselves
are real, and where a doc or comment promises that they do not happen there is a
violation run or a definition in section 5.

### Fairness

Only what the event loop does of itself is fair. `CapitalBudget!Fairness`: weak
fairness of each task's own buy step (exchange calls and reads return, with a
result or an error), strong fairness of `Acquire` and `ReleaseLease`, because
`asyncio.Lock` is first come first served while other tasks take the lock in
between. `SpotSell`: weak fairness of the attempt's steps: polling ends by the
clock, the looks at a cancelled order and the retries by their number.
`TpLimitOrder`, `Missions`: a tick that has begun goes on and prices keep coming,
and the exchange answers now and then (strong fairness of `Reconcile`, `Reenter`
and the buy's fill, since a lookup or a buy may fail any number of times but not
for ever). `PriceFeed`, `WatchTargets`, `Fanout`: handlers that are ready run;
strong fairness of `Broadcast` says that the producer does not fail for ever.
New orders, fills, cancellations, crashes, requests and restarts are never owed.

### What the passing runs leave out

- `budget_hard_limit` has no safety orders (see `budget_safety_orders`), no
  dashboard activation (see `budget_double_reentry`) and no exits at a loss. With
  exits at a loss a mission can re-enter for less, be sold and bought again for
  more within one tick of the worker, and the stale `WriteCost` then makes TLC
  refute UsageCoversExposure.
- `admission` has `StopsDuringReentry = FALSE`: a mission stopped while its
  re-entry buy is in flight gives its slot away and gets its deal all the same;
  with TRUE, SlotsBounded and SeenCoversDeals fail. Its autopilot has both thresholds
  set: one that is missing counts as 0, and then the mode is never low.
- The sell part of `trading` excludes two cases in which BookedIsSold fails: a
  lookup that returns no trades (the amount of the order is then taken for the
  amount that filled) and a crash between the closed summary and the archive of an
  unsellable remainder.
- NewestTicked is checked where the DCA queue has room for every symbol; a full
  queue drops a price until the next change, in the part "full feed".

## 4. Proofs

| Theorem | Assumes | Says |
|---|---|---|
| `CapitalBudgetProofs!TypeCorrect` | the ASSUMEs | `[]TypeOK`: leases and totals are never negative |
| `CapitalBudgetProofs!LockIsOwned`, `LeaseIsOwned`, `PendingIsFrozen` | the ASSUMEs | the lock protocol, for any number of tasks |
| `CapitalLimitProofs!LimitIsHard`, `UsageIsCovered` | `PlainBuys` | `[]HardLimit`, `[]UsageCoversExposure` |
| `AdmissionProofs!AdmissionIsAPool` | `~StopsDuringReentry` | the refinement of `SlotPool` |
| `AdmissionProofs!SlotsAreBounded`, `SeenIsSafe` | `~StopsDuringReentry` | `[]SlotsBounded`, `[]SeenCoversDeals` |
| `AdmissionProofs!PhaseIsSteady` | the ASSUMEs | `Hysteresis` |
| `AdmissionProofs!ExtraDealsAreFunded` | the ASSUMEs | `ExtraDealsFunded` |
| `AdmissionProofs!TrustIsRecent` | the ASSUMEs | `[]TrustBacked` |
| `TradingProofs!SellTypeCorrect`, `BookingIsSound`, `ClosingIsComplete`, `MarketIsAlone` | `Recorded` | the accounts of a sell |
| `TpLimitOrderProofs!OrdersAreTracked`, `SellsAreAlone`, `FillsAreBookedOnce` | `Size`, `MaxRequests` are naturals | `[]OrdersTracked`, `[]SellsAlone`, `[]BookedOnce` |
| `MissionProofs!MissionsStayTogether`, `MissionsAreBooked` | `Whole`: counts are naturals, profits integers | `[]MissionsAgree`, `[]MissionBookedOnce` |
| `TradingProofs!Trading...` (five) | the ASSUMEs | the five above, of the specification the run `trading` checks |
| `TradingProofs!SpikesAreFiltered` | `Steady` | `[]SpikesFiltered` |
| `ServicesProofs!CandlesAreWhole`, `CandlesAreOrdered` | the ASSUMEs | `[]CandlesSpan`, `[]StoredInOrder` |
| `ServicesProofs!ClientIsNewest` | nothing | `[]NewestClient` |
| `ServicesProofs!OnePluginRuns`, `ShutdownIsQuiet`, `NewestIsLoaded` | for the last, 0 is no plugin | `[]OnePlugin`, `[]QuietAfterShutdown`, `[]NewestLoaded` |
| `ServicesProofs!ProcessesAgree`, `ChangesAreGuarded` | the ASSUMEs | `[]InstancesAgree`, `ChangesGuarded` (with its exception), for any number of processes, requests and backups |
| `ServicesProofs!NobodyFallsBehind`, `CacheIsFresh` | nothing | `[]NobodyBehind`, `[]FreshAfterClear`, for any number of clients and readers |
| `ServicesProofs!SyncIsTold`, `ArchivesImprove` | the ASSUMEs | `SyncTold`, `ArchiveImproves`, for windows and archives of any size |

### Assumptions

The named ASSUMEs are in the modules that declare the constants, and TLC
evaluates them in every run:

- WorkerAssumption (worker and plugin are two different tasks), FiniteAssumption
  (finitely many symbols and tasks: the code adds up tables), QuoteAssumption and
  SettingsAssumption (quotes and settings are numbers), LadderAssumption (the sums
  of the ladder are quotes);
- SlotAssumption (finitely many symbols, limits up to MaxBots), AdmissionAssumption
  (counts are naturals, streaks of at least one, which the code clamps);
- SellAssumption (amounts are naturals, the step is positive), TradingAssumption
  (counts, profits and settings are numbers);
- FeedAssumption (prices are integers, candles have timestamps from 1 on),
  HistoryAssumption (a window has a candle in it; two candles have ended at the
  start), ConfigAssumption (a configuration has every key, an update of the dry run
  is one of the words).

Four theorems need more, and say so in their statement:

- `PlainBuys`: the principal is not negative, the dashboard buys nothing, no
  sidestep exit ends at a loss, entry and baseline have one size, and there are no
  safety orders. Each restriction but the first is needed: TLC refutes HardLimit
  with dashboard calls (run `budget_double_reentry`), with safety orders (run
  `budget_safety_orders`), with exits at a loss and with two sizes. The limit is
  hard for these buys only.
- `~StopsDuringReentry`: section 3 says what happens otherwise.
- `Recorded`: the two exclusions of the sell part above.
- `Steady`: no save changes a setting with trailing into one without, or one that
  waits for time or ticks into one that waits for neither. A tick below the target
  drops the pending confirmation, but not where trailing is on
  (`S/dca.py:716`) and not where the confirmation asks for 0 s and 0 ticks and the
  strategy holds the sale back; what is left over then counts under a setting
  saved in between. The configurations of the run `trading` are steady.

### The arguments

- *Budget.* Typing needs that an order in flight and the snapshot of the worker
  are well formed (`OrdersPlaced`, `TickPlaced`): otherwise a lease is computed
  from an order that is not there. `OwnerInv` is LockOwned and LeaseOwned
  together: a lease changes hands only at `GrantLease` (inside the lock) and
  `ReleaseLease` (needs it free), which gives PendingFrozen.
- *The limit.* A quote is claimed from the grant of its lease until its deal is
  closed. Claims grow only with a grant; a grant follows a check that holds the
  lock; and what that check adds up covers every claim, as rows, credits and
  leases back one claim each (`PlainInv`) and claims only fall while it runs
  (`ReadCovers`). So claims stay within the limit (`WithinLimit`), and what is
  spent is claimed. The sums over symbols and tasks are `SumFunction`s; that a sum
  grows with its terms and changes by the change of one term is in `SumTheorems`,
  shown at a least subset at which it could fail, because the induction theorem of
  the library takes an operator.
- *Admission.* SlotsBounded alone is not inductive: a decision is taken on `seen`.
  It needs SeenCoversDeals, and that needs that only a reserved symbol (`BatchInv`)
  or a waiting mission (`ReentryInv`, whose symbol already counts) can become a
  deal. Then every step either admits a batch that fits or takes nothing
  (`OnlyDecisionsTake`), which is both the bound and the refinement.
- *Autopilot.* The counters of the detector are the streaks of the history
  variables, and below their limits, as long as the phase has not turned
  (`GreenInv`); a promising evaluation is never a fading one (`CandidatesExclude`).
  Extra deals are funded because the reserve that was read covers the open deals
  until something crosses the resolution, and a grant leaves a full deal besides
  (`AutoInv`). Trust is backed because after a failure that was marked both memory
  and row are stale (`MemoryInv`).
- *Sell.* BookedIsSold is not inductive: booking adds `sell.partial`. `SellInv`
  adds that the fills of the running attempt come on top of what is booked
  (`SoldInv`) and that `sell.partial` stands for such fills, once (`PartialInv`).
  ClosedIsSold needs that an attempt starts with all that is left of the deal and
  that a complete report covers it (`CloseInv`); MarketAlone needs the places
  where the limit order is known not to be open (`LimitInv`).
- *Standing order.* The worker forgets and replaces orders by its snapshot, so the
  row's order must be the snapshot's or none (`SnapInv`), and who clears, sells or
  records holds the sell lock (`LockInv`). With that an order is open only where
  OrdersTracked says, and cancelled before a sale (`ClearInv`). BookedOnce needs
  `BookInv`: an order the row names is not booked yet, except by the task that
  still has to clear it.
- *Missions.* A mission ends with the amount a sale computed some steps before,
  from the row as it was then. `TaskInv` follows every task: which campaign its
  snapshot names, whether it may still buy, and, once it has sold, that it will
  write what the mission has earned; `Clean` says of every campaign nothing
  crossed that row, campaign and books agree when nobody is on the way. The
  repair of a tick is followed through its awaits: what `Attach` and `Repair` write
  agrees with the row as it is by then, or the campaigns are crossed; the snapshot
  they hand on names a campaign (`EnsuredTask`); and two tasks never draw the same
  new id (`ApartInv`).
- *Confirmations.* The counts of a pending confirmation are those of the run of
  ticks above the target that still goes on (`ExitInv`), under `Steady`.
- *Candles.* `LiveInv` and `ClosedInv` say that a candle spans the prices
  `handled` has for it, wherever it is; `OrderInv` that stored, buffered, queued
  and live minutes follow each other, a failed batch included.
- *Reloads.* `AloneInv` says for each place of the plugin's reload task and each
  stage of a shutdown which plugin may be running, and that without a late
  configuration no stage leaves a helper task behind; `NewestInv` and `ClientInv` say where the newest
  configuration is: pending, being loaded, or loaded.
- *Configuration.* InstancesAgree with the shapes of messages and requests is
  inductive; the proof goes through the actions that change `db`, one `mem` or an
  inbox. For ChangesGuarded, `GuardInv` says of every undisturbed request that its
  process knows the rows, that a deal it saw and did not see close is still open,
  and that what its checks have found holds of the rows (`Found`). A backup is
  valid from its arrival on, whatever disturbs it, and that the words are among the
  three is part of the invariant (`InWords`). Every step
  either leaves a request undisturbed, with rows and memory as they were, or
  clears its `fresh`. The argument is made once, for a set I of processes, and
  applied to the part with one process and the part with several.
- *Fan-out and cache.* The queue of a subscriber holds the latest payload, or is
  empty and the latest was seen (`FollowInv`). Every read under way is `Honest`
  like the entry it will become: as new as the last clear, or crossed by it.
- *History.* `Covered` says what a sync has still to fetch: every candle of its
  window that the exchange lists is known or comes with the fetches that are left.
  That the stored candles have no hole is needed where the fetches are planned,
  and nowhere else. When all fetches are done what is known is what is listed, and
  the verdict follows (`JudgeStep`). Least and greatest elements exist by the
  well-foundedness of the naturals (`LeastExists`).
- *Archives.* A repair compares with the archive it found, which is the last one
  as long as no crash lost it; between the deletion and the new rows the archive
  is empty, and what is about to follow is better (`ArchiveInv`).
- *Composition.* In `MCAdmission`, `MCTrading` and `MCServices` a step of the
  whole is a step of one part or stutters for the others (`PartSteps`), so the
  invariant of a part is one of the whole.

Only model-checked: BuysEnd, SellEnds, FillsAreBooked, WaitingEnds, NewestTicked,
DealsWatched and NewestShown, which are liveness and need fairness and ENABLED;
and the refutations of section 5.

## 5. Disagreements between the code and what it says of itself

- `budget_safety_orders`: "the global hard limit for live buy execution"
  (`docs/configuration.md:165`). A safety order adds Trades rows but leaves
  `OpenTrades.cost`, which the budget reads, to the next statistics write
  (`S/order_persistence.py:403`, `S/capital_budget.py:290`). Run: two deals of 2
  with a safety order of 1 each; the second order is checked against 2 + 2 + 1 and
  leaves 6 paid of a principal of 5.
- `budget_lease_leak`: "Release this reservation once the buy is finalized or
  abandoned" (`S/capital_budget.py:51`). Cancelled while it waits for the lock,
  `release` has already marked the lease released.
- `budget_double_reentry`: the dashboard activates the mission the worker is
  re-entering; both orders carry the credit of the same reserved quote
  (`S/capital_budget.py:228`).
- `admission_leak`: "Always release reservations on context exit"
  (`S/signal_runtime.py:77`). asap awaits between reserving and its try block
  (`backend/signals/asap.py:520`).
- `sell_double`: "Skipping market fallback to avoid double-selling"
  (`S/exchange_limit_sell_manager.py:183`). A cancel counts as confirmed when the
  order is found closed, that is filled; the remainder was read before.
- `sell_phantom`: the leftover is "the leftover amount" of the sell
  (`docs/operations.md:152`). The fallback market sell measures it against the
  amount requested for the whole deal (`S/exchange.py:956`), so a partial limit
  fill is archived, or kept open, although it is sold.
- `history_gap`: "Return True when history is complete from the first exchange
  candle onward" (`S/data_history_sync.py:50`). Only the two ends of a window are
  fetched, and the earliest candle of that fetch passes for the first one the
  exchange has; a hole between stored candles stays and the sync succeeds.

More statements were tried and refuted by TLC. They stand in the modules as
definitions and no run checks them: no doc promises them in so many words, or
the run would repeat one above.

| Definition | What happens |
|---|---|
| `TpLimitOrder!NeverBookedTwice` | the tick reconciles an order by the snapshot it took before the sell lock, after a dashboard sale booked it: a second ClosedTrades row (`S/orders.py:443`) |
| `Missions!ClosedProfitIsRealized` | a classic deal that follows a mission finds its campaign by symbol and books that mission's profit again (`S/spot_sidestep_campaign.py:378`) |
| `ExitRules!TrailsOwnPeak` | the trailing peak is keyed by symbol and outlives a deal that was sold elsewhere (`S/dca_tp_state.py:191`) |
| `MissionsAgree` without the crossing in `Attach` | a buy of the plugin that is persisted between the search for a campaign (531) and the attachment (554) leaves two live campaigns (`S/spot_sidestep_campaign.py:554`) |
| `SpikesFiltered` over all ticks | a mission whose sidestep exit fails below its target keeps the pending confirmation, and the next tick above the target goes on counting (`S/dca.py:1161`, 1226-1253) |
| `QuietAfterShutdown` without `~late` | a configuration that comes during or after a shutdown starts a plugin: the listener is not stopped, and the reload takes back `_shutting_down` (`S/signal.py:225`, 263) |
| `ChangesGuarded` without the exception of "disabled" | a save of this word passes the live boundary (`backend/controller/config.py:321`) and is stored as live (`S/config.py:244`), though live trading is to be entered by activation (`docs/configuration.md:13-16`) |
| `WatchTargets!LoopSurvives` | a configuration change during the warm-up cancels it, and the cancellation ends the main loop that awaits it (`S/watcher.py:363`) |
| `PluginReload!EndedRestarts` | a plugin that crashes while the restart of its predecessor sleeps is not restarted (`S/signal.py:159`) |
| `SlotsBounded` with `StopsDuringReentry = TRUE` | `stop_campaign` and a re-entry buy share no lock (`S/spot_sidestep_campaign.py:689`) |

## 6. Not modelled, and why

- *Strategies, indicators, backtest, frames for charts*: floating-point functions
  of price series without shared state. Their verdicts are nondeterministic
  choices where they steer a deal; whether their candles are there is
  `MarketHistory`.
- *Database*: schema set-up, migrations and the retry around SQLite writes. A
  transaction is one step, as SQLite provides.
- *Orders and persistence* in part: the rows of a manual add and the execution
  ledger, which nothing in the trading path reads back; fees and price rounding.
- *Signal plugins* in part: the CSV import, a one-shot bulk load.
- *Autopilot* in part: the weights of the trust score and the adaptive entry size,
  which are products of floats; the score is a fraction of counts.
- *Configuration* in part: coercion of values other than that of the dry run,
  typed views, the keys no guard reads.
- *Housekeeper* in part: deletion of rows nothing reads back, export of backups.
- *Monitoring, logs, analytics, HTTP parsing, frontend, scripts*: I/O and read
  models.

Rounding: amounts and quotes are integers in the smallest unit; EPSILON
comparisons are exact. PROJECT.json gives each component its status.

## 7. Plan

Done, in this order: `CapitalBudget`, `SignalAdmission`, `SpotSell`;
`TpLimitOrder`, `Missions`, `ExitRules`; `PriceFeed`, `WatchTargets`, `Fanout`,
`TtlCache`, `PluginReload`, `ConfigStore`; `GreenPhase`, `Autopilot`,
`SymbolMemory`; `MarketHistory`, `ReplayArchive`; the theorems of section 4, which
now state every safety and action property of the passing runs.

What is left, most useful first:

1. HardLimit with safety orders that are refused, or with two sizes, under
   weaker restrictions than `PlainBuys`: TLC would have to find out first which
   combinations the code is right for.
2. The rows of manual adds and the execution ledger against the fills.
3. The CSV import as a batch of deals that bypasses admission.
