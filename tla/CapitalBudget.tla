--------------------------- MODULE CapitalBudget ---------------------------
(***************************************************************************)
(* The global capital budget and the buy path it guards:                   *)
(* CapitalBudgetService.acquire_order_lease / release_lease, the callers   *)
(* in Orders._execute_budgeted_buy_order, and the writes to OpenTrades and *)
(* Trades that the next budget check will read back.                       *)
(*                                                                         *)
(* Buyers are asyncio tasks: the DCA worker (Worker), the signal plugin    *)
(* (Plugin) and requests of the dashboard.  Between two awaits a task runs *)
(* alone, so one action is what a task does between two awaits.            *)
(***************************************************************************)
EXTENDS CapitalBudgetLogic

CONSTANTS
    Symbols,        \* trading pairs
    Buyers,         \* tasks that run the buy path
    Worker,         \* the one task that consumes the DCA queue
    Plugin,         \* the one task that runs the signal plugin
    Free,           \* the lock has no owner
    Config,         \* the config snapshot all tasks run with
    SidestepDeals,  \* symbols whose deals have the sidestep lifecycle
    EntrySizes,     \* quotes of base orders, after entry sizing
    BaselineSizes,  \* quotes an entry-sized base order may fall back to
    ManualSizes,    \* quotes of dashboard buys on an open deal
    DynamicSizes,   \* quotes a dynamic safety order may have
    PriceMoves,     \* result of a sell that closes a deal, over what it cost
    ExitMoves,      \* result of a sidestep exit, over what the leg cost
    ProfitBound,    \* bound on the realised profit that is followed
    SpendBound,     \* bound on what one deal may have spent
    PluginReloads,  \* config changes cancel the plugin and start it again
    DashboardCalls  \* what the operator does: "buy", "activate", "stop"

ASSUME WorkerAssumption == {Worker, Plugin} \subseteq Buyers /\ Worker # Plugin /\ Free \notin Buyers

ASSUME FiniteAssumption == IsFiniteSet(Symbols) /\ IsFiniteSet(Buyers)

ASSUME QuoteAssumption ==
    /\ EntrySizes \subseteq Nat
    /\ BaselineSizes \subseteq Nat
    /\ ManualSizes \subseteq Nat
    /\ DynamicSizes \subseteq Nat
    /\ PriceMoves \subseteq Int
    /\ ExitMoves \subseteq Int
    /\ ProfitBound \in Nat
    /\ SpendBound \in Nat

\* The clamps of build_capital_budget_settings; capital_max_fund has none.
ASSUME SettingsAssumption ==
    /\ Config.principal \in Int
    /\ Config.stretchRatioPct \in Nat /\ Config.stretchMax \in Nat
    /\ Config.bo \in Nat /\ Config.mstc \in Nat /\ Config.bufferPct \in Nat
    /\ {Config.dynamicDca, Config.reserveSO} \subseteq BOOLEAN

\* The rungs of the static ladder and their sums are quotes.
ASSUME LadderAssumption ==
    \A k \in 0 .. Config.mstc : Rung(Config, k) \in Nat /\ StaticLadder(Config, k) \in Nat

VARIABLES
    rows,         \* OpenTrades, one row per symbol
    ledger,       \* Trades of a symbol: what they cost, how many are safety orders
    closedProfit, \* Sum("profit") over ClosedTrades
    lock,         \* CapitalBudgetService._lock
    lease,        \* CapitalBudgetService._leases, by the task that holds the lease
    leaked,       \* total of the leases whose task is gone
    pc,           \* where each task is suspended
    order,        \* the order each task executes
    usage,        \* rows and ledger as _load_usage has read them so far
    snap          \* the trade snapshot of the worker's current tick

vars == <<rows, ledger, closedProfit, lock, lease, leaked, pc, order, usage, snap>>

durable == <<rows, ledger, closedProfit>>

Holding == {"open", "ledger", "decide"}
InFlight == {"buying", "filled", "release", "unwind"}
TickPCs == {"tick", "soCheck", "soWrite", "costCheck", "costWrite"}

NoLedger == [spent |-> 0, so |-> 0]
NoOrder  == [symbol |-> Free, base |-> FALSE, quote |-> 0, count |-> 0, retry |-> 0]
NoUsage  == [rows |-> [s \in Symbols |-> NoRow], ledger |-> [s \in Symbols |-> 0]]
NoSnap   == [symbol |-> Free, row |-> NoRow, spent |-> 0, so |-> 0, placed |-> FALSE]

Init ==
    /\ rows = [s \in Symbols |-> NoRow]
    /\ ledger = [s \in Symbols |-> NoLedger]
    /\ closedProfit = 0
    /\ lock = Free
    /\ lease = [b \in Buyers |-> 0]
    /\ leaked = 0
    /\ pc = [b \in Buyers |-> "idle"]
    /\ order = [b \in Buyers |-> NoOrder]
    /\ usage = [b \in Buyers |-> NoUsage]
    /\ snap = NoSnap

Goto(b, label) == pc' = [pc EXCEPT ![b] = label]

-----------------------------------------------------------------------------
(***************************************************************************)
(* The snapshot a budget check is evaluated against.                       *)
(***************************************************************************)
FundsLocked(u) ==
    SumFunction([s \in Symbols |-> IF u.rows[s].state # "long" THEN 0
                                   ELSE IF u.rows[s].cost > 0 THEN u.rows[s].cost
                                   ELSE u.ledger[s]])

PendingQuote == leaked + SumFunction(lease)

Committed(u) == FundsLocked(u) + OpenTradeReserve(Config, u.rows) + PendingQuote

\* reserved_reentry_by_symbol
Credit(u, s) == IF u.rows[s].state = "waiting" THEN u.rows[s].reserved ELSE 0

LeaseAmount(b) ==
    WithBuffer(Config, BudgetRequirement(Config, order[b], Credit(usage[b], order[b].symbol)))

Admits(b) ==
    BudgetOk(Config, order[b], Credit(usage[b], order[b].symbol),
             Committed(usage[b]), closedProfit)

-----------------------------------------------------------------------------
(***************************************************************************)
(* Orders arriving at receive_buy_order.                                   *)
(***************************************************************************)
Submit(b, o) ==
    /\ order' = [order EXCEPT ![b] = o]
    /\ Goto(b, "want")

\* The signal plugin buys a symbol that signal admission has reserved for it.
SignalBuy(b, s, quote, baseline) ==
    /\ b = Plugin /\ pc[b] = "idle"
    /\ rows[s].state = "none"
    /\ ledger[s].spent + quote <= SpendBound
    /\ Submit(b, [symbol |-> s, base |-> TRUE, quote |-> quote, count |-> 0,
                  retry |-> IF baseline # quote THEN baseline ELSE 0])
    /\ UNCHANGED <<durable, lock, lease, leaked, usage, snap>>

\* receive_buy_signal: a dashboard buy on a running deal.
ManualBuy(b, s, quote) ==
    /\ "buy" \in DashboardCalls
    /\ b \notin {Worker, Plugin} /\ pc[b] = "idle"
    /\ ledger[s].spent > 0
    /\ ledger[s].spent + quote <= SpendBound
    /\ Submit(b, [symbol |-> s, base |-> FALSE, quote |-> quote,
                  count |-> ledger[s].so + 1, retry |-> 0])
    /\ UNCHANGED <<durable, lock, lease, leaked, usage, snap>>

\* activate_campaign: the operator re-enters a waiting mission now.
ActivateBuy(b, s) ==
    /\ "activate" \in DashboardCalls
    /\ b \notin {Worker, Plugin} /\ pc[b] = "idle"
    /\ rows[s].state = "waiting" /\ rows[s].reserved > 0
    /\ Submit(b, [symbol |-> s, base |-> TRUE, quote |-> rows[s].reserved,
                  count |-> 0, retry |-> 0])
    /\ UNCHANGED <<durable, lock, lease, leaked, usage, snap>>

-----------------------------------------------------------------------------
(***************************************************************************)
(* acquire_order_lease: the lock is held over the three reads of           *)
(* _load_usage and the evaluation.                                         *)
(***************************************************************************)
\* Where a task continues when its buy is over.
AfterBuy(b) == IF b = Worker /\ ~order[b].base THEN "soCheck" ELSE "idle"

Finish(b) ==
    IF order[b].retry > 0
    THEN /\ order' = [order EXCEPT ![b].quote = order[b].retry, ![b].retry = 0]
         /\ Goto(b, "want")
    ELSE /\ order' = [order EXCEPT ![b] = NoOrder]
         /\ Goto(b, AfterBuy(b))

GiveUp(b) ==
    /\ order' = [order EXCEPT ![b] = NoOrder]
    /\ Goto(b, AfterBuy(b))

\* A mistake: the check runs without waiting for the lock.
AcquireAnyway(b) ==
    /\ pc[b] = "want"
    /\ lock' = b
    /\ Goto(b, "open")
    /\ UNCHANGED <<durable, lease, leaked, order, usage, snap>>

Acquire(b) ==
    /\ pc[b] = "want"
    /\ lock = Free
    /\ lock' = b
    /\ Goto(b, "open")
    /\ UNCHANGED <<durable, lease, leaked, order, usage, snap>>

ReadOpenTrades(b) ==
    /\ pc[b] = "open"
    /\ usage' = [usage EXCEPT ![b].rows = rows]
    /\ Goto(b, "ledger")
    /\ UNCHANGED <<durable, lock, lease, leaked, order, snap>>

ReadTrades(b) ==
    /\ pc[b] = "ledger"
    /\ usage' = [usage EXCEPT ![b].ledger =
                    [s \in Symbols |-> IF usage[b].rows[s].state = "none" THEN 0
                                       ELSE ledger[s].spent]]
    /\ Goto(b, "decide")
    /\ UNCHANGED <<durable, lock, lease, leaked, order, snap>>

\* A mistake: the check is passed but nothing is reserved.
GrantWithoutLease(b) ==
    /\ pc[b] = "decide"
    /\ Admits(b)
    /\ lock' = Free
    /\ usage' = [usage EXCEPT ![b] = NoUsage]
    /\ Goto(b, "buying")
    /\ UNCHANGED <<durable, lease, leaked, order, snap>>

\* The third read, the evaluation and the lease: no await between them.
GrantLease(b) ==
    /\ pc[b] = "decide"
    /\ Admits(b)
    /\ lease' = [lease EXCEPT ![b] = LeaseAmount(b)]
    /\ lock' = Free
    /\ usage' = [usage EXCEPT ![b] = NoUsage]
    /\ Goto(b, "buying")
    /\ UNCHANGED <<durable, leaked, order, snap>>

\* A mistake: the refusal leaves the critical section with the lock held.
RefuseHoldingLock(b) ==
    /\ pc[b] = "decide"
    /\ ~Admits(b)
    /\ usage' = [usage EXCEPT ![b] = NoUsage]
    /\ Finish(b)
    /\ UNCHANGED <<durable, lock, lease, leaked, snap>>

RefuseLease(b) ==
    /\ pc[b] = "decide"
    /\ ~Admits(b)
    /\ lock' = Free
    /\ usage' = [usage EXCEPT ![b] = NoUsage]
    /\ Finish(b)
    /\ UNCHANGED <<durable, lease, leaked, snap>>

\* A failing read makes the check fail closed, and that is not retried.
UsageUnavailable(b) ==
    /\ pc[b] \in Holding
    /\ lock' = Free
    /\ usage' = [usage EXCEPT ![b] = NoUsage]
    /\ GiveUp(b)
    /\ UNCHANGED <<durable, lease, leaked, snap>>

-----------------------------------------------------------------------------
(***************************************************************************)
(* _execute_budgeted_buy_order once the lease is granted.                  *)
(***************************************************************************)
ExchangeFills(b) ==
    /\ pc[b] = "buying"
    /\ Goto(b, "filled")
    /\ UNCHANGED <<durable, lock, lease, leaked, order, usage, snap>>

\* A mistake: the early return of a failed buy skips the release.
FailWithoutRelease(b, retriable) ==
    /\ pc[b] = "buying"
    /\ Finish(b)
    /\ UNCHANGED <<durable, lock, lease, leaked, usage, snap>>

\* No fill the code can see; some precheck reasons leave the baseline retry.
ExchangeFails(b, retriable) ==
    /\ pc[b] = "buying"
    /\ order' = [order EXCEPT ![b].retry = IF retriable THEN @ ELSE 0]
    /\ Goto(b, "release")
    /\ UNCHANGED <<durable, lock, lease, leaked, usage, snap>>

\* persist_buy_trade, one transaction.  A safety order leaves OpenTrades alone.
PersistBuy(b) ==
    LET o == order[b]
        s == order[b].symbol
    IN  /\ pc[b] = "filled"
        /\ ledger' = [ledger EXCEPT ![s] =
                        [spent |-> @.spent + o.quote,
                         so    |-> @.so + IF o.base THEN 0 ELSE 1]]
        /\ rows' = IF o.base THEN [rows EXCEPT ![s] = Row("long", o.quote, 0, 0)] ELSE rows
        /\ snap' = IF b = Worker THEN [snap EXCEPT !.placed = TRUE] ELSE snap
        /\ order' = [order EXCEPT ![b].retry = 0]
        /\ Goto(b, "release")
        /\ UNCHANGED <<closedProfit, lock, lease, leaked, usage>>

\* A mistake: the lease is popped without the lock.
ReleaseUnlocked(b) ==
    /\ pc[b] \in {"release", "unwind"}
    /\ lease' = [lease EXCEPT ![b] = 0]
    /\ Finish(b)
    /\ UNCHANGED <<durable, lock, leaked, usage, snap>>

\* The finally block: release_lease pops the lease under the lock.
ReleaseLease(b) ==
    /\ pc[b] \in {"release", "unwind"}
    /\ lock = Free
    /\ lease' = [lease EXCEPT ![b] = 0]
    /\ Finish(b)
    /\ UNCHANGED <<durable, lock, leaked, usage, snap>>

(***************************************************************************)
(* A plugin reload cancels the plugin task, once, at the await it is       *)
(* suspended in.  Out of the exchange call and the write it unwinds        *)
(* through the finally block; a task that was already waiting for the lock *)
(* inside release_lease never reaches the pop.                             *)
(***************************************************************************)
CancelTask(b) ==
    /\ PluginReloads /\ b = Plugin
    /\ \/ /\ pc[b] \in {"want"} \cup Holding
          /\ lock' = IF lock = b THEN Free ELSE lock
          /\ usage' = [usage EXCEPT ![b] = NoUsage]
          /\ GiveUp(b)
          /\ UNCHANGED <<lease, leaked>>
       \/ /\ pc[b] \in {"buying", "filled"}
          /\ order' = [order EXCEPT ![b].retry = 0]
          /\ Goto(b, "unwind")
          /\ UNCHANGED <<lock, lease, leaked, usage>>
       \/ /\ pc[b] = "release" /\ lock # Free
          /\ leaked' = leaked + lease[b]
          /\ lease' = [lease EXCEPT ![b] = 0]
          /\ GiveUp(b)
          /\ UNCHANGED <<lock, usage>>
    /\ UNCHANGED <<durable, snap>>

-----------------------------------------------------------------------------
(***************************************************************************)
(* The DCA worker's tick: process_ticker_data on one symbol.               *)
(***************************************************************************)
TickDone == Goto(Worker, "idle") /\ snap' = NoSnap

TickStart(s) ==
    /\ pc[Worker] = "idle"
    /\ ledger[s].spent > 0 \/ rows[s].state = "waiting"
    /\ snap' = [symbol |-> s, row |-> rows[s], spent |-> ledger[s].spent,
                so |-> ledger[s].so, placed |-> FALSE]
    /\ Goto(Worker, "tick")
    /\ UNCHANGED <<durable, lock, lease, leaked, order, usage>>

SnapWaiting == snap.spent = 0 /\ snap.row.state = "waiting"

TickReentry ==
    /\ pc[Worker] = "tick" /\ SnapWaiting
    /\ snap.row.reserved > 0
    /\ Submit(Worker, [symbol |-> snap.symbol, base |-> TRUE, quote |-> snap.row.reserved,
                       count |-> 0, retry |-> 0])
    /\ UNCHANGED <<durable, lock, lease, leaked, usage, snap>>

\* The sidestep exit sells what the ledger holds now and ends the tick: the
\* mission waits, reserving its proceeds.
TickSidestepExit(move) ==
    LET s        == snap.symbol
        proceeds == ledger[s].spent + move
    IN  /\ pc[Worker] = "tick" /\ ~SnapWaiting
        /\ s \in SidestepDeals /\ snap.row.state = "long"
        /\ ledger[s].spent > 0
        /\ proceeds > 0 /\ proceeds <= SpendBound
        /\ ledger' = [ledger EXCEPT ![s] = NoLedger]
        /\ rows' = [rows EXCEPT ![s] =
                        IF @.state = "none" THEN @ ELSE Row("waiting", 0, @.so, proceeds)]
        /\ TickDone
        /\ UNCHANGED <<closedProfit, lock, lease, leaked, order, usage>>

SafetyOrderQuotes == DynamicSizes \cup {Rung(Config, k) : k \in 0 .. (Config.mstc - 1)}

SafetyOrderSizes ==
    IF Config.dynamicDca THEN DynamicSizes ELSE {Rung(Config, snap.so)}

TickSafetyOrder(quote) ==
    /\ pc[Worker] = "tick" /\ ~SnapWaiting
    /\ snap.symbol \notin SidestepDeals
    /\ snap.so < Config.mstc
    /\ snap.spent + quote <= SpendBound
    /\ quote \in SafetyOrderSizes
    /\ Submit(Worker, [symbol |-> snap.symbol, base |-> FALSE, quote |-> quote,
                       count |-> snap.so + 1, retry |-> 0])
    /\ UNCHANGED <<durable, lock, lease, leaked, usage, snap>>

TickWithoutOrder ==
    /\ pc[Worker] = "tick" /\ ~SnapWaiting
    /\ Goto(Worker, IF snap.symbol \in SidestepDeals \/ snap.so >= Config.mstc
                    THEN "costCheck" ELSE "soCheck")
    /\ UNCHANGED <<durable, lock, lease, leaked, order, usage, snap>>

\* The early returns: the mission is paused or keeps waiting, a proactive
\* take profit was reconciled, a standing order could not be cancelled.
TickReturn ==
    /\ pc[Worker] \in {"tick", "costCheck"}
    /\ TickDone
    /\ UNCHANGED <<durable, lock, lease, leaked, order, usage>>

(***************************************************************************)
(* update_open_trades tests that the row exists and then, in a second      *)
(* query, updates or creates it; dca_check writes so_count, tp_check the   *)
(* cost, both from the snapshot the tick started with.                     *)
(***************************************************************************)
RowExists == rows[snap.symbol].state # "none"

CheckSoCount ==
    /\ pc[Worker] = "soCheck"
    /\ Goto(Worker, IF RowExists THEN "soWrite" ELSE "costCheck")
    /\ UNCHANGED <<durable, lock, lease, leaked, order, usage, snap>>

CheckCost ==
    /\ pc[Worker] = "costCheck"
    /\ IF RowExists THEN Goto(Worker, "costWrite") /\ UNCHANGED snap ELSE TickDone
    /\ UNCHANGED <<durable, lock, lease, leaked, order, usage>>

\* update_or_create on a row that is gone makes a new one, exposed by default.
Upserted(row) == [row EXCEPT !.state = IF @ = "none" THEN "long" ELSE @]

WriteSoCount ==
    /\ pc[Worker] = "soWrite"
    /\ rows' = [rows EXCEPT ![snap.symbol] =
                    [Upserted(@) EXCEPT !.so = snap.so + IF snap.placed THEN 1 ELSE 0]]
    /\ Goto(Worker, "costCheck")
    /\ UNCHANGED <<ledger, closedProfit, lock, lease, leaked, order, usage, snap>>

WriteCost ==
    /\ pc[Worker] = "costWrite"
    /\ rows' = [rows EXCEPT ![snap.symbol] = [Upserted(@) EXCEPT !.cost = snap.spent]]
    /\ TickDone
    /\ UNCHANGED <<ledger, closedProfit, lock, lease, leaked, order, usage>>

-----------------------------------------------------------------------------
(***************************************************************************)
(* What else writes the tables the budget reads.                           *)
(***************************************************************************)
\* persist_closed_trade, after a dashboard sell or a sell of the tick itself,
\* which then goes on with the statistics of the deal it has closed.
CloseTrade(s, move) ==
    /\ ledger[s].spent > 0
    /\ closedProfit + move \in -ProfitBound .. ProfitBound
    /\ rows' = [rows EXCEPT ![s] = NoRow]
    /\ ledger' = [ledger EXCEPT ![s] = NoLedger]
    /\ closedProfit' = closedProfit + move
    /\ UNCHANGED <<lock, lease, leaked, pc, order, usage, snap>>

\* persist_stopped_trade drops the deal without a sell.
StopTrade(s) ==
    /\ "stop" \in DashboardCalls
    /\ rows[s].state # "none"
    /\ rows' = [rows EXCEPT ![s] = NoRow]
    /\ ledger' = [ledger EXCEPT ![s] = NoLedger]
    /\ UNCHANGED <<closedProfit, lock, lease, leaked, pc, order, usage, snap>>

\* stop_campaign drops the deal too, and books what its legs have realised.
StopCampaign(s, realised) ==
    /\ "stop" \in DashboardCalls
    /\ s \in SidestepDeals /\ rows[s].state # "none"
    /\ closedProfit + realised \in -ProfitBound .. ProfitBound
    /\ rows' = [rows EXCEPT ![s] = NoRow]
    /\ ledger' = [ledger EXCEPT ![s] = NoLedger]
    /\ closedProfit' = closedProfit + realised
    /\ UNCHANGED <<lock, lease, leaked, pc, order, usage, snap>>

\* The process dies and starts again: only the database survives.
Restart ==
    /\ \E b \in Buyers : pc[b] # "idle"
    /\ lock' = Free
    /\ lease' = [b \in Buyers |-> 0]
    /\ leaked' = 0
    /\ pc' = [b \in Buyers |-> "idle"]
    /\ order' = [b \in Buyers |-> NoOrder]
    /\ usage' = [b \in Buyers |-> NoUsage]
    /\ snap' = NoSnap
    /\ UNCHANGED durable

-----------------------------------------------------------------------------
BuyStep(b) ==
    \/ Acquire(b) \/ ReadOpenTrades(b) \/ ReadTrades(b)
    \/ GrantLease(b) \/ RefuseLease(b) \/ UsageUnavailable(b)
    \/ ExchangeFills(b) \/ \E retriable \in BOOLEAN : ExchangeFails(b, retriable)
    \/ PersistBuy(b) \/ ReleaseLease(b)

Incoming(b) ==
    \E s \in Symbols :
        \/ \E quote \in EntrySizes, baseline \in BaselineSizes : SignalBuy(b, s, quote, baseline)
        \/ \E quote \in ManualSizes : ManualBuy(b, s, quote)
        \/ ActivateBuy(b, s)

WorkerStep ==
    \/ TickReentry
    \/ \E move \in ExitMoves : TickSidestepExit(move)
    \/ \E quote \in SafetyOrderQuotes : TickSafetyOrder(quote)
    \/ TickWithoutOrder \/ TickReturn
    \/ CheckSoCount \/ WriteSoCount \/ CheckCost \/ WriteCost

Environment ==
    \/ \E s \in Symbols : \/ TickStart(s)
                          \/ \E move \in PriceMoves : CloseTrade(s, move)
                          \/ StopTrade(s)
                          \/ \E realised \in ExitMoves : StopCampaign(s, realised)
    \/ \E b \in Buyers : CancelTask(b)
    \/ Restart

Next ==
    \/ \E b \in Buyers : BuyStep(b) \/ Incoming(b)
    \/ WorkerStep
    \/ Environment

Spec == Init /\ [][Next]_vars

(***************************************************************************)
(* asyncio.Lock is first come first served and no reader keeps it: a task  *)
(* that waits for it often enough gets it.  Exchange calls and database    *)
(* reads return, with a result or an error.  Cancellation, restarts and    *)
(* new orders are never owed.                                              *)
(***************************************************************************)
Fairness ==
    \A b \in Buyers : /\ WF_vars(BuyStep(b))
                      /\ SF_vars(Acquire(b))
                      /\ SF_vars(ReleaseLease(b))

FairSpec == Spec /\ Fairness

-----------------------------------------------------------------------------
RowType == [state : ExposureStates, cost : Nat, so : Nat, reserved : Nat]

OrderType == [symbol : Symbols \cup {Free}, base : BOOLEAN, quote : Nat,
              count : Nat, retry : Nat]

UsageType == [rows : [Symbols -> RowType], ledger : [Symbols -> Nat]]

SnapType == [symbol : Symbols \cup {Free}, row : RowType, spent : Nat, so : Nat,
             placed : BOOLEAN]

\* The type of every variable; a lease is never negative, whatever the order,
\* the credit and the ladder.
TypeOK ==
    /\ rows \in [Symbols -> RowType]
    /\ ledger \in [Symbols -> [spent : Nat, so : Nat]]
    /\ closedProfit \in Int
    /\ lock \in Buyers \cup {Free}
    /\ lease \in [Buyers -> Nat]
    /\ leaked \in Nat
    /\ pc \in [Buyers -> {"idle", "want"} \cup Holding \cup InFlight \cup TickPCs]
    /\ order \in [Buyers -> OrderType]
    /\ usage \in [Buyers -> UsageType]
    /\ snap \in SnapType

\* The lock has an owner exactly while a task is inside the critical section
\* of acquire_order_lease, so two checks never read usage at the same time.
LockOwned == \A b \in Buyers : pc[b] \in Holding <=> lock = b

\* A task keeps its lease through the buy and the database write, and no
\* lease outlives the buy it was granted for (the try/finally of
\* _execute_budgeted_buy_order).
LeaseOwned == \A b \in Buyers : lease[b] # 0 => pc[b] \in InFlight

\* CapitalBudgetLease.release: the reservation is released once the buy is
\* finalized or abandoned; no reservation stays behind without its task.
NoLeaseLeaked == leaked = 0

\* What has been spent on deals that are not closed, written down or not yet.
Exposure ==
    SumFunction([s \in Symbols |-> ledger[s].spent])
      + SumFunction([b \in Buyers |-> IF pc[b] = "filled" THEN order[b].quote ELSE 0])

\* capital_max_fund is a hard limit: whatever the interleaving of buys, sells
\* and statistics writes, the deals that are open never cost more than the
\* principal and the largest stretch.
HardLimit ==
    Exposure <= Config.principal + Config.stretchMax

\* The pending reservations a check adds to the usage it has read are the ones
\* that were pending when it read: while a task is inside the critical section,
\* no lease is granted or returned (release_lease waits for the same lock).
PendingFrozen ==
    [][\A b, o \in Buyers : lock = b /\ lock' = b
            => lease'[o] = lease[o] \/ leaked' = leaked + lease[o]]_vars

\* No buy falls between the two halves of the check: a buy that another task
\* has paid for is in the rows the lock owner has read or still in a lease,
\* even though the rows were read before the leases are summed up.  What the
\* owner's own mission reserves does not stand in for it.
UsageCoversExposure ==
    \A b \in Buyers : pc[b] = "decide"
        => Committed(usage[b]) - Credit(usage[b], order[b].symbol) >= Exposure

\* Every order handed to the buy path is filled, refused or abandoned, and
\* its lease is returned, however the tasks compete for the lock.
BuysEnd == \A b \in Buyers : pc[b] \in {"want"} \cup Holding \cup InFlight
                                ~> pc[b] \notin {"want"} \cup Holding \cup InFlight
=============================================================================
