------------------------ MODULE CapitalBudgetProofs ------------------------
(***************************************************************************)
(* Theorems about the capital budget, for every set of symbols and tasks,  *)
(* every config and every bound that meets the assumptions.                *)
(***************************************************************************)
EXTENDS CapitalBudget, TLAPS

Busy == {"want"} \cup Holding \cup InFlight

(***************************************************************************)
(* What an order needs so that its requirement is a quote.                 *)
(***************************************************************************)
OrdersPlaced ==
    \A b \in Buyers :
        pc[b] \in Busy => /\ order[b].symbol \in Symbols
                          /\ ~order[b].base => order[b].count > 0

TickPlaced == pc[Worker] = "tick" => snap.symbol \in Symbols

TypeInv == TypeOK /\ OrdersPlaced /\ TickPlaced

-----------------------------------------------------------------------------
(***************************************************************************)
(* The arithmetic of the budget never leaves the natural numbers.          *)
(***************************************************************************)
\* A ladder that scales by naturals stays in the naturals.
LEMMA ProductIsNat ==
    ASSUME NEW m \in Nat, NEW n \in Nat
    PROVE  m * n \in Nat
  OBVIOUS

\* The reserve of a ladder, from any rung on, is a quote.
LEMMA ReserveIsNat ==
    ASSUME NEW k \in Nat, NEW unit \in Nat
    PROVE  RemainingReserve(Config, k, unit) \in Nat
<1>1. CASE k >= Config.mstc
  BY <1>1 DEF RemainingReserve
<1>2. CASE ~(k >= Config.mstc) /\ Config.dynamicDca
  <2>1. Config.mstc - k \in Nat
    BY <1>2, SettingsAssumption
  <2> QED
    BY <1>2, <2>1, ProductIsNat DEF RemainingReserve
<1>3. CASE ~(k >= Config.mstc) /\ ~Config.dynamicDca
  <2>1. k \in 0 .. Config.mstc
    BY <1>3, SettingsAssumption
  <2> QED
    BY <1>3, <2>1, LadderAssumption DEF RemainingReserve
<1> QED
  BY <1>1, <1>2, <1>3, SettingsAssumption

\* The buffer keeps a quote a quote.
LEMMA BufferIsNat ==
    ASSUME NEW q \in Nat
    PROVE  WithBuffer(Config, q) \in Nat
<1>1. q * Config.bufferPct \in Nat
  BY ProductIsNat, SettingsAssumption
<1> DEFINE p == q * Config.bufferPct
<1>2. p \div 100 \in Nat
  <2> HIDE DEF p
  <2>1. p \in Nat
    BY <1>1 DEF p
  <2> QED
    BY <2>1
<1> QED
  BY <1>2, SettingsAssumption DEF WithBuffer

\* Whatever is reserved for an order is a quote, so a lease never lowers the
\* pending total.
LEMMA RequirementIsNat ==
    ASSUME NEW o \in OrderType, NEW credit \in Nat, ~o.base => o.count > 0
    PROVE  WithBuffer(Config, BudgetRequirement(Config, o, credit)) \in Nat
<1>1. o.quote \in Nat /\ o.count \in Nat /\ o.base \in BOOLEAN
  BY DEF OrderType
<1>2. FullTradeBudget(Config, o.quote) \in Nat
  <2>1. RemainingReserve(Config, 0, o.quote) \in Nat
    BY <1>1, ReserveIsNat
  <2> QED
    BY <1>1, <2>1 DEF FullTradeBudget
<1>3. ~o.base => SafetyOrderDelta(Config, o) \in Nat
  <2> SUFFICES ASSUME ~o.base
               PROVE  SafetyOrderDelta(Config, o) \in Nat
    OBVIOUS
  <2>1. o.count - 1 \in Nat
    BY <1>1
  <2>2. RemainingReserve(Config, o.count - 1, Config.bo) \in Nat
    BY <2>1, ReserveIsNat, SettingsAssumption
  <2>3. RemainingReserve(Config, o.count, Config.bo) \in Nat
    BY <1>1, ReserveIsNat, SettingsAssumption
  <2> QED
    BY <1>1, <2>2, <2>3 DEF SafetyOrderDelta, NonNegative
<1>4. NonNegative(o.quote - credit) \in Nat
  BY <1>1 DEF NonNegative
<1>5. BudgetRequirement(Config, o, credit) \in Nat
  <2>1. CASE o.base /\ credit > 0
    BY <2>1, <1>4 DEF BudgetRequirement
  <2>2. CASE ~(o.base /\ credit > 0) /\ ~Config.reserveSO
    BY <2>2, <1>1 DEF BudgetRequirement
  <2>3. CASE ~(o.base /\ credit > 0) /\ Config.reserveSO /\ o.base
    BY <2>3, <1>2 DEF BudgetRequirement
  <2>4. CASE ~(o.base /\ credit > 0) /\ Config.reserveSO /\ ~o.base
    BY <2>4, <1>3 DEF BudgetRequirement
  <2> QED
    BY <2>1, <2>2, <2>3, <2>4, <1>1, SettingsAssumption
<1> QED
  BY <1>5, BufferIsNat

-----------------------------------------------------------------------------
\* The empty records have their types.
LEMMA EmptyTypes ==
    /\ NoRow \in RowType
    /\ NoLedger \in [spent : Nat, so : Nat]
    /\ NoOrder \in OrderType
    /\ NoUsage \in UsageType
    /\ NoSnap \in SnapType
<1>1. NoRow \in RowType
  BY DEF NoRow, Row, RowType, ExposureStates
<1> QED
  BY <1>1 DEF NoLedger, NoOrder, OrderType, NoUsage, UsageType, NoSnap, SnapType

\* The empty tables and idle tasks of CapitalBudgetService at start-up are typed.
LEMMA TypeInvInit == Init => TypeInv
  BY EmptyTypes, WorkerAssumption
  DEF Init, TypeInv, TypeOK, OrdersPlaced, TickPlaced, Holding, InFlight, TickPCs, Busy

\* Reading the tables, field by field.
LEMMA ReadKeepsTypes ==
    ASSUME TypeOK, NEW b \in Buyers
    PROVE  /\ ReadOpenTrades(b) => usage' \in [Buyers -> UsageType]
           /\ ReadTrades(b) => usage' \in [Buyers -> UsageType]
<1>1. usage[b] \in UsageType
  BY DEF TypeOK
<1>2. ASSUME ReadOpenTrades(b)
      PROVE  usage' \in [Buyers -> UsageType]
  <2>1. [usage[b] EXCEPT !.rows = rows] \in UsageType
    BY <1>1 DEF UsageType, TypeOK
  <2>2. usage' = [usage EXCEPT ![b] = [usage[b] EXCEPT !.rows = rows]]
    BY <1>2 DEF ReadOpenTrades, TypeOK
  <2> QED
    BY <2>1, <2>2 DEF TypeOK
<1>3. ASSUME ReadTrades(b)
      PROVE  usage' \in [Buyers -> UsageType]
  <2> DEFINE read == [s \in Symbols |-> IF usage[b].rows[s].state = "none" THEN 0
                                        ELSE ledger[s].spent]
  <2>1. read \in [Symbols -> Nat]
    BY DEF TypeOK
  <2>2. [usage[b] EXCEPT !.ledger = read] \in UsageType
    BY <1>1, <2>1 DEF UsageType
  <2>3. usage' = [usage EXCEPT ![b] = [usage[b] EXCEPT !.ledger = read]]
    BY <1>3 DEF ReadTrades, TypeOK
  <2> HIDE DEF read
  <2> QED
    BY <2>2, <2>3 DEF TypeOK
<1> QED
  BY <1>2, <1>3

\* The critical section and the buy itself.
LEMMA TypeInvBuyStep ==
    ASSUME TypeInv, NEW b \in Buyers, BuyStep(b)
    PROVE  TypeInv'
<1> USE DEF TypeInv, TypeOK, Goto, durable
<1> USE DEF Busy, Holding, InFlight, TickPCs
<1>1. CASE Acquire(b)
  BY <1>1 DEF Acquire, OrdersPlaced, TickPlaced
<1>2. CASE ReadOpenTrades(b)
  <2>1. usage' \in [Buyers -> UsageType]
    BY <1>2, ReadKeepsTypes
  <2> QED
    BY <1>2, <2>1 DEF ReadOpenTrades, OrdersPlaced, TickPlaced
<1>3. CASE ReadTrades(b)
  <2>1. usage' \in [Buyers -> UsageType]
    BY <1>3, ReadKeepsTypes
  <2> QED
    BY <1>3, <2>1 DEF ReadTrades, OrdersPlaced, TickPlaced
<1>4. CASE GrantLease(b)
  <2>1. LeaseAmount(b) \in Nat
    <3>1. order[b] \in OrderType /\ (~order[b].base => order[b].count > 0)
      BY <1>4 DEF GrantLease, OrdersPlaced
    <3>2. Credit(usage[b], order[b].symbol) \in Nat
      BY <1>4 DEF GrantLease, OrdersPlaced, Credit, RowType, UsageType
    <3> QED
      BY <3>1, <3>2, RequirementIsNat DEF LeaseAmount
  <2>2. TypeOK'
    BY <1>4, <2>1, EmptyTypes DEF GrantLease
  <2> QED
    BY <1>4, <2>2 DEF GrantLease, OrdersPlaced, TickPlaced
<1>5. ASSUME Finish(b)
      PROVE  /\ order' \in [Buyers -> OrderType]
             /\ pc' \in [Buyers -> {"idle", "want"} \cup Holding \cup InFlight \cup TickPCs]
             /\ pc[b] \in Busy /\ OrdersPlaced => OrdersPlaced'
             /\ pc'[Worker] = "tick" => pc[Worker] = "tick"
  <2>1. CASE order[b].retry > 0
    <3>1. [order[b] EXCEPT !.quote = order[b].retry, !.retry = 0] \in OrderType
      <4>1. order[b] \in OrderType
        OBVIOUS
      <4> QED
        BY <4>1 DEF OrderType
    <3>2. order' = [order EXCEPT ![b] =
                       [order[b] EXCEPT !.quote = order[b].retry, !.retry = 0]]
      BY <1>5, <2>1 DEF Finish
    <3>3. pc' = [pc EXCEPT ![b] = "want"]
      BY <1>5, <2>1 DEF Finish
    <3> QED
      BY <3>1, <3>2, <3>3, WorkerAssumption DEF OrdersPlaced, OrderType
  <2>2. CASE ~(order[b].retry > 0)
    <3>1. order' = [order EXCEPT ![b] = NoOrder] /\ pc' = [pc EXCEPT ![b] = AfterBuy(b)]
      BY <1>5, <2>2 DEF Finish
    <3>2. AfterBuy(b) \in {"soCheck", "idle"}
      BY DEF AfterBuy
    <3>3. order' \in [Buyers -> OrderType]
      BY <3>1, EmptyTypes
    <3>4. pc' \in [Buyers -> {"idle", "want"} \cup Holding \cup InFlight \cup TickPCs]
      BY <3>1, <3>2
    <3>5. OrdersPlaced => OrdersPlaced'
      BY <3>1, <3>2 DEF OrdersPlaced
    <3>6. pc'[Worker] = "tick" => pc[Worker] = "tick"
      BY <3>1, <3>2, WorkerAssumption
    <3> QED
      BY <3>3, <3>4, <3>5, <3>6
  <2> QED
    BY <2>1, <2>2
<1>6. CASE RefuseLease(b)
  BY <1>5, <1>6, EmptyTypes DEF RefuseLease, TickPlaced
<1>7. CASE ReleaseLease(b)
  BY <1>5, <1>7 DEF ReleaseLease, TickPlaced
<1>8. CASE UsageUnavailable(b)
  BY <1>8, EmptyTypes, WorkerAssumption
  DEF UsageUnavailable, GiveUp, AfterBuy, OrdersPlaced, TickPlaced
<1>9. CASE ExchangeFills(b)
  BY <1>9 DEF ExchangeFills, OrdersPlaced, TickPlaced
<1>10. CASE \E retriable \in BOOLEAN : ExchangeFails(b, retriable)
  BY <1>10 DEF ExchangeFails, OrdersPlaced, TickPlaced, OrderType
<1>11. CASE PersistBuy(b)
  <2>1. order[b] \in OrderType /\ order[b].quote \in Nat
    BY DEF OrderType
  <2>2. rows' \in [Symbols -> RowType]
    <3>1. Row("long", order[b].quote, 0, 0) \in RowType
      BY <2>1 DEF Row, RowType, ExposureStates
    <3> QED
      BY <1>11, <3>1 DEF PersistBuy
  <2>3. ledger' \in [Symbols -> [spent : Nat, so : Nat]]
    <3> DEFINE s   == order[b].symbol
               new == [spent |-> ledger[s].spent + order[b].quote,
                       so    |-> ledger[s].so + IF order[b].base THEN 0 ELSE 1]
    <3>1. s \in Symbols
      BY <1>11 DEF PersistBuy, OrdersPlaced
    <3>2. ledger[s].spent \in Nat /\ ledger[s].so \in Nat
      BY <3>1
    <3>3. new \in [spent : Nat, so : Nat]
      BY <3>2, <2>1
    <3>4. ledger' = [ledger EXCEPT ![s] = new]
      BY <1>11 DEF PersistBuy
    <3> HIDE DEF s, new
    <3> QED
      BY <3>3, <3>4
  <2>4. snap' \in SnapType /\ snap'.symbol = snap.symbol
    BY <1>11 DEF PersistBuy, SnapType
  <2>5. order' \in [Buyers -> OrderType]
    <3>1. [order[b] EXCEPT !.retry = 0] \in OrderType
      BY <2>1 DEF OrderType
    <3>2. order' = [order EXCEPT ![b] = [order[b] EXCEPT !.retry = 0]]
      BY <1>11 DEF PersistBuy
    <3> QED
      BY <3>1, <3>2
  <2>6. OrdersPlaced'
    BY <1>11 DEF PersistBuy, OrdersPlaced, OrderType
  <2> QED
    BY <1>11, <2>2, <2>3, <2>4, <2>5, <2>6 DEF PersistBuy, TickPlaced
<1> QED
  BY <1>1, <1>2, <1>3, <1>4, <1>6, <1>7, <1>8, <1>9, <1>10, <1>11 DEF BuyStep

\* New orders.
LEMMA TypeInvIncoming ==
    ASSUME TypeInv, NEW b \in Buyers, Incoming(b)
    PROVE  TypeInv'
<1> USE DEF TypeInv, TypeOK, Goto, durable, Submit
<1> USE DEF Busy, Holding, InFlight, TickPCs
<1>1. ASSUME NEW s \in Symbols, NEW quote \in EntrySizes, NEW baseline \in BaselineSizes,
             SignalBuy(b, s, quote, baseline)
      PROVE  TypeInv'
  <2> DEFINE o == [symbol |-> s, base |-> TRUE, quote |-> quote, count |-> 0,
                   retry |-> IF baseline # quote THEN baseline ELSE 0]
  <2>1. o \in OrderType
    BY QuoteAssumption DEF OrderType
  <2>2. order' = [order EXCEPT ![b] = o]
    BY <1>1 DEF SignalBuy
  <2>3. o.symbol \in Symbols /\ o.base
    OBVIOUS
  <2> HIDE DEF o
  <2>4. pc' = [pc EXCEPT ![b] = "want"] /\ pc[b] = "idle"
    BY <1>1 DEF SignalBuy
  <2>5. OrdersPlaced'
    BY <2>2, <2>3, <2>4 DEF OrdersPlaced
  <2>6. UNCHANGED <<rows, ledger, closedProfit, lock, lease, leaked, usage, snap>>
    BY <1>1 DEF SignalBuy
  <2>7. order' \in [Buyers -> OrderType]
    BY <2>1, <2>2
  <2>8. pc' \in [Buyers -> {"idle", "want"} \cup Holding \cup InFlight \cup TickPCs]
    BY <2>4
  <2>9. TickPlaced'
    BY <2>4, <2>6, WorkerAssumption DEF TickPlaced
  <2> QED
    BY <2>5, <2>6, <2>7, <2>8, <2>9
<1>2. ASSUME NEW s \in Symbols, NEW quote \in ManualSizes, ManualBuy(b, s, quote)
      PROVE  TypeInv'
  BY <1>2, QuoteAssumption DEF ManualBuy, OrdersPlaced, TickPlaced, OrderType
<1>3. ASSUME NEW s \in Symbols, ActivateBuy(b, s)
      PROVE  TypeInv'
  BY <1>3 DEF ActivateBuy, OrdersPlaced, TickPlaced, OrderType, RowType
<1> QED
  BY <1>1, <1>2, <1>3 DEF Incoming

\* The tick of the worker.
LEMMA TypeInvWorkerStep ==
    ASSUME TypeInv, WorkerStep
    PROVE  TypeInv'
<1> USE DEF TypeInv, TypeOK, Goto, durable, Submit, TickDone
<1> USE DEF Busy, Holding, InFlight, TickPCs
<1> USE WorkerAssumption, EmptyTypes
<1>1. CASE TickReentry
  BY <1>1 DEF TickReentry, OrdersPlaced, TickPlaced, OrderType, SnapType, RowType
<1>2. ASSUME NEW move \in ExitMoves, TickSidestepExit(move)
      PROVE  TypeInv'
  <2> DEFINE s        == snap.symbol
             proceeds == ledger[s].spent + move
  <2>1. s \in Symbols
    BY <1>2 DEF TickSidestepExit, TickPlaced
  <2>2. proceeds \in Nat
    <3>1. ledger[s].spent \in Nat /\ move \in Int /\ proceeds > 0
      BY <1>2, <2>1, QuoteAssumption DEF TickSidestepExit
    <3> QED
      BY <3>1
  <2>3. rows[s].so \in Nat
    BY <2>1 DEF RowType
  <2>4. Row("waiting", 0, rows[s].so, proceeds) \in RowType
    BY <2>2, <2>3 DEF Row, RowType, ExposureStates
  <2>5. rows' = [rows EXCEPT ![s] = IF rows[s].state = "none" THEN rows[s]
                                    ELSE Row("waiting", 0, rows[s].so, proceeds)]
    BY <1>2 DEF TickSidestepExit
  <2> HIDE DEF proceeds
  <2>6. rows' \in [Symbols -> RowType]
    BY <2>1, <2>4, <2>5
  <2> QED
    BY <1>2, <2>6 DEF TickSidestepExit, OrdersPlaced, TickPlaced
<1>3. ASSUME NEW quote \in SafetyOrderQuotes, TickSafetyOrder(quote)
      PROVE  TypeInv'
  <2>1. snap.so \in Nat /\ snap.so \in 0 .. Config.mstc
    BY <1>3, SettingsAssumption DEF TickSafetyOrder, SnapType
  <2>2. quote \in Nat
    BY <1>3, <2>1, QuoteAssumption, LadderAssumption DEF TickSafetyOrder, SafetyOrderSizes
  <2>3. snap.so + 1 \in Nat /\ snap.so + 1 > 0
    BY <2>1
  <2>4. snap.symbol \in Symbols
    BY <1>3 DEF TickSafetyOrder, TickPlaced
  <2> QED
    BY <1>3, <2>2, <2>3, <2>4 DEF TickSafetyOrder, OrdersPlaced, TickPlaced, OrderType
<1>4. CASE TickWithoutOrder
  BY <1>4 DEF TickWithoutOrder, OrdersPlaced, TickPlaced
<1>5. CASE TickReturn
  BY <1>5 DEF TickReturn, OrdersPlaced, TickPlaced
<1>6. CASE CheckSoCount
  BY <1>6 DEF CheckSoCount, OrdersPlaced, TickPlaced
<1>7. CASE CheckCost
  BY <1>7 DEF CheckCost, OrdersPlaced, TickPlaced
<1>8. ASSUME NEW row \in RowType
      PROVE  Upserted(row) \in RowType
  BY DEF Upserted, RowType, ExposureStates
<1>9. CASE WriteSoCount
  <2> DEFINE so == snap.so + IF snap.placed THEN 1 ELSE 0
  <2>1. so \in Nat
    BY DEF SnapType
  <2>2. ASSUME NEW s \in Symbols
        PROVE  [Upserted(rows[s]) EXCEPT !.so = so] \in RowType
    BY <1>8, <2>1 DEF RowType
  <2>3. rows' = [rows EXCEPT ![snap.symbol] = [Upserted(rows[snap.symbol]) EXCEPT !.so = so]]
    BY <1>9 DEF WriteSoCount
  <2> HIDE DEF so
  <2>4. rows' \in [Symbols -> RowType]
    BY <2>2, <2>3
  <2> QED
    BY <1>9, <2>4 DEF WriteSoCount, OrdersPlaced, TickPlaced
<1>10. CASE WriteCost
  <2>1. snap.spent \in Nat
    BY DEF SnapType
  <2>2. ASSUME NEW s \in Symbols
        PROVE  [Upserted(rows[s]) EXCEPT !.cost = snap.spent] \in RowType
    BY <1>8, <2>1 DEF RowType
  <2>3. rows' \in [Symbols -> RowType]
    BY <1>10, <2>2 DEF WriteCost
  <2> QED
    BY <1>10, <2>3 DEF WriteCost, OrdersPlaced, TickPlaced
<1> QED
  BY <1>1, <1>2, <1>3, <1>4, <1>5, <1>6, <1>7, <1>9, <1>10 DEF WorkerStep

\* Ticks, sells, stops, cancellation and restarts.
LEMMA TypeInvEnvironment ==
    ASSUME TypeInv, Environment
    PROVE  TypeInv'
<1> USE DEF TypeInv, TypeOK, Goto, durable
<1> USE DEF Busy, Holding, InFlight, TickPCs
<1> USE WorkerAssumption, EmptyTypes
<1>1. ASSUME NEW s \in Symbols, TickStart(s)
      PROVE  TypeInv'
  BY <1>1 DEF TickStart, OrdersPlaced, TickPlaced, SnapType
<1>2. ASSUME NEW s \in Symbols, NEW move \in PriceMoves, CloseTrade(s, move)
      PROVE  TypeInv'
  BY <1>2, QuoteAssumption DEF CloseTrade, OrdersPlaced, TickPlaced
<1>3. ASSUME NEW s \in Symbols, StopTrade(s)
      PROVE  TypeInv'
  BY <1>3 DEF StopTrade, OrdersPlaced, TickPlaced
<1>6. ASSUME NEW s \in Symbols, NEW realised \in ExitMoves, StopCampaign(s, realised)
       PROVE  TypeInv'
  BY <1>6, QuoteAssumption DEF StopCampaign, OrdersPlaced, TickPlaced
<1>4. ASSUME NEW b \in Buyers, CancelTask(b)
      PROVE  TypeInv'
  <2>1. CASE pc[b] \in {"want"} \cup Holding
    <3>1. order' = [order EXCEPT ![b] = NoOrder] /\ pc' = [pc EXCEPT ![b] = "idle"]
      BY <1>4, <2>1 DEF CancelTask, GiveUp, AfterBuy
    <3>2. /\ lock' \in Buyers \cup {Free}
          /\ usage' \in [Buyers -> UsageType]
          /\ UNCHANGED <<rows, ledger, closedProfit, snap, lease, leaked>>
      BY <1>4, <2>1 DEF CancelTask
    <3>3. order' \in [Buyers -> OrderType]
      BY <3>1
    <3>4. pc' \in [Buyers -> {"idle", "want"} \cup Holding \cup InFlight \cup TickPCs]
      BY <3>1
    <3>5. TypeOK'
      BY <3>2, <3>3, <3>4
    <3> QED
      BY <3>1, <3>2, <3>5 DEF OrdersPlaced, TickPlaced
  <2>2. CASE pc[b] \in {"buying", "filled"}
    <3>1. /\ pc' = [pc EXCEPT ![b] = "unwind"]
          /\ order' = [order EXCEPT ![b].retry = 0]
          /\ UNCHANGED <<rows, ledger, closedProfit, snap, lock, lease, leaked, usage>>
      BY <1>4, <2>2 DEF CancelTask
    <3>2. order' \in [Buyers -> OrderType]
      BY <3>1 DEF OrderType
    <3> QED
      BY <2>2, <3>1, <3>2 DEF OrdersPlaced, TickPlaced, OrderType
  <2>3. CASE pc[b] = "release"
    BY <1>4, <2>3 DEF CancelTask, GiveUp, AfterBuy, OrdersPlaced, TickPlaced
  <2> QED
    BY <1>4, <2>1, <2>2, <2>3 DEF CancelTask
<1>5. CASE Restart
  BY <1>5 DEF Restart, OrdersPlaced, TickPlaced
<1> QED
  BY <1>1, <1>2, <1>3, <1>6, <1>4, <1>5 DEF Environment

\* Every step of the buy path keeps the types; the sum of the four lemmas above.
LEMMA TypeInvStep == TypeInv /\ [Next]_vars => TypeInv'
<1> SUFFICES ASSUME TypeInv, [Next]_vars
             PROVE  TypeInv'
  OBVIOUS
<1>1. CASE Next
  BY <1>1, TypeInvBuyStep, TypeInvIncoming, TypeInvWorkerStep, TypeInvEnvironment DEF Next
<1>2. CASE UNCHANGED vars
  BY <1>2 DEF vars, TypeInv, TypeOK, OrdersPlaced, TickPlaced
<1> QED
  BY <1>1, <1>2

\* Every variable keeps its type and no lease is negative, whatever the config,
\* the quotes and the number of tasks.
THEOREM TypeCorrect == Spec => []TypeOK
  BY TypeInvInit, TypeInvStep, PTL DEF Spec, TypeInv

-----------------------------------------------------------------------------
(***************************************************************************)
(* The lock and the leases.  LockOwned alone is inductive over the typed   *)
(* states; LeaseOwned needs that a lease is granted on the way into the    *)
(* buy and that every way out of it pops the lease or leaks it.            *)
(***************************************************************************)
OwnerInv == LockOwned /\ LeaseOwned

\* No step of the buy path takes the lock or a lease away from its owner.
LEMMA OwnerInvStep == TypeInv /\ OwnerInv /\ [Next]_vars => OwnerInv'
<1> SUFFICES ASSUME TypeInv, OwnerInv, [Next]_vars
             PROVE  OwnerInv'
  OBVIOUS
<1> USE DEF TypeInv, TypeOK, OwnerInv, LockOwned, LeaseOwned, Goto, durable
<1> USE DEF Holding, InFlight, TickPCs
<1> USE WorkerAssumption
<1>1. ASSUME NEW b \in Buyers, Acquire(b) PROVE OwnerInv'
  BY <1>1 DEF Acquire
<1>2. ASSUME NEW b \in Buyers, ReadOpenTrades(b) PROVE OwnerInv'
  BY <1>2 DEF ReadOpenTrades
<1>3. ASSUME NEW b \in Buyers, ReadTrades(b) PROVE OwnerInv'
  BY <1>3 DEF ReadTrades
<1>4. ASSUME NEW b \in Buyers, GrantLease(b) PROVE OwnerInv'
  BY <1>4 DEF GrantLease
<1>5. ASSUME NEW b \in Buyers, RefuseLease(b) PROVE OwnerInv'
  BY <1>5 DEF RefuseLease, Finish, AfterBuy
<1>6. ASSUME NEW b \in Buyers, UsageUnavailable(b) PROVE OwnerInv'
  BY <1>6 DEF UsageUnavailable, GiveUp, AfterBuy
<1>7. ASSUME NEW b \in Buyers, ExchangeFills(b) PROVE OwnerInv'
  BY <1>7 DEF ExchangeFills
<1>8. ASSUME NEW b \in Buyers, NEW retriable \in BOOLEAN, ExchangeFails(b, retriable)
      PROVE OwnerInv'
  BY <1>8 DEF ExchangeFails
<1>9. ASSUME NEW b \in Buyers, PersistBuy(b) PROVE OwnerInv'
  BY <1>9 DEF PersistBuy
<1>10. ASSUME NEW b \in Buyers, ReleaseLease(b) PROVE OwnerInv'
  BY <1>10 DEF ReleaseLease, Finish, AfterBuy
<1>11. ASSUME NEW b \in Buyers, CancelTask(b) PROVE OwnerInv'
  BY <1>11 DEF CancelTask, GiveUp, AfterBuy
<1>12. ASSUME NEW b \in Buyers, Incoming(b) PROVE OwnerInv'
  <2>1. /\ pc[b] = "idle" /\ pc' = [pc EXCEPT ![b] = "want"]
        /\ UNCHANGED <<lock, lease>>
    BY <1>12 DEF Incoming, SignalBuy, ManualBuy, ActivateBuy, Submit
  <2> QED
    BY <2>1
<1>13. ASSUME WorkerStep PROVE OwnerInv'
  <2>1. /\ pc[Worker] \in TickPCs
        /\ \E label \in {"idle", "want"} \cup TickPCs : pc' = [pc EXCEPT ![Worker] = label]
        /\ UNCHANGED <<lock, lease>>
    BY <1>13
    DEF WorkerStep, TickReentry, TickSidestepExit, TickSafetyOrder, TickWithoutOrder, TickReturn,
        CheckSoCount, CheckCost, WriteSoCount, WriteCost, Submit, TickDone
  <2> QED
    BY <2>1
<1>14. ASSUME NEW s \in Symbols, TickStart(s) PROVE OwnerInv'
  BY <1>14 DEF TickStart
<1>15. ASSUME NEW s \in Symbols, NEW move \in PriceMoves, CloseTrade(s, move) PROVE OwnerInv'
  BY <1>15 DEF CloseTrade
<1>16. ASSUME NEW s \in Symbols, StopTrade(s) PROVE OwnerInv'
  BY <1>16 DEF StopTrade
<1>19. ASSUME NEW s \in Symbols, NEW realised \in ExitMoves, StopCampaign(s, realised)
        PROVE  OwnerInv'
  BY <1>19 DEF StopCampaign
<1>17. ASSUME Restart PROVE OwnerInv'
  BY <1>17 DEF Restart
<1>18. CASE UNCHANGED vars
  BY <1>18 DEF vars
<1> QED
  BY <1>1, <1>2, <1>3, <1>4, <1>5, <1>6, <1>7, <1>8, <1>9, <1>10, <1>11, <1>12, <1>13, <1>14,
     <1>15, <1>16, <1>19, <1>17, <1>18 DEF Next, BuyStep, Environment

\* The typed states and the owners, together.
LEMMA BudgetInvariant == Spec => [](TypeInv /\ OwnerInv)
<1>1. Init => OwnerInv
  BY WorkerAssumption DEF Init, OwnerInv, LockOwned, LeaseOwned, Holding
<1>2. TypeInv /\ OwnerInv /\ [Next]_vars => (TypeInv /\ OwnerInv)'
  BY TypeInvStep, OwnerInvStep
<1> QED
  BY <1>1, <1>2, TypeInvInit, PTL DEF Spec

\* A budget check has the tables and the leases to itself: the lock is held
\* exactly by the task between acquire_order_lease's lock and its unlock.
THEOREM LockIsOwned == Spec => []LockOwned
  BY BudgetInvariant, PTL DEF OwnerInv

\* No task keeps a lease beyond the buy it was granted for.
THEOREM LeaseIsOwned == Spec => []LeaseOwned
  BY BudgetInvariant, PTL DEF OwnerInv

\* The pending total a check uses is the one that was pending when it read the
\* tables, whatever the other tasks do meanwhile.
THEOREM PendingIsFrozen == Spec => PendingFrozen
<1> DEFINE Frozen == \A b, o \in Buyers : lock = b /\ lock' = b
                        => lease'[o] = lease[o] \/ leaked' = leaked + lease[o]
<1>1. TypeInv /\ OwnerInv /\ [Next]_vars => [Frozen]_vars
  <2> SUFFICES ASSUME TypeInv, OwnerInv, Next,
                      NEW owner \in Buyers, NEW o \in Buyers, lock = owner, lock' = owner
               PROVE  lease'[o] = lease[o] \/ leaked' = leaked + lease[o]
    BY DEF vars
  <2> USE DEF TypeInv, TypeOK, OwnerInv, LockOwned, durable
  <2>1. lock # Free /\ lock' # Free
    BY WorkerAssumption
  <2>2. ASSUME NEW b \in Buyers, BuyStep(b)
        PROVE  lease'[o] = lease[o]
    BY <2>1, <2>2
    DEF BuyStep, Acquire, ReadOpenTrades, ReadTrades, GrantLease, RefuseLease, UsageUnavailable,
        ExchangeFills, ExchangeFails, PersistBuy, ReleaseLease
  <2>3. ASSUME NEW b \in Buyers, Incoming(b)
        PROVE  lease'[o] = lease[o]
    BY <2>3 DEF Incoming, SignalBuy, ManualBuy, ActivateBuy
  <2>4. ASSUME WorkerStep
        PROVE  lease'[o] = lease[o]
    BY <2>4
    DEF WorkerStep, TickReentry, TickSidestepExit, TickSafetyOrder, TickWithoutOrder, TickReturn,
        CheckSoCount, CheckCost, WriteSoCount, WriteCost
  <2>5. ASSUME NEW b \in Buyers, CancelTask(b)
        PROVE  lease'[o] = lease[o] \/ leaked' = leaked + lease[o]
    BY <2>5 DEF CancelTask
  <2>6. ASSUME Environment, ~\E b \in Buyers : CancelTask(b)
        PROVE  lease'[o] = lease[o]
    BY <2>1, <2>6 DEF Environment, TickStart, CloseTrade, StopTrade, StopCampaign,
        Restart
  <2> QED
    BY <2>2, <2>3, <2>4, <2>5, <2>6 DEF Next, Environment
<1> QED
  BY <1>1, BudgetInvariant, PTL DEF Spec, PendingFrozen
=============================================================================
