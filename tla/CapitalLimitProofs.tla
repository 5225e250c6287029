------------------------- MODULE CapitalLimitProofs -------------------------
(***************************************************************************)
(* The hard limit of the capital budget, for every set of symbols and      *)
(* tasks and every config in which the buys are plain.                     *)
(*                                                                         *)
(* The argument: a quote is claimed from the grant of its lease until its  *)
(* deal is closed. Claims grow only with a grant; a grant follows a check  *)
(* that holds the lock; and what that check adds up covers every claim,    *)
(* since rows, credits and leases back one claim each and claims only fall *)
(* while it runs.                                                          *)
(***************************************************************************)
EXTENDS CapitalBudgetProofs, SumTheorems

\* The buys the limit is proved for: of one size, without safety orders, without calls of the
\* dashboard, and without sidestep exits at a loss. TLC refutes HardLimit without any one of
\* these; a principal below zero is exceeded by nothing at all.
PlainBuys ==
    /\ Config.principal >= 0
    /\ DashboardCalls = {}
    /\ ExitMoves \subseteq Nat
    /\ \A q, r \in EntrySizes \cup BaselineSizes : q = r
    /\ \A s \in Symbols : s \in SidestepDeals \/ Config.mstc = 0

\* Where a task has an order of its own.
Ordered == {"want"} \cup Holding \cup {"buying", "filled"}

\* No task but the worker and the plugin buys.
OnlyPlain == \A b \in Buyers : b \notin {Worker, Plugin} => pc[b] = "idle"

\* A row holds at least what its symbol has spent or what its mission will re-enter with.
RowsBacked ==
    \A s \in Symbols :
        /\ rows[s].state = "none" => ledger[s].spent = 0
        /\ rows[s].state = "waiting" => /\ ledger[s].spent = 0
                                        /\ \A q \in EntrySizes : q <= rows[s].reserved
        /\ rows[s].state = "long" => ledger[s].spent <= rows[s].cost
        /\ ledger[s].spent > 0 => \A q \in EntrySizes : q <= ledger[s].spent

\* An order is a base order for a symbol without open trades: the worker's re-enters a
\* waiting mission with what that reserved, the plugin's is new.
OrdersPlain ==
    \A b \in Buyers : pc[b] \in Ordered =>
        /\ order[b].base /\ order[b].retry = 0
        /\ ledger[order[b].symbol].spent = 0
        /\ b = Worker => /\ rows[order[b].symbol].state = "waiting"
                         /\ rows[order[b].symbol].reserved = order[b].quote
        /\ b = Plugin => /\ rows[order[b].symbol].state # "waiting"
                         /\ order[b].quote \in EntrySizes

\* A check credits the worker's re-entry with its reserved quote, and nothing else.
CreditPlain ==
    \A b \in Buyers : pc[b] \in {"ledger", "decide"} =>
        Credit(usage[b], order[b].symbol) = IF b = Worker THEN order[b].quote ELSE 0

\* An order that is released or unwound is a base order without a retry.
AfterOrder ==
    \A b \in Buyers : pc[b] \in {"release", "unwind"} => order[b].base /\ order[b].retry = 0

\* The snapshot of a tick still agrees with the row: nobody else writes it meanwhile.
TickPlain ==
    /\ pc[Worker] \notin {"soCheck", "soWrite"}
    /\ pc[Worker] \in {"tick", "costCheck", "costWrite"} => snap.symbol \in Symbols
    /\ pc[Worker] = "tick" /\ SnapWaiting =>
          /\ rows[snap.symbol].state = "waiting"
          /\ rows[snap.symbol].reserved = snap.row.reserved
    /\ (pc[Worker] = "tick" /\ ~SnapWaiting) \/ pc[Worker] \in {"costCheck", "costWrite"} =>
          /\ rows[snap.symbol].state # "waiting"
          /\ ledger[snap.symbol].spent <= snap.spent
          /\ \A q \in EntrySizes : q <= snap.spent

\* A plugin's buy in flight is covered by its lease.
LeaseCovers ==
    \A b \in Buyers : pc[b] \in {"buying", "filled"} /\ b = Plugin => order[b].quote <= lease[b]

\* The invariant of plain buys, before sums come in.
PlainInv ==
    /\ OnlyPlain /\ RowsBacked /\ OrdersPlain /\ CreditPlain
    /\ AfterOrder /\ TickPlain /\ LeaseCovers

\* The lease of a base order is at least its quote, whatever ladder and buffer add to it.
LEMMA RequirementCovers ==
    ASSUME NEW o \in OrderType, o.base
    PROVE  o.quote <= WithBuffer(Config, BudgetRequirement(Config, o, 0))
<1> DEFINE r == BudgetRequirement(Config, o, 0)
<1>1. o.quote \in Nat /\ o.base
  BY DEF OrderType
<1>2. r \in Nat /\ o.quote <= r
  <2>1. RemainingReserve(Config, 0, o.quote) \in Nat
    BY <1>1, ReserveIsNat
  <2> QED
    BY <1>1, <2>1 DEF BudgetRequirement, FullTradeBudget
<1> HIDE DEF r
<1>3. (r * Config.bufferPct) \div 100 \in Nat
  <2>1. r * Config.bufferPct \in Nat
    BY <1>2, ProductIsNat, SettingsAssumption
  <2> DEFINE p == r * Config.bufferPct
  <2> HIDE DEF p
  <2>2. p \div 100 \in Nat
    BY <2>1 DEF p
  <2> QED
    BY <2>2 DEF p
<1>4. r <= WithBuffer(Config, r)
  <2> DEFINE d == (r * Config.bufferPct) \div 100
  <2>1. d \in Nat
    BY <1>3
  <2> HIDE DEF d
  <2>2. WithBuffer(Config, r) = IF Config.dynamicDca THEN r + d ELSE r
    BY DEF WithBuffer, d
  <2> QED
    BY <1>2, <2>1, <2>2
<1> QED
  BY <1>1, <1>2, <1>4, BufferIsNat DEF r

\* Nothing is bought, waiting or in flight at start-up.
LEMMA PlainInit == Init => PlainInv
  BY WorkerAssumption DEF Init, PlainInv, OnlyPlain, RowsBacked, OrdersPlain, CreditPlain,
     AfterOrder, TickPlain,
     LeaseCovers, Ordered, Holding, NoRow, Row, NoLedger

\* A base order that ends without a retry leaves the task idle.
LEMMA PlainEnd ==
    ASSUME TypeInv, PlainInv, NEW b \in Buyers, pc[b] \in Ordered \cup {"release", "unwind"},
           Finish(b) \/ GiveUp(b)
    PROVE  order' = [order EXCEPT ![b] = NoOrder] /\ pc' = [pc EXCEPT ![b] = "idle"]
  BY DEF PlainInv, OrdersPlain, AfterOrder, Finish, GiveUp, AfterBuy, Goto, TypeInv, TypeOK

\* The steps of acquire_order_lease, the exchange and persist_buy_trade keep PlainInv.
LEMMA PlainBuyStep ==
    ASSUME PlainBuys, TypeInv, OwnerInv, PlainInv, NEW b \in Buyers, BuyStep(b)
    PROVE  PlainInv'
<1> USE DEF TypeInv, TypeOK, OwnerInv, PlainInv, Goto, durable, Ordered, Holding, SnapWaiting
<1> USE WorkerAssumption
<1>0. b \in {Worker, Plugin}
  BY DEF BuyStep, OnlyPlain, Acquire, ReadOpenTrades, ReadTrades, GrantLease, RefuseLease,
     UsageUnavailable,
    ExchangeFills, ExchangeFails, PersistBuy, ReleaseLease
<1>1. CASE Acquire(b)
  BY <1>1 DEF Acquire, OnlyPlain, RowsBacked, OrdersPlain, CreditPlain, AfterOrder, TickPlain,
     LeaseCovers
<1>2. CASE ReadOpenTrades(b)
  BY <1>2 DEF ReadOpenTrades, OnlyPlain, RowsBacked, OrdersPlain, CreditPlain, AfterOrder,
     TickPlain, LeaseCovers, Credit, UsageType, OrdersPlaced, Busy
<1>3. CASE ReadTrades(b)
  BY <1>3 DEF ReadTrades, OnlyPlain, RowsBacked, OrdersPlain, CreditPlain, AfterOrder,
     TickPlain, LeaseCovers, Credit, UsageType
<1>4. CASE GrantLease(b)
  <2>1. b = Plugin => order[b].quote <= LeaseAmount(b)
    BY <1>4, RequirementCovers DEF GrantLease, LeaseAmount, CreditPlain, OrdersPlain
  <2> QED
    BY <1>4, <2>1 DEF GrantLease, OnlyPlain, RowsBacked, OrdersPlain, CreditPlain,
       AfterOrder, TickPlain, LeaseCovers, Credit
<1>5. CASE RefuseLease(b) \/ UsageUnavailable(b) \/ ReleaseLease(b)
  <2>1. order' = [order EXCEPT ![b] = NoOrder] /\ pc' = [pc EXCEPT ![b] = "idle"]
    BY <1>5, PlainEnd DEF RefuseLease, UsageUnavailable, ReleaseLease
  <2>2. /\ UNCHANGED <<rows, ledger, snap>>
        /\ \A o \in Buyers \ {b} : lease'[o] = lease[o] /\ usage'[o] = usage[o]
    BY <1>5 DEF RefuseLease, UsageUnavailable, ReleaseLease
  <2> QED
    BY <2>1, <2>2 DEF OnlyPlain, RowsBacked, OrdersPlain, CreditPlain, AfterOrder, TickPlain,
       LeaseCovers, Credit
<1>6. CASE ExchangeFills(b)
  BY <1>6 DEF ExchangeFills, OnlyPlain, RowsBacked, OrdersPlain, CreditPlain, AfterOrder,
     TickPlain, LeaseCovers
<1>7. CASE \E retriable \in BOOLEAN : ExchangeFails(b, retriable)
  BY <1>7 DEF ExchangeFails, OnlyPlain, RowsBacked, OrdersPlain, CreditPlain, AfterOrder,
     TickPlain, LeaseCovers, OrderType
<1>8. CASE PersistBuy(b)
  <2> DEFINE s == order[b].symbol
  <2>1. s \in Symbols /\ order[b].quote \in Nat /\ order[b].base
        /\ ledger[s].spent = 0 /\ pc[b] = "filled"
    BY <1>8 DEF PersistBuy, OrdersPlaced, OrdersPlain, Busy, InFlight, OrderType
  <2>2. /\ rows' = [rows EXCEPT ![s] = Row("long", order[b].quote, 0, 0)]
        /\ \A x \in Symbols \ {s} : ledger'[x] = ledger[x]
        /\ ledger'[s].spent = order[b].quote
        /\ pc' = [pc EXCEPT ![b] = "release"]
        /\ snap'.symbol = snap.symbol /\ snap'.row = snap.row /\ snap'.spent = snap.spent
        /\ UNCHANGED <<lease, usage>>
    BY <1>8, <2>1 DEF PersistBuy, SnapType
  <2>3. \A q \in EntrySizes : q <= order[b].quote
    BY <1>0, <1>8, <2>1, QuoteAssumption DEF PlainBuys, OrdersPlain, RowsBacked, PersistBuy
  <2>4. RowsBacked'
    BY <2>1, <2>2, <2>3 DEF RowsBacked, Row
  <2>5. order' = [order EXCEPT ![b].retry = 0]
    BY <1>8 DEF PersistBuy
  <2>6. ASSUME NEW o \in Buyers, o # b, pc[o] \in Ordered
        PROVE  order[o].symbol # s
    BY <1>0, <2>1, <2>6, <2>2 DEF OrdersPlain, OnlyPlain
  <2>7. OrdersPlain'
    BY <2>1, <2>2, <2>5, <2>6 DEF OrdersPlain, OrderType, OrdersPlaced, Busy, InFlight
  <2>8. TickPlain'
    BY <1>0, <2>1, <2>2, <2>3, QuoteAssumption DEF TickPlain, Row, OrdersPlain, PlainBuys
  <2> QED
    BY <2>1, <2>2, <2>4, <2>5, <2>7, <2>8 DEF OnlyPlain, CreditPlain, AfterOrder,
       LeaseCovers, Credit, OrderType
<1> QED
  BY <1>1, <1>2, <1>3, <1>4, <1>5, <1>6, <1>7, <1>8 DEF BuyStep

\* A buy that arrives from the signal plugin finds a symbol without a row.
LEMMA PlainIncoming ==
    ASSUME PlainBuys, TypeInv, OwnerInv, PlainInv, NEW b \in Buyers, Incoming(b)
    PROVE  PlainInv'
<1> USE DEF TypeInv, TypeOK, OwnerInv, PlainInv, Goto, durable, Ordered, Holding, SnapWaiting
<1> USE WorkerAssumption
<1>1. PICK s \in Symbols, quote \in EntrySizes, baseline \in BaselineSizes :
          SignalBuy(b, s, quote, baseline)
  BY DEF Incoming, ManualBuy, ActivateBuy, PlainBuys
<1>2. /\ b = Plugin /\ pc[b] = "idle" /\ rows[s].state = "none" /\ ledger[s].spent = 0
      /\ order' = [order EXCEPT ![b] = [symbol |-> s, base |-> TRUE, quote |-> quote,
                                        count |-> 0, retry |-> 0]]
      /\ pc' = [pc EXCEPT ![b] = "want"]
      /\ UNCHANGED <<rows, ledger, lease, usage, snap>>
  <2>1. baseline = quote
    BY DEF PlainBuys
  <2>2. rows[s].state = "none" /\ ledger[s].spent = 0
    BY <1>1 DEF SignalBuy, RowsBacked
  <2> QED
    BY <1>1, <2>1, <2>2 DEF SignalBuy, Submit
<1> QED
  BY <1>2 DEF OnlyPlain, RowsBacked, OrdersPlain, CreditPlain, AfterOrder, TickPlain, LeaseCovers

\* The steps of a tick of the DCA worker keep PlainInv.
LEMMA PlainWorkerStep ==
    ASSUME PlainBuys, TypeInv, OwnerInv, PlainInv, WorkerStep
    PROVE  PlainInv'
<1> USE DEF TypeInv, TypeOK, OwnerInv, PlainInv, Goto, durable, Ordered, Holding, SnapWaiting
<1> USE WorkerAssumption
<1>1. CASE TickReentry
  <2>1. /\ pc[Worker] = "tick" /\ snap.spent = 0 /\ snap.row.state = "waiting"
        /\ rows[snap.symbol].state = "waiting" /\ rows[snap.symbol].reserved = snap.row.reserved
        /\ snap.symbol \in Symbols
        /\ ledger[snap.symbol].spent = 0
        /\ order' = [order EXCEPT ![Worker] = [symbol |-> snap.symbol, base |-> TRUE,
                          quote |-> snap.row.reserved, count |-> 0, retry |-> 0]]
        /\ pc' = [pc EXCEPT ![Worker] = "want"]
        /\ UNCHANGED <<rows, ledger, lease, usage, snap>>
    BY <1>1 DEF TickReentry, Submit, TickPlain, RowsBacked
  <2> QED
    BY <2>1 DEF OnlyPlain, RowsBacked, OrdersPlain, CreditPlain, AfterOrder, TickPlain, LeaseCovers
<1>2. ASSUME NEW move \in ExitMoves, TickSidestepExit(move)
      PROVE  PlainInv'
  <2> DEFINE s == snap.symbol
             proceeds == ledger[s].spent + move
  <2>1. /\ s \in Symbols /\ rows[s].state # "waiting" /\ ledger[s].spent > 0 /\ move \in Nat
        /\ ledger[s].spent \in Nat
        /\ rows[s].state # "none"
    BY <1>2 DEF TickSidestepExit, TickPlain, PlainBuys, RowsBacked
  <2>2. /\ rows' = [rows EXCEPT ![s] = Row("waiting", 0, rows[s].so, proceeds)]
        /\ ledger' = [ledger EXCEPT ![s] = NoLedger]
        /\ pc' = [pc EXCEPT ![Worker] = "idle"]
        /\ UNCHANGED <<lease, usage, order>>
    BY <1>2, <2>1 DEF TickSidestepExit, TickDone
  <2>3. \A q \in EntrySizes : q <= proceeds
    BY <2>1, QuoteAssumption DEF RowsBacked
  <2>4. RowsBacked'
    BY <2>1, <2>2, <2>3 DEF RowsBacked, Row, NoLedger
  <2>5. ASSUME NEW o \in Buyers, pc[o] \in Ordered
        PROVE  order[o].symbol # s
    BY <2>1, <2>5 DEF OrdersPlain
  <2>6. OrdersPlain'
    BY <2>1, <2>2, <2>5 DEF OrdersPlain, OrdersPlaced, Busy, InFlight
  <2> QED
    BY <2>2, <2>4, <2>6 DEF OnlyPlain, CreditPlain, AfterOrder, TickPlain, LeaseCovers, Credit
<1>3. ASSUME NEW quote \in SafetyOrderQuotes, TickSafetyOrder(quote)
      PROVE  FALSE
  <2>1. snap.symbol \in Symbols /\ snap.symbol \notin SidestepDeals /\ snap.so < Config.mstc
    BY <1>3 DEF TickSafetyOrder, TickPlain
  <2> QED
    BY <2>1 DEF PlainBuys, SnapType
<1>4. CASE TickWithoutOrder
  <2>1. snap.symbol \in SidestepDeals \/ snap.so >= Config.mstc
    BY <1>4 DEF TickWithoutOrder, TickPlain, PlainBuys, SnapType
  <2> QED
    BY <1>4, <2>1 DEF TickWithoutOrder, OnlyPlain, RowsBacked, OrdersPlain, CreditPlain,
       AfterOrder, TickPlain, LeaseCovers
<1>5. CASE TickReturn
  BY <1>5 DEF TickReturn, TickDone, OnlyPlain, RowsBacked, OrdersPlain, CreditPlain,
     AfterOrder, TickPlain, LeaseCovers
<1>6. ASSUME CheckSoCount \/ WriteSoCount
      PROVE  FALSE
  BY <1>6 DEF CheckSoCount, WriteSoCount, TickPlain
<1>7. CASE CheckCost
  BY <1>7 DEF CheckCost, TickDone, OnlyPlain, RowsBacked, OrdersPlain, CreditPlain, AfterOrder,
     TickPlain, LeaseCovers
<1>8. CASE WriteCost
  <2> DEFINE s == snap.symbol
             new == [Upserted(rows[s]) EXCEPT !.cost = snap.spent]
  <2>1. /\ s \in Symbols /\ rows[s].state # "waiting" /\ ledger[s].spent <= snap.spent
        /\ rows[s] \in RowType
    BY <1>8 DEF WriteCost, TickPlain
  <2>2. new.state = "long" /\ new.cost = snap.spent
    BY <2>1 DEF Upserted, RowType, ExposureStates
  <2>3. /\ rows' = [rows EXCEPT ![s] = new]
        /\ pc' = [pc EXCEPT ![Worker] = "idle"]
        /\ UNCHANGED <<ledger, lease, usage, order>>
    BY <1>8 DEF WriteCost, TickDone
  <2> HIDE DEF new
  <2>4. RowsBacked'
    BY <2>1, <2>2, <2>3 DEF RowsBacked
  <2>5. OrdersPlain'
    BY <2>1, <2>2, <2>3 DEF OrdersPlain, OrdersPlaced, Busy, InFlight
  <2> QED
    BY <2>3, <2>4, <2>5 DEF OnlyPlain, CreditPlain, AfterOrder, TickPlain, LeaseCovers, Credit
<1> QED
  BY <1>1, <1>2, <1>3, <1>4, <1>5, <1>6, <1>7, <1>8 DEF WorkerStep

\* Ticks that start, closes, cancellations and a restart keep PlainInv.
LEMMA PlainEnvironment ==
    ASSUME PlainBuys, TypeInv, OwnerInv, PlainInv, Environment
    PROVE  PlainInv'
<1> USE DEF TypeInv, TypeOK, OwnerInv, PlainInv, Goto, durable, Ordered, Holding, SnapWaiting
<1> USE WorkerAssumption
<1>1. ASSUME NEW s \in Symbols, TickStart(s)
      PROVE  PlainInv'
  <2>1. /\ pc[Worker] = "idle" /\ pc' = [pc EXCEPT ![Worker] = "tick"]
        /\ snap'.symbol = s /\ snap'.row = rows[s] /\ snap'.spent = ledger[s].spent
        /\ ledger[s].spent > 0 \/ rows[s].state = "waiting"
        /\ UNCHANGED <<rows, ledger, lease, usage, order>>
    BY <1>1 DEF TickStart
  <2>2. TickPlain'
    BY <2>1 DEF TickPlain, RowsBacked
  <2> QED
    BY <2>1, <2>2 DEF OnlyPlain, RowsBacked, OrdersPlain, CreditPlain, AfterOrder, LeaseCovers
<1>2. ASSUME NEW s \in Symbols, NEW move \in PriceMoves, CloseTrade(s, move)
      PROVE  PlainInv'
  <2>1. /\ ledger[s].spent > 0 /\ rows[s].state # "waiting"
        /\ rows' = [rows EXCEPT ![s] = NoRow] /\ ledger' = [ledger EXCEPT ![s] = NoLedger]
        /\ UNCHANGED <<lease, pc, order, usage, snap>>
    BY <1>2 DEF CloseTrade, RowsBacked
  <2>2. RowsBacked'
    BY <2>1 DEF RowsBacked, NoRow, Row, NoLedger
  <2>3. OrdersPlain'
    BY <2>1 DEF OrdersPlain, OrdersPlaced, Busy, InFlight, NoRow, Row, NoLedger
  <2>4. TickPlain'
    BY <2>1 DEF TickPlain, NoRow, Row, NoLedger, SnapType
  <2> QED
    BY <2>1, <2>2, <2>3, <2>4 DEF OnlyPlain, CreditPlain, AfterOrder, LeaseCovers, Credit
<1>3. ASSUME NEW s \in Symbols,
             StopTrade(s) \/ \E realised \in ExitMoves : StopCampaign(s, realised)
      PROVE  FALSE
  BY <1>3 DEF StopTrade, StopCampaign, PlainBuys
<1>4. ASSUME NEW b \in Buyers, CancelTask(b)
      PROVE  PlainInv'
  <2>1. CASE pc[b] \in {"want"} \cup Holding
    <3>1. order' = [order EXCEPT ![b] = NoOrder] /\ pc' = [pc EXCEPT ![b] = "idle"]
      BY <1>4, <2>1, PlainEnd DEF CancelTask
    <3>2. UNCHANGED <<rows, ledger, snap, lease>> /\ \A o \in Buyers \ {b} : usage'[o] = usage[o]
      BY <1>4, <2>1 DEF CancelTask
    <3> QED
      BY <3>1, <3>2 DEF OnlyPlain, RowsBacked, OrdersPlain, CreditPlain, AfterOrder,
         TickPlain, LeaseCovers, Credit
  <2>2. CASE pc[b] \in {"buying", "filled"}
    <3>1. /\ pc' = [pc EXCEPT ![b] = "unwind"]
          /\ order' = [order EXCEPT ![b].retry = 0]
          /\ UNCHANGED <<rows, ledger, snap, lease, usage>>
      BY <1>4, <2>2 DEF CancelTask
    <3> QED
      BY <2>2, <3>1 DEF OnlyPlain, RowsBacked, OrdersPlain, CreditPlain, AfterOrder,
         TickPlain, LeaseCovers, Credit, OrderType
  <2>3. CASE pc[b] = "release"
    <3>1. order' = [order EXCEPT ![b] = NoOrder] /\ pc' = [pc EXCEPT ![b] = "idle"]
      BY <1>4, <2>3, PlainEnd DEF CancelTask
    <3>2. /\ UNCHANGED <<rows, ledger, snap, usage>>
          /\ \A o \in Buyers \ {b} : lease'[o] = lease[o]
      BY <1>4, <2>3 DEF CancelTask
    <3> QED
      BY <3>1, <3>2 DEF OnlyPlain, RowsBacked, OrdersPlain, CreditPlain, AfterOrder,
         TickPlain, LeaseCovers, Credit
  <2> QED
    BY <1>4, <2>1, <2>2, <2>3 DEF CancelTask
<1>5. CASE Restart
  BY <1>5 DEF Restart, OnlyPlain, RowsBacked, OrdersPlain, CreditPlain, AfterOrder, TickPlain,
     LeaseCovers
<1> QED
  BY <1>1, <1>2, <1>3, <1>4, <1>5 DEF Environment

\* PlainInv is inductive beside the type and the ownership of the lock.
LEMMA PlainStep ==
    ASSUME PlainBuys
    PROVE  TypeInv /\ OwnerInv /\ PlainInv /\ [Next]_vars => PlainInv'
<1> SUFFICES ASSUME TypeInv, OwnerInv, PlainInv, [Next]_vars
             PROVE  PlainInv'
  OBVIOUS
<1>1. CASE Next
  BY <1>1, PlainBuyStep, PlainIncoming, PlainWorkerStep, PlainEnvironment DEF Next
<1>2. CASE UNCHANGED vars
  BY <1>2 DEF vars, PlainInv, OnlyPlain, RowsBacked, OrdersPlain, CreditPlain, AfterOrder,
     TickPlain, LeaseCovers, Credit, SnapWaiting
<1> QED
  BY <1>1, <1>2
-----------------------------------------------------------------------------
\* The spent column of a ledger, the quotes in flight, and what is claimed in all.
SpentOf(l) == [s \in Symbols |-> l[s].spent]
FlyingOf(p, o) == [b \in Buyers |-> IF p[b] \in {"buying", "filled"} THEN o[b].quote ELSE 0]
Claims == SumFunction(SpentOf(ledger)) + SumFunction(FlyingOf(pc, order))

\* What a row holds: the cost of a deal, the reserved quote of a waiting mission.
Held(row) ==
    CASE row.state = "long" -> row.cost
      [] row.state = "waiting" -> row.reserved
      [] OTHER -> 0
HeldIn(r) == [s \in Symbols |-> Held(r[s])]

\* Between its read and its decision a check sees at least what is claimed.
ReadCovers ==
    \A b \in Buyers : pc[b] \in {"ledger", "decide"} =>
        Claims + Credit(usage[b], order[b].symbol)
          <= SumFunction(HeldIn(usage[b].rows)) + PendingQuote

\* What is claimed stays within the limit.
WithinLimit == Claims <= Config.principal + Config.stretchMax

\* What the ledger has spent sums to an integer.
LEMMA SpentTyped ==
    ASSUME NEW l \in [Symbols -> [spent : Nat, so : Nat]]
    PROVE  SpentOf(l) \in [Symbols -> Int] /\ SumFunction(SpentOf(l)) \in Int
<1>1. SpentOf(l) \in [Symbols -> Int]
  BY DEF SpentOf
<1> QED
  BY <1>1, FiniteAssumption, SumIsInt

\* What is in flight sums to an integer.
LEMMA FlyingTyped ==
    ASSUME NEW p, NEW o \in [Buyers -> OrderType]
    PROVE  FlyingOf(p, o) \in [Buyers -> Int] /\ SumFunction(FlyingOf(p, o)) \in Int
<1>1. FlyingOf(p, o) \in [Buyers -> Int]
  BY DEF FlyingOf, OrderType
<1> QED
  BY <1>1, FiniteAssumption, SumIsInt

\* What the rows hold sums to an integer.
LEMMA HeldTyped ==
    ASSUME NEW r \in [Symbols -> RowType]
    PROVE  HeldIn(r) \in [Symbols -> Int] /\ SumFunction(HeldIn(r)) \in Int
<1>1. \A row \in RowType : Held(row) \in Int
  BY DEF Held, RowType
<1>2. HeldIn(r) \in [Symbols -> Int]
  BY <1>1 DEF HeldIn
<1> QED
  BY <1>2, FiniteAssumption, SumIsInt

\* The pending total is an integer.
LEMMA PendingTyped ==
    TypeInv =>
        PendingQuote \in Int /\ lease \in [Buyers -> Int] /\ SumFunction(lease) \in Int
<1> SUFFICES ASSUME TypeInv
             PROVE  PendingQuote \in Int /\ lease \in [Buyers -> Int] /\ SumFunction(lease) \in Int
  OBVIOUS
<1>1. lease \in [Buyers -> Int]
  BY DEF TypeInv, TypeOK
<1> QED
  BY <1>1, FiniteAssumption, SumIsInt DEF PendingQuote, TypeInv, TypeOK

\* A ledger that only loses entries sums to no more.
LEMMA SpentFalls ==
    ASSUME NEW l \in [Symbols -> [spent : Nat, so : Nat]],
           NEW m \in [Symbols -> [spent : Nat, so : Nat]],
           \A s \in Symbols : m[s].spent <= l[s].spent
    PROVE  SumFunction(SpentOf(m)) <= SumFunction(SpentOf(l))
<1>1. \A s \in Symbols : SpentOf(m)[s] <= SpentOf(l)[s]
  BY DEF SpentOf
<1> QED
  BY <1>1, SpentTyped, FiniteAssumption, SumMonotone

\* A write to the ledger of one symbol moves the sum by as much.
LEMMA SpentMoves ==
    ASSUME NEW l \in [Symbols -> [spent : Nat, so : Nat]],
           NEW m \in [Symbols -> [spent : Nat, so : Nat]],
           NEW s \in Symbols, \A x \in Symbols \ {s} : m[x] = l[x]
    PROVE  SumFunction(SpentOf(m)) = SumFunction(SpentOf(l)) - l[s].spent + m[s].spent
<1>1. /\ SpentOf(l)[s] = l[s].spent /\ SpentOf(m)[s] = m[s].spent
      /\ \A x \in Symbols \ {s} : SpentOf(l)[x] = SpentOf(m)[x]
  BY DEF SpentOf
<1>2. SpentOf(l) \in [Symbols -> Int] /\ SpentOf(m) \in [Symbols -> Int]
  BY SpentTyped
<1>3. SumFunction(SpentOf(m)) = SumFunction(SpentOf(l)) - SpentOf(l)[s] + SpentOf(m)[s]
  BY <1>1, <1>2, FiniteAssumption, SumUpdate
<1> QED
  BY <1>1, <1>3

\* Fewer buys in flight sum to no more.
LEMMA FlyingFalls ==
    ASSUME NEW p, NEW o \in [Buyers -> OrderType], NEW q, NEW r \in [Buyers -> OrderType],
           \A b \in Buyers : q[b] \in {"buying", "filled"} =>
                p[b] \in {"buying", "filled"} /\ r[b].quote = o[b].quote
    PROVE  SumFunction(FlyingOf(q, r)) <= SumFunction(FlyingOf(p, o))
<1>1. \A b \in Buyers : FlyingOf(q, r)[b] <= FlyingOf(p, o)[b]
  BY DEF FlyingOf, OrderType
<1> QED
  BY <1>1, FlyingTyped, FiniteAssumption, SumMonotone

\* Every other step leaves the claims alone, drops some, or moves one from flight to the
\* ledger.
LEMMA ClaimsFall ==
    ASSUME PlainBuys, TypeInv, OwnerInv, PlainInv, TypeInv', [Next]_vars,
           ~\E b \in Buyers : GrantLease(b)
    PROVE  Claims' <= Claims
<1> USE DEF TypeInv, TypeOK, Goto, durable
<1>1. SUFFICES \/ /\ \A s \in Symbols : ledger'[s].spent <= ledger[s].spent
                  /\ \A b \in Buyers : pc'[b] \in {"buying", "filled"} =>
                        pc[b] \in {"buying", "filled"} /\ order'[b].quote = order[b].quote
               \/ \E b \in Buyers : PersistBuy(b)
  <2>0. /\ ledger \in [Symbols -> [spent : Nat, so : Nat]]
        /\ ledger' \in [Symbols -> [spent : Nat, so : Nat]]
        /\ order \in [Buyers -> OrderType] /\ order' \in [Buyers -> OrderType]
    OBVIOUS
  <2>5. /\ SumFunction(SpentOf(ledger)) \in Int /\ SumFunction(SpentOf(ledger')) \in Int
        /\ SumFunction(FlyingOf(pc, order)) \in Int /\ SumFunction(FlyingOf(pc', order')) \in Int
    BY <2>0, SpentTyped, FlyingTyped
  <2>1. CASE /\ \A s \in Symbols : ledger'[s].spent <= ledger[s].spent
             /\ \A b \in Buyers : pc'[b] \in {"buying", "filled"} =>
                   pc[b] \in {"buying", "filled"} /\ order'[b].quote = order[b].quote
    <3>1. SumFunction(SpentOf(ledger')) <= SumFunction(SpentOf(ledger))
      BY <2>0, <2>1, SpentFalls
    <3>2. SumFunction(FlyingOf(pc', order')) <= SumFunction(FlyingOf(pc, order))
      BY <2>0, <2>1, FlyingFalls
    <3> QED
      BY <3>1, <3>2, <2>5 DEF Claims
  <2>2. ASSUME NEW b \in Buyers, PersistBuy(b)
        PROVE  Claims' <= Claims
    <3> DEFINE s == order[b].symbol
               q == order[b].quote
    <3>1. /\ s \in Symbols /\ q \in Nat /\ pc[b] = "filled"
          /\ ledger'[s].spent = ledger[s].spent + q
          /\ \A x \in Symbols \ {s} : ledger'[x] = ledger[x]
          /\ pc' = [pc EXCEPT ![b] = "release"]
          /\ \A o \in Buyers : order'[o].quote = order[o].quote
          /\ ledger[s].spent \in Nat
      <4>1. /\ pc[b] = "filled" /\ order[b] \in OrderType /\ order[b].symbol \in Symbols
            /\ q \in Nat /\ ledger[s].spent \in Nat
        BY <2>2 DEF PersistBuy, OrdersPlaced, Busy, InFlight, OrderType
      <4>2. /\ ledger'[s].spent = ledger[s].spent + q
            /\ \A x \in Symbols \ {s} : ledger'[x] = ledger[x]
        BY <2>2, <4>1 DEF PersistBuy
      <4>3. pc' = [pc EXCEPT ![b] = "release"]
        BY <2>2 DEF PersistBuy
      <4>4. \A o \in Buyers : order'[o].quote = order[o].quote
        <5>1. order' = [order EXCEPT ![b] = [order[b] EXCEPT !.retry = 0]]
          BY <2>2 DEF PersistBuy
        <5>2. [order[b] EXCEPT !.retry = 0].quote = order[b].quote
          BY <4>1 DEF OrderType
        <5> QED
          BY <5>1, <5>2
      <4> QED
        BY <4>1, <4>2, <4>3, <4>4
    <3>2. SumFunction(SpentOf(ledger')) = SumFunction(SpentOf(ledger)) + q
      <4>1. SumFunction(SpentOf(ledger'))
              = SumFunction(SpentOf(ledger)) - ledger[s].spent + ledger'[s].spent
        BY ONLY <2>0, <3>1, SpentMoves
      <4> QED
        BY ONLY <3>1, <4>1, <2>5
    <3>3. SumFunction(FlyingOf(pc', order')) = SumFunction(FlyingOf(pc, order)) - q
      <4>1. /\ FlyingOf(pc, order)[b] = q /\ FlyingOf(pc', order')[b] = 0
            /\ \A x \in Buyers \ {b} : FlyingOf(pc, order)[x] = FlyingOf(pc', order')[x]
        BY <3>1 DEF FlyingOf
      <4>2. FlyingOf(pc, order) \in [Buyers -> Int] /\ FlyingOf(pc', order') \in [Buyers -> Int]
        BY <2>0, FlyingTyped
      <4>3. SumFunction(FlyingOf(pc', order'))
              = SumFunction(FlyingOf(pc, order)) - FlyingOf(pc, order)[b] + FlyingOf(pc', order')[b]
        BY ONLY <4>1, <4>2, FiniteAssumption, SumUpdate
      <4> QED
        BY ONLY <3>1, <4>1, <4>3, <2>5
    <3> QED
      BY <3>1, <3>2, <3>3, <2>5 DEF Claims
  <2> QED
    BY <1>1, <2>1, <2>2
<1> USE WorkerAssumption
<1>2. ASSUME NEW b \in Buyers, BuyStep(b), ~PersistBuy(b)
      PROVE  /\ ledger' = ledger
             /\ \A o \in Buyers : pc'[o] \in {"buying", "filled"} =>
                   pc[o] \in {"buying", "filled"} /\ order'[o].quote = order[o].quote
  BY <1>2 DEF BuyStep, Acquire, ReadOpenTrades, ReadTrades, RefuseLease, UsageUnavailable,
     Finish, GiveUp, AfterBuy,
     ExchangeFills, ExchangeFails, ReleaseLease, OrderType
<1>3. ASSUME NEW b \in Buyers, Incoming(b)
      PROVE  /\ ledger' = ledger
             /\ \A o \in Buyers : pc'[o] \in {"buying", "filled"} =>
                   pc[o] \in {"buying", "filled"} /\ order'[o].quote = order[o].quote
  BY <1>3 DEF Incoming, SignalBuy, ManualBuy, ActivateBuy, Submit
<1>4. ASSUME WorkerStep
      PROVE  /\ \A s \in Symbols : ledger'[s].spent <= ledger[s].spent
             /\ \A o \in Buyers : pc'[o] \in {"buying", "filled"} =>
                   pc[o] \in {"buying", "filled"} /\ order'[o].quote = order[o].quote
  BY <1>4 DEF WorkerStep, TickReentry, TickSidestepExit, TickSafetyOrder, TickWithoutOrder,
     TickReturn, TickDone,
     CheckSoCount, CheckCost, WriteSoCount, WriteCost, Submit, NoLedger
<1>5. ASSUME Environment
      PROVE  /\ \A s \in Symbols : ledger'[s].spent <= ledger[s].spent
             /\ \A o \in Buyers : pc'[o] \in {"buying", "filled"} =>
                   pc[o] \in {"buying", "filled"} /\ order'[o].quote = order[o].quote
  <2>1. ASSUME NEW b \in Buyers, CancelTask(b)
        PROVE  /\ ledger' = ledger
               /\ \A o \in Buyers : pc'[o] \in {"buying", "filled"} =>
                     pc[o] \in {"buying", "filled"} /\ order'[o].quote = order[o].quote
    BY <2>1 DEF CancelTask, GiveUp, AfterBuy, OrderType
  <2> QED
    BY <1>5, <2>1 DEF Environment, TickStart, CloseTrade, StopTrade, StopCampaign, Restart, NoLedger
<1>6. CASE UNCHANGED vars
  BY <1>6 DEF vars
<1> QED
  BY <1>2, <1>3, <1>4, <1>5, <1>6 DEF Next

\* While a task is inside the critical section the pending total does not move.
LEMMA PendingKept ==
    ASSUME TypeInv, OwnerInv, [Next]_vars, NEW b \in Buyers, lock = b, lock' = b
    PROVE  PendingQuote' = PendingQuote
<1> USE DEF TypeInv, TypeOK, OwnerInv, LockOwned, durable, Goto
<1> USE WorkerAssumption
<1>1. \/ UNCHANGED <<lease, leaked>>
      \/ \E o \in Buyers : leaked' = leaked + lease[o] /\ lease' = [lease EXCEPT ![o] = 0]
  <2>1. ASSUME NEW o \in Buyers, BuyStep(o)
        PROVE  UNCHANGED <<lease, leaked>>
    BY <2>1 DEF BuyStep, Acquire, ReadOpenTrades, ReadTrades, GrantLease, RefuseLease,
       UsageUnavailable,
       ExchangeFills, ExchangeFails, PersistBuy, ReleaseLease, Holding
  <2>2. ASSUME NEW o \in Buyers, Incoming(o)
        PROVE  UNCHANGED <<lease, leaked>>
    BY <2>2 DEF Incoming, SignalBuy, ManualBuy, ActivateBuy
  <2>3. ASSUME WorkerStep
        PROVE  UNCHANGED <<lease, leaked>>
    BY <2>3 DEF WorkerStep, TickReentry, TickSidestepExit, TickSafetyOrder, TickWithoutOrder,
       TickReturn,
        CheckSoCount, CheckCost, WriteSoCount, WriteCost
  <2>4. ASSUME NEW o \in Buyers, CancelTask(o)
        PROVE  \/ UNCHANGED <<lease, leaked>>
               \/ leaked' = leaked + lease[o] /\ lease' = [lease EXCEPT ![o] = 0]
    BY <2>4 DEF CancelTask
  <2>5. ASSUME Environment, ~\E o \in Buyers : CancelTask(o)
        PROVE  UNCHANGED <<lease, leaked>>
    BY <2>5 DEF Environment, TickStart, CloseTrade, StopTrade, StopCampaign, Restart
  <2> QED
    BY <2>1, <2>2, <2>3, <2>4, <2>5 DEF Next, vars
<1>2. CASE UNCHANGED <<lease, leaked>>
  BY <1>2 DEF PendingQuote
<1>3. ASSUME NEW o \in Buyers, leaked' = leaked + lease[o], lease' = [lease EXCEPT ![o] = 0]
      PROVE  PendingQuote' = PendingQuote
  <2>1. lease \in [Buyers -> Int] /\ lease' \in [Buyers -> Int] /\ lease'[o] = 0
        /\ \A x \in Buyers \ {o} : lease[x] = lease'[x]
    BY <1>3
  <2>2. SumFunction(lease') = SumFunction(lease) - lease[o] + lease'[o]
    BY <2>1, FiniteAssumption, SumUpdate
  <2>3. SumFunction(lease) \in Int /\ leaked \in Int /\ lease[o] \in Int
    BY <2>1, FiniteAssumption, SumIsInt
  <2> QED
    BY <1>3, <2>1, <2>2, <2>3 DEF PendingQuote
<1> QED
  BY <1>1, <1>2, <1>3

\* What the rows hold and what is pending, when a check reads the rows, is at least what
\* is claimed by others, beside what the mission of the check itself reserves.
LEMMA BackedWhenRead ==
    ASSUME TypeInv, OwnerInv, PlainInv, NEW b \in Buyers, pc[b] = "open"
    PROVE  Claims + (IF b = Worker THEN order[b].quote ELSE 0)
             <= SumFunction(HeldIn(rows)) + PendingQuote
<1> USE DEF TypeInv, TypeOK, PlainInv, Ordered, Holding
<1> USE WorkerAssumption, FiniteAssumption
<1> DEFINE flying == IF pc[Worker] \in {"buying", "filled"} THEN order[Worker].quote ELSE 0
           own == IF b = Worker THEN order[b].quote ELSE 0
           quote == flying + own
           s == order[Worker].symbol
<1>0. b \in {Worker, Plugin}
  BY DEF OnlyPlain
<1>1. flying \in Nat /\ own \in Nat /\ quote \in Nat
  BY DEF OrderType
<1>2. /\ SpentOf(ledger) \in [Symbols -> Int] /\ SumFunction(SpentOf(ledger)) \in Int
      /\ HeldIn(rows) \in [Symbols -> Int] /\ SumFunction(HeldIn(rows)) \in Int
      /\ FlyingOf(pc, order) \in [Buyers -> Int] /\ SumFunction(FlyingOf(pc, order)) \in Int
      /\ lease \in [Buyers -> Int] /\ SumFunction(lease) \in Int
      /\ leaked \in Nat
  BY SpentTyped, HeldTyped, FlyingTyped, PendingTyped
<1>3. \A x \in Symbols : SpentOf(ledger)[x] <= HeldIn(rows)[x]
  BY DEF SpentOf, HeldIn, Held, RowsBacked, RowType, ExposureStates
<1>4. SumFunction(SpentOf(ledger)) + quote <= SumFunction(HeldIn(rows))
  <2>1. CASE b = Worker \/ pc[Worker] \in {"buying", "filled"}
    <3>1. /\ s \in Symbols /\ ledger[s].spent = 0 /\ rows[s].state = "waiting"
          /\ rows[s].reserved = quote
      BY <2>1 DEF OrdersPlain, OrdersPlaced, Busy, InFlight, OrderType
    <3> DEFINE g == [SpentOf(ledger) EXCEPT ![s] = quote]
    <3> HIDE DEF quote, s
    <3>2. /\ g \in [Symbols -> Int] /\ g[s] = quote /\ SpentOf(ledger)[s] = 0
          /\ \A x \in Symbols \ {s} : SpentOf(ledger)[x] = g[x]
      BY <3>1, <1>1, <1>2 DEF SpentOf
    <3>3. \A x \in Symbols : g[x] <= HeldIn(rows)[x]
      <4>1. HeldIn(rows)[s] = quote
        BY <3>1 DEF HeldIn, Held
      <4> QED
        BY <1>1, <1>3, <3>2, <4>1
    <3> HIDE DEF g
    <3>4. SumFunction(g) = SumFunction(SpentOf(ledger)) - SpentOf(ledger)[s] + g[s]
      BY <1>2, <3>1, <3>2, SumUpdate
    <3>5. SumFunction(g) <= SumFunction(HeldIn(rows))
      BY <1>2, <3>2, <3>3, SumMonotone
    <3> QED
      BY <1>1, <1>2, <3>2, <3>4, <3>5
  <2>2. CASE b # Worker /\ pc[Worker] \notin {"buying", "filled"}
    <3>1. quote = 0
      BY <2>2
    <3>2. SumFunction(SpentOf(ledger)) <= SumFunction(HeldIn(rows))
      BY <1>2, <1>3, SumMonotone
    <3> HIDE DEF quote
    <3> QED
      BY <1>2, <3>1, <3>2
  <2> QED
    BY <2>1, <2>2
<1>5. SumFunction(FlyingOf(pc, order)) <= SumFunction(lease) + flying
  <2> DEFINE g == [lease EXCEPT ![Worker] = lease[Worker] + flying]
  <2>1. \A o \in Buyers \ {Worker} : FlyingOf(pc, order)[o] <= lease[o]
    BY DEF FlyingOf, LeaseCovers, OnlyPlain
  <2>2. FlyingOf(pc, order)[Worker] = flying /\ lease[Worker] \in Nat
    BY DEF FlyingOf
  <2> HIDE DEF flying
  <2>3. /\ g \in [Buyers -> Int] /\ g[Worker] = lease[Worker] + flying
        /\ \A o \in Buyers \ {Worker} : lease[o] = g[o]
    BY <1>1, <1>2
  <2>4. \A o \in Buyers : FlyingOf(pc, order)[o] <= g[o]
    BY <1>1, <2>1, <2>2, <2>3
  <2> HIDE DEF g
  <2>5. SumFunction(g) = SumFunction(lease) - lease[Worker] + g[Worker]
    BY <1>2, <2>3, SumUpdate
  <2>6. SumFunction(FlyingOf(pc, order)) <= SumFunction(g)
    BY <1>2, <2>3, <2>4, SumMonotone
  <2> QED
    BY <1>1, <1>2, <2>2, <2>3, <2>5, <2>6, SumIsInt
<1> HIDE DEF flying, own
<1> QED
  BY <1>1, <1>2, <1>4, <1>5 DEF Claims, PendingQuote, own

\* The check counts at least what the rows it has read hold.
LEMMA CommittedCovers ==
    ASSUME TypeInv, NEW u \in UsageType
    PROVE  /\ SumFunction(HeldIn(u.rows)) + PendingQuote <= Committed(u)
           /\ Committed(u) \in Int
<1> DEFINE locked == [s \in Symbols |-> IF u.rows[s].state # "long" THEN 0
                                        ELSE IF u.rows[s].cost > 0 THEN u.rows[s].cost
                                        ELSE u.ledger[s]]
           reserve == [s \in Symbols |-> TradeReserve(Config, u.rows[s])]
<1>1. u.rows \in [Symbols -> RowType] /\ u.ledger \in [Symbols -> Nat] /\ DOMAIN u.rows = Symbols
  BY DEF UsageType
<1>2. \A row \in RowType : TradeReserve(Config, row) \in Nat
  BY ReserveIsNat, SettingsAssumption DEF TradeReserve, RowType
<1>3. locked \in [Symbols -> Int] /\ reserve \in [Symbols -> Int]
  BY <1>1, <1>2 DEF RowType
<1>4. \A s \in Symbols : HeldIn(u.rows)[s] <= locked[s] + reserve[s]
  <2> SUFFICES ASSUME NEW s \in Symbols
               PROVE  HeldIn(u.rows)[s] <= locked[s] + reserve[s]
    OBVIOUS
  <2>1. u.rows[s] \in RowType /\ TradeReserve(Config, u.rows[s]) \in Nat /\ u.ledger[s] \in Nat
    BY <1>1, <1>2
  <2>2. CASE u.rows[s].state = "long"
    BY <2>1, <2>2 DEF HeldIn, Held, RowType
  <2>3. CASE u.rows[s].state = "waiting"
    BY <2>1, <2>3 DEF HeldIn, Held, RowType, TradeReserve
  <2>4. CASE u.rows[s].state \notin {"long", "waiting"}
    BY <2>1, <2>4 DEF HeldIn, Held, RowType
  <2> QED
    BY <2>2, <2>3, <2>4
<1>5. /\ FundsLocked(u) = SumFunction(locked)
      /\ OpenTradeReserve(Config, u.rows) = SumFunction(reserve)
  BY <1>1 DEF FundsLocked, OpenTradeReserve
<1> HIDE DEF locked, reserve
<1>6. SumFunction(HeldIn(u.rows)) <= SumFunction(locked) + SumFunction(reserve)
  BY <1>1, <1>3, <1>4, HeldTyped, FiniteAssumption, SumSplit
<1>7. SumFunction(locked) \in Int /\ SumFunction(reserve) \in Int
  BY <1>3, FiniteAssumption, SumIsInt
<1> QED
  BY <1>1, <1>5, <1>6, <1>7, HeldTyped, PendingTyped DEF Committed

\* Autopilot never stretches the limit by more than its maximum.
LEMMA LimitBounded ==
    ASSUME NEW profit \in Int
    PROVE  /\ EffectiveLimit(Config, profit) <= Config.principal + Config.stretchMax
           /\ EffectiveLimit(Config, profit) \in Int
<1> DEFINE p == NonNegative(profit) * Config.stretchRatioPct
<1>1. p \in Nat
  <2>1. NonNegative(profit) \in Nat
    BY DEF NonNegative
  <2> QED
    BY <2>1, ProductIsNat, SettingsAssumption
<1> HIDE DEF p
<1>2. p \div 100 \in Int
  BY <1>1
<1> DEFINE d == p \div 100
<1> HIDE DEF d
<1>3. d \in Int
  BY <1>2 DEF d
<1>4. ProfitStretch(Config, profit) = IF /\ Config.autopilot /\ Config.stretchEnabled
                                         /\ Config.stretchRatioPct > 0 /\ Config.stretchMax > 0
                                     THEN Smaller(d, Config.stretchMax) ELSE 0
  BY DEF ProfitStretch, d, p
<1>5. ProfitStretch(Config, profit) \in Int /\ ProfitStretch(Config, profit) <= Config.stretchMax
  BY <1>3, <1>4, SettingsAssumption DEF Smaller
<1> QED
  BY <1>5, SettingsAssumption DEF EffectiveLimit

\* The one step that adds a claim, the grant of a lease, stays within the limit.
LEMMA GrantKeepsLimit ==
    ASSUME PlainBuys, TypeInv, OwnerInv, PlainInv, ReadCovers, TypeInv',
           NEW b \in Buyers, GrantLease(b)
    PROVE  Claims' <= Config.principal + Config.stretchMax
<1> USE DEF TypeInv, TypeOK
<1> DEFINE q == order[b].quote
           credit == Credit(usage[b], order[b].symbol)
           lent == WithBuffer(Config, BudgetRequirement(Config, order[b], credit))
<1>1. /\ order[b] \in OrderType /\ q \in Nat /\ order[b].base /\ pc[b] = "decide"
      /\ b \in {Worker, Plugin} /\ credit = IF b = Worker THEN q ELSE 0
  BY DEF PlainInv, OnlyPlain, OrdersPlain, CreditPlain, Ordered, Holding, GrantLease, OrderType
<1>2. lent \in Nat /\ (b = Plugin => q <= lent)
  BY <1>1, RequirementIsNat, RequirementCovers, WorkerAssumption
<1>3. Committed(usage[b]) + lent <= EffectiveLimit(Config, closedProfit)
  BY DEF GrantLease, Admits, BudgetOk
<1>4. Claims + credit <= SumFunction(HeldIn(usage[b].rows)) + PendingQuote
  BY <1>1 DEF ReadCovers
<1>5. Claims' = Claims + q
  <2>1. /\ FlyingOf(pc, order)[b] = 0 /\ FlyingOf(pc', order')[b] = q
        /\ \A x \in Buyers \ {b} : FlyingOf(pc, order)[x] = FlyingOf(pc', order')[x]
    BY <1>1 DEF FlyingOf, GrantLease, Goto
  <2>2. /\ FlyingOf(pc, order) \in [Buyers -> Int] /\ FlyingOf(pc', order') \in [Buyers -> Int]
        /\ SumFunction(FlyingOf(pc, order)) \in Int /\ SumFunction(FlyingOf(pc', order')) \in Int
        /\ SumFunction(SpentOf(ledger)) \in Int /\ ledger' = ledger
    BY FlyingTyped, SpentTyped DEF GrantLease, durable
  <2>3. SumFunction(FlyingOf(pc', order'))
          = SumFunction(FlyingOf(pc, order)) - FlyingOf(pc, order)[b] + FlyingOf(pc', order')[b]
    BY <2>1, <2>2, FiniteAssumption, SumUpdate
  <2> QED
    BY <1>1, <2>1, <2>2, <2>3 DEF Claims
<1>6. /\ Claims \in Int /\ PendingQuote \in Int /\ SumFunction(HeldIn(usage[b].rows)) \in Int
      /\ Committed(usage[b]) \in Int
      /\ SumFunction(HeldIn(usage[b].rows)) + PendingQuote <= Committed(usage[b])
  <2>1. usage[b] \in UsageType /\ usage[b].rows \in [Symbols -> RowType]
    BY DEF UsageType
  <2>2. SumFunction(SpentOf(ledger)) \in Int /\ SumFunction(FlyingOf(pc, order)) \in Int
    BY SpentTyped, FlyingTyped
  <2> QED
    BY <2>1, <2>2, PendingTyped, HeldTyped, CommittedCovers DEF Claims
<1>7. /\ EffectiveLimit(Config, closedProfit) <= Config.principal + Config.stretchMax
      /\ EffectiveLimit(Config, closedProfit) \in Int
  BY LimitBounded
<1> HIDE DEF q, credit, lent
<1> QED
  BY <1>1, <1>2, <1>3, <1>4, <1>5, <1>6, <1>7, SettingsAssumption

\* The sums of the claims are integers.
LEMMA ClaimsTyped ==
    ASSUME TypeInv, TypeInv'
    PROVE  Claims \in Int /\ Claims' \in Int
<1>1. /\ ledger \in [Symbols -> [spent : Nat, so : Nat]]
      /\ ledger' \in [Symbols -> [spent : Nat, so : Nat]]
      /\ order \in [Buyers -> OrderType] /\ order' \in [Buyers -> OrderType]
  BY DEF TypeInv, TypeOK
<1>2. /\ SumFunction(SpentOf(ledger)) \in Int /\ SumFunction(SpentOf(ledger')) \in Int
      /\ SumFunction(FlyingOf(pc, order)) \in Int /\ SumFunction(FlyingOf(pc', order')) \in Int
  BY <1>1, SpentTyped, FlyingTyped
<1> QED
  BY <1>2 DEF Claims

\* A check goes on with the rows it has read until it decides.
LEMMA RowsOnceRead ==
    ASSUME TypeInv, [Next]_vars, NEW b \in Buyers, pc'[b] \in {"ledger", "decide"}
    PROVE  \/ ReadOpenTrades(b)
           \/ /\ pc[b] \in {"ledger", "decide"}
              /\ usage'[b].rows = usage[b].rows /\ order'[b] = order[b]
<1> USE DEF TypeInv, TypeOK, durable, Goto, Holding, InFlight, TickPCs
<1> USE WorkerAssumption
<1> DEFINE kept == /\ pc[b] \in {"ledger", "decide"}
                   /\ usage'[b].rows = usage[b].rows /\ order'[b] = order[b]
<1>1. ASSUME NEW o \in Buyers, BuyStep(o), ~ReadOpenTrades(b)
      PROVE  kept
  <2>1. CASE o = b
    BY <1>1, <2>1 DEF BuyStep, Acquire, ReadTrades, GrantLease, RefuseLease,
       UsageUnavailable, Finish, GiveUp, AfterBuy,
       ExchangeFills, ExchangeFails, PersistBuy, ReleaseLease, UsageType
  <2>2. CASE o # b
    BY <1>1, <2>2 DEF BuyStep, Acquire, ReadOpenTrades, ReadTrades, GrantLease, RefuseLease,
       UsageUnavailable, Finish,
       GiveUp, AfterBuy, ExchangeFills, ExchangeFails, PersistBuy, ReleaseLease
  <2> QED
    BY <2>1, <2>2
<1>2. ASSUME NEW o \in Buyers, Incoming(o)
      PROVE  kept
  BY <1>2 DEF Incoming, SignalBuy, ManualBuy, ActivateBuy, Submit
<1>3. ASSUME WorkerStep
      PROVE  kept
  BY <1>3 DEF WorkerStep, TickReentry, TickSidestepExit, TickSafetyOrder, TickWithoutOrder,
     TickReturn, TickDone,
     CheckSoCount, CheckCost, WriteSoCount, WriteCost, Submit
<1>4. ASSUME NEW o \in Buyers, CancelTask(o)
      PROVE  kept
  BY <1>4 DEF CancelTask, GiveUp, AfterBuy
<1>5. ASSUME Environment, ~\E o \in Buyers : CancelTask(o)
      PROVE  kept
  BY <1>5 DEF Environment, TickStart, CloseTrade, StopTrade, StopCampaign, Restart
<1>6. CASE UNCHANGED vars
  BY <1>6 DEF vars
<1> QED
  BY <1>1, <1>2, <1>3, <1>4, <1>5, <1>6 DEF Next

\* ReadCovers is inductive: between the read of the rows and the decision claims fall,
\* and the pending total stands.
LEMMA ReadCoversStep ==
    ASSUME PlainBuys, TypeInv, OwnerInv, PlainInv, ReadCovers,
           TypeInv', OwnerInv', PlainInv', [Next]_vars
    PROVE  ReadCovers'
<1> USE DEF TypeInv, TypeOK, Holding, durable, Goto
<1> USE WorkerAssumption
<1> SUFFICES ASSUME NEW b \in Buyers, pc'[b] \in {"ledger", "decide"}
             PROVE  Claims' + Credit(usage[b], order[b].symbol)'
                      <= SumFunction(HeldIn(usage'[b].rows)) + PendingQuote'
  BY DEF ReadCovers
<1>1. \/ ReadOpenTrades(b)
      \/ /\ pc[b] \in {"ledger", "decide"} /\ usage'[b].rows = usage[b].rows /\ order'[b] = order[b]
         /\ lock = b /\ lock' = b /\ ~\E o \in Buyers : GrantLease(o)
  <2>1. CASE ReadOpenTrades(b)
    BY <2>1
  <2>2. CASE /\ pc[b] \in {"ledger", "decide"}
             /\ usage'[b].rows = usage[b].rows /\ order'[b] = order[b]
    <3>1. lock = b /\ lock' = b /\ \A o \in Buyers : pc[o] \in Holding => o = b
      BY <2>2 DEF OwnerInv, LockOwned
    <3>2. ASSUME NEW o \in Buyers, GrantLease(o)
          PROVE  FALSE
      BY <3>1, <3>2 DEF GrantLease
    <3> QED
      BY <2>2, <3>1, <3>2
  <2> QED
    BY <2>1, <2>2, RowsOnceRead
<1>2. CASE ReadOpenTrades(b)
  <2>1. pc[b] = "open" /\ usage'[b].rows = rows /\ order' = order /\ PendingQuote' = PendingQuote
    BY <1>2 DEF ReadOpenTrades, PendingQuote, UsageType
  <2>2. Claims' <= Claims
    <3>1. ~\E o \in Buyers : GrantLease(o)
      BY <1>2, <2>1 DEF ReadOpenTrades, GrantLease, OwnerInv, LockOwned
    <3> QED
      BY <3>1, ClaimsFall
  <2>3. Claims + (IF b = Worker THEN order[b].quote ELSE 0)
          <= SumFunction(HeldIn(rows)) + PendingQuote
    BY <2>1, BackedWhenRead
  <2>4. Credit(usage[b], order[b].symbol)' = IF b = Worker THEN order[b].quote ELSE 0
    BY <2>1 DEF PlainInv, CreditPlain
  <2>5. Claims \in Int /\ Claims' \in Int
    BY ClaimsTyped
  <2>6. PendingQuote \in Int /\ SumFunction(HeldIn(rows)) \in Int /\ order[b].quote \in Nat
    BY PendingTyped, HeldTyped DEF OrderType
  <2> QED
    BY <2>1, <2>2, <2>3, <2>4, <2>5, <2>6
<1>3. CASE /\ pc[b] \in {"ledger", "decide"}
           /\ usage'[b].rows = usage[b].rows /\ order'[b] = order[b]
           /\ lock = b /\ lock' = b /\ ~\E o \in Buyers : GrantLease(o)
  <2>1. Claims' <= Claims
    BY <1>3, ClaimsFall
  <2>2. PendingQuote' = PendingQuote
    BY <1>3, PendingKept
  <2>3. Credit(usage[b], order[b].symbol)' = Credit(usage[b], order[b].symbol)
    BY <1>3 DEF Credit
  <2>4. Claims + Credit(usage[b], order[b].symbol)
          <= SumFunction(HeldIn(usage[b].rows)) + PendingQuote
    BY <1>3 DEF ReadCovers
  <2>5. Claims \in Int /\ Claims' \in Int
    BY ClaimsTyped
  <2>6. PendingQuote \in Int /\ SumFunction(HeldIn(usage[b].rows)) \in Int
    BY PendingTyped, HeldTyped DEF UsageType
  <2>7. Credit(usage[b], order[b].symbol) \in Int
    BY <1>3 DEF PlainInv, CreditPlain, OrderType
  <2> QED
    BY <1>3, <2>1, <2>2, <2>3, <2>4, <2>5, <2>6, <2>7
<1> QED
  BY <1>1, <1>2, <1>3

\* The inductive invariant of the limit.
LimitInv == PlainInv /\ ReadCovers /\ WithinLimit

\* At start-up nothing is claimed.
LEMMA LimitInit ==
    ASSUME PlainBuys
    PROVE  Init => LimitInv
<1> SUFFICES ASSUME Init PROVE LimitInv
  OBVIOUS
<1>1. TypeInv
  BY TypeInvInit
<1>2. ReadCovers
  BY DEF Init, ReadCovers
<1>3. Claims = 0
  <2>1. \A s \in Symbols : SpentOf(ledger)[s] = 0
    BY DEF Init, SpentOf, NoLedger
  <2>2. \A b \in Buyers : FlyingOf(pc, order)[b] = 0
    BY DEF Init, FlyingOf
  <2>3. SpentOf(ledger) \in [Symbols -> Int] /\ FlyingOf(pc, order) \in [Buyers -> Int]
    BY <1>1, SpentTyped, FlyingTyped DEF TypeInv, TypeOK
  <2>4. SumFunction(SpentOf(ledger)) = 0
    BY <2>1, <2>3, FiniteAssumption, SumOfZeros
  <2>5. SumFunction(FlyingOf(pc, order)) = 0
    BY <2>2, <2>3, FiniteAssumption, SumOfZeros
  <2> QED
    BY <2>4, <2>5 DEF Claims
<1>4. WithinLimit
  BY <1>3, SettingsAssumption DEF WithinLimit, PlainBuys
<1> QED
  BY <1>2, <1>4, PlainInit DEF LimitInv

\* Every step keeps the claims within the limit.
LEMMA LimitStep ==
    ASSUME PlainBuys
    PROVE  TypeInv /\ OwnerInv /\ LimitInv /\ [Next]_vars /\ TypeInv' /\ OwnerInv' => LimitInv'
<1> SUFFICES ASSUME TypeInv, OwnerInv, LimitInv, [Next]_vars, TypeInv', OwnerInv'
             PROVE  LimitInv'
  OBVIOUS
<1>1. PlainInv'
  BY PlainStep DEF LimitInv
<1>2. ReadCovers'
  BY <1>1, ReadCoversStep DEF LimitInv
<1>3. Claims' <= Config.principal + Config.stretchMax
  <2>1. CASE \E b \in Buyers : GrantLease(b)
    BY <2>1, GrantKeepsLimit DEF LimitInv
  <2>2. CASE ~\E b \in Buyers : GrantLease(b)
    <3>1. Claims' <= Claims
      BY <2>2, ClaimsFall DEF LimitInv
    <3>2. Claims \in Int /\ Claims' \in Int
      BY ClaimsTyped
    <3> QED
      BY <3>1, <3>2, SettingsAssumption DEF LimitInv, WithinLimit
  <2> QED
    BY <2>1, <2>2
<1> QED
  BY <1>1, <1>2, <1>3 DEF LimitInv, WithinLimit

\* The strengthened invariant holds in every reachable state.
LEMMA LimitInvariant ==
    ASSUME PlainBuys
    PROVE  Spec => [](TypeInv /\ OwnerInv /\ LimitInv)
<1>1. Init => LimitInv
  BY LimitInit
<1>2. TypeInv /\ OwnerInv /\ LimitInv /\ [Next]_vars /\ TypeInv' /\ OwnerInv' => LimitInv'
  BY LimitStep
<1> QED
  BY <1>1, <1>2, BudgetInvariant, PTL DEF Spec

\* What is spent or filled is claimed.
LEMMA ExposureClaimed ==
    ASSUME TypeInv
    PROVE  Exposure <= Claims /\ Exposure \in Int /\ Claims \in Int
<1> DEFINE filled == [b \in Buyers |-> IF pc[b] = "filled" THEN order[b].quote ELSE 0]
<1>1. order \in [Buyers -> OrderType] /\ ledger \in [Symbols -> [spent : Nat, so : Nat]]
  BY DEF TypeInv, TypeOK
<1>2. filled \in [Buyers -> Int] /\ \A b \in Buyers : filled[b] <= FlyingOf(pc, order)[b]
  BY <1>1 DEF FlyingOf, OrderType
<1>3. Exposure = SumFunction(SpentOf(ledger)) + SumFunction(filled)
  BY DEF Exposure, SpentOf
<1> HIDE DEF filled
<1>4. SumFunction(filled) <= SumFunction(FlyingOf(pc, order)) /\ SumFunction(filled) \in Int
  BY <1>1, <1>2, FlyingTyped, FiniteAssumption, SumMonotone, SumIsInt
<1> QED
  BY <1>1, <1>3, <1>4, SpentTyped, FlyingTyped DEF Claims

\* The money spent and the buys that have filled never exceed the principal and the
\* largest stretch (acquire_order_lease, capital_budget.py), whatever the worker, the signal
\* plugin, closes, cancellations and restarts interleave.
THEOREM LimitIsHard ==
    ASSUME PlainBuys
    PROVE  Spec => []HardLimit
<1>1. TypeInv /\ LimitInv => HardLimit
  BY ExposureClaimed, SettingsAssumption DEF LimitInv, WithinLimit, HardLimit
<1> QED
  BY <1>1, LimitInvariant, PTL

\* A check that decides has counted everything that is spent or filled by then
\* (_read_usage, capital_budget.py), although it read rows and trades at two moments before.
THEOREM UsageIsCovered ==
    ASSUME PlainBuys
    PROVE  Spec => []UsageCoversExposure
<1>1. TypeInv /\ LimitInv => UsageCoversExposure
  <2> SUFFICES ASSUME TypeInv, LimitInv, NEW b \in Buyers, pc[b] = "decide"
               PROVE  Committed(usage[b]) - Credit(usage[b], order[b].symbol) >= Exposure
    BY DEF UsageCoversExposure
  <2> DEFINE credit == Credit(usage[b], order[b].symbol)
  <2>1. Claims + credit <= SumFunction(HeldIn(usage[b].rows)) + PendingQuote
    BY DEF LimitInv, ReadCovers
  <2>2. usage[b] \in UsageType /\ usage[b].rows \in [Symbols -> RowType]
    BY DEF TypeInv, TypeOK, UsageType
  <2>3. /\ SumFunction(HeldIn(usage[b].rows)) + PendingQuote <= Committed(usage[b])
        /\ Committed(usage[b]) \in Int
        /\ SumFunction(HeldIn(usage[b].rows)) \in Int
        /\ PendingQuote \in Int
    BY <2>2, CommittedCovers, HeldTyped, PendingTyped
  <2>4. credit \in Int
    BY DEF LimitInv, PlainInv, CreditPlain, TypeInv, TypeOK, OrderType
  <2> HIDE DEF credit
  <2>5. Exposure <= Claims /\ Exposure \in Int /\ Claims \in Int
    BY ExposureClaimed
  <2> QED
    BY <2>1, <2>3, <2>4, <2>5 DEF credit
<1> QED
  BY <1>1, LimitInvariant, PTL
=============================================================================
