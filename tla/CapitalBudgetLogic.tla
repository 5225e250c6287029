------------------------ MODULE CapitalBudgetLogic ------------------------
(***************************************************************************)
(* The pure budget arithmetic of service/capital_budget_logic.py.          *)
(*                                                                         *)
(* Every operator takes the config snapshot c it is evaluated against.     *)
(* Quotes are integers counted in the unit the code rounds to (1e-8 of     *)
(* the quote currency), so round(..., 8) is exact here and the EPSILON of  *)
(* the final comparison is left out.                                       *)
(***************************************************************************)
EXTENDS Integers, FiniteSets, Functions

NonNegative(q) == IF q > 0 THEN q ELSE 0

Smaller(a, b) == IF a < b THEN a ELSE b

\* The rows of OpenTrades, as far as the budget reads them.
ExposureStates == {"none", "long", "waiting"}

Row(state, cost, so, reserved) ==
    [state |-> state, cost |-> cost, so |-> so, reserved |-> reserved]

NoRow == Row("none", 0, 0, 0)

(***************************************************************************)
(* The limit: principal plus the bounded part of realised profit that      *)
(* Autopilot may reinvest.                                                 *)
(***************************************************************************)
ProfitStretch(c, closedProfit) ==
    IF c.autopilot /\ c.stretchEnabled /\ c.stretchRatioPct > 0 /\ c.stretchMax > 0
    THEN Smaller((NonNegative(closedProfit) * c.stretchRatioPct) \div 100,
                 c.stretchMax)
    ELSE 0

EffectiveLimit(c, closedProfit) == c.principal + ProfitStretch(c, closedProfit)

(***************************************************************************)
(* The reserve: what the safety orders soCount+1..mstc of one deal would   *)
(* still cost.  The dynamic ladder repeats a unit, the static ladder       *)
(* scales its k-th order by os^k.                                          *)
(***************************************************************************)
Rung(c, k) == c.so * c.os ^ k

StaticLadder(c, soCount) ==
    SumFunction([k \in soCount .. (c.mstc - 1) |-> Rung(c, k)])

RemainingReserve(c, soCount, unit) ==
    IF soCount >= c.mstc THEN 0
    ELSE IF c.dynamicDca THEN unit * (c.mstc - soCount)
    ELSE StaticLadder(c, soCount)

TradeReserve(c, row) ==
    CASE row.state = "waiting" -> row.reserved
      [] row.state = "long" /\ c.reserveSO -> RemainingReserve(c, row.so, c.bo)
      [] OTHER -> 0

OpenTradeReserve(c, rows) ==
    SumFunction([s \in DOMAIN rows |-> TradeReserve(c, rows[s])])

FullTradeBudget(c, quote) == quote + RemainingReserve(c, 0, quote)

(***************************************************************************)
(* What one order adds to the committed capital.  A base order of a        *)
(* waiting mission is credited with the quote that mission already         *)
(* reserves; a safety order with the rung of the ladder it executes.       *)
(***************************************************************************)
\* A mistake the properties must catch: the delta is not clamped at zero.
UnclampedDelta(c, order) ==
    order.quote - (RemainingReserve(c, order.count - 1, c.bo)
                    - RemainingReserve(c, order.count, c.bo))

SafetyOrderDelta(c, order) ==
    LET before == RemainingReserve(c, order.count - 1, c.bo)
        after  == RemainingReserve(c, order.count, c.bo)
    IN  NonNegative(order.quote - NonNegative(before - after))

BudgetRequirement(c, order, credit) ==
    IF order.base /\ credit > 0 THEN NonNegative(order.quote - credit)
    ELSE IF ~c.reserveSO THEN order.quote
    ELSE IF order.base THEN FullTradeBudget(c, order.quote)
    ELSE SafetyOrderDelta(c, order)

WithBuffer(c, required) ==
    IF c.dynamicDca THEN required + (required * c.bufferPct) \div 100 ELSE required

(***************************************************************************)
(* The verdict: a limit that is not positive and an order without a quote  *)
(* always refuse.  The case of a config without a limit key is left out:   *)
(* the defaults of service/config.py put the key into every snapshot.      *)
(***************************************************************************)
BudgetOk(c, order, credit, committed, closedProfit) ==
    /\ c.principal > 0
    /\ order.quote > 0
    /\ committed + WithBuffer(c, BudgetRequirement(c, order, credit))
         <= EffectiveLimit(c, closedProfit)
===========================================================================
