------------------------------- MODULE Autopilot -------------------------------
(***************************************************************************)
(* The runtime state of the autopilot: how much of the fund is locked sets  *)
(* its mode and the base limit of deals, and a green phase may raise the    *)
(* limit by extra deals as far as the guardrails find them funded. Each     *)
(* resolution reads the open deals first and the free balance after them.   *)
(* Every order costs one unit; dynamic DCA keeps that size.                 *)
(***************************************************************************)
EXTENDS Naturals, FiniteSets, Functions

CONSTANTS MaxDeals,          \* bound: deals open at once
          SafetyOrders,      \* safety orders of a deal
          MaxFund,           \* the configured fund
          MaxLocked,         \* the locked percentage extra deals must stay below
          High, Medium,      \* thresholds of the modes, in percent
          LowBots, MediumBots, HighBots,   \* deal limits of the modes
          MaxExtra,          \* extra deals the settings allow
          Balances           \* what the account may start with

VARIABLES
    enabled,     \* the autopilot is on
    deals,       \* open deals, counted by the safety orders they have bought
    quote,       \* free quote
    green,       \* extra deals the green phase recommends, none when there is no phase
    run,         \* a resolution under way
    mode,        \* the mode this process remembers
    grant,       \* what the last resolution allows: the limit, and how many are extra
    crossed      \* history: another deal opened since its reads, or it guessed the balance

autoVars == <<enabled, deals, quote, green, run, mode, grant, crossed>>

NoGrant == [limit |-> 0, extra |-> 0]
Idle == [pc |-> "idle", mode |-> "none", base |-> 0, locked |-> 0, reserve |-> 0, extra |-> 0]

Init ==
    /\ enabled \in BOOLEAN
    /\ deals = [n \in 0 .. SafetyOrders |-> 0] /\ quote \in Balances /\ green = 0
    /\ run = Idle /\ mode = "unset"
    /\ grant = NoGrant /\ crossed = FALSE

-----------------------------------------------------------------------------
\* What the open deals cost so far, and what their remaining safety orders will.
OverDeals(cost) == SumFunction([n \in 0 .. SafetyOrders |-> deals[n] * cost[n]])
OpenDeals == OverDeals([n \in 0 .. SafetyOrders |-> 1])
FundsLocked == OverDeals([n \in 0 .. SafetyOrders |-> 1 + n])
RemainingReserve(n) == SafetyOrders - n
OpenReserve == OverDeals([n \in 0 .. SafetyOrders |-> RemainingReserve(n)])
FullTradeBudget == 1 + RemainingReserve(0)

\* The first threshold that is reached, from the highest.
Mode(locked) ==
    CASE 100 * locked >= High * MaxFund -> "high"
      [] 100 * locked < High * MaxFund /\ 100 * locked >= Medium * MaxFund -> "medium"
      [] OTHER -> "low"
BaseBots(m) ==
    CASE m = "high" -> HighBots [] m = "medium" -> MediumBots [] OTHER -> LowBots

\* A mistake: the safety orders of the deals that are open are forgotten.
FundedAlone(e, locked, reserve, free) ==
    /\ 100 * (locked + e) <= MaxLocked * MaxFund
    /\ free >= e * FullTradeBudget

\* As many extra deals as neither lock too much of the fund nor lack their budget.
Funded(e, locked, reserve, free) ==
    /\ 100 * (locked + e) <= MaxLocked * MaxFund
    /\ free >= reserve + e * FullTradeBudget
Granted(wanted, locked, reserve, free) ==
    LET most == IF wanted < MaxExtra THEN wanted ELSE MaxExtra
        fit == {e \in 1 .. most : Funded(e, locked, reserve, free)}
    IN  IF fit = {} THEN 0 ELSE CHOOSE e \in fit : \A f \in fit : f <= e

\* A limit of zero counts as no limit of the mode.
Limit(m, extra) == LET bots == BaseBots(m) + extra IN IF bots = 0 THEN LowBots ELSE bots

-----------------------------------------------------------------------------
\* A resolution without the autopilot ends at once; the mode is none.
ResolveOff ==
    /\ run.pc = "idle" /\ ~enabled
    /\ grant' = [limit |-> LowBots, extra |-> 0]
    /\ crossed' = FALSE
    /\ run' = [Idle EXCEPT !.pc = "persist"]
    /\ UNCHANGED <<enabled, deals, quote, green, mode>>

\* With it, the locked funds give the mode; the phase is consulted with the reserve of the
\* open deals,
Resolve ==
    /\ run.pc = "idle" /\ enabled
    /\ run' = [pc |-> "balance", mode |-> Mode(FundsLocked), base |-> BaseBots(Mode(FundsLocked)),
               locked |-> FundsLocked, reserve |-> OpenReserve, extra |-> green]
    /\ crossed' = FALSE
    /\ UNCHANGED <<enabled, deals, quote, green, mode, grant>>

\* and then with the free balance, or the unlocked fund when that is not known; without a
\* phase neither matters.
Guardrails == \E free \in {quote, MaxFund - run.locked} :
    /\ run.pc = "balance"
    /\ free = quote \/ run.locked <= MaxFund
    /\ LET e == Granted(run.extra, run.locked, run.reserve, free)
       IN  grant' = [limit |-> Limit(run.mode, e), extra |-> e]
    /\ crossed' = (crossed \/ free > quote)
    /\ run' = [run EXCEPT !.pc = "persist"]
    /\ UNCHANGED <<enabled, deals, quote, green, mode>>

\* A changed mode is remembered, and then its row is written; when that fails, so does the
\* resolution, but the next one finds the mode unchanged.
PersistMode ==
    /\ run.pc = "persist"
    /\ mode' = run.mode
    /\ run' = [run EXCEPT !.pc = IF run.mode = mode THEN "done" ELSE "write"]
    /\ UNCHANGED <<enabled, deals, quote, green, grant, crossed>>

WriteMode ==
    /\ run.pc = "write"
    /\ run' = [run EXCEPT !.pc = "done"]
    /\ UNCHANGED <<enabled, deals, quote, green, mode, grant, crossed>>

WriteFails ==
    /\ run.pc = "write"
    /\ run' = Idle
    /\ UNCHANGED <<enabled, deals, quote, green, mode, grant, crossed>>

-----------------------------------------------------------------------------
\* An admitted deal opens within the limit of the resolution it was admitted by.
Opened == [deals EXCEPT ![0] = @ + 1]
OpenDeal ==
    /\ run.pc = "done" /\ quote >= 1 /\ OpenDeals < MaxDeals
    /\ OpenDeals < grant.limit
    /\ deals' = Opened /\ quote' = quote - 1
    /\ run' = Idle
    /\ UNCHANGED <<enabled, green, mode, grant, crossed>>

\* A resolution that opens nothing, or serves a tick or a chart.
Discard ==
    /\ run.pc = "done"
    /\ run' = Idle
    /\ UNCHANGED <<enabled, deals, quote, green, mode, grant, crossed>>

\* A deal of the dashboard needs no admission.
ManualDeal ==
    /\ quote >= 1 /\ OpenDeals < MaxDeals
    /\ deals' = Opened /\ quote' = quote - 1 /\ crossed' = TRUE
    /\ UNCHANGED <<enabled, green, run, mode, grant>>

BuySafetyOrder == \E n \in 0 .. SafetyOrders - 1 :
    /\ deals[n] > 0 /\ quote >= 1
    /\ deals' = [deals EXCEPT ![n] = @ - 1, ![n + 1] = @ + 1]
    /\ quote' = quote - 1
    /\ UNCHANGED <<enabled, green, run, mode, grant, crossed>>

CloseDeal == \E n \in 0 .. SafetyOrders :
    /\ deals[n] > 0
    /\ deals' = [deals EXCEPT ![n] = @ - 1]
    /\ quote' = quote + 1 + n
    /\ UNCHANGED <<enabled, green, run, mode, grant, crossed>>

\* The green phase comes and goes, the autopilot is switched, the process restarts.
GreenPhaseChanges ==
    /\ green' \in 0 .. MaxExtra
    /\ UNCHANGED <<enabled, deals, quote, run, mode, grant, crossed>>
Switch ==
    /\ enabled' = ~enabled
    /\ UNCHANGED <<deals, quote, green, run, mode, grant, crossed>>
Restart ==
    /\ run' = Idle /\ mode' = "unset"
    /\ UNCHANGED <<enabled, deals, quote, green, grant, crossed>>

Next ==
    \/ ResolveOff \/ Resolve \/ Guardrails
    \/ PersistMode \/ WriteMode \/ WriteFails
    \/ OpenDeal \/ Discard \/ ManualDeal \/ BuySafetyOrder \/ CloseDeal
    \/ GreenPhaseChanges \/ Switch \/ Restart

-----------------------------------------------------------------------------
\* An extra deal leaves enough: after it opens, the free quote covers every safety order the
\* open deals may still buy, unless a deal of the dashboard came between or the balance was
\* not known (green_phase_logic.py 285-336).
ExtraDealsFunded == [][
    /\ run.pc = "done" /\ run'.pc = "idle" /\ deals' # deals
    /\ grant.extra > 0 /\ ~crossed
    => quote' >= OpenReserve']_autoVars
===============================================================================
