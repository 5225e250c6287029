------------------------------- MODULE MCTrading -------------------------------
(***************************************************************************)
(* What a deal lives through after it is bought: its sale, its standing    *)
(* take-profit order, its mission and the rules of its exits. A behaviour  *)
(* of this instance is one of one of them. Safety is checked on the larger *)
(* instances, that fills are booked and waiting ends on the smaller ones.  *)
(***************************************************************************)
EXTENDS MCSpotSell

CONSTANTS
    MaxOrders, MaxDeals, Size, MaxRequests, MaxCrashes,    \* standing orders
    MaxCampaigns, MaxLegs, Profits, MaxSwitches,           \* missions
    Configs, Prices, Realized, MaxTrades, MaxTicks, MaxTime \* exits

ASSUME TradingAssumption ==
    /\ Size \in Nat /\ MaxRequests \in Nat
    /\ MaxCampaigns \in Nat /\ Profits \subseteq Int
    /\ MaxTicks \in Nat \ {0}
    /\ \A c \in Configs : /\ c.seconds \in Nat /\ c.ticks \in Nat /\ c.ticks <= MaxTicks
                          /\ c.trailing \in Nat /\ c.confirm \in BOOLEAN

VARIABLES
    part,
    row, deals, orders, lock, actor, placed, closings, fills, lost, stale, requests, crashes,
    mission, camps, last, sidestep, switches, task, legs, held, earned, summed, crossed,
    config, trade, opened, now, pending, peak, armed, above, exit

Order == INSTANCE TpLimitOrder WITH booked <- fills

OneOrder == INSTANCE TpLimitOrder WITH
    MaxOrders <- 1, MaxDeals <- 1, Size <- 1, MaxRequests <- 1, MaxCrashes <- 0,
    booked <- fills

Mission == INSTANCE Missions WITH row <- mission, actor <- task, closed <- summed

OneMission == INSTANCE Missions WITH
    MaxCampaigns <- 1, MaxSwitches <- 0, row <- mission, actor <- task, closed <- summed

Exits == INSTANCE ExitRules WITH MaxDeals <- MaxTrades, deals <- opened, deal <- trade

Plain == [name |-> "ladder", tp |-> 10, sl |-> 10, trailing |-> 0, confirm |-> FALSE,
          seconds |-> 0, ticks |-> 0, strategy |-> FALSE, dynamic |-> TRUE, max |-> 3,
          step |-> 5, scale |-> 1, timeout |-> 0]
Confirm == [Plain EXCEPT !.name = "confirm", !.confirm = TRUE, !.seconds = 1, !.max = 1]

ExitSettings ==
    {Plain, [Confirm EXCEPT !.ticks = 2], [Confirm EXCEPT !.tp = 5],
     [Plain EXCEPT !.name = "static", !.dynamic = FALSE, !.scale = 2, !.strategy = TRUE],
     [Plain EXCEPT !.name = "old", !.max = 1, !.timeout = 1],
     [Plain EXCEPT !.name = "trail", !.max = 1, !.trailing = 4]}

orderVars == <<row, deals, orders, lock, actor, placed, closings, fills, lost, stale,
               requests, crashes>>
missionVars == <<mission, camps, last, sidestep, switches, task, legs, held, earned, summed,
                 crossed>>
exitVars == <<config, trade, opened, now, pending, peak, armed, above, exit>>

MCInit ==
    /\ part \in {"sell", "order", "one order", "mission", "one mission", "exit"}
    /\ Init
    /\ IF part = "one order" THEN OneOrder!Init ELSE Order!Init
    /\ IF part = "one mission" THEN OneMission!Init ELSE Mission!Init
    /\ Exits!Init
    /\ part # "sell" => bought = 5
    /\ part # "exit" => config = Plain
    /\ part # "mission" => sidestep = (part = "one mission")

\* A step A of one part leaves the others alone.
OfSell(A) == A /\ UNCHANGED <<part, orderVars, missionVars, exitVars>>
OfOrder(A) == A /\ UNCHANGED <<part, vars, missionVars, exitVars>>
OfMission(A) == A /\ UNCHANGED <<part, vars, orderVars, exitVars>>
OfExits(A) == A /\ UNCHANGED <<part, vars, orderVars, missionVars>>

MCNext ==
    \/ part = "sell" /\ OfSell(Next)
    \/ part = "order" /\ OfOrder(Order!Next)
    \/ part = "one order" /\ OfOrder(OneOrder!Next)
    \/ part = "mission" /\ OfMission(Mission!Next)
    \/ part = "one mission" /\ OfMission(OneMission!Next)
    \/ part = "exit" /\ OfExits(Exits!Next)

Fairness ==
    /\ WF_vars(part = "sell" /\ SellStep)
    /\ WF_orderVars(part = "one order" /\ OneOrder!WorkerStep)
    /\ WF_orderVars(part = "one order" /\ OneOrder!DashStep)
    /\ SF_orderVars(part = "one order" /\ OneOrder!Reconcile)
    /\ WF_missionVars(part = "one mission" /\ OneMission!WorkerStep)
    /\ SF_missionVars(part = "one mission" /\ OneMission!Reenter)
    /\ SF_missionVars(part = "one mission" /\ OneMission!BuyFills("worker"))
    /\ WF_missionVars(part = "one mission" /\ OneMission!CoolDown(1))

MCSpec ==
    MCInit /\ [][MCNext]_<<part, vars, orderVars, missionVars, exitVars>> /\ Fairness

OrdersTracked == part = "order" => Order!OrdersTracked
SellsAlone == part = "order" => Order!SellsAlone
BookedOnce == part = "order" => Order!BookedOnce
FillsAreBooked == part = "one order" => OneOrder!FillsAreBooked
MissionsAgree == part = "mission" => Mission!MissionsAgree
MissionBookedOnce == part = "mission" => Mission!MissionBookedOnce
WaitingEnds == part = "one mission" => OneMission!WaitingEnds
SpikesFiltered == Exits!SpikesFiltered
TrailsOwnPeak == Exits!TrailsOwnPeak
ClosedProfitIsRealized == part = "mission" => Mission!ClosedProfitIsRealized
===============================================================================
