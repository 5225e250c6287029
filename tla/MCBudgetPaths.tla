--------------------------- MODULE MCBudgetPaths ---------------------------
(***************************************************************************)
(* The buy path under the settings of the cfg, a ladder of safety orders    *)
(* or missions held to the limit, and, beside it, sidestep missions on a    *)
(* budget that profit stretches while the operator activates and stops.     *)
(***************************************************************************)
EXTENDS MCCapitalBudget

CONSTANT Scenarios  \* the scenarios a run starts from

VARIABLE scenario

\* The missions take no dashboard buys and no safety orders.
Sidestep == INSTANCE CapitalBudget WITH
    Config <- StretchConfig, SidestepDeals <- Symbols, BaselineSizes <- EntrySizes,
    ManualSizes <- {}, DynamicSizes <- {}, PriceMoves <- {0, 2}, ExitMoves <- {2},
    SpendBound <- 4, PluginReloads <- TRUE, DashboardCalls <- {"activate", "stop"}

PathsInit == scenario \in Scenarios /\ Init

PathsNext ==
    \/ scenario = "plain" /\ Next /\ UNCHANGED scenario
    \/ scenario = "sidestep" /\ Sidestep!Next /\ UNCHANGED scenario

PathsSpec == PathsInit /\ [][PathsNext]_<<vars, scenario>>

FairPathsSpec == PathsSpec /\ Fairness
=============================================================================
