-------------------------- MODULE MCCapitalBudget --------------------------
(***************************************************************************)
(* Small configurations of the capital budget for TLC.                     *)
(***************************************************************************)
EXTENDS CapitalBudget

Base == [principal |-> 5, reserveSO |-> FALSE, bufferPct |-> 0, dynamicDca |-> FALSE,
         autopilot |-> FALSE, stretchEnabled |-> FALSE, stretchRatioPct |-> 0,
         stretchMax |-> 0, mstc |-> 0, bo |-> 2, so |-> 1, os |-> 2]

\* Autopilot reinvests half of the profit, at most 1.
StretchConfig == [Base EXCEPT !.principal = 3, !.autopilot = TRUE, !.stretchEnabled = TRUE,
                              !.stretchRatioPct = 50, !.stretchMax = 1]

\* A static ladder of two safety orders.
LadderConfig == [Base EXCEPT !.mstc = 2]

\* A dynamic ladder of one safety order, reserved and buffered by half.
DynamicConfig == [Base EXCEPT !.mstc = 1, !.dynamicDca = TRUE, !.reserveSO = TRUE,
                              !.bufferPct = 50, !.principal = 6]

NoMoves == {0}
Moves == {-1, 0, 2}
============================================================================
