------------------------------ MODULE MCAdmission ------------------------------
(***************************************************************************)
(* What decides whether a new deal may start: the admission of signals, and *)
(* the three parts of the autopilot behind its limit and its ranking. They  *)
(* meet in numbers only, which admission takes as any limit at any time, so *)
(* a behaviour of this instance is one of one of them.                      *)
(***************************************************************************)
EXTENDS MCSignalAdmission

CONSTANTS
    Ramp, Recent, MinRamp, MinRampWins, MinRecentWins, Confirm, Release,  \* green phase
    MaxDeals, SafetyOrders, MaxFund, MaxLocked, High, Medium, LowBots, MediumBots, HighBots,
    Balances,                                                             \* the deal limit
    MaxExtra,                                                             \* of both
    Coins, Required, MinCloses, Confident, StaleAfter, Baseline, MaxEvents,  \* memory
    MaxTime, MaxCloses, LastDay, MaxHistory   \* bounds of the green phase, of the memory

\* Cycles are clamped to one at least (green_phase_logic.py 83-90); the rest are counts.
ASSUME AdmissionAssumption ==
    /\ Ramp \in Nat /\ Recent \in Nat
    /\ Confirm \in Nat \ {0} /\ Release \in Nat \ {0}
    /\ SafetyOrders \in Nat /\ MaxFund \in Nat /\ MaxExtra \in Nat
    /\ Balances \subseteq Nat
    /\ StaleAfter \in Nat

VARIABLES
    part,
    now, closes, on, reading, state, confirm, release, entering, leaving,
    enabled, deals, quote, green, run, mode, grant, crossed,
    clock, history, trust, refresh, mem, profiles, stored, log, failed, unmarked

Green == INSTANCE GreenPhase
Pilot == INSTANCE Autopilot

Memory == INSTANCE SymbolMemory WITH
    Symbols <- Coins, MaxCloses <- MaxHistory, MaxTime <- LastDay,
    now <- clock, closes <- history, on <- trust, run <- refresh

greenVars == <<now, closes, on, reading, state, confirm, release, entering, leaving>>
autoVars == <<enabled, deals, quote, green, run, mode, grant, crossed>>
memoryVars == <<clock, history, trust, refresh, mem, profiles, stored, log, failed, unmarked>>

MCInit ==
    /\ part \in {"admission", "green", "auto", "memory"}
    /\ Init /\ Green!Init /\ Pilot!Init /\ Memory!Init
    /\ part # "admission" => plugin = "asap"
    /\ part # "green" => on
    /\ part # "auto" => enabled /\ quote = 3
    /\ part # "memory" => trust

\* A step A of one part leaves the others alone.
OfAdmission(A) == A /\ UNCHANGED <<part, greenVars, autoVars, memoryVars>>
OfGreen(A) == A /\ UNCHANGED <<part, vars, autoVars, memoryVars>>
OfAuto(A) == A /\ UNCHANGED <<part, vars, greenVars, memoryVars>>
OfMemory(A) == A /\ UNCHANGED <<part, vars, greenVars, autoVars>>

MCNext ==
    \/ part = "admission" /\ OfAdmission(Next)
    \/ part = "green" /\ OfGreen(Green!Next)
    \/ part = "auto" /\ OfAuto(Pilot!Next)
    \/ part = "memory" /\ OfMemory(Memory!Next)

MCSpec == MCInit /\ [][MCNext]_<<part, vars, greenVars, autoVars, memoryVars>>

Hysteresis == Green!Hysteresis
ExtraDealsFunded == Pilot!ExtraDealsFunded
TrustBacked == Memory!TrustBacked
===============================================================================
