------------------------------ MODULE GreenPhase ------------------------------
(***************************************************************************)
(* The detection of a green phase: profitable deals that close faster than  *)
(* usual. Every evaluation reads the closed deals of the ramp window,        *)
(* compares the recent window with it, and enters or leaves the phase only   *)
(* after several evaluations agree. Speeds are compared by their products.   *)
(***************************************************************************)
EXTENDS Naturals, FiniteSets

CONSTANTS Ramp, Recent,            \* the windows, in units of time
          MinRamp, MinRampWins,    \* closes, and profitable ones, a ramp needs
          MinRecentWins,           \* profitable closes a recent window needs
          Confirm, Release,        \* evaluations that must agree to enter and to leave
          MaxExtra,                \* extra deals the settings allow
          MaxTime, MaxCloses       \* bounds: time, closed deals

VARIABLES
    now,        \* the time
    closes,     \* closed deals, sidestep exits left out: when, and whether at a profit
    on,         \* the phase is enabled in the configuration
    reading,    \* an evaluation that waits for its rows, with the time it noted
    state,      \* the published state: ready, detected, extra deals
    confirm,    \* the two counters
    release,
    entering,   \* history: promising evaluations in a row
    leaving     \* history: fading ones

greenVars == <<now, closes, on, reading, state, confirm, release, entering, leaving>>

NoState == [ready |-> FALSE, detected |-> FALSE, extra |-> 0]
Idle == [pc |-> "idle", at |-> 0]

Init ==
    /\ now = 1 /\ closes = {} /\ on \in BOOLEAN
    /\ reading = Idle /\ state = NoState
    /\ confirm = 0 /\ release = 0 /\ entering = 0 /\ leaving = 0

-----------------------------------------------------------------------------
Wins(rows) == Cardinality({c \in rows : c.win})
RampRows(rows, at) == {c \in rows : c.at + Ramp >= at}
RecentRows(rows, at) == {c \in rows : c.at + Recent >= at}

RampReady(rows, at) ==
    LET ramp == RampRows(rows, at)
    IN  Cardinality(ramp) >= MinRamp /\ Wins(ramp) >= MinRampWins

\* The speeds of the two windows over a common denominator.
RecentSpeed(rows, at) == Wins(RecentRows(rows, at)) * Ramp
BaselineSpeed(rows, at) == Wins(RampRows(rows, at)) * Recent

\* At least four of five recent closes are profitable.
GoodRatio(rows, at) ==
    LET recent == RecentRows(rows, at)
    IN  recent # {} /\ 10 * Wins(recent) >= 8 * Cardinality(recent)

\* Faster by the half: promising. Not even faster by 15 %: fading.
EnterCandidate(rows, at) ==
    /\ Wins(RecentRows(rows, at)) >= MinRecentWins
    /\ 2 * RecentSpeed(rows, at) >= 3 * BaselineSpeed(rows, at)
    /\ GoodRatio(rows, at)
ExitCandidate(rows, at) ==
    \/ 100 * RecentSpeed(rows, at) < 115 * BaselineSpeed(rows, at)
    \/ ~GoodRatio(rows, at)

\* The deals recommended beyond the limit, more the faster the closes are.
ExtraDeals(rows, at) ==
    LET strength == (2 * RecentSpeed(rows, at)) \div (3 * BaselineSpeed(rows, at))
        atLeast == IF strength > 1 THEN strength ELSE 1
    IN  IF atLeast < MaxExtra THEN atLeast ELSE MaxExtra

\* A mistake: one promising evaluation too few will do.
DetectedEarly(rows, at) ==
    IF state.detected
    THEN ~(ExitCandidate(rows, at) /\ release + 1 >= Release)
    ELSE EnterCandidate(rows, at) /\ confirm + 2 >= Confirm

\* Inside a phase only fading evaluations count, outside only promising ones.
Detected(rows, at) ==
    IF state.detected
    THEN ~(ExitCandidate(rows, at) /\ release + 1 >= Release)
    ELSE EnterCandidate(rows, at) /\ confirm + 1 >= Confirm
NextConfirm(rows, at) ==
    IF ~state.detected /\ EnterCandidate(rows, at) /\ confirm + 1 < Confirm
    THEN confirm + 1 ELSE 0
NextRelease(rows, at) ==
    IF state.detected /\ ExitCandidate(rows, at) /\ release + 1 < Release
    THEN release + 1 ELSE 0

-----------------------------------------------------------------------------
\* Disabled: an evaluation forgets everything.
Reset ==
    /\ reading.pc = "idle" /\ ~on
    /\ state' = NoState /\ confirm' = 0 /\ release' = 0
    /\ entering' = 0 /\ leaving' = 0
    /\ UNCHANGED <<now, closes, on, reading>>

\* Enabled: it notes the time and asks for the rows,
ReadRows ==
    /\ reading.pc = "idle" /\ on
    /\ reading' = [pc |-> "rows", at |-> now]
    /\ UNCHANGED <<now, closes, on, state, confirm, release, entering, leaving>>

\* which may fail, and then everything stays,
ReadFails ==
    /\ reading.pc = "rows"
    /\ reading' = Idle
    /\ UNCHANGED <<now, closes, on, state, confirm, release, entering, leaving>>

\* and analyzes them.
Analyze ==
    LET rows == closes
        at == reading.at
        ready == RampReady(rows, at)
        detected == ready /\ Detected(rows, at)
    IN  /\ reading.pc = "rows"
        /\ reading' = Idle
        /\ state' = [ready |-> ready, detected |-> detected,
                     extra |-> IF detected /\ MaxExtra > 0 THEN ExtraDeals(rows, at) ELSE 0]
        /\ confirm' = IF ready THEN NextConfirm(rows, at) ELSE 0
        /\ release' = IF ready THEN NextRelease(rows, at) ELSE 0
        /\ entering' = IF ready /\ EnterCandidate(rows, at)
                       THEN (IF entering < Confirm THEN entering + 1 ELSE entering) ELSE 0
        /\ leaving' = IF ready /\ ExitCandidate(rows, at)
                      THEN (IF leaving < Release THEN leaving + 1 ELSE leaving) ELSE 0
        /\ UNCHANGED <<now, closes, on>>

\* Deals close, time passes, the configuration changes.
CloseDeal == \E win \in BOOLEAN :
    /\ Cardinality(closes) < MaxCloses
    /\ closes' = closes \cup {[id |-> Cardinality(closes), at |-> now, win |-> win]}
    /\ UNCHANGED <<now, on, reading, state, confirm, release, entering, leaving>>

Clock ==
    /\ now < MaxTime
    /\ now' = now + 1
    /\ UNCHANGED <<closes, on, reading, state, confirm, release, entering, leaving>>

ConfigChange ==
    /\ on' = ~on
    /\ UNCHANGED <<now, closes, reading, state, confirm, release, entering, leaving>>

Next == Reset \/ ReadRows \/ ReadFails \/ Analyze \/ CloseDeal \/ Clock \/ ConfigChange

-----------------------------------------------------------------------------
\* The phase is neither nervous nor deaf. It is entered only when Confirm evaluations in a
\* row were promising and left only when Release in a row were fading, unless the ramp is
\* no longer ready or the phase is disabled; and it is on, or off, after so many
\* (green_phase_logic.py 166-200, green_phase.py 129-161).
Hysteresis ==
    /\ [](/\ entering = Confirm => state.detected
          /\ leaving = Release => ~state.detected)
    /\ [][/\ ~state.detected /\ state'.detected => entering' >= Confirm
          /\ state.detected /\ ~state'.detected =>
                leaving' >= Release \/ ~state'.ready]_greenVars
===============================================================================
