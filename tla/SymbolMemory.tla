----------------------------- MODULE SymbolMemory -----------------------------
(***************************************************************************)
(* The symbol memory of the autopilot: a loop recomputes from the closed     *)
(* deals which symbols are trusted, stores the result with its events in one *)
(* transaction, and keeps it in memory for the trading policy. A refresh     *)
(* that fails marks the memory stale, and so does its age. Closes here win   *)
(* or lose the full two percent after equal durations and do not fade, so    *)
(* that the trust score is a fraction of counts; scores and prices are in    *)
(* hundredths.                                                               *)
(***************************************************************************)
EXTENDS Integers, Sequences, FiniteSets, Functions

CONSTANTS Symbols,
          Required,      \* closes before the memory counts as fresh
          MinCloses,     \* closes before a symbol is trusted or not
          Confident,     \* closes that give the full score
          StaleAfter,    \* age at which a snapshot expires
          Baseline,      \* the configured take profit
          MaxEvents,     \* events that are kept
          MaxCloses, MaxTime   \* bounds: closes of all symbols, time

VARIABLES
    now,        \* the time
    closes,     \* the closed deals of each symbol, oldest first: was it a win
    on,         \* the autopilot is enabled
    run,        \* the refresh under way
    mem,        \* the state in memory
    profiles,   \* the score of each symbol in memory
    stored,     \* the rows: state and scores
    log,        \* the event rows, oldest first
    failed,     \* history: a refresh failed since the last success
    unmarked    \* history: and the stale marker could not be written

memoryVars == <<now, closes, on, run, mem, profiles, stored, log, failed, unmarked>>

Empty == [status |-> "empty", reason |-> "none", success |-> 0]
NoScores == [s \in {} |-> 0]
Idle == [pc |-> "idle", state |-> Empty, profiles |-> NoScores, events |-> <<>>]

Init ==
    /\ now = 0 /\ closes = [s \in Symbols |-> <<>>] /\ on \in BOOLEAN
    /\ run = Idle /\ mem = Empty /\ profiles = NoScores
    /\ stored = [state |-> Empty, profiles |-> NoScores] /\ log = <<>>
    /\ failed = FALSE /\ unmarked = FALSE

-----------------------------------------------------------------------------
Clamp(n, low, high) == IF n < low THEN low ELSE IF n > high THEN high ELSE n
Least(m, n) == IF m < n THEN m ELSE n

Losses(trades) == Cardinality({i \in DOMAIN trades : ~trades[i]})
Wins(trades) == Len(trades) - Losses(trades)
RecentLosses(trades) ==
    Cardinality({i \in DOMAIN trades : i + 1 >= Len(trades) /\ ~trades[i]})

\* How far a symbol is from the neutral score of 50: profit and win rate weigh three quarters
\* together, each of the last two closes that lost costs one, and few closes count less.
Score(trades) ==
    LET n == Len(trades)
        raw == Clamp(75 * (Wins(trades) - Losses(trades)) - 25 * RecentLosses(trades) * n,
                     -(100 * n), 100 * n)
    IN  (raw * 30 * Least(n, Confident)) \div (n * Confident)

Direction(score, size) ==
    IF size < MinCloses THEN "neutral"
    ELSE IF score >= 500 THEN "favored"
    ELSE IF score <= -500 THEN "cooling" ELSE "neutral"

Traded == {s \in Symbols : closes[s] # <<>>}
Profiles == [s \in Traded |->
    [score |-> Score(closes[s]),
     direction |-> Direction(Score(closes[s]), Len(closes[s]))]]
TotalCloses == SumFunction([s \in Symbols |-> Len(closes[s])])

Computed ==
    IF TotalCloses = 0 THEN Empty
    ELSE [status |-> IF TotalCloses < Required THEN "warming_up" ELSE "fresh",
          reason |-> "none", success |-> now]

\* A mistake: a snapshot never expires.
CurrentForEver == mem

\* The state as it is read: a snapshot that is too old is stale.
Current ==
    IF now - mem.success > StaleAfter /\ mem.status \notin {"empty", "warming_up"}
    THEN [mem EXCEPT !.status = "stale",
                     !.reason = IF @ = "none" THEN "snapshot_expired" ELSE @]
    ELSE mem

\* What a refresh has to tell.
RefreshEvents(next) ==
    IF next.status \in {"warming_up", "fresh"} /\ next.status # Current.status
    THEN <<next.status>> ELSE <<>>

Kept(events) ==
    IF Len(events) <= MaxEvents THEN events
    ELSE SubSeq(events, Len(events) - MaxEvents + 1, Len(events))

-----------------------------------------------------------------------------
Refresh ==
    /\ run.pc = "idle"
    /\ run' = [run EXCEPT !.pc = "rows"]
    /\ UNCHANGED <<now, closes, on, mem, profiles, stored, log, failed, unmarked>>

\* The rows are there: the next state, scores and events follow at once.
Compute ==
    /\ run.pc = "rows"
    /\ run' = [pc |-> "persist", state |-> Computed, profiles |-> Profiles,
               events |-> RefreshEvents(Computed)]
    /\ UNCHANGED <<now, closes, on, mem, profiles, stored, log, failed, unmarked>>

\* They are stored in one transaction and then remembered.
Persist ==
    /\ run.pc = "persist"
    /\ stored' = [state |-> run.state, profiles |-> run.profiles]
    /\ log' = Kept(log \o run.events)
    /\ mem' = run.state /\ profiles' = run.profiles
    /\ run' = [Idle EXCEPT !.pc = "events"]
    /\ failed' = FALSE /\ unmarked' = FALSE
    /\ UNCHANGED <<now, closes, on>>

\* The events are read back.
LoadEvents ==
    /\ run.pc = "events"
    /\ run' = Idle
    /\ UNCHANGED <<now, closes, on, mem, profiles, stored, log, failed, unmarked>>

\* Whatever fails on the way leads to the stale marker.
RefreshFails ==
    /\ run.pc \in {"rows", "persist", "events"}
    /\ run' = [Idle EXCEPT !.pc = "mark"]
    /\ failed' = TRUE
    /\ UNCHANGED <<now, closes, on, mem, profiles, stored, log, unmarked>>

\* The marker keeps the last good scores; only a new reason is told.
MarkStale ==
    LET marked == [Current EXCEPT !.status = "stale", !.reason = "refresh_failed"]
        told == Current.status = "stale" /\ Current.reason = "refresh_failed"
    IN  /\ run.pc = "mark"
        /\ stored' = [stored EXCEPT !.state = marked]
        /\ log' = Kept(log \o (IF told THEN <<>> ELSE <<"stale">>))
        /\ mem' = marked
        /\ run' = Idle
        /\ UNCHANGED <<now, closes, on, profiles, failed, unmarked>>

MarkFails ==
    /\ run.pc = "mark"
    /\ run' = Idle
    /\ unmarked' = TRUE
    /\ UNCHANGED <<now, closes, on, mem, profiles, stored, log, failed>>

\* A process starts with the stored rows and refreshes at once.
Restart ==
    /\ mem' = stored.state /\ profiles' = stored.profiles
    /\ run' = [Idle EXCEPT !.pc = "rows"]
    /\ unmarked' = (unmarked \/ (failed /\ run.pc = "mark"))
    /\ UNCHANGED <<now, closes, on, stored, log, failed>>

-----------------------------------------------------------------------------
\* Deals close and are deleted, time passes, the autopilot is switched.
CloseDeal == \E s \in Symbols, win \in BOOLEAN :
    /\ TotalCloses < MaxCloses
    /\ closes' = [closes EXCEPT ![s] = Append(@, win)]
    /\ UNCHANGED <<now, on, run, mem, profiles, stored, log, failed, unmarked>>

DeleteDeals ==
    /\ TotalCloses > 0
    /\ closes' = [s \in Symbols |-> <<>>]
    /\ UNCHANGED <<now, on, run, mem, profiles, stored, log, failed, unmarked>>

Clock ==
    /\ now < MaxTime
    /\ now' = now + 1
    /\ UNCHANGED <<closes, on, run, mem, profiles, stored, log, failed, unmarked>>

Switch ==
    /\ on' = ~on
    /\ UNCHANGED <<now, closes, run, mem, profiles, stored, log, failed, unmarked>>

Next ==
    \/ Refresh \/ Compute \/ Persist \/ LoadEvents \/ RefreshFails \/ MarkStale \/ MarkFails
    \/ Restart \/ CloseDeal \/ DeleteDeals \/ Clock \/ Switch

-----------------------------------------------------------------------------
\* What the traders get. The take profit moves with the score by at most 15 hundredths, or 15 %
\* of it up to 50.
Limit == Clamp((Baseline * 15) \div 100, 15, 50)
TakeProfit(s) ==
    IF on /\ Current.status = "fresh" /\ s \in DOMAIN profiles
       /\ profiles[s].direction # "neutral"
    THEN Baseline + (Clamp(profiles[s].score, -2000, 2000) * Limit) \div 2000
    ELSE Baseline

\* Admission ranks by trust.
Ranked(s) == on /\ Current.status = "fresh" /\ s \in DOMAIN profiles

\* Trust moves prices and ranks only while the last refresh succeeded and is recent; after one
\* that failed it may do so only while the marker is being written or could not be
\* (autopilot_memory.py 577-617, 778-850).
TrustBacked == \A s \in Symbols :
    TakeProfit(s) # Baseline \/ Ranked(s) =>
        /\ now - mem.success <= StaleAfter
        /\ failed => unmarked \/ run.pc = "mark"

===============================================================================
