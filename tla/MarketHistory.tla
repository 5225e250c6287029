----------------------------- MODULE MarketHistory -----------------------------
(***************************************************************************)
(* The candles of one symbol. A sync fills the window a strategy needs from *)
(* the exchange: it reads which candles are stored, fetches what is missing  *)
(* at the two ends, judges, and tries the whole window once more. The        *)
(* watcher and the housekeeper go on meanwhile. Candle t is the t-th of the   *)
(* configured timeframe.                                                     *)
(***************************************************************************)
EXTENDS Naturals, Sequences, FiniteSets

CONSTANTS MaxTime,      \* bound: the last candle
          Length,       \* candles of the window a sync asks for
          Minimum,      \* candles that satisfy a warm-up
          Retention     \* age up to which an inactive symbol keeps its candles

VARIABLES
    listed,     \* the first candle the exchange has
    now,        \* the candle that is open
    active,     \* the symbol is traded, and so watched
    rows,       \* the stored candles
    sync,       \* the sync under way
    cleaning,   \* the housekeeper has found the symbol inactive
    spoiled     \* history: a page failed or a row was deleted since the sync began

historyVars == <<listed, now, active, rows, sync, cleaning, spoiled>>

NoSync == [pc |-> "idle", since |-> 0, until |-> 0, known |-> {}, first |-> MaxTime + 1,
           starts |-> <<>>, fetched |-> {}, refill |-> FALSE, warmup |-> FALSE,
           hole |-> FALSE, ok |-> FALSE]

Init ==
    /\ listed \in 0 .. 2 /\ now = 2 /\ active \in BOOLEAN
    /\ rows \in SUBSET (listed .. 1)
    /\ sync = NoSync /\ cleaning = FALSE
    /\ spoiled = FALSE

-----------------------------------------------------------------------------
Least(S) == CHOOSE t \in S : \A u \in S : t <= u
Greatest(S) == CHOOSE t \in S : \A u \in S : t >= u
Upto(s, t) == {u \in 0 .. MaxTime : s <= u /\ u <= t}

\* What the exchange gives from s on: all of it, or the pages before one that failed.
Given(s, cut) == {t \in Upto(s, now) : t >= listed /\ t < cut}

\* A mistake: only the end of the window is looked at.
StartsAtTail(since, until, known) ==
    IF known = {} THEN <<since>>
    ELSE IF Greatest(known) < until THEN <<Greatest(known) + 1>> ELSE <<since>>

\* Where the fetches start: before the stored candles and after them, or, with both ends
\* stored, at the beginning again.
Starts(since, until, known) ==
    IF known = {} THEN <<since>>
    ELSE LET head == IF Least(known) > since THEN <<since>> ELSE <<>>
             tail == IF Greatest(known) < until THEN <<Greatest(known) + 1>> ELSE <<>>
         IN  IF head \o tail = <<>> THEN <<since>> ELSE head \o tail

\* History: what was read misses a candle between others.
HasHole(known) == known # {} /\ Upto(Least(known), Greatest(known)) # known

\* All of the window is there; or all of it since the first candle that was fetched.
IsRequiredComplete(s) == Upto(s.since, s.until) \subseteq s.known
IsCompleteFromFirst(s) == s.first <= s.until /\ Upto(s.first, s.until) \subseteq s.known
WarmedUp(s) == s.warmup /\ Cardinality(rows) >= Minimum

-----------------------------------------------------------------------------
\* A sync computes its window and reads what is stored of it.
Begin == \E warmup \in BOOLEAN :
    LET until == now - 1
        since == IF now >= Length THEN now - Length ELSE 0
        known == rows \cap Upto(since, until)
        complete == Upto(since, until) \subseteq known
    IN  /\ sync.pc = "idle"
        /\ sync' = [NoSync EXCEPT
               !.pc = IF complete THEN "refresh" ELSE "fetch",
               !.since = since, !.until = until, !.known = known, !.warmup = warmup,
               !.hole = HasHole(known),
               !.starts = IF complete THEN <<>> ELSE Starts(since, until, known)]
        /\ spoiled' = FALSE
        /\ UNCHANGED <<listed, now, active, rows, cleaning>>

\* Complete: the latest candle is fetched again and overwritten if it came; no row is added.
RefreshLatest ==
    /\ sync.pc = "refresh"
    /\ sync' = [sync EXCEPT !.pc = "told", !.ok = TRUE]
    /\ UNCHANGED <<listed, now, active, rows, cleaning, spoiled>>

\* The exchange answers a fetch; a page that keeps failing ends it early.
Fetch == \E cut \in listed .. now + 1 :
    /\ sync.pc = "fetch"
    /\ sync' = [sync EXCEPT !.pc = "store",
           !.fetched = Given(Head(sync.starts), cut) \cap Upto(sync.since, sync.until)]
    /\ spoiled' = (spoiled \/ cut <= sync.until)
    /\ UNCHANGED <<listed, now, active, rows, cleaning>>

\* What the sync does not know of is inserted, and the progress recorded.
Store ==
    LET first == Least(sync.fetched \cup {sync.first})
        known == sync.known \cup sync.fetched
        more == Tail(sync.starts)
    IN  /\ sync.pc = "store"
        /\ rows' = rows \cup (sync.fetched \ sync.known)
        /\ sync' = [sync EXCEPT !.first = first, !.known = known, !.starts = more,
                                !.pc = IF more = <<>> THEN "judge" ELSE "fetch"]
        /\ UNCHANGED <<listed, now, active, cleaning, spoiled>>

\* Success, a second try with the whole window, or failure.
Judge ==
    LET ok == IsRequiredComplete(sync) \/ IsCompleteFromFirst(sync) \/ WarmedUp(sync)
    IN  /\ sync.pc = "judge"
        /\ sync' = IF ok \/ sync.refill
                   THEN [sync EXCEPT !.pc = "told", !.ok = ok]
                   ELSE [sync EXCEPT !.pc = "fetch", !.refill = TRUE,
                                     !.starts = <<sync.since>>]
        /\ UNCHANGED <<listed, now, active, rows, cleaning, spoiled>>

\* The exchange cannot be reached at all, or the database fails.
SyncFails ==
    /\ sync.pc \notin {"idle", "told"}
    /\ sync' = [sync EXCEPT !.pc = "told", !.ok = FALSE]
    /\ spoiled' = TRUE
    /\ UNCHANGED <<listed, now, active, rows, cleaning>>

\* The caller goes on.
Return ==
    /\ sync.pc = "told"
    /\ sync' = NoSync
    /\ UNCHANGED <<listed, now, active, rows, cleaning, spoiled>>

-----------------------------------------------------------------------------
\* A candle ends; the watcher stores it, unless it starts or stops watching just then.
NextCandle == \E stored \in {active, FALSE} :
    /\ now < MaxTime
    /\ now' = now + 1
    /\ rows' = IF stored /\ now >= listed THEN rows \cup {now} ELSE rows
    /\ UNCHANGED <<listed, active, sync, cleaning, spoiled>>

\* Deals on the symbol open and close.
Activate ==
    /\ ~active /\ active' = TRUE
    /\ UNCHANGED <<listed, now, rows, sync, cleaning, spoiled>>
Deactivate ==
    /\ active /\ active' = FALSE
    /\ UNCHANGED <<listed, now, rows, sync, cleaning, spoiled>>

\* The housekeeper reads which symbols are traded, and deletes the old rows of the others.
ReadSymbols ==
    /\ ~active /\ ~cleaning /\ cleaning' = TRUE
    /\ UNCHANGED <<listed, now, active, rows, sync, spoiled>>
DeleteOld ==
    LET old == {t \in rows : t + Retention < now}
    IN  /\ cleaning /\ cleaning' = FALSE
        /\ rows' = rows \ old
        /\ spoiled' = (spoiled \/ old \cap sync.known # {})
        /\ UNCHANGED <<listed, now, active, sync>>

Next ==
    \/ Begin \/ RefreshLatest \/ Fetch \/ Store \/ Judge \/ SyncFails \/ Return
    \/ NextCandle \/ Activate \/ Deactivate \/ ReadSymbols \/ DeleteOld

-----------------------------------------------------------------------------
\* The candles of the window the exchange has.
Wanted(s) == {t \in Upto(s.since, s.until) : t >= listed}
Answers == sync.pc # "told" /\ sync'.pc = "told"

\* A sync without a warm-up minimum answers truly: it succeeds only with every candle the
\* exchange has of the window stored, and fails only when the exchange has none, as long
\* as every page came, no row was deleted under it, and what was stored had no hole
\* (data.py 435-615).
SyncTold == [][
    Answers /\ ~spoiled' /\ ~sync.warmup /\ ~sync.hole =>
        sync'.ok <=> (Wanted(sync) # {} /\ Wanted(sync) \subseteq rows)]_historyVars

\* The same for stored candles with a hole: success means that history is complete from the
\* first exchange candle onward (data_history_sync.py 44-51).
SyncEnsures == [][
    Answers /\ ~spoiled' /\ ~sync.warmup /\ sync'.ok =>
        Wanted(sync) \subseteq rows]_historyVars
===============================================================================
