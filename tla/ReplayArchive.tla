----------------------------- MODULE ReplayArchive -----------------------------
(***************************************************************************)
(* The candles archived with a closed deal. The close archives what is       *)
(* stored of the deal's window; every start of the program looks at the      *)
(* archive again, in the background, and replaces it by a better one from    *)
(* the stored candles or from the exchange. Meanwhile candles are stored and *)
(* deleted. Candle t is the t-th of the configured timeframe.                *)
(***************************************************************************)
EXTENDS Naturals, Sequences, FiniteSets

CONSTANTS MaxTime,      \* bound: the last candle
          Retention,    \* age up to which an inactive symbol keeps its candles
          DealFrom,     \* first candle of the archive window of the deal
          PostRoll      \* candles it takes after the close

VARIABLES
    now,        \* the candle that is open
    active,     \* the symbol is traded, and so watched
    rows,       \* the stored candles
    cleaning,   \* the housekeeper has found the symbol inactive
    closed,     \* the last candle of the archive window; 0 while the deal is open
    archive,    \* the archived candles
    run,        \* the repair of the archive under way
    was,        \* history: the last archive
    excused     \* history: a live candle forced an archive, or a crash lost it

archiveVars == <<now, active, rows, cleaning, closed, archive, run, was, excused>>

NoRun == [pc |-> "idle", live |-> FALSE, old |-> {}, best |-> {}]

Init ==
    /\ now = 1 /\ active = TRUE /\ rows = {} /\ cleaning = FALSE
    /\ closed = 0 /\ archive = {} /\ run = NoRun
    /\ was = {} /\ excused = FALSE

-----------------------------------------------------------------------------
Greatest(S) == CHOOSE t \in S : \A u \in S : t >= u
Upto(s, t) == {u \in 0 .. MaxTime + PostRoll : s <= u /\ u <= t}

-----------------------------------------------------------------------------
\* A candle ends; the watcher stores it, unless it starts or stops watching just then.
NextCandle == \E stored \in {active, FALSE} :
    /\ now < MaxTime
    /\ now' = now + 1
    /\ rows' = IF stored THEN rows \cup {now} ELSE rows
    /\ UNCHANGED <<active, cleaning, closed, archive, run, was, excused>>

\* Deals on the symbol open and close.
Activate ==
    /\ ~active /\ active' = TRUE
    /\ UNCHANGED <<now, rows, cleaning, closed, archive, run, was, excused>>
Deactivate ==
    /\ active /\ closed > 0 /\ active' = FALSE
    /\ UNCHANGED <<now, rows, cleaning, closed, archive, run, was, excused>>

\* The housekeeper reads which symbols are traded, and deletes the old rows of the others.
ReadSymbols ==
    /\ ~active /\ ~cleaning /\ cleaning' = TRUE
    /\ UNCHANGED <<now, active, rows, closed, archive, run, was, excused>>
DeleteOld ==
    LET old == {t \in rows : t + Retention < now}
    IN  /\ cleaning /\ cleaning' = FALSE
        /\ rows' = rows \ old
        /\ UNCHANGED <<now, active, closed, archive, run, was, excused>>

-----------------------------------------------------------------------------
\* The candles of the deal's window that are stored; the open candle joins them once it is
\* watched and has traded.
Source(to) == rows \cap Upto(DealFrom, to)

\* Archives compare by completeness, then by their size, then by their last candle.
IsComplete(S) == Upto(DealFrom, closed) \subseteq S
Last(S) == IF S = {} THEN 0 ELSE Greatest(S) + 1
Better(S, T) ==
    \/ IsComplete(S) /\ ~IsComplete(T)
    \/ /\ IsComplete(S) = IsComplete(T)
       /\ \/ Cardinality(S) > Cardinality(T)
          \/ Cardinality(S) = Cardinality(T) /\ Last(S) > Last(T)

\* The deal closes: the archive is part of the transaction, and the open candle belongs to it.
CloseDeal == \E live \in {{}, {now}} :
    /\ closed = 0 /\ active /\ now > DealFrom
    /\ closed' = now + PostRoll
    /\ archive' = Source(now + PostRoll) \cup live
    /\ was' = archive'
    /\ UNCHANGED <<now, active, rows, cleaning, run, excused>>

\* After a start the archive is looked at again. Without a live candle an incomplete archive,
\* or a missing one with hardly a source, asks the exchange.
Backfill == \E live \in {{}, {now}} :
    LET source == Source(closed) \cup live
        repair == live = {} /\ IF archive = {} THEN Cardinality(source) <= 2
                               ELSE ~IsComplete(archive)
    IN  /\ run.pc = "start" /\ closed > 0
        /\ live # {} => active /\ now <= closed
        /\ run' = [pc |-> IF repair THEN "repair" ELSE "decide", live |-> live # {},
                   old |-> archive, best |-> source]
        /\ UNCHANGED <<now, active, rows, cleaning, closed, archive, was, excused>>

\* The exchange gives its candles, or the pages before one that failed.
Repair == \E cut \in 0 .. now + 1 :
    LET given == {t \in Upto(DealFrom, closed) : t <= now /\ t < cut}
    IN  /\ run.pc = "repair"
        /\ run' = [run EXCEPT !.pc = "decide",
                              !.best = IF Better(given, @) THEN given ELSE @]
        /\ UNCHANGED <<now, active, rows, cleaning, closed, archive, was, excused>>

\* A mistake: whatever there is replaces the archive.
ReplacesAnyway(r) == r.best # {}

\* Nothing to archive, or nothing better than what is there.
Replaces(r) == r.best # {} /\ (r.live \/ r.old = {} \/ Better(r.best, r.old))

Decide ==
    /\ run.pc = "decide"
    /\ run' = IF Replaces(run) THEN [run EXCEPT !.pc = "create"] ELSE NoRun
    /\ archive' = IF Replaces(run) THEN {} ELSE archive
    /\ excused' = (excused \/ run.live)
    /\ UNCHANGED <<now, active, rows, cleaning, closed, was>>

\* The old archive is deleted; the new one follows in a transaction of its own.
Create ==
    /\ run.pc = "create"
    /\ archive' = run.best /\ was' = run.best
    /\ run' = NoRun /\ excused' = FALSE
    /\ UNCHANGED <<now, active, rows, cleaning, closed>>

\* The process dies and starts.
Restart ==
    /\ closed > 0
    /\ run' = [NoRun EXCEPT !.pc = "start"] /\ cleaning' = FALSE
    /\ excused' = (excused \/ run.pc = "create")
    /\ UNCHANGED <<now, active, rows, closed, archive, was>>

\* A sync stores candles of a closed past.
Sync == \E since \in 0 .. now - 1 :
    /\ rows' = rows \cup Upto(since, now - 1)
    /\ UNCHANGED <<now, active, cleaning, closed, archive, run, was, excused>>

Next ==
    \/ NextCandle \/ Activate \/ Deactivate \/ ReadSymbols \/ DeleteOld \/ Sync
    \/ CloseDeal \/ Backfill \/ Repair \/ Decide \/ Create \/ Restart

-----------------------------------------------------------------------------
\* An archive is only ever replaced by a better one, unless a live candle forced it or the
\* process died between the deletion and the new rows (replay_candles.py 271-400).
ArchiveImproves == [][
    archive' # archive /\ archive' # {} /\ closed > 0 /\ ~excused =>
        was = {} \/ Better(archive', was) \/ archive' = was]_archiveVars
===============================================================================
