------------------------------ MODULE MCServices ------------------------------
(***************************************************************************)
(* The services around the traders: price feed, watch targets, web socket  *)
(* fan-out, cache, signal plugin, configuration, market history and replay *)
(* archives. They share the event loop and little else, so a behaviour of  *)
(* this instance is one of one of them.                                    *)
(***************************************************************************)
EXTENDS PluginReload, Integers, Sequences, FiniteSets

CONSTANTS
    Symbols, Prices, Times, DcaQueueSize, CandleQueueSize, BatchSize, MaxTrades,  \* feed
    Watched, Mandatory, Configurations, MaxSignals,                               \* reloads
    Clients, MaxVersion, MaxStops,                                                \* sockets
    Readers, Ttl, MaxTime,                                                        \* cache
    Instances, Requests, Updates, Stored, Backups,                                \* configuration
    SavedUpdates, SavedStored, SavedBackups,                                      \* saves
    HistoryEnd, Length, Minimum, Retention,                                       \* history
    ArchiveEnd, DealFrom, PostRoll,                                               \* archive
    MaxDeals   \* bound: deals of the reloads and of the configuration

\* Prices are numbers, and candles have timestamps from 1 on.
ASSUME FeedAssumption == Prices \subseteq Int /\ Times \subseteq Nat \ {0}

\* A sync asks for a window with a candle in it, an empty one ends it at once (data.py 466);
\* and two candles have ended when the history starts.
ASSUME HistoryAssumption ==
    /\ HistoryEnd \in Nat /\ HistoryEnd >= 2
    /\ Length \in Nat \ {0} /\ Minimum \in Nat /\ Retention \in Nat

VARIABLES
    part,
    now, trades, last, events, waitingTicks, queued, dcaQueue, worker, ticked, candles,
    candleQueue, buffer, tickers, handled,
    rows, deal, deals, signals, pulse, targets, event, inbox, pushed, wanted, reading,
    tasks, loop, warmup, settings, reloadConfig, reload, exchange, stopping,
    data, task, payload, latest, subscribers, client, queue, seen, stops,
    clock, version, entry, reader, cleared, uncleared,
    db, mem, listener, mail, req, open, opened, waiting, missed,
    listed, candle, active, stored, sync, cleaning, spoiled,
    closed, archive, repair, was, excused

\* Liveness is checked on the smaller instances: a queue that holds every symbol, and a
\* watcher that keeps its configuration.
Feed == INSTANCE PriceFeed WITH DcaQueueSize <- Cardinality(Symbols), pending <- waitingTicks
FullFeed == INSTANCE PriceFeed WITH pending <- waitingTicks

Targets == INSTANCE WatchTargets WITH
    Symbols <- Watched, Versions <- {1}, MaxSignals <- 1, MaxDeals <- 1,
    config <- settings, pending <- reloadConfig, stop <- stopping

Reloads == INSTANCE WatchTargets WITH
    Symbols <- Watched, Versions <- Configurations,
    config <- settings, pending <- reloadConfig, stop <- stopping

Sockets == INSTANCE Fanout WITH version <- data
Cache == INSTANCE TtlCache WITH now <- clock

Base == [mode |-> "dynamic", reentry |-> FALSE, signal |-> "asap", dry |-> TRUE,
         paused |-> FALSE, fund |-> TRUE]
Sidestep == [Base EXCEPT !.mode = "sidestep", !.reentry = TRUE]

\* One process and the traders: what may be saved.
Saves == INSTANCE ConfigStore WITH
    Instances <- {CHOOSE i \in Instances : TRUE}, MaxDeals <- 1,
    Updates <- SavedUpdates, Stored <- SavedStored, Backups <- SavedBackups,
    inbox <- mail

\* Several processes: what each remembers.
Config == INSTANCE ConfigStore WITH inbox <- mail

TwoKeys == {[reentry |-> TRUE, fund |-> FALSE]}
FromBase == {Base}
ToSidestep == {Sidestep}

KeysOfGuards ==
    {[mode |-> "sidestep", reentry |-> TRUE], [mode |-> "sidestep"], [mode |-> "dynamic"],
     [reentry |-> FALSE], [signal |-> "csv"],
     [dry |-> "no"], [dry |-> "disabled"]}
PoorOrSidestep == {[Base EXCEPT !.fund = FALSE], Sidestep}
ValidOrNot == {[Base EXCEPT !.mode = "sidestep"], Sidestep}

\* Every configuration has all the keys, and a save speaks of the dry run in words.
ASSUME ConfigAssumption ==
    /\ \A c \in Stored \cup Backups \cup SavedStored \cup SavedBackups :
          c = [k \in Saves!Keys |-> c[k]]
    /\ \A u \in Updates \cup SavedUpdates : "dry" \in DOMAIN u => u["dry"] \in Saves!Words

History == INSTANCE MarketHistory WITH
    MaxTime <- HistoryEnd, now <- candle, rows <- stored

Archive == INSTANCE ReplayArchive WITH
    MaxTime <- ArchiveEnd, now <- candle, rows <- stored, run <- repair

feedVars == <<now, trades, last, events, waitingTicks, queued, dcaQueue, worker, ticked,
              candles, candleQueue, buffer, tickers, handled>>
targetVars == <<rows, deal, deals, signals, pulse, targets, event, inbox, pushed, wanted,
                reading, tasks, loop, warmup, settings, reloadConfig, reload, exchange,
                stopping>>
socketVars == <<data, task, payload, latest, subscribers, client, queue, seen, stops>>
cacheVars == <<clock, version, entry, reader, cleared, uncleared>>
configVars == <<db, mem, listener, mail, req, open, opened, waiting, missed>>
candleVars == <<listed, candle, active, stored, sync, cleaning, spoiled, closed, archive,
                repair, was, excused>>
allVars == <<part, vars, feedVars, targetVars, socketVars, cacheVars, configVars, candleVars>>

Parts == {"feed", "full feed", "targets", "reloads", "sockets", "cache", "plugin",
          "saves", "config", "history", "archive"}

MCInit ==
    /\ part \in Parts
    /\ Init
    /\ IF part = "full feed" THEN FullFeed!Init ELSE Feed!Init
    /\ Targets!Init /\ Sockets!Init /\ Cache!Init
    /\ IF part = "saves" THEN Saves!Init ELSE Config!Init
    /\ IF part = "archive"
       THEN /\ Archive!Init
            /\ listed = 0 /\ sync = History!NoSync /\ spoiled = FALSE
       ELSE /\ History!Init
            /\ closed = 0 /\ archive = {} /\ repair = Archive!NoRun
            /\ was = {} /\ excused = FALSE
    /\ part \notin {"targets", "reloads"} => rows = {}
    /\ part # "reloads" => warmup = "none"
    /\ part # "saves" => ~open
    /\ part \notin {"history", "archive"} => listed = 0 /\ stored = {} /\ active

\* A step A of one part leaves the others alone.
Live(A) == A /\ UNCHANGED <<part, configVars, candleVars>>
OfFeed(A) == Live(A) /\ UNCHANGED <<targetVars, socketVars, cacheVars, vars>>
OfTargets(A) == Live(A) /\ UNCHANGED <<feedVars, socketVars, cacheVars, vars>>
OfSockets(A) == Live(A) /\ UNCHANGED <<feedVars, targetVars, cacheVars, vars>>
OfCache(A) == Live(A) /\ UNCHANGED <<feedVars, targetVars, socketVars, vars>>
OfPlugin(A) == Live(A) /\ UNCHANGED <<feedVars, targetVars, socketVars, cacheVars>>

OfStore(A) == A /\ UNCHANGED <<part, vars, feedVars, targetVars, socketVars, cacheVars>>
OfConfig(A) == OfStore(A) /\ UNCHANGED candleVars
OfHistory(A) == OfStore(A) /\ UNCHANGED <<configVars, closed, archive, repair, was, excused>>
OfArchive(A) == OfStore(A) /\ UNCHANGED <<configVars, listed, sync, spoiled>>

MCNext ==
    \/ part = "feed" /\ OfFeed(Feed!Next)
    \/ part = "full feed" /\ OfFeed(FullFeed!Next)
    \/ part = "targets" /\ OfTargets(Targets!Next)
    \/ part = "reloads" /\ OfTargets(Reloads!Next)
    \/ part = "sockets" /\ OfSockets(Sockets!Next)
    \/ part = "cache" /\ OfCache(Cache!Next)
    \/ part = "plugin" /\ OfPlugin(Next)
    \/ part = "saves" /\ OfConfig(Saves!Next)
    \/ part = "config" /\ OfConfig(Config!Next)
    \/ part = "history" /\ OfHistory(History!Next)
    \/ part = "archive" /\ OfArchive(Archive!Next)

-----------------------------------------------------------------------------
\* The event loop runs what is ready; an exchange that answers in the end and a producer
\* that does not fail for ever are assumed.
FeedWorker == Feed!TakeTick \/ Feed!TickEnds \/ Feed!EnsureWorkers
IncomingSymbols == Targets!ReadTrades \/ Targets!ApplyTrades
MainLoop == Targets!StartLoop \/ Targets!Turn \/ Targets!IdleSleepEnds
Producer == Sockets!Produce \/ Sockets!SleepEnds

Fairness ==
    /\ WF_feedVars(part = "feed" /\ Feed!HandleEvent)
    /\ WF_feedVars(part = "feed" /\ FeedWorker)
    /\ WF_targetVars(part = "targets" /\ IncomingSymbols)
    /\ WF_targetVars(part = "targets" /\ Targets!Commit)
    /\ WF_targetVars(part = "targets" /\ MainLoop)
    /\ WF_socketVars(part = "sockets" /\ Producer)
    /\ SF_socketVars(part = "sockets" /\ Sockets!Broadcast)
    /\ \A c \in Clients : WF_socketVars(part = "sockets" /\
          (Sockets!Get(c) \/ Sockets!LeaveOnStop(c)))

MCSpec == MCInit /\ [][MCNext]_allVars /\ Fairness

\* The properties of the parts; a part that does not move satisfies the invariants.
CandlesSpan == part = "full feed" => FullFeed!CandlesSpan
StoredInOrder == part = "full feed" => FullFeed!StoredInOrder
NewestTicked == part = "feed" => Feed!NewestTicked
DealsWatched == part = "targets" => Targets!DealsWatched
NewestClient == part = "reloads" => Reloads!NewestClient
NobodyBehind == Sockets!NobodyBehind
NewestShown == part = "sockets" => Sockets!NewestShown
FreshAfterClear == Cache!FreshAfterClear
InstancesAgree == part = "config" => Config!InstancesAgree
ChangesGuarded == Saves!ChangesGuarded
SyncTold == History!SyncTold
ArchiveImproves == Archive!ArchiveImproves
LoopSurvives == Targets!LoopSurvives
SyncEnsures == History!SyncEnsures
===============================================================================
