---------------------------- MODULE WatchTargets ----------------------------
(***************************************************************************)
(* Which symbols the watcher streams: the targets it composes from open    *)
(* trades, signals and mandatory symbols, the main loop that keeps one     *)
(* task per target, the warm-ups before it, reloads and shutdown.          *)
(*                                                                         *)
(* SQLite gives one transaction at a time, so a read of the symbols never  *)
(* falls into a transaction of another task; the save hooks of Trades and  *)
(* ClosedTrades run inside the transaction that fires them.                *)
(***************************************************************************)
EXTENDS Integers, Sequences

CONSTANTS
    Symbols,
    Mandatory,    \* get_mandatory_symbols when BTC pulse is on
    Versions,     \* configurations, 1 .. n; 0 is none
    MaxSignals,   \* bound: lists the signal plugin pushes
    MaxDeals      \* bound: deals that are opened

VARIABLES
    rows,      \* symbols with a sellable OpenTrades row
    deal,      \* the transaction in progress and its symbol, after its hook has run
    deals,     \* how many deals were opened
    signals,   \* runtime_state.signal_symbols
    pulse,     \* whether the mandatory symbols are wanted
    targets,   \* runtime_state.ticker_symbols
    event,     \* symbol_update_event
    inbox,     \* the watcher queue
    pushed,    \* how many lists the plugin has put into it
    wanted,    \* the list it put there last
    reading,   \* watch_incoming_symbols: what it has read, a set of rows, or nothing
    tasks,     \* symbol_tasks: "none", "live" or "crashed"
    loop,      \* watch_tickers: where it is
    warmup,    \* the warm-up task: "none", "runs", "done" or "cancelled"
    config,    \* the newest configuration
    pending,   \* _pending_reload_config
    reload,    \* what the reload task is building
    exchange,  \* the configuration the exchange client was built from
    stop       \* shutdown: "no", "asked", "done"

vars == <<rows, deal, deals, signals, pulse, targets, event, inbox, pushed, wanted,
          reading, tasks, loop, warmup, config, pending, reload, exchange, stop>>

trades == <<rows, deal, deals>>
queue == <<inbox, pushed, wanted, reading>>
client == <<config, pending, reload, exchange>>
runtime == <<signals, pulse, targets, event>>

NoDeal == [kind |-> "none", symbol |-> "none"]

Init ==
    /\ rows \in SUBSET Symbols /\ deal = NoDeal /\ deals = 0
    /\ signals = {} /\ pulse = FALSE /\ targets = {} /\ event = FALSE
    /\ inbox = <<>> /\ pushed = 0 /\ wanted = {} /\ reading = {}
    /\ tasks = [s \in Symbols |-> "none"]
    /\ loop = "warmup" /\ warmup \in {"none", "runs"}
    /\ config = 1 /\ pending = 1 /\ reload = 0 /\ exchange = 0
    /\ stop = "no"

-----------------------------------------------------------------------------
(***************************************************************************)
(* Targets.                                                                *)
(***************************************************************************)
\* A mistake: signals replace the open trades instead of joining them.
SignalsOnly(base, sigs, on) ==
    IF sigs = {} THEN base ELSE sigs \union IF on THEN Mandatory ELSE {}

\* compose_ticker_symbols
Compose(base, sigs, on) == base \union sigs \union IF on THEN Mandatory ELSE {}

\* _apply_symbol_targets wakes the main loop.
Apply(base, sigs, on) == targets' = Compose(base, sigs, on) /\ event' = TRUE

\* A signal plugin pushes its symbols, then buys them one at a time.
Push(S) ==
    /\ stop = "no" /\ pushed < MaxSignals /\ deal = NoDeal
    /\ inbox' = Append(inbox, S)
    /\ pushed' = pushed + 1
    /\ wanted' = S
    /\ UNCHANGED <<trades, runtime, reading, tasks, loop, warmup, client, stop>>

\* watch_incoming_symbols replaces the signals, then reads the open trades.
ReadTrades ==
    /\ inbox # <<>> /\ reading = {} /\ deal = NoDeal /\ stop = "no"
    /\ signals' = Head(inbox)
    /\ reading' = {rows}
    /\ inbox' = Tail(inbox)
    /\ UNCHANGED <<trades, pulse, targets, event, pushed, wanted, tasks, loop, warmup,
                   client, stop>>

ApplyTrades ==
    /\ \E base \in reading : Apply(base, signals, pulse)
    /\ reading' = {}
    /\ UNCHANGED <<trades, signals, pulse, inbox, pushed, wanted, tasks, loop, warmup,
                   client, stop>>

\* watch_trade_symbols: Trades.create comes before OpenTrades.create, so the hook of a
\* new deal does not see its row. Only a symbol of the list pushed last is bought.
BuySaves(s) ==
    /\ deal = NoDeal /\ deals < MaxDeals /\ stop = "no"
    /\ s \in wanted \union rows
    /\ deal' = [kind |-> "buy", symbol |-> s]
    /\ deals' = deals + 1
    /\ Apply(rows, signals, pulse)
    /\ UNCHANGED <<rows, signals, pulse, queue, tasks, loop, warmup, client, stop>>

\* watch_closedtrade_symbols: ClosedTrades.create comes before the row is deleted.
CloseSaves(s) ==
    /\ deal = NoDeal /\ s \in rows /\ stop = "no"
    /\ deal' = [kind |-> "close", symbol |-> s]
    /\ Apply(rows, signals, pulse)
    /\ UNCHANGED <<rows, deals, signals, pulse, queue, tasks, loop, warmup, client, stop>>

Commit ==
    /\ deal # NoDeal
    /\ rows' = IF deal.kind = "buy" THEN rows \union {deal.symbol}
               ELSE rows \ {deal.symbol}
    /\ deal' = NoDeal
    /\ UNCHANGED <<deals, runtime, queue, tasks, loop, warmup, client, stop>>

-----------------------------------------------------------------------------
(***************************************************************************)
(* Configuration changes: on_config_change and _drain_exchange_reloads.    *)
(***************************************************************************)
\* A warm-up that still runs is cancelled and started again; the loop awaits the old one.
RestartWarmup == IF warmup = "runs" /\ loop = "warmup" THEN "cancelled" ELSE warmup

\* The pulse may go on or off; targets are recomposed from what they are.
ConfigChange(on) ==
    /\ stop = "no" /\ config + 1 \in Versions
    /\ config' = config + 1
    /\ pending' = config + 1
    /\ pulse' = on
    /\ Apply(targets, signals, on)
    /\ warmup' = RestartWarmup
    /\ UNCHANGED <<trades, signals, queue, tasks, loop, reload, exchange, stop>>

StartReload ==
    /\ pending # 0 /\ reload = 0 /\ stop = "no"
    /\ reload' = pending
    /\ pending' = 0
    /\ exchange' = 0
    /\ UNCHANGED <<trades, runtime, queue, tasks, loop, warmup, config, stop>>

\* A mistake: what is pending is cleared when the reload is over.
FinishAndClear(ok) ==
    /\ reload # 0
    /\ exchange' = IF ok THEN reload ELSE 0
    /\ reload' = 0
    /\ pending' = 0
    /\ UNCHANGED <<trades, runtime, queue, tasks, loop, warmup, config, stop>>

\* The old client is closed and the new one built, or the build fails.
FinishReload(ok) ==
    /\ reload # 0
    /\ exchange' = IF ok THEN reload ELSE 0
    /\ reload' = 0
    /\ UNCHANGED <<trades, runtime, queue, tasks, loop, warmup, config, pending, stop>>

-----------------------------------------------------------------------------
(***************************************************************************)
(* watch_tickers.                                                          *)
(***************************************************************************)
WarmupEnds ==
    /\ warmup = "runs"
    /\ warmup' = "done"
    /\ UNCHANGED <<trades, runtime, queue, tasks, loop, client, stop>>

\* sync_symbol_tasks and ensure_worker_tasks; without targets the loop sleeps first.
SyncTasks(wants) ==
    /\ tasks' = [s \in Symbols |-> IF s \in wants THEN "live" ELSE "none"]
    /\ loop' = IF wants = {} THEN "sleep" ELSE "wait"

\* The wait ends with the warm-up or after 25 seconds; the warm-up goes on without it.
WaitOver == loop = "warmup" /\ warmup # "cancelled"

StartLoop ==
    /\ WaitOver /\ deal = NoDeal /\ stop = "no"
    /\ targets' = Compose(rows, signals, pulse)
    /\ SyncTasks(targets')
    /\ UNCHANGED <<trades, signals, pulse, event, queue, warmup, client, stop>>

\* The wait on a task that was cancelled raises CancelledError out of watch_tickers.
LoopDies ==
    /\ loop = "warmup" /\ warmup = "cancelled"
    /\ loop' = "dead"
    /\ UNCHANGED <<trades, runtime, queue, tasks, warmup, client, stop>>

\* __wait_for_updates ends with the event or REFRESH_TIMEOUT and clears it either way;
\* there is no await between that and the next __sync_symbol_tasks.
Turn ==
    /\ loop = "wait" /\ stop = "no"
    /\ event' = FALSE
    /\ SyncTasks(targets)
    /\ UNCHANGED <<trades, signals, pulse, targets, queue, warmup, client, stop>>

IdleSleepEnds ==
    /\ loop = "sleep"
    /\ loop' = "wait"
    /\ UNCHANGED <<trades, runtime, queue, tasks, warmup, client, stop>>

LoopEnds ==
    /\ loop = "wait" /\ stop # "no"
    /\ loop' = "ended"
    /\ event' = FALSE
    /\ UNCHANGED <<trades, signals, pulse, targets, queue, tasks, warmup, client, stop>>

\* watch_symbol_with_reconnect handles what the exchange raises; anything else ends it.
TaskCrashes(s) ==
    /\ tasks[s] = "live"
    /\ tasks' = [tasks EXCEPT ![s] = "crashed"]
    /\ UNCHANGED <<trades, runtime, queue, loop, warmup, client, stop>>

-----------------------------------------------------------------------------
(***************************************************************************)
(* shutdown and _shutdown_runtime_tasks.                                   *)
(***************************************************************************)
Shutdown ==
    /\ stop = "no"
    /\ stop' = "asked"
    /\ pending' = 0
    /\ event' = TRUE
    /\ UNCHANGED <<trades, signals, pulse, targets, queue, tasks, loop, warmup, config,
                   reload, exchange>>

\* It runs from shutdown and from the finally of the loop; the last one finds nothing.
CleanUp ==
    /\ stop = "asked"
    /\ reload' = 0
    /\ tasks' = [s \in Symbols |-> "none"]
    /\ exchange' = 0
    /\ warmup' = IF warmup = "runs" THEN "cancelled" ELSE warmup
    /\ stop' = "done"
    /\ UNCHANGED <<trades, runtime, queue, loop, config, pending>>

Next ==
    \/ \E S \in SUBSET Symbols \ {{}} : Push(S)
    \/ ReadTrades \/ ApplyTrades
    \/ \E s \in Symbols : BuySaves(s) \/ CloseSaves(s) \/ TaskCrashes(s)
    \/ Commit
    \/ \E on \in BOOLEAN : ConfigChange(on)
    \/ StartReload
    \/ \E ok \in BOOLEAN : FinishReload(ok)
    \/ WarmupEnds \/ StartLoop \/ LoopDies
    \/ Turn \/ IdleSleepEnds \/ LoopEnds
    \/ Shutdown \/ CleanUp

Spec == Init /\ [][Next]_vars

-----------------------------------------------------------------------------
\* A deal that stays open is streamed in the end, although the hook of its first trade
\* runs before its row exists and lists of signals replace each other.
DealsWatched ==
    \A s \in Symbols :
        s \in rows ~> (tasks[s] = "live" \/ s \notin rows \/ stop # "no" \/ loop = "dead")

\* However configurations burst, the client that is built last is the newest one's.
NewestClient ==
    reload = 0 /\ pending = 0 /\ stop = "no" => exchange \in {config, 0}

\* The main loop outlives every configuration change.
LoopSurvives == loop = "dead" => stop # "no"
=============================================================================
