----------------------------- MODULE PluginReload -----------------------------
(***************************************************************************)
(* Signal: the one signal plugin that runs, reloaded when a configuration  *)
(* changes, restarted ten seconds after it ends, stopped at shutdown.      *)
(***************************************************************************)
EXTENDS Naturals

CONSTANTS
    Versions,    \* configurations, 1 .. n; 0 is none
    Plugins      \* plugin tasks, 1 .. n, numbered as they start; a bound on restarts

VARIABLES
    config,    \* the newest configuration
    pending,   \* _pending_reload_config
    drain,     \* _reload_task: "none", "created", "hook", "cancel", "loop", or "ending"
               \* when it was cancelled and has not ended
    loading,   \* the configuration it reloads for
    old,       \* the plugin task it stops
    current,   \* _task, 0 for None
    plugin,    \* the state of each task: "new", "runs", "told", "ended"
    built,     \* the configuration each was started with
    restart,   \* the ended task _restart_task sleeps for, 0 for none
    loaded,    \* the configuration _reload_plugin was last run for
    raced,     \* whether a restart replaced a newer configuration that was pending
    stop,      \* shutdown: "no", it waits for the "restart" or the "reload" it cancelled,
               \* or for the "hook" of the plugin, or it is "done"
    down,      \* _shutting_down
    dying,     \* the plugin task shutdown stops
    late       \* history: a configuration came once shutdown had begun

vars == <<config, pending, drain, loading, old, current, plugin, built, restart,
          loaded, raced, stop, down, dying, late>>

Init ==
    /\ config = 1 /\ pending = 1 /\ drain = "created"
    /\ loading = 0 /\ old = 0 /\ current = 0
    /\ plugin = [p \in Plugins |-> "new"] /\ built = [p \in Plugins |-> 0]
    /\ restart = 0 /\ loaded = 0 /\ raced = FALSE
    /\ stop = "no" /\ down = FALSE /\ dying = 0 /\ late = FALSE

\* The task that is replaced is told to stop.
Replaced == [p \in Plugins |-> IF p = current /\ plugin[p] = "runs" THEN "told" ELSE plugin[p]]

\* on_config_change; a configuration without a plugin name leaves the old plugin running.
\* Nothing keeps it from coming during a shutdown, or after it.
ConfigChange ==
    /\ config + 1 \in Versions /\ drain # "loop"
    /\ config' = config + 1
    /\ pending' = config + 1
    /\ drain' = IF drain = "none" THEN "created" ELSE drain
    /\ late' = (late \/ stop # "no")
    /\ UNCHANGED <<loading, old, current, plugin, built, restart, loaded, raced, stop, down,
                   dying>>

\* _drain_plugin_reloads takes what is pending, or ends. _reload_plugin takes back that a
\* shutdown began, and _stop_current_plugin clears the fields and runs the plugin's hook.
StartReload ==
    /\ drain \in {"created", "loop"} /\ pending # 0
    /\ loading' = pending /\ pending' = 0
    /\ down' = FALSE
    /\ old' = current /\ current' = 0
    /\ drain' = "hook"
    /\ plugin' = Replaced
    /\ UNCHANGED <<config, built, restart, loaded, raced, stop, dying, late>>

\* A shutdown took what was pending before the task ran.
NothingPending ==
    /\ drain = "created" /\ pending = 0
    /\ drain' = "none"
    /\ UNCHANGED <<config, pending, loading, old, current, plugin, built, restart, loaded,
                   raced, stop, down, dying, late>>

\* A mistake: the old task is not cancelled once its hook has run.
HookOnly ==
    /\ drain = "hook"
    /\ drain' = "cancel"
    /\ UNCHANGED <<config, pending, loading, old, current, plugin, built, restart, loaded,
                   raced, stop, down, dying, late>>

Cancelled(task) == [p \in Plugins |-> IF p = task THEN "ended" ELSE plugin[p]]

HookEnds ==
    /\ drain = "hook"
    /\ drain' = "cancel"
    /\ plugin' = Cancelled(old)
    /\ UNCHANGED <<config, pending, loading, old, current, built, restart, loaded, raced,
                   stop, down, dying, late>>

Start(p) ==
    /\ plugin[p] = "new" /\ \A q \in Plugins : q < p => plugin[q] # "new"
    /\ plugin' = [plugin EXCEPT ![p] = "runs"]
    /\ built' = [built EXCEPT ![p] = loading]
    /\ current' = p

\* A mistake: what became pending during the reload is dropped at its end.
LoadAndClear ==
    /\ drain = "cancel"
    /\ \E p \in Plugins : Start(p)
    /\ loaded' = loading
    /\ loading' = 0 /\ old' = 0 /\ pending' = 0
    /\ drain' = "none"
    /\ UNCHANGED <<config, restart, raced, stop, down, dying, late>>

\* The plugin is loaded and started, or the load fails and none runs; then the loop goes
\* on at once, without an await.
Load ==
    /\ drain = "cancel"
    /\ \/ \E p \in Plugins : Start(p)
       \/ UNCHANGED <<plugin, built, current>>
    /\ loaded' = loading
    /\ loading' = 0 /\ old' = 0
    /\ drain' = IF pending = 0 THEN "none" ELSE "loop"
    /\ UNCHANGED <<config, pending, restart, raced, stop, down, dying, late>>

\* The plugin ends or crashes: _handle_plugin_task_done sends one restart on its way.
PluginEnds(p) ==
    /\ plugin[p] \in {"runs", "told"} /\ drain # "loop"
    /\ plugin' = [plugin EXCEPT ![p] = "ended"]
    /\ restart' = IF ~down /\ p = current /\ restart = 0 THEN p ELSE restart
    /\ UNCHANGED <<config, pending, drain, loading, old, current, built, loaded, raced, stop,
                   down, dying, late>>

\* _restart_plugin_after_failure, after its sleep: it asks for the configuration of the
\* task that ended, whatever is pending by then.
RestartWakes ==
    /\ restart # 0 /\ stop # "restart" /\ drain # "loop"
    /\ restart' = 0
    /\ IF restart = current /\ ~down
       THEN /\ pending' = built[restart]
            /\ drain' = IF drain = "none" THEN "created" ELSE drain
            /\ raced' = (raced \/ pending > built[restart])
       ELSE UNCHANGED <<pending, drain, raced>>
    /\ UNCHANGED <<config, loading, old, current, plugin, built, loaded, stop, down, dying,
                   late>>

\* The plugin that runs is stopped as in a reload, though not under its lock.
StopPlugin ==
    /\ stop' = "hook"
    /\ dying' = current /\ current' = 0
    /\ plugin' = Replaced

\* A mistake: the reload in progress is left alone.
ReloadLeft == StopPlugin /\ UNCHANGED <<drain, loading, old>>

\* A reload in progress is cancelled before. One that is cancelled in the hook has told its
\* plugin and does not cancel it.
CancelReload ==
    IF drain # "none"
    THEN /\ stop' = "reload"
         /\ drain' = "ending" /\ loading' = 0 /\ old' = 0
         /\ UNCHANGED <<current, plugin, dying>>
    ELSE StopPlugin /\ UNCHANGED <<drain, loading, old>>

\* shutdown: the restart is cancelled and awaited, then the reload, then the plugin stopped.
Shutdown ==
    /\ stop = "no" /\ drain # "loop"
    /\ down' = TRUE /\ pending' = 0
    /\ IF restart # 0
       THEN stop' = "restart" /\ UNCHANGED <<drain, loading, old, current, plugin, dying>>
       ELSE CancelReload
    /\ UNCHANGED <<config, built, restart, loaded, raced, late>>

\* The helper task that was cancelled ends, and shutdown goes on. What became pending
\* meanwhile is kept, and no task takes it.
HelperEnds ==
    /\ drain # "loop"
    /\ \/ stop = "restart" /\ restart' = 0 /\ CancelReload
       \/ stop = "reload" /\ drain' = "none" /\ StopPlugin /\ UNCHANGED <<loading, old, restart>>
    /\ UNCHANGED <<config, pending, built, loaded, raced, down, late>>

ShutdownEnds ==
    /\ stop = "hook" /\ drain # "loop"
    /\ stop' = "done"
    /\ plugin' = Cancelled(dying)
    /\ dying' = 0
    /\ UNCHANGED <<config, pending, drain, loading, old, current, built, restart, loaded,
                   raced, down, late>>

Next ==
    \/ ConfigChange \/ StartReload \/ NothingPending \/ HookEnds \/ Load \/ RestartWakes
    \/ \E p \in Plugins : PluginEnds(p)
    \/ Shutdown \/ HelperEnds \/ ShutdownEnds

Spec == Init /\ [][Next]_vars

-----------------------------------------------------------------------------
\* Two plugins never trade side by side, whatever reloads, crashes and restarts cross.
OnePlugin ==
    \A p, q \in Plugins :
        plugin[p] \in {"runs", "told"} /\ plugin[q] \in {"runs", "told"} /\ stop = "no" => p = q

\* After a shutdown no plugin runs that was not told to stop, and nothing is on its way to
\* start one, whatever reloads, restarts and crashes it met; a configuration that comes once
\* the shutdown has begun starts a plugin all the same (signal.py 225, 263-270).
QuietAfterShutdown ==
    stop = "done" /\ ~late =>
        drain = "none" /\ restart = 0 /\ \A p \in Plugins : plugin[p] # "runs"

\* When reloads settle, the last one was for the newest configuration, unless a restart
\* woke between that change and its reload.
NewestLoaded ==
    drain = "none" /\ stop = "no" => loaded = config \/ raced

\* A plugin that ends is on its way to be started again.
EndedRestarts ==
    current # 0 /\ stop = "no" /\ drain = "none" =>
        plugin[current] = "runs" \/ restart = current
===============================================================================
