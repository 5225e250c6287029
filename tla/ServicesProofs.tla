------------------------------ MODULE ServicesProofs ------------------------------
(***************************************************************************)
(* The promises of the services, for any number of configurations, clients, *)
(* readers, processes, requests, symbols, prices and candles, and every     *)
(* size of a queue and of a window. The signal plugin, the exchange client  *)
(* of the watcher, the web socket fan-out, the cache, the candles, the      *)
(* configuration and the guards of its changes, the market history and the  *)
(* archives are argued for one after the other; the last part puts them     *)
(* together: a step of the services is a step of one part, or stutters for  *)
(* the others.                                                              *)
(***************************************************************************)
EXTENDS MCServices, WellFoundedInduction, SequenceTheorems, TLAPS

-----------------------------------------------------------------------------
(***************************************************************************)
(* The signal plugin. OnePlugin says nothing of who runs: the invariant    *)
(* names the one task that may, in every phase of a reload, and where the  *)
(* newest configuration is on its way.                                     *)
(***************************************************************************)
ReloadTypeInv ==
    /\ config \in Nat /\ pending \in Nat /\ loading \in Nat /\ loaded \in Nat
    /\ plugin \in [Plugins -> {"new", "runs", "told", "ended"}]
    /\ built \in [Plugins -> Nat]
    /\ current \in Plugins \cup {0} /\ restart \in Plugins \cup {0}
    /\ drain \in {"none", "created", "hook", "cancel", "loop", "ending"}
    /\ stop \in {"no", "restart", "reload", "hook", "done"}
    /\ raced \in BOOLEAN /\ down \in BOOLEAN /\ late \in BOOLEAN

Running(p) == plugin[p] \in {"runs", "told"}

\* Outside a reload only the current task runs, in its hook only the one that is replaced,
\* which was told; and after the hook none does.
Alone == \A p \in Plugins :
    /\ drain \in {"none", "created", "loop"} => (Running(p) => p = current)
    /\ drain = "hook" => (Running(p) => p = old /\ plugin[p] = "told")
    /\ drain = "cancel" => ~Running(p)

\* A reload goes on while shutdown waits for the restart, with nothing pending to go on
\* with; then the helper tasks are gone and the task that is left is told.
AloneInv ==
    /\ stop = "no" => ~late /\ ~down /\ drain # "ending"
    /\ ~late /\ stop \in {"no", "restart"} => Alone /\ drain # "ending"
    /\ ~late /\ stop # "no" => down /\ pending = 0
    /\ ~late /\ stop = "reload" =>
         drain = "ending" /\ restart = 0 /\ \A p \in Plugins : plugin[p] = "runs" => p = current
    /\ ~late /\ stop \in {"hook", "done"} =>
         drain = "none" /\ restart = 0 /\ \A p \in Plugins : plugin[p] # "runs"

\* The newest configuration is pending, being loaded, or loaded, and the current task was
\* started with the one that was loaded last.
NewestInv ==
    /\ drain \in {"none", "hook", "cancel"} \/ pending # 0
    /\ drain = "none" => pending = 0
    /\ drain \in {"hook", "cancel"} => current = 0 /\ loading > 0
    /\ current # 0 => built[current] = loaded /\ loaded > 0
    /\ config > 0 /\ loaded <= config /\ loading <= config /\ pending <= config
    /\ \A p \in Plugins : built[p] <= config
    /\ raced \/ \/ pending # 0 /\ pending = config
                \/ pending = 0 /\ drain = "none" /\ loaded = config
                \/ pending = 0 /\ drain \in {"hook", "cancel"} /\ loading = config

-----------------------------------------------------------------------------
\* At first no plugin runs.
LEMMA ReloadInit == Init => ReloadTypeInv /\ AloneInv
<1> SUFFICES ASSUME Init
             PROVE  ReloadTypeInv /\ AloneInv
  OBVIOUS
<1>1. ReloadTypeInv
  BY DEF Init, ReloadTypeInv
<1>2. AloneInv
  BY DEF Init, AloneInv, Alone, Running
<1> QED
  BY <1>1, <1>2

\* The reload keeps the shape of its state.
LEMMA ReloadTypeStep == ReloadTypeInv /\ [Next]_vars => ReloadTypeInv'
<1> SUFFICES ASSUME ReloadTypeInv, [Next]_vars
             PROVE  ReloadTypeInv'
  OBVIOUS
<1> USE DEF ReloadTypeInv
<1>1. CASE ConfigChange
  BY <1>1 DEF ConfigChange
<1>2. CASE StartReload
  BY <1>2 DEF StartReload, Replaced
<1>3. CASE HookEnds
  BY <1>3 DEF HookEnds, Cancelled
<1>4. CASE Load
  BY <1>4 DEF Load, Start
<1>5. CASE RestartWakes
  BY <1>5 DEF RestartWakes
<1>6. ASSUME NEW p \in Plugins, PluginEnds(p)
      PROVE  ReloadTypeInv'
  BY <1>6 DEF PluginEnds
<1>7. CASE Shutdown
  BY <1>7 DEF Shutdown, CancelReload, StopPlugin, Replaced
<1>8. CASE ShutdownEnds
  BY <1>8 DEF ShutdownEnds, Cancelled
<1>9. CASE NothingPending
  BY <1>9 DEF NothingPending
<1>10. CASE HelperEnds
  BY <1>10 DEF HelperEnds, CancelReload, StopPlugin, Replaced
<1>11. CASE UNCHANGED vars
  BY <1>11 DEF vars
<1> QED
  BY <1>1, <1>2, <1>3, <1>4, <1>5, <1>6, <1>7, <1>8, <1>9, <1>10, <1>11 DEF Next

\* No step starts a task beside one that runs.
LEMMA AloneStep == ReloadTypeInv /\ AloneInv /\ [Next]_vars => AloneInv'
<1> SUFFICES ASSUME ReloadTypeInv, AloneInv, [Next]_vars
             PROVE  AloneInv'
  OBVIOUS
<1> USE DEF ReloadTypeInv, AloneInv, Alone, Running
<1>1. CASE ConfigChange
  BY <1>1 DEF ConfigChange
<1>2. CASE StartReload
  BY <1>2 DEF StartReload, Replaced
<1>3. CASE HookEnds
  BY <1>3 DEF HookEnds, Cancelled
<1>4. CASE Load
  BY <1>4 DEF Load, Start
<1>5. CASE RestartWakes
  BY <1>5 DEF RestartWakes
<1>6. ASSUME NEW p \in Plugins, PluginEnds(p)
      PROVE  AloneInv'
  BY <1>6 DEF PluginEnds
<1>7. CASE Shutdown
  BY <1>7 DEF Shutdown, CancelReload, StopPlugin, Replaced
<1>8. CASE ShutdownEnds
  BY <1>8 DEF ShutdownEnds, Cancelled
<1>9. CASE NothingPending
  BY <1>9 DEF NothingPending
<1>10. CASE HelperEnds
  BY <1>10 DEF HelperEnds, CancelReload, StopPlugin, Replaced
<1>11. CASE UNCHANGED vars
  BY <1>11 DEF vars
<1> QED
  BY <1>1, <1>2, <1>3, <1>4, <1>5, <1>6, <1>7, <1>8, <1>9, <1>10, <1>11 DEF Next

\* The two together hold in every state.
LEMMA AloneAlways == Spec => [](ReloadTypeInv /\ AloneInv)
<1>1. ReloadTypeInv /\ AloneInv /\ [Next]_vars => (ReloadTypeInv /\ AloneInv)'
  BY ReloadTypeStep, AloneStep
<1> QED
  BY ReloadInit, <1>1, PTL DEF Spec

\* Two plugins never trade side by side (signal.py), however reloads, crashes and restarts
\* cross.
THEOREM OnePluginRuns == Spec => []OnePlugin
<1>1. ReloadTypeInv /\ AloneInv => OnePlugin
  BY DEF ReloadTypeInv, AloneInv, Alone, OnePlugin, Running
<1> QED
  BY AloneAlways, <1>1, PTL

\* A shutdown that has ended leaves no helper task and no plugin that was not told, unless a
\* configuration came once it had begun (signal.py, shutdown and on_config_change).
THEOREM ShutdownIsQuiet == Spec => []QuietAfterShutdown
<1>1. AloneInv => QuietAfterShutdown
  BY DEF AloneInv, QuietAfterShutdown
<1> QED
  BY AloneAlways, <1>1, PTL

-----------------------------------------------------------------------------
\* While nobody shuts down, the newest configuration is not lost on its way.
LEMMA NewestStep ==
    ASSUME 0 \notin Plugins, ReloadTypeInv, AloneInv, NewestInv,
           stop = "no", [Next]_vars, stop' = "no"
    PROVE  NewestInv'
<1> USE DEF ReloadTypeInv, AloneInv, NewestInv
<1>1. CASE ConfigChange
  BY <1>1 DEF ConfigChange
<1>2. CASE StartReload
  BY <1>2 DEF StartReload
<1>3. CASE HookEnds
  BY <1>3 DEF HookEnds
<1>4. CASE Load
  BY <1>4 DEF Load, Start
<1>5. CASE RestartWakes
  <2>1. CASE restart = current
    <3>1. built[restart] = loaded /\ loaded > 0 /\ pending' = loaded
      BY <1>5, <2>1 DEF RestartWakes
    <3>2. drain \in {"none", "created"} /\ drain' = "created"
      BY <1>5, <2>1 DEF RestartWakes
    <3>3. drain = "created" => raced' = (raced \/ pending > loaded)
      BY <1>5, <2>1, <3>1 DEF RestartWakes
    <3>4. drain = "none" => loaded = config \/ raced
      OBVIOUS
    <3>5. raced => raced'
      BY <1>5, <2>1 DEF RestartWakes
    <3>6. raced' \/ loaded = config
      <4>1. CASE drain = "none"
        BY <4>1, <3>4, <3>5
      <4>2. CASE drain = "created" /\ pending > loaded
        BY <4>2, <3>3
      <4>3. CASE drain = "created" /\ ~(pending > loaded)
        BY <4>3, <3>5
      <4> QED
        BY <3>2, <4>1, <4>2, <4>3
    <3>7. UNCHANGED <<config, loading, current, built, loaded>>
      BY <1>5 DEF RestartWakes
    <3> QED
      BY <1>5, <2>1, <3>1, <3>2, <3>6, <3>7
  <2>2. CASE restart # current
    BY <1>5, <2>2 DEF RestartWakes
  <2> QED
    BY <2>1, <2>2
<1>6. ASSUME NEW p \in Plugins, PluginEnds(p)
      PROVE  NewestInv'
  BY <1>6 DEF PluginEnds
<1>7. CASE Shutdown \/ HelperEnds \/ ShutdownEnds
  BY <1>7 DEF Shutdown, HelperEnds, CancelReload, StopPlugin, ShutdownEnds
<1>8. CASE NothingPending
  BY <1>8 DEF NothingPending
<1>9. CASE UNCHANGED vars
  BY <1>9 DEF vars
<1> QED
  BY <1>1, <1>2, <1>3, <1>4, <1>5, <1>6, <1>7, <1>8, <1>9 DEF Next

\* When reloads settle, the last was for the newest configuration, or a restart raced with it.
THEOREM NewestIsLoaded ==
    ASSUME 0 \notin Plugins
    PROVE  Spec => []NewestLoaded
<1> DEFINE Inv == ReloadTypeInv /\ AloneInv /\ (stop = "no" => NewestInv)
<1>1. Init => Inv
  BY ReloadInit DEF Init, ReloadTypeInv, NewestInv
<1>2. Inv /\ [Next]_vars => Inv'
  <2> SUFFICES ASSUME Inv, [Next]_vars
               PROVE  Inv'
    OBVIOUS
  <2>1. stop' = "no" => stop = "no"
    BY DEF Next, vars, ConfigChange, StartReload, HookEnds, Load, RestartWakes, PluginEnds,
           NothingPending, Shutdown, HelperEnds, CancelReload, StopPlugin, ShutdownEnds
  <2> QED
    BY <2>1, ReloadTypeStep, AloneStep, NewestStep
<1>3. Inv => NewestLoaded
  BY DEF ReloadTypeInv, NewestInv, NewestLoaded
<1> QED
  BY <1>1, <1>2, <1>3, PTL DEF Spec

-----------------------------------------------------------------------------
(***************************************************************************)
(* The exchange client of the watcher. What is built while a newer         *)
(* configuration is pending may be old, because it is built again.         *)
(***************************************************************************)
\* What waits is the newest configuration, and what is built without one waiting is too.
ClientInv ==
    /\ settings \in Nat \ {0}
    /\ stopping = "no" =>
         /\ reloadConfig \in {0, settings}
         /\ reload # 0 /\ reloadConfig = 0 => reload = settings
         /\ reload = 0 /\ reloadConfig = 0 => exchange \in {0, settings}

\* The first configuration waits to be built.
LEMMA ClientInit == Reloads!Init => ClientInv
  BY DEF Reloads!Init, ClientInv

\* A change, a build and a failure leave the newest configuration waiting or built.
LEMMA ClientStep == ClientInv /\ [Reloads!Next]_targetVars => ClientInv'
<1> SUFFICES ASSUME ClientInv, [Reloads!Next]_targetVars
             PROVE  ClientInv'
  OBVIOUS
<1> USE DEF ClientInv, Reloads!client
<1>1. ASSUME NEW on \in BOOLEAN, Reloads!ConfigChange(on)
      PROVE  ClientInv'
  BY <1>1 DEF Reloads!ConfigChange
<1>2. CASE Reloads!StartReload
  BY <1>2 DEF Reloads!StartReload
<1>3. ASSUME NEW ok \in BOOLEAN, Reloads!FinishReload(ok)
      PROVE  ClientInv'
  BY <1>3 DEF Reloads!FinishReload
<1>4. CASE Reloads!Shutdown \/ Reloads!CleanUp
  BY <1>4 DEF Reloads!Shutdown, Reloads!CleanUp
<1>5. ASSUME NEW S, Reloads!Push(S)
      PROVE  ClientInv'
  BY <1>5 DEF Reloads!Push
<1>6. ASSUME NEW s, Reloads!BuySaves(s) \/ Reloads!CloseSaves(s) \/ Reloads!TaskCrashes(s)
      PROVE  ClientInv'
  BY <1>6 DEF Reloads!BuySaves, Reloads!CloseSaves, Reloads!TaskCrashes
<1>7. CASE \/ Reloads!ReadTrades \/ Reloads!ApplyTrades \/ Reloads!Commit
           \/ Reloads!WarmupEnds \/ Reloads!StartLoop \/ Reloads!LoopDies
  BY <1>7 DEF Reloads!ReadTrades, Reloads!ApplyTrades, Reloads!Commit, Reloads!WarmupEnds,
              Reloads!StartLoop, Reloads!LoopDies
<1>8. CASE Reloads!Turn \/ Reloads!IdleSleepEnds \/ Reloads!LoopEnds
  BY <1>8 DEF Reloads!Turn, Reloads!IdleSleepEnds, Reloads!LoopEnds
<1>9. CASE UNCHANGED targetVars
  BY <1>9 DEF targetVars
<1> QED
  BY <1>1, <1>2, <1>3, <1>4, <1>5, <1>6, <1>7, <1>8, <1>9 DEF Reloads!Next

-----------------------------------------------------------------------------
(***************************************************************************)
(* The web socket fan-out. NobodyBehind is not inductive: a client whose   *)
(* queue still holds an older payload than the one it was shown would      *)
(* satisfy it and lose it with its next read.                              *)
(***************************************************************************)
SocketTypeInv ==
    /\ subscribers \subseteq Clients
    /\ DOMAIN queue = Clients /\ queue = [c \in Clients |-> queue[c]]
    /\ DOMAIN seen = Clients /\ seen = [c \in Clients |-> seen[c]]

\* A queue holds the latest payload or, once that was sent, nothing.
FollowInv ==
    \A c \in subscribers :
        latest # 0 => queue[c] = latest \/ (queue[c] = 0 /\ seen[c] = latest)

FanoutInv == SocketTypeInv /\ FollowInv

-----------------------------------------------------------------------------
\* Without subscribers nobody is behind.
LEMMA FanoutInit == Sockets!Init => FanoutInv
  BY DEF Sockets!Init, FanoutInv, SocketTypeInv, FollowInv

\* A broadcast replaces what a queue holds; a read shows it; a stop forgets both.
LEMMA FanoutStep == FanoutInv /\ [Sockets!Next]_socketVars => FanoutInv'
<1> SUFFICES ASSUME FanoutInv, [Sockets!Next]_socketVars
             PROVE  FanoutInv'
  OBVIOUS
<1> USE DEF FanoutInv, SocketTypeInv, FollowInv
<1>1. CASE Sockets!Change \/ Sockets!Produce \/ Sockets!ProduceFails \/ Sockets!SleepEnds
  BY <1>1 DEF Sockets!Change, Sockets!Produce, Sockets!ProduceFails, Sockets!SleepEnds,
              Sockets!sockets
<1>2. CASE Sockets!Broadcast
  BY <1>2 DEF Sockets!Broadcast, Sockets!Signal
<1>3. CASE Sockets!Stop
  BY <1>3 DEF Sockets!Stop, Sockets!Signal
<1>4. ASSUME NEW c \in Clients, Sockets!Subscribe(c)
      PROVE  FanoutInv'
  BY <1>4 DEF Sockets!Subscribe
<1>5. ASSUME NEW c \in Clients, Sockets!Get(c)
      PROVE  FanoutInv'
  BY <1>5 DEF Sockets!Get
<1>6. ASSUME NEW c \in Clients, Sockets!Leave(c)
      PROVE  FanoutInv'
  BY <1>6 DEF Sockets!Leave
<1>7. CASE UNCHANGED socketVars
  BY <1>7 DEF socketVars
<1> QED
  BY <1>1, <1>2, <1>3, <1>4, <1>5, <1>6, <1>7 DEF Sockets!Next, Sockets!LeaveOnStop

-----------------------------------------------------------------------------
(***************************************************************************)
(* The cache. FreshAfterClear is not inductive: what a call has read becomes*)
(* the entry later, so the same must be known of every read under way,     *)
(* expired or not.                                                         *)
(***************************************************************************)
\* When the entry expires does not matter to the argument.
CacheTypeInv ==
    /\ version \in Nat /\ cleared \in Nat
    /\ entry.value \in Nat /\ entry.crossed \in BOOLEAN
    /\ reader \in [Readers -> [value : Nat, crossed : BOOLEAN]]

\* A value that was read before the last clear says so.
Honest(v) == v.value # 0 => v.value >= cleared \/ v.crossed

CacheInv ==
    /\ CacheTypeInv
    /\ cleared <= version
    /\ Honest(entry)
    /\ \A r \in Readers : Honest(reader[r])

-----------------------------------------------------------------------------
\* An empty cache serves nothing.
LEMMA CacheInit == Cache!Init => CacheInv
  BY DEF Cache!Init, CacheInv, CacheTypeInv, Honest, Cache!NoEntry, Cache!NoRead

\* A clear marks the reads it crosses; a fill passes the mark on.
LEMMA CacheStep == CacheInv /\ [Cache!Next]_cacheVars => CacheInv'
<1> SUFFICES ASSUME CacheInv, [Cache!Next]_cacheVars
             PROVE  CacheInv'
  OBVIOUS
<1> USE DEF CacheInv, CacheTypeInv, Honest
<1>1. CASE Cache!Tick
  BY <1>1 DEF Cache!Tick
<1>2. CASE Cache!Write
  BY <1>2 DEF Cache!Write
<1>3. CASE Cache!Clear
  <2>1. entry'.value = 0 /\ entry'.crossed \in BOOLEAN /\ cleared' = version /\ version' = version
    BY <1>3 DEF Cache!Clear, Cache!NoEntry
  <2>2. reader' \in [Readers -> [value : Nat, crossed : BOOLEAN]]
    BY <1>3 DEF Cache!Clear
  <2>3. \A r \in Readers : reader'[r].value # 0 => reader'[r].crossed
    BY <1>3 DEF Cache!Clear
  <2>4. CacheTypeInv'
    BY <2>1, <2>2
  <2>5. Honest(entry)'
    BY <2>1
  <2>6. \A r \in Readers : Honest(reader[r])'
    BY <2>3
  <2> QED
    BY <2>1, <2>4, <2>5, <2>6
<1>4. ASSUME NEW r \in Readers, Cache!Miss(r)
      PROVE  CacheInv'
  BY <1>4 DEF Cache!Miss
<1>5. ASSUME NEW r \in Readers, Cache!Fill(r)
      PROVE  CacheInv'
  BY <1>5 DEF Cache!Fill, Cache!NoRead
<1>6. CASE UNCHANGED cacheVars
  BY <1>6 DEF cacheVars
<1> QED
  BY <1>1, <1>2, <1>3, <1>4, <1>5, <1>6 DEF Cache!Next

-----------------------------------------------------------------------------
(***************************************************************************)
(* The candles. The writer of a closed candle may be late, so its time is   *)
(* behind the live candle of its symbol; and no price arrives for a minute  *)
(* whose candle is closed, or before its candle is live.                    *)
(***************************************************************************)
Amount == Prices \cup {0}
Candle == [time : Times \cup {0}, high : Amount, low : Amount, close : Amount]
Row == [symbol : Symbols, candle : Candle]

\* Sets of timestamps and prices, as numbers
LEMMA Numbers ==
    /\ \A t \in Times : t \in Int /\ t > 0
    /\ \A p \in Prices : p \in Int
    /\ \A c \in Candle : c.time \in Int /\ c.time >= 0 /\ (c.time # 0 => c.time \in Times)
<1>1. \A t \in Times : t \in Int /\ t > 0
  BY FeedAssumption
<1>2. \A p \in Prices : p \in Int
  BY FeedAssumption
<1> QED
  BY <1>1, <1>2 DEF Candle

FeedTypeInv ==
    /\ events \in Seq([symbol : Symbols, price : Prices, time : Times])
    /\ candles \in [Symbols -> Candle]
    /\ candleQueue \in Seq(Row) /\ buffer \in Seq(Row) /\ tickers \in Seq(Row)
    /\ handled \in [Symbols -> [Times -> SUBSET Prices]]

\* A candle of symbol s is made of the prices H it was given.
Spanning(H, s, c) == c.time # 0 =>
    /\ H[s][c.time] # {}
    /\ c.high \in H[s][c.time] /\ c.low \in H[s][c.time]
    /\ \A p \in H[s][c.time] : c.low <= p /\ p <= c.high

\* The live candle spans its prices, and the minutes after it have none.
LiveInv == \A s \in Symbols :
    /\ Spanning(handled, s, candles[s])
    /\ \A t \in Times : t > candles[s].time => handled[s][t] = {}

\* A closed candle spans its prices, and a later one of its symbol is live.
Closed(H, C, r) ==
    r.candle.time # 0 /\ r.candle.time < C[r.symbol].time /\ Spanning(H, r.symbol, r.candle)
AllClosed(H, C, q) == \A i \in 1 .. Len(q) : Closed(H, C, q[i])

\* Rows of one symbol are in the order of time: within a queue, and from one to the next.
InOrder(r, w) == r.symbol = w.symbol => r.candle.time < w.candle.time
Sorted(q) == \A i, j \in 1 .. Len(q) : i < j => InOrder(q[i], q[j])
Before(q, w) == \A i \in 1 .. Len(q), j \in 1 .. Len(w) : InOrder(q[i], w[j])

ClosedInv ==
    /\ AllClosed(handled, candles, candleQueue)
    /\ AllClosed(handled, candles, buffer)
    /\ AllClosed(handled, candles, tickers)

OrderInv ==
    /\ Sorted(candleQueue) /\ Sorted(buffer) /\ Sorted(tickers)
    /\ Before(tickers, buffer) /\ Before(buffer, candleQueue) /\ Before(tickers, candleQueue)

FeedInv == FeedTypeInv /\ LiveInv /\ ClosedInv /\ OrderInv

\* Without candles there is nothing to order.
LEMMA FeedInit == FullFeed!Init => FeedInv
<1> SUFFICES ASSUME FullFeed!Init
             PROVE  FeedInv
  OBVIOUS
<1> USE DEF FullFeed!Init, FullFeed!NoCandle
<1>1. FeedTypeInv
  BY DEF FeedTypeInv, Candle, Amount
<1>2. LiveInv
  BY FeedAssumption DEF LiveInv, Spanning
<1>3. ClosedInv /\ OrderInv
  BY DEF ClosedInv, OrderInv, AllClosed, Sorted, Before
<1> QED
  BY <1>1, <1>2, <1>3 DEF FeedInv

\* A row put at the end of a queue, or taken from its head, and a queue added to another.
LEMMA RowAppended ==
    ASSUME NEW R, NEW q \in Seq(R), NEW r \in R
    PROVE  /\ Append(q, r) \in Seq(R) /\ Len(Append(q, r)) = Len(q) + 1
           /\ \A i \in 1 .. Len(q) : Append(q, r)[i] = q[i]
           /\ Append(q, r)[Len(q) + 1] = r
  OBVIOUS

\* What is left of a queue without its head
LEMMA RowTaken ==
    ASSUME NEW R, NEW q \in Seq(R), q # <<>>
    PROVE  /\ Head(q) \in R /\ Head(q) = q[1] /\ Tail(q) \in Seq(R)
           /\ Len(q) \in Nat \ {0} /\ Len(Tail(q)) = Len(q) - 1
           /\ \A i \in 1 .. Len(q) - 1 : Tail(q)[i] = q[i + 1]
  OBVIOUS

\* A queue put behind another
LEMMA RowsAdded ==
    ASSUME NEW R, NEW q \in Seq(R), NEW w \in Seq(R)
    PROVE  /\ q \o w \in Seq(R) /\ Len(q \o w) = Len(q) + Len(w)
           /\ \A i \in 1 .. Len(q) : (q \o w)[i] = q[i]
           /\ \A i \in 1 .. Len(w) : (q \o w)[Len(q) + i] = w[i]
  OBVIOUS

\* What holds of a queue and a row put behind it holds of the longer queue.
LEMMA ClosedAppended ==
    ASSUME NEW H, NEW C, NEW q \in Seq(Row), NEW r \in Row,
           AllClosed(H, C, q), Closed(H, C, r)
    PROVE  AllClosed(H, C, Append(q, r))
<1> SUFFICES ASSUME NEW i \in 1 .. Len(Append(q, r))
             PROVE  Closed(H, C, Append(q, r)[i])
  BY DEF AllClosed
<1>1. i \in 1 .. Len(q) \/ i = Len(q) + 1
  BY RowAppended
<1> QED
  BY <1>1, RowAppended DEF AllClosed

\* A queue in order stays so when a later row is put behind it,
LEMMA SortedAppended ==
    ASSUME NEW q \in Seq(Row), NEW r \in Row, Sorted(q),
           \A i \in 1 .. Len(q) : InOrder(q[i], r)
    PROVE  Sorted(Append(q, r))
<1> SUFFICES ASSUME NEW i \in 1 .. Len(Append(q, r)), NEW j \in 1 .. Len(Append(q, r)), i < j
             PROVE  InOrder(Append(q, r)[i], Append(q, r)[j])
  BY DEF Sorted
<1>1. i \in 1 .. Len(q) /\ (j \in 1 .. Len(q) \/ j = Len(q) + 1)
  BY RowAppended
<1> QED
  BY <1>1, RowAppended DEF Sorted

\* and stays after the queue it is behind.
LEMMA BeforeAppended ==
    ASSUME NEW p \in Seq(Row), NEW q \in Seq(Row), NEW r \in Row, Before(p, q),
           \A i \in 1 .. Len(p) : InOrder(p[i], r)
    PROVE  Before(p, Append(q, r))
<1> SUFFICES ASSUME NEW i \in 1 .. Len(p), NEW j \in 1 .. Len(Append(q, r))
             PROVE  InOrder(p[i], Append(q, r)[j])
  BY DEF Before
<1>1. j \in 1 .. Len(q) \/ j = Len(q) + 1
  BY RowAppended
<1> QED
  BY <1>1, RowAppended DEF Before

-----------------------------------------------------------------------------
\* The next price of the live candle widens it; those of the closed ones do not change.
LEMMA CandleMerged ==
    ASSUME FeedInv, NEW e \in [symbol : Symbols, price : Prices, time : Times],
           candles[e.symbol].time = e.time,
           handled' = [handled EXCEPT ![e.symbol][e.time] = @ \union {e.price}],
           candles' = [candles EXCEPT ![e.symbol] = FullFeed!Merge(@,
                [time |-> e.time, high |-> e.price, low |-> e.price, close |-> e.price])]
    PROVE  /\ candles' \in [Symbols -> Candle] /\ LiveInv'
           /\ \A s \in Symbols : candles'[s].time = candles[s].time
<1> USE DEF FeedInv, FeedTypeInv
<1> DEFINE s == e.symbol
           c == candles[s]
           h == IF c.high >= e.price THEN c.high ELSE e.price
           l == IF c.low <= e.price THEN c.low ELSE e.price
<1>1. s \in Symbols /\ e.price \in Prices /\ e.time \in Times /\ c \in Candle
  OBVIOUS
<1>2. c.high \in Amount /\ c.low \in Amount /\ c.time = e.time
  BY <1>1 DEF Candle
<1>3. candles'[s] = [c EXCEPT !.high = h, !.low = l, !.close = e.price]
  BY <1>1 DEF FullFeed!Merge, FullFeed!Larger, FullFeed!Smaller
<1>4. \A x \in Symbols : x # s => candles'[x] = candles[x]
  OBVIOUS
<1>5. /\ candles'[s] \in Candle /\ candles'[s].time = e.time
      /\ candles'[s].high = h /\ candles'[s].low = l
  BY <1>1, <1>2, <1>3 DEF Candle, Amount
<1>6. candles' \in [Symbols -> Candle]
  BY <1>1, <1>5
<1>7. /\ handled'[s][e.time] = handled[s][e.time] \cup {e.price}
      /\ \A t \in Times : t # e.time => handled'[s][t] = handled[s][t]
      /\ \A x \in Symbols : x # s => handled'[x] = handled[x]
  BY <1>1
<1>8. e.time # 0 /\ e.time \in Int /\ \A p \in Prices : p \in Int
  BY <1>1, Numbers
<1>9. Spanning(handled, s, c)
  BY <1>1 DEF LiveInv
<1>10. Spanning(handled, s, candles[s])'
  <2>1. handled[s][e.time] \subseteq Prices
    BY <1>1
  <2>2. /\ c.high \in handled[s][e.time] /\ c.low \in handled[s][e.time]
        /\ \A p \in handled[s][e.time] : c.low <= p /\ p <= c.high
    BY <1>2, <1>8, <1>9 DEF Spanning
  <2>3. c.high \in Int /\ c.low \in Int /\ e.price \in Int
    BY <1>1, <1>8, <2>1, <2>2
  <2>4. h \in handled'[s][e.time] /\ l \in handled'[s][e.time]
    BY <1>7, <2>2
  <2>5. \A p \in handled'[s][e.time] : l <= p /\ p <= h
    <3> SUFFICES ASSUME NEW p \in handled'[s][e.time]
                 PROVE  l <= p /\ p <= h
      OBVIOUS
    <3>1. p = e.price \/ (p \in handled[s][e.time] /\ p \in Int)
      BY <1>7, <1>8, <2>1
    <3>2. CASE p = e.price
      BY <2>3, <3>2
    <3>3. CASE p \in handled[s][e.time] /\ p \in Int
      BY <2>2, <2>3, <3>3
    <3> QED
      BY <3>1, <3>2, <3>3
  <2> QED
    BY <1>5, <2>4, <2>5 DEF Spanning
<1>11. \A t \in Times : t > candles'[s].time => handled'[s][t] = {}
  BY <1>1, <1>2, <1>5, <1>7, <1>8, Numbers DEF LiveInv
<1>12. \A x \in Symbols : x # s =>
          /\ Spanning(handled, x, candles[x])'
          /\ \A t \in Times : t > candles'[x].time => handled'[x][t] = {}
  BY <1>4, <1>7 DEF LiveInv, Spanning
<1>13. LiveInv'
  BY <1>10, <1>11, <1>12 DEF LiveInv
<1> QED
  BY <1>2, <1>4, <1>5, <1>6, <1>13

\* The first price of a new minute starts a candle of its own.
LEMMA CandleStarted ==
    ASSUME FeedInv, NEW e \in [symbol : Symbols, price : Prices, time : Times],
           candles[e.symbol].time < e.time,
           handled' = [handled EXCEPT ![e.symbol][e.time] = @ \union {e.price}],
           candles' = [candles EXCEPT ![e.symbol] =
                [time |-> e.time, high |-> e.price, low |-> e.price, close |-> e.price]]
    PROVE  /\ candles' \in [Symbols -> Candle] /\ LiveInv'
           /\ \A s \in Symbols : candles'[s].time >= candles[s].time
<1> USE DEF FeedInv, FeedTypeInv
<1> DEFINE s == e.symbol
<1>1. s \in Symbols /\ e.price \in Prices /\ e.time \in Times /\ candles[s] \in Candle
  OBVIOUS
<1>2. candles'[s] = [time |-> e.time, high |-> e.price, low |-> e.price, close |-> e.price]
  BY <1>1
<1>3. \A x \in Symbols : x # s => candles'[x] = candles[x]
  OBVIOUS
<1>4. candles' \in [Symbols -> Candle]
  BY <1>1, <1>2 DEF Candle, Amount
<1>5. /\ handled'[s][e.time] = handled[s][e.time] \cup {e.price}
      /\ \A t \in Times : t # e.time => handled'[s][t] = handled[s][t]
      /\ \A x \in Symbols : x # s => handled'[x] = handled[x]
  BY <1>1
<1>6. handled'[s][e.time] = {e.price}
  BY <1>1, <1>5 DEF LiveInv
<1>7. /\ e.time # 0 /\ e.time \in Int /\ candles[s].time \in Int
      /\ e.price \in Int /\ \A t \in Times : t \in Int
  BY <1>1, Numbers
<1>8. Spanning(handled, s, candles[s])'
  <2>1. candles'[s].time = e.time /\ candles'[s].high = e.price /\ candles'[s].low = e.price
    BY <1>2
  <2>2. handled'[s][candles'[s].time] = {e.price}
    BY <1>6, <2>1
  <2>3. e.price <= e.price
    BY <1>7
  <2> QED
    BY <2>1, <2>2, <2>3 DEF Spanning
<1>9. \A t \in Times : t > candles'[s].time => handled'[s][t] = {}
  <2> SUFFICES ASSUME NEW t \in Times, t > e.time
               PROVE  handled'[s][t] = {}
    BY <1>2
  <2>1. t # e.time /\ t > candles[s].time
    BY <1>7
  <2> QED
    BY <1>1, <1>5, <2>1 DEF LiveInv
<1>10. \A x \in Symbols : x # s =>
          /\ Spanning(handled, x, candles[x])'
          /\ \A t \in Times : t > candles'[x].time => handled'[x][t] = {}
  BY <1>3, <1>5 DEF LiveInv, Spanning
<1>11. LiveInv'
  BY <1>8, <1>9, <1>10 DEF LiveInv
<1>12. \A x \in Symbols : candles[x].time \in Int
  BY Numbers
<1> QED
  BY <1>2, <1>3, <1>4, <1>7, <1>11, <1>12

\* A closed candle stays what it was.
LEMMA ClosedKept ==
    ASSUME FeedInv, NEW e \in [symbol : Symbols, price : Prices, time : Times],
           e.time >= candles[e.symbol].time,
           handled' = [handled EXCEPT ![e.symbol][e.time] = @ \union {e.price}],
           candles' \in [Symbols -> Candle],
           \A s \in Symbols : candles'[s].time >= candles[s].time,
           NEW q \in Seq(Row), AllClosed(handled, candles, q)
    PROVE  AllClosed(handled', candles', q)
<1> SUFFICES ASSUME NEW i \in 1 .. Len(q)
             PROVE  Closed(handled', candles', q[i])
  BY DEF AllClosed
<1> DEFINE r == q[i]
<1>1. r \in Row /\ Closed(handled, candles, r)
  BY DEF AllClosed
<1>2. /\ r.symbol \in Symbols /\ r.candle.time \in Times
      /\ candles[r.symbol] \in Candle /\ candles'[r.symbol] \in Candle
  BY <1>1 DEF Row, Candle, Closed, FeedInv, FeedTypeInv
<1>3. /\ r.candle.time \in Int /\ candles[r.symbol].time \in Int
      /\ candles'[r.symbol].time \in Int /\ e.time \in Int
  BY <1>2, Numbers DEF Candle
<1>4. r.candle.time < candles'[r.symbol].time
  BY <1>1, <1>2, <1>3 DEF Closed
<1>5. ~(r.symbol = e.symbol /\ r.candle.time = e.time)
  BY <1>1, <1>2, <1>3 DEF Closed
<1>6. handled'[r.symbol][r.candle.time] = handled[r.symbol][r.candle.time]
  BY <1>2, <1>5 DEF FeedInv, FeedTypeInv
<1> QED
  BY <1>1, <1>4, <1>6 DEF Closed, Spanning

\* What the candle queue gets is the candle that was live, later than all before it.
LEMMA CandleQueued ==
    ASSUME FeedInv, NEW e \in [symbol : Symbols, price : Prices, time : Times],
           candles[e.symbol].time # 0, candles[e.symbol].time < e.time,
           handled' = [handled EXCEPT ![e.symbol][e.time] = @ \union {e.price}],
           candles' \in [Symbols -> Candle], candles'[e.symbol].time = e.time,
           NEW r, r = [symbol |-> e.symbol, candle |-> candles[e.symbol]]
    PROVE  /\ r \in Row /\ Closed(handled', candles', r)
           /\ \A q \in Seq(Row) : AllClosed(handled, candles, q) =>
                \A i \in 1 .. Len(q) : InOrder(q[i], r)
<1> USE DEF FeedInv, FeedTypeInv
<1> DEFINE s == e.symbol
<1>1. s \in Symbols /\ e.time \in Times /\ candles[s] \in Candle
  OBVIOUS
<1>2. r \in Row /\ r.symbol = s /\ r.candle = candles[s]
  BY <1>1 DEF Row
<1>3. candles[s].time \in Times
  BY <1>1 DEF Candle
<1>4. e.time # candles[s].time
  BY <1>1, <1>3, Numbers
<1>5. handled'[s][candles[s].time] = handled[s][candles[s].time]
  BY <1>1, <1>3, <1>4
<1>6. Spanning(handled, s, candles[s])
  BY <1>1 DEF LiveInv
<1>7. Closed(handled', candles', r)
  BY <1>2, <1>5, <1>6 DEF Closed, Spanning
<1>8. \A q \in Seq(Row) : AllClosed(handled, candles, q) =>
        \A i \in 1 .. Len(q) : InOrder(q[i], r)
  BY <1>2 DEF AllClosed, Closed, InOrder
<1> QED
  BY <1>2, <1>7, <1>8

\* prepare_ohlcv_write
LEMMA EventStep ==
    ASSUME FeedInv, FullFeed!HandleEvent
    PROVE  FeedInv'
<1> DEFINE e == Head(events)
           s == e.symbol
           prior == candles[s]
           new == [time |-> e.time, high |-> e.price, low |-> e.price, close |-> e.price]
           r == [symbol |-> s, candle |-> prior]
<1>1. /\ e \in [symbol : Symbols, price : Prices, time : Times]
      /\ events' \in Seq([symbol : Symbols, price : Prices, time : Times])
  BY RowTaken DEF FeedInv, FeedTypeInv, FullFeed!HandleEvent
<1>2. /\ s \in Symbols /\ e.time \in Times /\ e.time \in Int /\ e.time # 0
      /\ prior \in Candle /\ prior.time \in Int
  BY <1>1, Numbers DEF FeedInv, FeedTypeInv, Candle
<1>3. /\ candles' = [candles EXCEPT ![s] = IF prior.time < e.time THEN new
                       ELSE IF prior.time = e.time THEN FullFeed!Merge(prior, new) ELSE prior]
      /\ candleQueue' = IF e.time > 0 /\ prior.time > 0 /\ prior.time < e.time
                        THEN FullFeed!QueueBounded(candleQueue, r) ELSE candleQueue
      /\ handled' = IF prior.time > e.time THEN handled
                    ELSE [handled EXCEPT ![s][e.time] = @ \union {e.price}]
      /\ UNCHANGED <<buffer, tickers>>
  BY Numbers, <1>2 DEF FullFeed!HandleEvent, FullFeed!Rolls
<1> HIDE DEF e
<1>4. candleQueue \in Seq(Row) /\ buffer \in Seq(Row) /\ tickers \in Seq(Row)
  BY DEF FeedInv, FeedTypeInv
<1>5. handled' \in [Symbols -> [Times -> SUBSET Prices]]
  <2>1. CASE prior.time > e.time
    BY <1>3, <2>1 DEF FeedInv, FeedTypeInv
  <2>2. CASE ~(prior.time > e.time)
    <3>1. handled[s] \in [Times -> SUBSET Prices] /\ e.price \in Prices
      BY <1>1 DEF FeedInv, FeedTypeInv
    <3>2. [handled[s] EXCEPT ![e.time] = @ \union {e.price}] \in [Times -> SUBSET Prices]
      BY <1>2, <3>1
    <3> QED
      BY <1>2, <1>3, <2>2, <3>2 DEF FeedInv, FeedTypeInv
  <2> QED
    BY <2>1, <2>2
<1>6. CASE prior.time > e.time
  <2>1. candles' = candles /\ handled' = handled /\ candleQueue' = candleQueue
    BY <1>2, <1>3, <1>6 DEF FeedInv, FeedTypeInv
  <2>2. FeedTypeInv'
    BY <1>1, <1>3, <2>1 DEF FeedInv, FeedTypeInv
  <2>3. LiveInv' /\ ClosedInv' /\ OrderInv'
    BY <1>3, <2>1 DEF FeedInv, LiveInv, ClosedInv, OrderInv
  <2> QED
    BY <2>2, <2>3 DEF FeedInv
<1>7. CASE prior.time = e.time
  <2>1. /\ candles' = [candles EXCEPT ![s] = FullFeed!Merge(@, new)]
        /\ candleQueue' = candleQueue
        /\ handled' = [handled EXCEPT ![s][e.time] = @ \union {e.price}]
    <3>1. ~(prior.time < e.time) /\ ~(prior.time > e.time)
      BY <1>2, <1>7
    <3> QED
      BY <1>2, <1>3, <1>7, <3>1 DEF FeedInv, FeedTypeInv
  <2>2. /\ candles' \in [Symbols -> Candle] /\ LiveInv'
        /\ \A x \in Symbols : candles'[x].time = candles[x].time
    BY <1>1, <1>7, <2>1, CandleMerged
  <2>3. \A x \in Symbols : candles'[x].time >= candles[x].time
    BY <2>2, Numbers DEF FeedInv, FeedTypeInv
  <2>4. ClosedInv'
    BY <1>1, <1>2, <1>3, <1>4, <1>7, <2>1, <2>2, <2>3, ClosedKept DEF FeedInv, ClosedInv
  <2>5. FeedTypeInv'
    BY <1>1, <1>3, <1>4, <1>5, <2>1, <2>2 DEF FeedTypeInv
  <2> QED
    BY <1>3, <2>1, <2>2, <2>4, <2>5 DEF FeedInv, OrderInv
<1>8. CASE prior.time < e.time
  <2>1. /\ candles' = [candles EXCEPT ![s] = new]
        /\ handled' = [handled EXCEPT ![s][e.time] = @ \union {e.price}]
    BY <1>2, <1>3, <1>8
  <2>2. /\ candles' \in [Symbols -> Candle] /\ LiveInv'
        /\ \A x \in Symbols : candles'[x].time >= candles[x].time
    BY <1>1, <1>8, <2>1, CandleStarted
  <2>3. candles'[s].time = e.time
    BY <1>2, <2>1 DEF FeedInv, FeedTypeInv
  <2>4. /\ AllClosed(handled', candles', candleQueue)
        /\ AllClosed(handled', candles', buffer) /\ AllClosed(handled', candles', tickers)
    BY <1>1, <1>2, <1>4, <1>8, <2>1, <2>2, ClosedKept DEF FeedInv, ClosedInv
  <2>5. CASE candleQueue' = candleQueue
    BY <1>1, <1>3, <1>4, <1>5, <2>2, <2>4, <2>5
       DEF FeedInv, FeedTypeInv, ClosedInv, OrderInv
  <2>6. CASE candleQueue' # candleQueue
    <3>1. candleQueue' = Append(candleQueue, r) /\ prior.time # 0
      BY <1>2, <1>3, <2>6 DEF FullFeed!QueueBounded
    <3>2. /\ r \in Row /\ Closed(handled', candles', r)
          /\ \A q \in Seq(Row) : AllClosed(handled, candles, q) =>
               \A i \in 1 .. Len(q) : InOrder(q[i], r)
      BY <1>1, <1>8, <2>1, <2>2, <2>3, <3>1, CandleQueued
    <3>3. /\ \A i \in 1 .. Len(candleQueue) : InOrder(candleQueue[i], r)
          /\ \A i \in 1 .. Len(buffer) : InOrder(buffer[i], r)
          /\ \A i \in 1 .. Len(tickers) : InOrder(tickers[i], r)
      BY <1>4, <3>2 DEF FeedInv, ClosedInv
    <3>4. candleQueue' \in Seq(Row)
      BY <1>4, <3>1, <3>2, RowAppended
    <3>5. AllClosed(handled', candles', candleQueue')
      BY <1>4, <2>4, <3>1, <3>2, ClosedAppended
    <3>6. /\ Sorted(candleQueue') /\ Before(buffer, candleQueue')
          /\ Before(tickers, candleQueue')
      BY <1>4, <3>1, <3>2, <3>3, SortedAppended, BeforeAppended DEF FeedInv, OrderInv
    <3>7. FeedTypeInv' /\ ClosedInv'
      BY <1>1, <1>3, <1>4, <1>5, <2>2, <2>4, <3>4, <3>5 DEF FeedTypeInv, ClosedInv
    <3> QED
      BY <1>3, <2>2, <3>6, <3>7 DEF FeedInv, OrderInv
  <2> QED
    BY <2>5, <2>6
<1> QED
  BY <1>2, <1>6, <1>7, <1>8

\* The writer moves rows on in their order, or loses a batch.
LEMMA WriterStep ==
    ASSUME FeedInv, FullFeed!TakeCandle \/ FullFeed!Flush \/ FullFeed!FlushFails
    PROVE  FeedInv'
<1>1. candleQueue \in Seq(Row) /\ buffer \in Seq(Row) /\ tickers \in Seq(Row)
  BY DEF FeedInv, FeedTypeInv
<1>2. UNCHANGED <<events, candles, handled>>
  BY DEF FullFeed!TakeCandle, FullFeed!Flush, FullFeed!FlushFails
<1>3. CASE FullFeed!TakeCandle
  <2> DEFINE r == Head(candleQueue)
  <2>1. /\ candleQueue # <<>> /\ candleQueue' = Tail(candleQueue)
        /\ buffer' = Append(buffer, r) /\ tickers' = tickers
    BY <1>3 DEF FullFeed!TakeCandle
  <2>2. /\ r \in Row /\ r = candleQueue[1] /\ candleQueue' \in Seq(Row)
        /\ Len(candleQueue) \in Nat \ {0} /\ Len(candleQueue') = Len(candleQueue) - 1
        /\ \A i \in 1 .. Len(candleQueue) - 1 : candleQueue'[i] = candleQueue[i + 1]
    BY <1>1, <2>1, RowTaken
  <2>3. buffer' \in Seq(Row)
    BY <1>1, <2>1, <2>2, RowAppended
  <2>4. /\ Closed(handled, candles, r)
        /\ \A i \in 1 .. Len(buffer) : InOrder(buffer[i], r)
        /\ \A i \in 1 .. Len(tickers) : InOrder(tickers[i], r)
    BY <2>2 DEF FeedInv, ClosedInv, AllClosed, OrderInv, Before
  <2>5. AllClosed(handled, candles, candleQueue')
    BY <2>2 DEF FeedInv, ClosedInv, AllClosed
  <2>6. AllClosed(handled, candles, buffer')
    BY <1>1, <2>1, <2>2, <2>4, ClosedAppended DEF FeedInv, ClosedInv
  <2>7. Sorted(candleQueue') /\ Before(tickers, candleQueue')
    <3>1. \A i \in 1 .. Len(candleQueue') :
             i + 1 \in 1 .. Len(candleQueue) /\ candleQueue'[i] = candleQueue[i + 1]
      BY <2>2
    <3>2. \A i, j \in 1 .. Len(candleQueue') : i < j => i + 1 < j + 1
      OBVIOUS
    <3> QED
      BY <3>1, <3>2 DEF FeedInv, OrderInv, Sorted, Before
  <2>8. Sorted(buffer') /\ Before(tickers, buffer')
    BY <1>1, <2>1, <2>2, <2>4, SortedAppended, BeforeAppended DEF FeedInv, OrderInv
  <2>9. Before(buffer', candleQueue')
    <3> SUFFICES ASSUME NEW i \in 1 .. Len(buffer'), NEW j \in 1 .. Len(candleQueue')
                 PROVE  InOrder(buffer'[i], candleQueue'[j])
      BY DEF Before
    <3>1. j + 1 \in 1 .. Len(candleQueue) /\ candleQueue'[j] = candleQueue[j + 1]
      BY <2>2
    <3>2. CASE i \in 1 .. Len(buffer)
      <4>1. buffer'[i] = buffer[i]
        BY <1>1, <2>1, <2>2, <3>2, RowAppended
      <4> QED
        BY <3>1, <3>2, <4>1 DEF FeedInv, OrderInv, Before
    <3>3. CASE i = Len(buffer) + 1
      <4>1. buffer'[i] = candleQueue[1]
        BY <1>1, <2>1, <2>2, <3>3, RowAppended
      <4>2. 1 \in 1 .. Len(candleQueue) /\ 1 < j + 1
        BY <2>2
      <4> QED
        BY <3>1, <4>1, <4>2 DEF FeedInv, OrderInv, Sorted
    <3> QED
      BY <1>1, <2>1, <2>2, <3>2, <3>3, RowAppended
  <2> QED
    BY <1>2, <2>1, <2>2, <2>3, <2>5, <2>6, <2>7, <2>8, <2>9
       DEF FeedInv, FeedTypeInv, LiveInv, ClosedInv, OrderInv
<1>4. ASSUME buffer' = <<>>
      PROVE  AllClosed(handled, candles, buffer') /\ Sorted(buffer')
             /\ Before(tickers', buffer') /\ Before(buffer', candleQueue)
  BY <1>4 DEF AllClosed, Sorted, Before
<1>5. CASE FullFeed!Flush
  <2>1. tickers' = tickers \o buffer /\ buffer' = <<>> /\ candleQueue' = candleQueue
    BY <1>5 DEF FullFeed!Flush
  <2>2. /\ tickers' \in Seq(Row) /\ Len(tickers') = Len(tickers) + Len(buffer)
        /\ \A i \in 1 .. Len(tickers) : tickers'[i] = tickers[i]
        /\ \A i \in 1 .. Len(buffer) : tickers'[Len(tickers) + i] = buffer[i]
    BY <1>1, <2>1, RowsAdded
  <2>3. \A i \in 1 .. Len(tickers') :
           \/ i \in 1 .. Len(tickers)
           \/ i - Len(tickers) \in 1 .. Len(buffer) /\ tickers'[i] = buffer[i - Len(tickers)]
    <3> SUFFICES ASSUME NEW i \in 1 .. Len(tickers'), i \notin 1 .. Len(tickers)
                 PROVE  /\ i - Len(tickers) \in 1 .. Len(buffer)
                        /\ tickers'[i] = buffer[i - Len(tickers)]
      OBVIOUS
    <3>1. Len(tickers) \in Nat /\ Len(buffer) \in Nat
      BY <1>1
    <3>2. i - Len(tickers) \in 1 .. Len(buffer)
      BY <2>2, <3>1
    <3>3. Len(tickers) + (i - Len(tickers)) = i
      BY <3>1
    <3> QED
      BY <2>2, <3>2, <3>3
  <2>4. AllClosed(handled, candles, tickers')
    BY <2>2, <2>3 DEF FeedInv, ClosedInv, AllClosed
  <2>5. Sorted(tickers')
    <3> SUFFICES ASSUME NEW i \in 1 .. Len(tickers'), NEW j \in 1 .. Len(tickers'), i < j
                 PROVE  InOrder(tickers'[i], tickers'[j])
      BY DEF Sorted
    <3>1. Len(tickers) \in Nat
      BY <1>1
    <3>2. CASE i \in 1 .. Len(tickers) /\ j \in 1 .. Len(tickers)
      BY <2>2, <3>2 DEF FeedInv, OrderInv, Sorted
    <3>3. CASE i \in 1 .. Len(tickers) /\ j \notin 1 .. Len(tickers)
      BY <2>2, <2>3, <3>3 DEF FeedInv, OrderInv, Before
    <3>4. CASE i \notin 1 .. Len(tickers)
      <4>1. /\ i - Len(tickers) \in 1 .. Len(buffer)
            /\ tickers'[i] = buffer[i - Len(tickers)]
        BY <2>3, <3>4
      <4>2. j \notin 1 .. Len(tickers)
        BY <3>1, <3>4
      <4>3. /\ j - Len(tickers) \in 1 .. Len(buffer)
            /\ tickers'[j] = buffer[j - Len(tickers)]
        BY <2>3, <4>2
      <4>4. i - Len(tickers) < j - Len(tickers)
        BY <3>1
      <4> QED
        BY <4>1, <4>3, <4>4 DEF FeedInv, OrderInv, Sorted
    <3> QED
      BY <3>2, <3>3, <3>4
  <2>6. Before(tickers', candleQueue)
    BY <2>2, <2>3 DEF FeedInv, OrderInv, Before
  <2> QED
    BY <1>1, <1>2, <1>4, <2>1, <2>2, <2>4, <2>5, <2>6
       DEF FeedInv, FeedTypeInv, LiveInv, ClosedInv, OrderInv
<1>6. CASE FullFeed!FlushFails
  <2>1. tickers' = tickers /\ buffer' = <<>> /\ candleQueue' = candleQueue
    BY <1>6 DEF FullFeed!FlushFails
  <2> QED
    BY <1>1, <1>2, <1>4, <2>1 DEF FeedInv, FeedTypeInv, LiveInv, ClosedInv, OrderInv
<1> QED
  BY <1>3, <1>5, <1>6

\* Every step of the feed keeps whole candles in the order of time.
LEMMA FeedStep == FeedInv /\ [FullFeed!Next]_feedVars => FeedInv'
<1> SUFFICES ASSUME FeedInv, [FullFeed!Next]_feedVars
             PROVE  FeedInv'
  OBVIOUS
<1> DEFINE Same == UNCHANGED <<candles, candleQueue, buffer, tickers, handled>>
<1>1. ASSUME Same, events' \in Seq([symbol : Symbols, price : Prices, time : Times])
      PROVE  FeedInv'
  BY <1>1 DEF FeedInv, FeedTypeInv, LiveInv, ClosedInv, OrderInv
<1>2. ASSUME NEW s \in Symbols, NEW p \in Prices, NEW t \in Times, FullFeed!Trade(s, p, t)
      PROVE  FeedInv'
  <2>1. [symbol |-> s, price |-> p, time |-> t] \in
            [symbol : Symbols, price : Prices, time : Times]
    OBVIOUS
  <2>2. events' \in Seq([symbol : Symbols, price : Prices, time : Times])
    BY <1>2, <2>1, RowAppended DEF FullFeed!Trade, FeedInv, FeedTypeInv
  <2> QED
    BY <1>1, <1>2, <2>2 DEF FullFeed!Trade, FullFeed!history
<1>3. CASE \/ FullFeed!Clock \/ FullFeed!TakeTick \/ FullFeed!TickEnds \/ FullFeed!TickCrashes
           \/ FullFeed!EnsureWorkers \/ UNCHANGED feedVars
  <2>1. Same /\ UNCHANGED events
    BY <1>3 DEF FullFeed!Clock, FullFeed!TakeTick, FullFeed!TickEnds, FullFeed!TickCrashes,
                FullFeed!EnsureWorkers, FullFeed!history, feedVars
  <2> QED
    BY <1>1, <2>1 DEF FeedInv, FeedTypeInv
<1> QED
  BY <1>2, <1>3, EventStep, WriterStep DEF FullFeed!Next

\* What the invariant says of the three queues, it says of all rows.
LEMMA FeedCorrect ==
    ASSUME FeedInv
    PROVE  FullFeed!CandlesSpan /\ FullFeed!StoredInOrder
<1> DEFINE all == candleQueue \o buffer \o tickers
<1>1. candleQueue \in Seq(Row) /\ buffer \in Seq(Row) /\ tickers \in Seq(Row)
  BY DEF FeedInv, FeedTypeInv
<1>2. candleQueue \o buffer \in Seq(Row)
  BY <1>1, RowsAdded
<1>3. ASSUME NEW i \in 1 .. Len(all)
      PROVE  Closed(handled, candles, all[i])
  <2>1. Len(candleQueue) \in Nat /\ Len(buffer) \in Nat /\ Len(tickers) \in Nat
    BY <1>1
  <2>2. Len(all) = Len(candleQueue) + Len(buffer) + Len(tickers)
    BY <1>1, <1>2, RowsAdded
  <2>3. CASE i \in 1 .. Len(candleQueue)
    BY <1>1, <1>2, <2>3 DEF FeedInv, ClosedInv, AllClosed
  <2>4. CASE i \in Len(candleQueue) + 1 .. Len(candleQueue) + Len(buffer)
    <3> DEFINE j == i - Len(candleQueue)
    <3>1. j \in 1 .. Len(buffer) /\ all[i] = buffer[j]
      BY <1>1, <1>2, <2>1, <2>4
    <3> QED
      BY <3>1 DEF FeedInv, ClosedInv, AllClosed
  <2>5. CASE i > Len(candleQueue) + Len(buffer)
    <3> DEFINE j == i - (Len(candleQueue) + Len(buffer))
    <3>1. j \in 1 .. Len(tickers) /\ all[i] = tickers[j]
      BY <1>1, <1>2, <2>1, <2>2, <2>5
    <3> QED
      BY <3>1 DEF FeedInv, ClosedInv, AllClosed
  <2> QED
    BY <2>1, <2>2, <2>3, <2>4, <2>5
<1>4. ASSUME NEW s, NEW c, Spanning(handled, s, c), c.time > 0
      PROVE  /\ handled[s][c.time] # {}
             /\ c.high \in handled[s][c.time] /\ c.low \in handled[s][c.time]
             /\ \A p \in handled[s][c.time] : c.low <= p /\ p <= c.high
  BY <1>4 DEF Spanning
<1>5. FullFeed!CandlesSpan
  BY <1>3, <1>4 DEF FullFeed!CandlesSpan, Closed, FeedInv, LiveInv
<1>6. FullFeed!StoredInOrder
  BY <1>1 DEF FullFeed!StoredInOrder, FeedInv, OrderInv, Sorted, InOrder
<1> QED
  BY <1>5, <1>6

-----------------------------------------------------------------------------
(***************************************************************************)
(* The configuration. With the shape of the state InstancesAgree is inductive:*)
(* every step that changes a row leaves, for each process that does not    *)
(* follow it at once, a message, a note of what was missed, or a request   *)
(* that has still to publish.                                              *)
(***************************************************************************)
\* Where a request can have come to, and what it may ask for.
Asked == Updates \cup Backups \cup {<<>>} \cup [{"paused"} -> BOOLEAN] \cup [{"dry"} -> {"no"}]

Request ==
    [pc : {"none", "guard", "csv", "commit", "publish", "backup", "reload", "done", "refused"},
     at : Instances \cup {Config!NoRequest.at}, set : Asked,
     kind : {"save", "activate", "restore"}, deal : BOOLEAN, fresh : BOOLEAN]

ConfigTypeInv ==
    /\ mem = [i \in Instances |-> mem[i]]
    /\ mail = [i \in Instances |-> mail[i]]
    /\ missed = [i \in Instances |-> missed[i]]
    /\ req \in [Requests -> Request]
    /\ open \in BOOLEAN

ConfigInv == ConfigTypeInv /\ Config!InstancesAgree

-----------------------------------------------------------------------------
\* What becomes of the rows and of the trades never moves a request.
LEMMA Disturbed ==
    ASSUME NEW q \in Request, NEW d \in BOOLEAN, NEW p,
           \/ p = [q EXCEPT !.fresh = FALSE]
           \/ p = [q EXCEPT !.deal = d]
           \/ p = [q EXCEPT !.fresh = FALSE, !.deal = d]
    PROVE  p \in Request /\ p.pc = q.pc /\ p.at = q.at /\ p.set = q.set
  BY DEF Request

\* At first every process remembers the rows.
LEMMA ConfigInit == Config!Init => ConfigInv
<1> SUFFICES ASSUME Config!Init PROVE ConfigInv
  OBVIOUS
<1>1. req \in [Requests -> Request]
  BY DEF Config!Init, Config!NoRequest, Request, Asked
<1> QED
  BY <1>1 DEF Config!Init, ConfigInv, ConfigTypeInv, Config!InstancesAgree

\* Arriving, and the guards, touch neither rows nor what a process remembers.
LEMMA ArriveStep ==
    ASSUME ConfigInv, NEW r \in Requests, NEW i \in Instances, NEW set \in Asked,
           NEW kind \in {"save", "activate", "restore"},
           NEW pc \in {"guard", "csv", "commit", "backup", "refused"},
           Config!Arrive(r, i, kind, set, pc)
    PROVE  ConfigInv'
<1>1. req' \in [Requests -> Request]
  BY DEF ConfigInv, ConfigTypeInv, Request, Config!Arrive
<1>2. \A q \in Requests : req[q].pc = "publish" => req'[q] = req[q]
  BY DEF ConfigInv, ConfigTypeInv, Config!Arrive
<1>3. ConfigTypeInv'
  BY <1>1 DEF ConfigInv, ConfigTypeInv, Config!Arrive
<1> QED
  BY <1>2, <1>3 DEF ConfigInv, Config!InstancesAgree, Config!Arrive

\* A guard moves or refuses the request, and nothing else.
LEMMA GuardStep ==
    ASSUME ConfigInv, NEW r \in Requests, Config!Guard(r) \/ Config!CheckSignal(r)
    PROVE  ConfigInv'
<1>1. req' \in [Requests -> Request]
  BY DEF ConfigInv, ConfigTypeInv, Request, Config!Guard, Config!CheckSignal,
         Config!AfterGuard, Config!Checked
<1>2. \A q \in Requests : req[q].pc = "publish" => req'[q] = req[q]
  BY DEF ConfigInv, ConfigTypeInv, Config!Guard, Config!CheckSignal
<1>3. ConfigTypeInv'
  BY <1>1 DEF ConfigInv, ConfigTypeInv, Config!Guard, Config!CheckSignal
<1> QED
  BY <1>2, <1>3 DEF ConfigInv, Config!InstancesAgree, Config!Guard, Config!CheckSignal

\* The process that commits follows its own rows; the others have a request to wait for.
LEMMA CommitStep ==
    ASSUME ConfigInv, NEW r \in Requests, Config!Commit(r)
    PROVE  ConfigInv'
<1> USE DEF ConfigInv, ConfigTypeInv
<1>0. /\ req'[r] = [req[r] EXCEPT !.pc = "publish"]
      /\ \A q \in Requests \ {r} : req'[q] = [req[q] EXCEPT !.fresh = FALSE]
      /\ req' = [q \in Requests |-> req'[q]]
  BY DEF Config!Commit
<1>1. /\ req'[r].pc = "publish" /\ req'[r].at = req[r].at /\ req'[r].set = req[r].set
      /\ req' \in [Requests -> Request]
  <2>1. /\ req'[r] \in Request
        /\ req'[r].pc = "publish" /\ req'[r].at = req[r].at /\ req'[r].set = req[r].set
    BY <1>0 DEF Request
  <2>2. ASSUME NEW q \in Requests \ {r}
        PROVE  req'[q] \in Request
    <3>1. req[q] \in Request
      OBVIOUS
    <3>2. req'[q] = [req[q] EXCEPT !.fresh = FALSE]
      BY <1>0
    <3> QED
      BY <3>1, <3>2, Disturbed
  <2> QED
    BY <1>0, <2>1, <2>2
<1>2. \A q \in Requests \ {r} :
          req'[q].pc = req[q].pc /\ req'[q].at = req[q].at /\ req'[q].set = req[q].set
  BY <1>0, Disturbed
<1>3. ConfigTypeInv'
  BY <1>1 DEF ConfigInv, ConfigTypeInv, Config!Commit
<1>4. ASSUME NEW i \in Instances, NEW k \in Config!Keys, mem'[i][k] # db'[k]
      PROVE  \/ k \in missed'[i]
             \/ \E keys \in mail'[i] : k \in keys
             \/ \E q \in Requests :
                   req'[q].pc = "publish" /\ req'[q].at # i /\ k \in DOMAIN req'[q].set
  <2>1. CASE i = req[r].at
    <3>1. mem[i][k] # db[k]
      BY <1>4, <2>1 DEF ConfigInv, ConfigTypeInv, Config!Commit, Config!With
    <3> QED
      BY <3>1, <1>1, <1>2 DEF ConfigInv, Config!InstancesAgree, Config!Commit
  <2>2. CASE i # req[r].at /\ k \in DOMAIN req[r].set
    BY <1>1, <2>2
  <2>3. CASE i # req[r].at /\ k \notin DOMAIN req[r].set
    <3>1. mem[i][k] # db[k]
      BY <1>4, <2>3 DEF ConfigInv, ConfigTypeInv, Config!Commit, Config!With
    <3>2. req[r].pc # "publish"
      BY DEF Config!Commit
    <3> QED
      BY <3>1, <3>2, <1>2 DEF ConfigInv, Config!InstancesAgree, Config!Commit
  <2> QED
    BY <2>1, <2>2, <2>3
<1> QED
  BY <1>3, <1>4 DEF ConfigInv, Config!InstancesAgree

\* A message that is sent takes the place of the request; one that is not is missed.
LEMMA PublishStep ==
    ASSUME ConfigInv, NEW r \in Requests, Config!Publish(r)
    PROVE  ConfigInv'
<1>1. req' \in [Requests -> Request]
  BY DEF ConfigInv, ConfigTypeInv, Request, Config!Publish
<1>2. \A q \in Requests \ {r} : req'[q] = req[q]
  BY DEF ConfigInv, ConfigTypeInv, Config!Publish
<1>3. ConfigTypeInv'
  BY <1>1 DEF ConfigInv, ConfigTypeInv, Config!Publish
<1>4. \A i \in Instances :
          /\ mail[i] \subseteq mail'[i] /\ missed[i] \subseteq missed'[i]
          /\ i # req[r].at =>
                DOMAIN req[r].set \in mail'[i] \/ DOMAIN req[r].set \subseteq missed'[i]
  BY DEF ConfigInv, ConfigTypeInv, Config!Publish
<1>5. mem' = mem /\ db' = db
  BY DEF Config!Publish
<1> QED
  BY <1>2, <1>3, <1>4, <1>5 DEF ConfigInv, Config!InstancesAgree

-----------------------------------------------------------------------------
\* A message is replaced by what it tells.
LEMMA ReceiveStep ==
    ASSUME ConfigInv, NEW i \in Instances, Config!Receive(i)
    PROVE  ConfigInv'
<1>1. PICK keys \in mail[i] :
          /\ mem' = [mem EXCEPT ![i] = Config!Reread(@, keys)]
          /\ mail' = [mail EXCEPT ![i] = @ \ {keys}]
          /\ missed' = [missed EXCEPT ![i] = @ \ keys]
          /\ UNCHANGED <<db, listener, req, open, opened, waiting>>
  BY DEF Config!Receive
<1>2. ConfigTypeInv'
  BY <1>1 DEF ConfigInv, ConfigTypeInv
<1>3. ASSUME NEW k \in Config!Keys, mem'[i][k] # db'[k]
      PROVE  k \notin keys /\ mem[i][k] # db[k]
  BY <1>1, <1>3 DEF ConfigInv, ConfigTypeInv, Config!Reread
<1>4. \A j \in Instances \ {i} :
          mem'[j] = mem[j] /\ mail'[j] = mail[j] /\ missed'[j] = missed[j]
  BY <1>1 DEF ConfigInv, ConfigTypeInv
<1>5. mail'[i] = mail[i] \ {keys} /\ missed'[i] = missed[i] \ keys
  BY <1>1 DEF ConfigInv, ConfigTypeInv
<1> QED
  BY <1>1, <1>2, <1>3, <1>4, <1>5 DEF ConfigInv, Config!InstancesAgree

\* A listener that dies misses what was on its way to it.
LEMMA ListenerStep ==
    ASSUME ConfigInv, NEW i \in Instances, Config!ListenerDies(i) \/ Config!Subscribe(i)
    PROVE  ConfigInv'
<1>1. ConfigTypeInv'
  BY DEF ConfigInv, ConfigTypeInv, Config!ListenerDies, Config!Subscribe
<1>2. \A j \in Instances, k \in Config!Keys :
          (k \in missed[j] \/ \E keys \in mail[j] : k \in keys)
             => (k \in missed'[j] \/ \E keys \in mail'[j] : k \in keys)
  BY DEF ConfigInv, ConfigTypeInv, Config!ListenerDies, Config!Subscribe
<1> QED
  BY <1>1, <1>2 DEF ConfigInv, Config!InstancesAgree, Config!ListenerDies, Config!Subscribe

\* A process that starts again knows every row; what it had not published is missed.
LEMMA RestartStep ==
    ASSUME ConfigInv, NEW i \in Instances, Config!Restart(i)
    PROVE  ConfigInv'
<1> DEFINE mine == {r \in Requests :
                       req[r].at = i /\ req[r].pc \notin {"none", "done", "refused"}}
<1>1. /\ mem'[i] = db /\ db' = db
      /\ \A j \in Instances \ {i} :
            mem'[j] = mem[j] /\ mail'[j] = mail[j] /\ missed[j] \subseteq missed'[j]
  BY DEF ConfigInv, ConfigTypeInv, Config!Restart
<1>2. \A r \in Requests \ mine : req'[r] = req[r]
  BY DEF ConfigInv, ConfigTypeInv, Config!Restart
<1>3. \A r \in mine, j \in Instances \ {i} :
          req[r].pc = "publish" => DOMAIN req[r].set \subseteq missed'[j]
  BY DEF ConfigInv, ConfigTypeInv, Config!Restart
<1>4. req' \in [Requests -> Request]
  BY DEF ConfigInv, ConfigTypeInv, Request, Config!Restart
<1>5. ConfigTypeInv'
  BY <1>4 DEF ConfigInv, ConfigTypeInv, Config!Restart
<1> QED
  BY <1>1, <1>2, <1>3, <1>5 DEF ConfigInv, Config!InstancesAgree

\* Every process misses what a backup changes.
LEMMA ReplaceStep ==
    ASSUME ConfigInv, NEW r \in Requests, Config!ReplaceRows(r)
    PROVE  ConfigInv'
<1> USE DEF ConfigInv, ConfigTypeInv
<1>1. PICK full \in BOOLEAN :
          /\ req[r].pc = "backup"
          /\ db' = req[r].set
          /\ missed' = [i \in Instances |-> missed[i] \cup {k \in Config!Keys : db[k] # db'[k]}]
          /\ open' = (open /\ ~full)
          /\ req' = [q \in Requests |->
                 IF q = r THEN [req[r] EXCEPT !.pc = "reload"]
                 ELSE [req[q] EXCEPT !.fresh = FALSE, !.deal = req[q].deal /\ open']]
          /\ UNCHANGED <<mem, listener, mail, opened, waiting>>
  BY DEF Config!ReplaceRows
<1>2. open' \in BOOLEAN
  BY <1>1
<1>3. /\ req'[r] = [req[r] EXCEPT !.pc = "reload"]
      /\ \A q \in Requests \ {r} :
            req'[q] = [req[q] EXCEPT !.fresh = FALSE, !.deal = req[q].deal /\ open']
      /\ req' = [q \in Requests |-> req'[q]]
  BY <1>1
<1>4. req'[r] \in Request
  BY <1>3 DEF Request
<1>5. ASSUME NEW q \in Requests \ {r}
      PROVE  /\ req'[q] \in Request
             /\ req'[q].pc = req[q].pc /\ req'[q].at = req[q].at /\ req'[q].set = req[q].set
  <2> DEFINE d == req[q].deal /\ open'
  <2>1. req[q] \in Request /\ d \in BOOLEAN
    OBVIOUS
  <2>2. req'[q] = [req[q] EXCEPT !.fresh = FALSE, !.deal = d]
    BY <1>3
  <2> HIDE DEF d
  <2> QED
    BY ONLY <2>1, <2>2 DEF Request
<1>6. ConfigTypeInv'
  <2>1. req' \in [Requests -> Request]
    BY <1>3, <1>4, <1>5
  <2> QED
    BY <1>1, <1>2, <2>1
<1>7. \A q \in Requests : req[q].pc = "publish" =>
          req'[q].pc = "publish" /\ req'[q].at = req[q].at /\ req'[q].set = req[q].set
  BY <1>1, <1>5
<1>8. \A i \in Instances :
          /\ missed[i] \subseteq missed'[i]
          /\ \A k \in Config!Keys : db[k] # db'[k] => k \in missed'[i]
  BY <1>1
<1>9. mem' = mem /\ mail' = mail
  BY <1>1
<1> HIDE DEF ConfigTypeInv
<1> QED
  BY <1>6, <1>7, <1>8, <1>9 DEF Config!InstancesAgree

\* A process that reloads knows every row.
LEMMA ReloadStep ==
    ASSUME ConfigInv, NEW r \in Requests, Config!Reload(r)
    PROVE  ConfigInv'
<1>1. req' \in [Requests -> Request]
  BY DEF ConfigInv, ConfigTypeInv, Request, Config!Reload
<1>2. \A q \in Requests : req[q].pc = "publish" => req'[q] = req[q]
  BY DEF ConfigInv, ConfigTypeInv, Config!Reload
<1>3. ConfigTypeInv'
  BY <1>1 DEF ConfigInv, ConfigTypeInv, Config!Reload
<1> QED
  BY <1>2, <1>3 DEF ConfigInv, ConfigTypeInv, Config!InstancesAgree, Config!Reload

\* What the traders do concerns the checks of a request, not its keys.
LEMMA DealStep ==
    ASSUME ConfigInv, Config!OpenDeal \/ Config!CloseDeal
    PROVE  ConfigInv'
<1>1. CASE Config!OpenDeal
  BY <1>1 DEF ConfigInv, ConfigTypeInv, Config!InstancesAgree, Config!OpenDeal
<1>2. CASE Config!CloseDeal
  <2>1. /\ \A q \in Requests : req'[q] = [req[q] EXCEPT !.deal = FALSE]
        /\ req' = [q \in Requests |-> req'[q]]
    BY <1>2 DEF ConfigInv, ConfigTypeInv, Config!CloseDeal
  <2>2. ASSUME NEW q \in Requests
        PROVE  /\ req'[q] \in Request
               /\ req'[q].pc = req[q].pc /\ req'[q].at = req[q].at /\ req'[q].set = req[q].set
    BY <2>1, Disturbed DEF ConfigInv, ConfigTypeInv
  <2>3. ConfigTypeInv'
    BY <1>2, <2>1, <2>2 DEF ConfigInv, ConfigTypeInv, Config!CloseDeal
  <2>4. db' = db /\ mem' = mem /\ mail' = mail /\ missed' = missed
    BY <1>2 DEF Config!CloseDeal
  <2> QED
    BY <2>2, <2>3, <2>4 DEF ConfigInv, Config!InstancesAgree
<1> QED
  BY <1>1, <1>2

-----------------------------------------------------------------------------
\* Every step of the configuration leaves a reason for what a process does not know.
LEMMA ConfigStep == ConfigInv /\ [Config!Next]_configVars => ConfigInv'
<1> SUFFICES ASSUME ConfigInv, [Config!Next]_configVars
             PROVE  ConfigInv'
  OBVIOUS
<1>1. ASSUME NEW r \in Requests, NEW i \in Instances,
             \/ Config!Ask(r, i) \/ Config!Toggle(r, i)
             \/ Config!Activate(r, i) \/ Config!Restore(r, i)
      PROVE  ConfigInv'
  <2>1. CASE Config!Ask(r, i)
    BY <2>1, ArriveStep DEF Config!Ask, Asked, Config!AfterGuard, Config!Checked
  <2>2. CASE Config!Toggle(r, i)
    BY <2>2, ArriveStep DEF Config!Toggle, Asked
  <2>3. CASE Config!Activate(r, i)
    BY <2>3, ArriveStep DEF Config!Activate, Asked
  <2>4. CASE Config!Restore(r, i)
    BY <2>4, ArriveStep DEF Config!Restore, Asked
  <2> QED
    BY <1>1, <2>1, <2>2, <2>3, <2>4
<1>2. CASE UNCHANGED configVars
  BY <1>2 DEF ConfigInv, ConfigTypeInv, Config!InstancesAgree, Request, configVars
<1> QED
  BY <1>1, <1>2, GuardStep, CommitStep, PublishStep, ReceiveStep, ListenerStep,
     RestartStep, ReplaceStep, ReloadStep, DealStep DEF Config!Next

-----------------------------------------------------------------------------
(***************************************************************************)
(* The guards of a change. As long as nobody disturbs a request, its       *)
(* process knows the rows, so what the checks have found of its memory is  *)
(* so of the rows; and a deal that was open on arrival and still is stops  *)
(* a change of the mode where the trades are counted. What follows is said *)
(* of the two parts that change a configuration, with one process and with *)
(* several.                                                                *)
(***************************************************************************)
\* A save speaks of the dry run in words.
InWords(set) == "dry" \in DOMAIN set => set["dry"] \in Saves!Words

\* What the checks have found out of the rows for a request that waits.
Found(q, rowsNow) ==
    \/ /\ q.kind = "activate" /\ q.pc = "commit"
       /\ q.set = [k \in {"dry"} |-> "no"] /\ Saves!Ready(rowsNow)
    \/ /\ q.kind = "save" /\ InWords(q.set)
       /\ q.pc # "guard" => ~(q.deal /\ Saves!Switches(rowsNow, q.set))
       /\ q.pc = "commit" => /\ Saves!LiveBoundary(rowsNow, q.set)
                             /\ Saves!Valid(Saves!With(rowsNow, q.set))

Waits(q) == q.pc \in {"guard", "csv", "commit"}

Vetted(q, rowsNow, memNow, openNow) ==
    Waits(q) /\ q.fresh => memNow[q.at] = rowsNow /\ (q.deal => openNow) /\ Found(q, rowsNow)

RequestShape(q) ==
    /\ q = [pc |-> q.pc, at |-> q.at, kind |-> q.kind, set |-> q.set,
            deal |-> q.deal, fresh |-> q.fresh]
    /\ q.deal \in BOOLEAN /\ q.fresh \in BOOLEAN

RequestInv(q, I) ==
    /\ RequestShape(q)
    /\ Waits(q) => q.at \in I
    /\ q.pc = "backup" => q.set = [k \in Saves!Keys |-> q.set[k]] /\ Saves!Valid(q.set)

\* I are the processes of the part.
GuardInv(I) ==
    /\ mem = [i \in I |-> mem[i]]
    /\ db = [k \in Saves!Keys |-> db[k]]
    /\ open \in BOOLEAN
    /\ req = [r \in Requests |-> req[r]]
    /\ \A r \in Requests : RequestInv(req[r], I) /\ Vetted(req[r], db, mem, open)

\* What the commit of request q keeps
Kept(q) ==
    /\ Saves!Valid(db) => Saves!Valid(db')
    /\ db'["mode"] # db["mode"] => ~(q.deal /\ open)
    /\ db["dry"] /\ ~db'["dry"] =>
         \/ q.kind = "activate" /\ Saves!Ready(db)
         \/ q.kind = "save" /\ q.set["dry"] = "disabled"

\* A request that is committed in this step, undisturbed, keeps the promises; and a backup
\* that takes the place of the rows names the re-entry strategy of its sidestep.
Guarded ==
    \A r \in Requests :
        /\ req[r].pc = "commit" /\ req'[r].pc = "publish" /\ req[r].fresh => Kept(req[r])
        /\ req[r].pc = "backup" /\ req'[r].pc = "reload" => Saves!Valid(db')

-----------------------------------------------------------------------------
\* What was checked is what is stored.
LEMMA CommitKeeps ==
    ASSUME NEW q, Found(q, db), q.pc = "commit", db' = Saves!With(db, q.set)
    PROVE  Kept(q)
<1> USE DEF Kept
<1>1. CASE q.kind = "activate"
  <2>1. q.set = [k \in {"dry"} |-> "no"] /\ Saves!Ready(db)
    BY <1>1 DEF Found
  <2>2. db'["mode"] = db["mode"] /\ db'["reentry"] = db["reentry"]
    BY <2>1 DEF Saves!With, Saves!Keys
  <2> QED
    BY <1>1, <2>1, <2>2 DEF Saves!Valid
<1>2. CASE q.kind = "save"
  <2>1. /\ ~(q.deal /\ Saves!Switches(db, q.set))
        /\ Saves!LiveBoundary(db, q.set) /\ Saves!Valid(db') /\ InWords(q.set)
    BY <1>2 DEF Found
  <2>2. db'["mode"] # db["mode"] => Saves!Switches(db, q.set)
    BY DEF Saves!With, Saves!Keys, Saves!Switches, Saves!Typed
  <2>3. ASSUME db["dry"], ~db'["dry"] PROVE q.set["dry"] = "disabled"
    <3>1. "dry" \in DOMAIN q.set /\ q.set["dry"] # "yes"
      BY <2>3 DEF Saves!With, Saves!Keys, Saves!Typed
    <3>2. q.set["dry"] # "no"
      BY <2>1, <2>3, <3>1 DEF Saves!LiveBoundary, Saves!ReadsDry
    <3> QED
      BY <2>1, <3>1, <3>2 DEF InWords, Saves!Words
  <2> QED
    BY <1>2, <2>1, <2>2, <2>3
<1> QED
  BY <1>1, <1>2 DEF Found

\* A request that is left alone, or loses its deal, stays vetted while the rows stay and its
\* process learns nothing but rows.
LEMMA StaysVetted ==
    ASSUME NEW I, NEW q, RequestInv(q, I), Vetted(q, db, mem, open),
           NEW p, p = q \/ p = [q EXCEPT !.deal = FALSE],
           db' = db, \A i \in I : mem[i] = db => mem'[i] = db,
           open' = open \/ open' \/ p = [q EXCEPT !.deal = FALSE]
    PROVE  RequestInv(p, I) /\ Vetted(p, db', mem', open')
<1>1. /\ RequestShape(p) /\ p.pc = q.pc /\ p.at = q.at /\ p.kind = q.kind /\ p.set = q.set
      /\ p.fresh = q.fresh /\ (p.deal => q.deal)
      /\ p.deal => open' = open \/ open'
  BY DEF RequestInv, RequestShape
<1>2. RequestInv(p, I)
  BY <1>1 DEF RequestInv, Waits
<1>3. ASSUME Waits(p), p.fresh
      PROVE  mem'[p.at] = db' /\ (p.deal => open') /\ Found(p, db')
  <2>1. mem[q.at] = db /\ (q.deal => open) /\ Found(q, db) /\ q.at \in I
    BY <1>1, <1>3 DEF Vetted, Waits, RequestInv
  <2>2. Found(p, db')
    BY <1>1, <2>1 DEF Found
  <2> QED
    BY <1>1, <2>1, <2>2
<1> QED
  BY <1>2, <1>3 DEF Vetted

\* A request that is disturbed, or does not wait, has nothing to keep.
LEMMA Disturbs ==
    ASSUME NEW I, NEW q, RequestInv(q, I),
           NEW p, p = [q EXCEPT !.fresh = FALSE, !.deal = p.deal], p.deal \in BOOLEAN,
           NEW rowsNow, NEW memNow, NEW openNow
    PROVE  RequestInv(p, I) /\ Vetted(p, rowsNow, memNow, openNow) /\ p.pc = q.pc
<1>1. /\ RequestShape(p) /\ p.pc = q.pc /\ p.at = q.at /\ p.set = q.set /\ ~p.fresh
  BY DEF RequestInv, RequestShape
<1> QED
  BY <1>1 DEF RequestInv, Waits, Vetted

\* A request that waits no longer has nothing to keep either.
LEMMA Passes ==
    ASSUME NEW I, NEW q, RequestInv(q, I), NEW p, p = [q EXCEPT !.pc = p.pc],
           p.pc \notin {"guard", "csv", "commit", "backup"},
           NEW rowsNow, NEW memNow, NEW openNow
    PROVE  RequestInv(p, I) /\ Vetted(p, rowsNow, memNow, openNow)
<1>1. /\ RequestShape(p) /\ p.at = q.at /\ p.set = q.set
  BY DEF RequestInv, RequestShape
<1> QED
  BY <1>1 DEF RequestInv, Waits, Vetted


-----------------------------------------------------------------------------
\* The process of the part with one.
One == {CHOOSE i \in Instances : TRUE}

-----------------------------------------------------------------------------
\* What a request may find on arrival at a process, of what the process remembers.
Arrival(r, i, kind, set, place) ==
    /\ Saves!Arrive(r, i, kind, set, place)
    /\ \/ /\ kind = "save" /\ InWords(set) /\ place \in {"guard", "csv", "commit", "refused"}
          /\ place # "guard" => ~Saves!Switches(mem[i], set)
          /\ place = "commit" => /\ Saves!LiveBoundary(mem[i], set)
                                 /\ Saves!Valid(Saves!With(mem[i], set))
       \/ /\ kind = "activate" /\ set = [k \in {"dry"} |-> "no"]
          /\ place = "commit" /\ Saves!Ready(mem[i])
       \/ /\ kind = "restore" /\ set = [k \in Saves!Keys |-> set[k]]
          /\ place \in {"backup", "refused"} /\ (place = "backup" => Saves!Valid(set))
       \/ place = "refused"

\* What a process learns are rows; the deals come and go, and requests end.
Learning(I) ==
    /\ db' = db /\ mem' = [i \in I |-> mem'[i]]
    /\ \A i \in I : mem[i] = db => mem'[i] = db
    /\ open' \in BOOLEAN /\ req' = [q \in Requests |-> req'[q]]
    /\ \A q \in Requests :
          \/ req'[q] = req[q] /\ (open' = open \/ open')
          \/ req'[q] = [req[q] EXCEPT !.deal = FALSE]
          \/ \E place \in {"done", "refused"} : req'[q] = [req[q] EXCEPT !.pc = place]

\* A backup takes the place of the rows.
Replacement(r) ==
    /\ req[r].pc = "backup" /\ db' = req[r].set /\ mem' = mem /\ open' \in BOOLEAN
    /\ req'[r] = [req[r] EXCEPT !.pc = "reload"]
    /\ \A q \in Requests \ {r} :
          req'[q] = [req[q] EXCEPT !.fresh = FALSE, !.deal = @ /\ open']
    /\ req' = [q \in Requests |-> req'[q]]

\* A request arrives with what its checks have found of the memory of its process.
LEMMA Arrives ==
    ASSUME NEW I, GuardInv(I), NEW r \in Requests, NEW i \in I, NEW kind, NEW set, NEW place,
           Arrival(r, i, kind, set, place)
    PROVE  GuardInv(I)' /\ Guarded
<1> DEFINE new == [pc |-> place, at |-> i, kind |-> kind, set |-> set, deal |-> open,
                   fresh |-> mem[i] = db]
<1>2. /\ req' = [req EXCEPT ![r] = new] /\ req[r].pc = "none"
      /\ UNCHANGED <<db, mem, open>>
  BY DEF Arrival, Saves!Arrive
<1>3. /\ new.pc = place /\ new.at = i /\ new.kind = kind /\ new.set = set /\ new.deal = open
      /\ (new.fresh <=> mem[i] = db) /\ RequestShape(new)
  BY DEF GuardInv, RequestShape
<1> HIDE DEF new
<1>4. RequestInv(new, I)
  <2>1. place = "backup" => set = [k \in Saves!Keys |-> set[k]] /\ Saves!Valid(set)
    BY DEF Arrival
  <2> QED
    BY <1>3, <2>1 DEF RequestInv, Waits
<1>5. Vetted(new, db, mem, open)
  <2> SUFFICES ASSUME Waits(new), new.fresh PROVE Found(new, db)
    BY <1>3 DEF Vetted
  <2>1. mem[i] = db
    BY <1>3
  <2> QED
    BY <1>3, <2>1 DEF Arrival, Found, Waits
<1>6. /\ \A q \in Requests : req'[q] = IF q = r THEN new ELSE req[q]
      /\ req' = [q \in Requests |-> req'[q]]
  BY <1>2 DEF GuardInv
<1>7. GuardInv(I)'
  BY <1>2, <1>4, <1>5, <1>6 DEF GuardInv
<1>8. Guarded
  BY <1>2, <1>6 DEF Guarded
<1> QED
  BY <1>7, <1>8

\* The trades are counted: a deal that was open and still is refuses a change of the mode.
LEMMA Guards ==
    ASSUME NEW I, GuardInv(I), NEW r \in Requests, Saves!Guard(r) \/ Saves!CheckSignal(r)
    PROVE  GuardInv(I)' /\ Guarded
<1> DEFINE q == req[r]
<1>1. PICK place :
          /\ req' = [req EXCEPT ![r].pc = place] /\ UNCHANGED <<db, mem, open>>
          /\ q.pc \in {"guard", "csv"}
          /\ \/ place = "refused"
             \/ /\ ~open /\ place \in {"csv", "commit"}
                /\ place = "commit" => /\ Saves!LiveBoundary(mem[q.at], q.set)
                                       /\ Saves!Valid(Saves!With(mem[q.at], q.set))
  <2>1. CASE Saves!Guard(r)
    <3> DEFINE where == IF open \/ waiting THEN "refused" ELSE Saves!AfterGuard(q.at, q.set)
    <3>1. /\ req' = [req EXCEPT ![r].pc = where] /\ UNCHANGED <<db, mem, open>>
          /\ q.pc = "guard"
      BY <2>1 DEF Saves!Guard
    <3>2. \/ where = "refused"
          \/ /\ ~open /\ where \in {"csv", "commit"}
             /\ where = "commit" => /\ Saves!LiveBoundary(mem[q.at], q.set)
                                    /\ Saves!Valid(Saves!With(mem[q.at], q.set))
      BY DEF Saves!AfterGuard, Saves!Checked
    <3> HIDE DEF where
    <3> QED
      BY <3>1, <3>2
  <2>2. CASE Saves!CheckSignal(r)
    BY <2>2 DEF Saves!CheckSignal, Saves!Checked
  <2> QED
    BY <2>1, <2>2
<1> DEFINE new == [q EXCEPT !.pc = place]
<1>2. RequestInv(q, I) /\ Vetted(q, db, mem, open)
  BY DEF GuardInv
<1>3. /\ \A p \in Requests : req'[p] = IF p = r THEN new ELSE req[p]
      /\ req' = [p \in Requests |-> req'[p]]
  BY <1>1 DEF GuardInv
<1> HIDE DEF q
<1>4. /\ new.pc = place /\ new.at = q.at /\ new.kind = q.kind /\ new.set = q.set
      /\ new.deal = q.deal /\ new.fresh = q.fresh /\ RequestShape(new)
  BY <1>2 DEF RequestInv, RequestShape
<1> HIDE DEF new
<1>5. RequestInv(new, I)
  BY <1>1, <1>2, <1>4 DEF RequestInv, Waits
<1>6. Vetted(new, db, mem, open)
  <2> SUFFICES ASSUME Waits(new), new.fresh
               PROVE  mem[new.at] = db /\ (new.deal => open) /\ Found(new, db)
    BY DEF Vetted
  <2>1. mem[q.at] = db /\ (q.deal => open) /\ Found(q, db)
    BY <1>1, <1>2, <1>4 DEF Vetted, Waits
  <2>2. ~open /\ ~q.deal /\ q.kind = "save"
    BY <1>1, <1>4, <2>1 DEF Waits, Found
  <2> QED
    BY <1>1, <1>4, <2>1, <2>2 DEF Found
<1>7. GuardInv(I)'
  BY <1>1, <1>3, <1>5, <1>6 DEF GuardInv
<1>8. Guarded
  BY <1>1, <1>3, <1>4 DEF Guarded, q
<1> QED
  BY <1>7, <1>8

\* The commit disturbs the others.
LEMMA Commits ==
    ASSUME NEW I, GuardInv(I), NEW r \in Requests, Saves!Commit(r)
    PROVE  GuardInv(I)' /\ Guarded
<1>1. /\ req[r].pc = "commit" /\ db' = Saves!With(db, req[r].set) /\ open' = open
      /\ mem' = [mem EXCEPT ![req[r].at] = Saves!With(@, req[r].set)]
      /\ req'[r] = [req[r] EXCEPT !.pc = "publish"]
      /\ \A q \in Requests \ {r} : req'[q] = [req[q] EXCEPT !.fresh = FALSE]
      /\ req' = [q \in Requests |-> req'[q]]
  BY DEF Saves!Commit, Saves!With, Saves!Keys
<1>2. \A q \in Requests : RequestInv(req[q], I) /\ Vetted(req[q], db, mem, open)
  BY DEF GuardInv
<1>3. RequestInv(req'[r], I) /\ Vetted(req'[r], db', mem', open')
  <2>1. req'[r].pc = "publish"
    BY <1>1, <1>2 DEF RequestInv, RequestShape
  <2> QED
    BY <1>1, <1>2, <2>1, Passes
<1>4. ASSUME NEW q \in Requests \ {r}
      PROVE  /\ RequestInv(req'[q], I) /\ Vetted(req'[q], db', mem', open')
             /\ req'[q].pc = req[q].pc
  <2>1. /\ req'[q] = [req[q] EXCEPT !.fresh = FALSE, !.deal = req'[q].deal]
        /\ req'[q].deal \in BOOLEAN
    BY <1>1, <1>2 DEF RequestInv, RequestShape
  <2> QED
    BY <1>2, <2>1, Disturbs
<1>5. mem' = [i \in I |-> mem'[i]] /\ db' = [k \in Saves!Keys |-> db'[k]]
  BY <1>1 DEF GuardInv, Saves!With
<1>6. GuardInv(I)'
  BY <1>1, <1>3, <1>4, <1>5 DEF GuardInv
<1>7. Guarded
  <2>1. req[r].fresh => Found(req[r], db)
    BY <1>1, <1>2 DEF Vetted, Waits
  <2> QED
    BY <1>1, <1>4, <2>1, CommitKeeps DEF Guarded
<1> QED
  BY <1>6, <1>7

\* A backup replaces the rows and disturbs the others.
LEMMA Replaces ==
    ASSUME NEW I, GuardInv(I), NEW r \in Requests, Replacement(r)
    PROVE  GuardInv(I)' /\ Guarded
<1>1. /\ req[r].pc = "backup" /\ db' = req[r].set /\ mem' = mem
      /\ req'[r] = [req[r] EXCEPT !.pc = "reload"]
      /\ \A q \in Requests \ {r} :
            req'[q] = [req[q] EXCEPT !.fresh = FALSE, !.deal = @ /\ open']
      /\ req' = [q \in Requests |-> req'[q]]
  BY DEF Replacement
<1>2. open' \in BOOLEAN
  BY DEF Replacement
<1>3. \A q \in Requests : RequestInv(req[q], I)
  BY DEF GuardInv
<1>4. /\ RequestInv(req'[r], I) /\ Vetted(req'[r], db', mem', open')
      /\ req'[r].pc # "publish" /\ Saves!Valid(db')
  <2>1. req'[r].pc = "reload"
    BY <1>1, <1>3 DEF RequestInv, RequestShape
  <2>2. Saves!Valid(db')
    BY <1>1, <1>3 DEF RequestInv
  <2> QED
    BY <1>1, <1>3, <2>1, <2>2, Passes
<1>5. ASSUME NEW q \in Requests \ {r}
      PROVE  /\ RequestInv(req'[q], I) /\ Vetted(req'[q], db', mem', open')
             /\ req'[q].pc = req[q].pc
  <2>1. req'[q] = [req[q] EXCEPT !.fresh = FALSE, !.deal = req[q].deal /\ open']
    BY <1>1
  <2>2. /\ req'[q].deal = (req[q].deal /\ open')
        /\ req'[q] = [req[q] EXCEPT !.fresh = FALSE, !.deal = req'[q].deal]
    BY <1>3, <2>1 DEF RequestInv, RequestShape
  <2>3. req'[q].deal \in BOOLEAN
    BY <2>2
  <2> QED
    BY <1>3, <2>2, <2>3, Disturbs
<1>6. db' = [k \in Saves!Keys |-> db'[k]]
  BY <1>1, <1>3 DEF RequestInv
<1>7. GuardInv(I)'
  BY <1>1, <1>2, <1>4, <1>5, <1>6 DEF GuardInv
<1>8. Guarded
  BY <1>4, <1>5 DEF Guarded
<1> QED
  BY <1>7, <1>8

\* What a process reads or is told are rows, and the deals come and go.
LEMMA Learns ==
    ASSUME NEW I, GuardInv(I), Learning(I)
    PROVE  GuardInv(I)' /\ Guarded
<1>3. ASSUME NEW q \in Requests
      PROVE  /\ RequestInv(req'[q], I) /\ Vetted(req'[q], db', mem', open')
             /\ req'[q].pc \in {"publish", "reload"} => req'[q].pc = req[q].pc
  <2>1. RequestInv(req[q], I) /\ Vetted(req[q], db, mem, open)
    BY DEF GuardInv
  <2>2. CASE req'[q] = req[q] /\ (open' = open \/ open')
    BY <2>1, <2>2, StaysVetted DEF Learning
  <2>3. CASE req'[q] = [req[q] EXCEPT !.deal = FALSE]
    <3>1. req'[q].pc = req[q].pc
      BY <2>1, <2>3 DEF RequestInv, RequestShape
    <3> QED
      BY <2>1, <2>3, <3>1, StaysVetted DEF Learning
  <2>4. CASE \E place \in {"done", "refused"} : req'[q] = [req[q] EXCEPT !.pc = place]
    <3>1. req'[q] = [req[q] EXCEPT !.pc = req'[q].pc] /\ req'[q].pc \in {"done", "refused"}
      BY <2>1, <2>4 DEF RequestInv, RequestShape
    <3> QED
      BY <2>1, <3>1, Passes
  <2> QED
    BY <2>2, <2>3, <2>4 DEF Learning
<1>4. GuardInv(I)'
  BY <1>3 DEF GuardInv, Learning
<1>5. Guarded
  BY <1>3 DEF Guarded
<1> QED
  BY <1>4, <1>5

-----------------------------------------------------------------------------
\* Several processes: every step is one of these.
LEMMA SeveralArrives ==
    ASSUME NEW r \in Requests, NEW i \in Instances,
           \/ Config!Ask(r, i) \/ Config!Toggle(r, i) \/ Config!Activate(r, i) \/ Config!Restore(r, i)
    PROVE  \E kind, set, place : Arrival(r, i, kind, set, place)
<1> USE DEF Config!Arrive, Saves!Arrive, Config!Switches, Saves!Switches,
    Config!LiveBoundary, Saves!LiveBoundary,
       Config!Valid, Saves!Valid, Config!With, Saves!With,
       Config!Typed, Saves!Typed, Config!ReadsDry, Saves!ReadsDry, Config!Ready, Saves!Ready,
       Config!Keys, Saves!Keys
<1>1. CASE Config!Ask(r, i)
  <2> DEFINE Place(set) == IF Config!Switches(mem[i], set) THEN "guard" ELSE Config!AfterGuard(i, set)
  <2>1. PICK set \in Updates : Config!Arrive(r, i, "save", set, Place(set))
    BY <1>1 DEF Config!Ask
  <2>2. /\ Place(set) \in {"guard", "csv", "commit", "refused"} /\ InWords(set)
        /\ Place(set) # "guard" => ~Saves!Switches(mem[i], set)
        /\ Place(set) = "commit" => /\ Saves!LiveBoundary(mem[i], set)
                                    /\ Saves!Valid(Saves!With(mem[i], set))
    BY <2>1, ConfigAssumption DEF InWords, Config!AfterGuard, Config!Checked
  <2>3. Saves!Arrive(r, i, "save", set, Place(set))
    BY <2>1
  <2> HIDE DEF Place
  <2>4. Arrival(r, i, "save", set, Place(set))
    BY <2>2, <2>3 DEF Arrival
  <2> QED
    BY <2>4
<1>2. CASE Config!Toggle(r, i)
  <2> DEFINE set == [k \in {"paused"} |-> ~mem[i]["paused"]]
             place == IF Saves!Valid(Saves!With(mem[i], set)) THEN "commit" ELSE "refused"
  <2>1. Saves!Arrive(r, i, "save", set, place)
    BY <1>2 DEF Config!Toggle
  <2>2. ~Saves!Switches(mem[i], set) /\ Saves!LiveBoundary(mem[i], set) /\ InWords(set)
    BY DEF Saves!Switches, Saves!LiveBoundary, InWords
  <2> HIDE DEF set, place
  <2>3. Arrival(r, i, "save", set, place)
    BY <2>1, <2>2 DEF Arrival, place
  <2> QED
    BY <2>3
<1>3. CASE Config!Activate(r, i)
  BY <1>3 DEF Config!Activate, Arrival
<1>4. CASE Config!Restore(r, i)
  BY <1>4, ConfigAssumption DEF Config!Restore, Arrival
<1> QED
  BY <1>1, <1>2, <1>3, <1>4

\* What a process reads or is told are rows.
LEMMA SeveralLearns ==
    ASSUME GuardInv(Instances),
           \/ Config!OpenDeal \/ Config!CloseDeal
           \/ \E r \in Requests : Config!Publish(r) \/ Config!Reload(r)
           \/ \E i \in Instances : \/ Config!Receive(i) \/ Config!ListenerDies(i)
                             \/ Config!Restart(i) \/ Config!Subscribe(i)
    PROVE  Learning(Instances)
<1> DEFINE Rows == /\ db' = db /\ mem' = [i \in Instances |-> mem'[i]]
                   /\ \A i \in Instances : mem[i] = db => mem'[i] = db
           Reqs == /\ open' \in BOOLEAN /\ req' = [q \in Requests |-> req'[q]]
                   /\ \A q \in Requests :
                         \/ req'[q] = req[q] /\ (open' = open \/ open')
                         \/ req'[q] = [req[q] EXCEPT !.deal = FALSE]
                         \/ \E place \in {"done", "refused"} :
                               req'[q] = [req[q] EXCEPT !.pc = place]
<1>0. /\ mem = [i \in Instances |-> mem[i]] /\ db = [k \in Saves!Keys |-> db[k]]
      /\ open \in BOOLEAN /\ req = [q \in Requests |-> req[q]]
  BY DEF GuardInv
<1>1. Rows /\ Reqs
  <2>1. CASE Config!OpenDeal
    BY <1>0, <2>1 DEF Config!OpenDeal
  <2>2. CASE Config!CloseDeal
    <3>1. Rows /\ open' = FALSE
      BY <1>0, <2>2 DEF Config!CloseDeal
    <3>2. req' = [q \in Requests |-> [req[q] EXCEPT !.deal = FALSE]]
      BY <2>2 DEF Config!CloseDeal
    <3> QED
      BY <3>1, <3>2
  <2>3. ASSUME NEW r \in Requests, Config!Publish(r) PROVE Rows /\ Reqs
    <3>1. Rows /\ open' = open /\ req' = [req EXCEPT ![r].pc = "done"]
      BY <1>0, <2>3 DEF Config!Publish
    <3> QED
      BY <1>0, <3>1
  <2>4. ASSUME NEW r \in Requests, Config!Reload(r) PROVE Rows /\ Reqs
    <3>1. Rows /\ open' = open /\ req' = [req EXCEPT ![r].pc = "done"]
      BY <1>0, <2>4 DEF Config!Reload
    <3> QED
      BY <1>0, <3>1
  <2>5. ASSUME NEW i \in Instances, Config!Receive(i) PROVE Rows /\ Reqs
    <3>1. PICK keys : mem' = [mem EXCEPT ![i] = Config!Reread(mem[i], keys)]
      BY <2>5 DEF Config!Receive
    <3>2. /\ db' = db /\ open' = open /\ req' = req
      BY <2>5 DEF Config!Receive
    <3>3. mem[i] = db => Config!Reread(mem[i], keys) = db
      BY <1>0 DEF Config!Reread, Config!Keys, Saves!Keys
    <3>4. Rows
      BY <1>0, <3>1, <3>2, <3>3
    <3> QED
      BY <1>0, <3>2, <3>4
  <2>6. ASSUME NEW i \in Instances, Config!ListenerDies(i) \/ Config!Subscribe(i) PROVE Rows /\ Reqs
    BY <1>0, <2>6 DEF Config!ListenerDies, Config!Subscribe
  <2>7. ASSUME NEW i \in Instances, Config!Restart(i) PROVE Rows /\ Reqs
    <3>1. PICK mine : req' = [q \in Requests |-> IF q \in mine THEN [req[q] EXCEPT !.pc = "refused"]
                                                ELSE req[q]]
      BY <2>7 DEF Config!Restart
    <3>2. Rows /\ open' = open
      BY <1>0, <2>7 DEF Config!Restart
    <3> QED
      BY <1>0, <3>1, <3>2
  <2> QED
    BY <2>1, <2>2, <2>3, <2>4, <2>5, <2>6, <2>7
<1> QED
  BY <1>1 DEF Learning

\* The guards hold from the start, and over every step.
LEMMA SeveralInit ==
    ASSUME Config!Init
    PROVE  GuardInv(Instances)
<1>1. db = [k \in Saves!Keys |-> db[k]]
  BY ConfigAssumption DEF Config!Init
<1>2. /\ mem = [i \in Instances |-> mem[i]] /\ open \in BOOLEAN /\ req = [r \in Requests |-> req[r]]
      /\ \A r \in Requests : req[r] = Config!NoRequest
  BY DEF Config!Init
<1>3. \A r \in Requests : RequestInv(req[r], Instances) /\ Vetted(req[r], db, mem, open)
  <2>1. TAKE r \in Requests
  <2>2. req[r].pc = "none" /\ RequestShape(req[r])
    <3>1. \E i, none : req[r] = [pc |-> "none", at |-> i, set |-> none, kind |-> "save",
                                 deal |-> FALSE, fresh |-> TRUE]
      BY <1>2, Zenon DEF Config!NoRequest
    <3> QED
      BY <3>1 DEF RequestShape
  <2> QED
    BY <2>2 DEF RequestInv, Vetted, Waits
<1> QED
  BY <1>1, <1>2, <1>3 DEF GuardInv

\* They hold over every step, and no step breaks a promise.
LEMMA SeveralStep ==
    ASSUME GuardInv(Instances), [Config!Next]_configVars
    PROVE  GuardInv(Instances)' /\ Guarded
<1>1. CASE UNCHANGED configVars
  BY <1>1 DEF configVars, GuardInv, RequestInv, RequestShape, Waits, Vetted, Guarded
<1>2. ASSUME NEW r \in Requests, NEW i \in Instances,
             \/ Config!Ask(r, i) \/ Config!Toggle(r, i) \/ Config!Activate(r, i) \/ Config!Restore(r, i)
      PROVE  GuardInv(Instances)' /\ Guarded
  BY <1>2, SeveralArrives, Arrives
<1>3. ASSUME NEW r \in Requests,
             Config!Guard(r) \/ Config!CheckSignal(r) \/ Config!Commit(r) \/ Config!ReplaceRows(r)
      PROVE  GuardInv(Instances)' /\ Guarded
  <2>1. Config!Guard(r) => Saves!Guard(r)
    BY Zenon DEF Config!Guard, Saves!Guard, Config!AfterGuard, Saves!AfterGuard,
       Config!Checked, Saves!Checked, Config!ChoosesCsv, Saves!ChoosesCsv, Config!LiveBoundary,
       Saves!LiveBoundary, Config!Valid, Saves!Valid, Config!With, Saves!With,
       Config!Typed, Saves!Typed, Config!ReadsDry, Saves!ReadsDry, Config!Keys, Saves!Keys
  <2>2. Config!CheckSignal(r) => Saves!CheckSignal(r)
    BY Zenon DEF Config!CheckSignal, Saves!CheckSignal, Config!Checked, Saves!Checked,
        Config!LiveBoundary,
       Saves!LiveBoundary, Config!Valid, Saves!Valid, Config!With, Saves!With,
       Config!Typed, Saves!Typed, Config!ReadsDry, Saves!ReadsDry, Config!Keys, Saves!Keys
  <2>3. Config!Commit(r) => Saves!Commit(r)
    BY Zenon DEF Config!Commit, Saves!Commit, Config!LiveBoundary,
       Saves!LiveBoundary, Config!Valid, Saves!Valid, Config!With, Saves!With,
       Config!Typed, Saves!Typed, Config!ReadsDry, Saves!ReadsDry, Config!Keys, Saves!Keys
  <2>4. Config!ReplaceRows(r) => Replacement(r)
    BY DEF Config!ReplaceRows, Replacement
  <2> QED
    BY <1>3, <2>1, <2>2, <2>3, <2>4, Guards, Commits, Replaces
<1> QED
  BY <1>1, <1>2, <1>3, SeveralLearns, Learns DEF Config!Next
-----------------------------------------------------------------------------
\* One process: every step is one of these.
LEMMA SingleArrives ==
    ASSUME NEW r \in Requests, NEW i \in One,
           \/ Saves!Ask(r, i) \/ Saves!Toggle(r, i) \/ Saves!Activate(r, i) \/ Saves!Restore(r, i)
    PROVE  \E kind, set, place : Arrival(r, i, kind, set, place)
<1> USE DEF One, Saves!Arrive
<1>1. CASE Saves!Ask(r, i)
  <2> DEFINE Place(set) == IF Saves!Switches(mem[i], set) THEN "guard" ELSE Saves!AfterGuard(i, set)
  <2>1. PICK set \in SavedUpdates : Saves!Arrive(r, i, "save", set, Place(set))
    BY <1>1 DEF Saves!Ask
  <2>2. /\ Place(set) \in {"guard", "csv", "commit", "refused"} /\ InWords(set)
        /\ Place(set) # "guard" => ~Saves!Switches(mem[i], set)
        /\ Place(set) = "commit" => /\ Saves!LiveBoundary(mem[i], set)
                                    /\ Saves!Valid(Saves!With(mem[i], set))
    BY <2>1, ConfigAssumption DEF InWords, Saves!AfterGuard, Saves!Checked
  <2>3. Saves!Arrive(r, i, "save", set, Place(set))
    BY <2>1
  <2> HIDE DEF Place
  <2>4. Arrival(r, i, "save", set, Place(set))
    BY <2>2, <2>3 DEF Arrival
  <2> QED
    BY <2>4
<1>2. CASE Saves!Toggle(r, i)
  <2> DEFINE set == [k \in {"paused"} |-> ~mem[i]["paused"]]
             place == IF Saves!Valid(Saves!With(mem[i], set)) THEN "commit" ELSE "refused"
  <2>1. Saves!Arrive(r, i, "save", set, place)
    BY <1>2 DEF Saves!Toggle
  <2>2. ~Saves!Switches(mem[i], set) /\ Saves!LiveBoundary(mem[i], set) /\ InWords(set)
    BY DEF Saves!Switches, Saves!LiveBoundary, InWords
  <2> HIDE DEF set, place
  <2>3. Arrival(r, i, "save", set, place)
    BY <2>1, <2>2 DEF Arrival, place
  <2> QED
    BY <2>3
<1>3. CASE Saves!Activate(r, i)
  BY <1>3 DEF Saves!Activate, Arrival
<1>4. CASE Saves!Restore(r, i)
  BY <1>4, ConfigAssumption DEF Saves!Restore, Arrival
<1> QED
  BY <1>1, <1>2, <1>3, <1>4

\* What a process reads or is told are rows.
LEMMA SingleLearns ==
    ASSUME GuardInv(One),
           \/ Saves!OpenDeal \/ Saves!CloseDeal
           \/ \E r \in Requests : Saves!Publish(r) \/ Saves!Reload(r)
           \/ \E i \in One : \/ Saves!Receive(i) \/ Saves!ListenerDies(i)
                             \/ Saves!Restart(i) \/ Saves!Subscribe(i)
    PROVE  Learning(One)
<1> USE DEF One
<1> DEFINE Rows == /\ db' = db /\ mem' = [i \in One |-> mem'[i]]
                   /\ \A i \in One : mem[i] = db => mem'[i] = db
           Reqs == /\ open' \in BOOLEAN /\ req' = [q \in Requests |-> req'[q]]
                   /\ \A q \in Requests :
                         \/ req'[q] = req[q] /\ (open' = open \/ open')
                         \/ req'[q] = [req[q] EXCEPT !.deal = FALSE]
                         \/ \E place \in {"done", "refused"} :
                               req'[q] = [req[q] EXCEPT !.pc = place]
<1>0. /\ mem = [i \in One |-> mem[i]] /\ db = [k \in Saves!Keys |-> db[k]]
      /\ open \in BOOLEAN /\ req = [q \in Requests |-> req[q]]
  BY DEF GuardInv
<1>1. Rows /\ Reqs
  <2>1. CASE Saves!OpenDeal
    BY <1>0, <2>1 DEF Saves!OpenDeal
  <2>2. CASE Saves!CloseDeal
    <3>1. Rows /\ open' = FALSE
      BY <1>0, <2>2 DEF Saves!CloseDeal
    <3>2. req' = [q \in Requests |-> [req[q] EXCEPT !.deal = FALSE]]
      BY <2>2 DEF Saves!CloseDeal
    <3> QED
      BY <3>1, <3>2
  <2>3. ASSUME NEW r \in Requests, Saves!Publish(r) PROVE Rows /\ Reqs
    <3>1. Rows /\ open' = open /\ req' = [req EXCEPT ![r].pc = "done"]
      BY <1>0, <2>3 DEF Saves!Publish
    <3> QED
      BY <1>0, <3>1
  <2>4. ASSUME NEW r \in Requests, Saves!Reload(r) PROVE Rows /\ Reqs
    <3>1. Rows /\ open' = open /\ req' = [req EXCEPT ![r].pc = "done"]
      BY <1>0, <2>4 DEF Saves!Reload
    <3> QED
      BY <1>0, <3>1
  <2>5. ASSUME NEW i \in One, Saves!Receive(i) PROVE Rows /\ Reqs
    <3>1. PICK keys : mem' = [mem EXCEPT ![i] = Saves!Reread(mem[i], keys)]
      BY <2>5 DEF Saves!Receive
    <3>2. /\ db' = db /\ open' = open /\ req' = req
      BY <2>5 DEF Saves!Receive
    <3>3. mem[i] = db => Saves!Reread(mem[i], keys) = db
      BY <1>0 DEF Saves!Reread, Saves!Keys
    <3>4. Rows
      BY <1>0, <3>1, <3>2, <3>3
    <3> QED
      BY <1>0, <3>2, <3>4
  <2>6. ASSUME NEW i \in One, Saves!ListenerDies(i) \/ Saves!Subscribe(i) PROVE Rows /\ Reqs
    BY <1>0, <2>6 DEF Saves!ListenerDies, Saves!Subscribe
  <2>7. ASSUME NEW i \in One, Saves!Restart(i) PROVE Rows /\ Reqs
    <3>1. PICK mine : req' = [q \in Requests |-> IF q \in mine THEN [req[q] EXCEPT !.pc = "refused"]
                                                ELSE req[q]]
      BY <2>7 DEF Saves!Restart
    <3>2. Rows /\ open' = open
      BY <1>0, <2>7 DEF Saves!Restart
    <3> QED
      BY <1>0, <3>1, <3>2
  <2> QED
    BY <2>1, <2>2, <2>3, <2>4, <2>5, <2>6, <2>7
<1> QED
  BY <1>1 DEF Learning

\* The guards hold from the start, and over every step.
LEMMA SingleInit ==
    ASSUME Saves!Init
    PROVE  GuardInv(One)
<1> USE DEF One
<1>1. db = [k \in Saves!Keys |-> db[k]]
  BY ConfigAssumption DEF Saves!Init
<1>2. /\ mem = [i \in One |-> mem[i]] /\ open \in BOOLEAN /\ req = [r \in Requests |-> req[r]]
      /\ \A r \in Requests : req[r] = Saves!NoRequest
  BY DEF Saves!Init
<1>3. \A r \in Requests : RequestInv(req[r], One) /\ Vetted(req[r], db, mem, open)
  <2>1. TAKE r \in Requests
  <2>2. req[r].pc = "none" /\ RequestShape(req[r])
    <3>1. \E i, none : req[r] = [pc |-> "none", at |-> i, set |-> none, kind |-> "save",
                                 deal |-> FALSE, fresh |-> TRUE]
      BY <1>2, Zenon DEF Saves!NoRequest
    <3> QED
      BY <3>1 DEF RequestShape
  <2> QED
    BY <2>2 DEF RequestInv, Vetted, Waits
<1> QED
  BY <1>1, <1>2, <1>3 DEF GuardInv

\* They hold over every step, and no step breaks a promise.
LEMMA SingleStep ==
    ASSUME GuardInv(One), [Saves!Next]_configVars
    PROVE  GuardInv(One)' /\ Guarded
<1>1. CASE UNCHANGED configVars
  BY <1>1 DEF configVars, GuardInv, RequestInv, RequestShape, Waits, Vetted, Guarded
<1>2. ASSUME NEW r \in Requests, NEW i \in One,
             \/ Saves!Ask(r, i) \/ Saves!Toggle(r, i) \/ Saves!Activate(r, i) \/ Saves!Restore(r, i)
      PROVE  GuardInv(One)' /\ Guarded
  BY <1>2, SingleArrives, Arrives
<1>3. ASSUME NEW r \in Requests,
             Saves!Guard(r) \/ Saves!CheckSignal(r) \/ Saves!Commit(r) \/ Saves!ReplaceRows(r)
      PROVE  GuardInv(One)' /\ Guarded
  <2>1. Saves!ReplaceRows(r) => Replacement(r)
    BY DEF Saves!ReplaceRows, Replacement
  <2> QED
    BY <1>3, <2>1, Guards, Commits, Replaces
<1> QED
  BY <1>1, <1>2, <1>3, SingleLearns, Learns DEF Saves!Next, One

-----------------------------------------------------------------------------
(***************************************************************************)
(* The market history. The invariant says what a sync has still to fetch:  *)
(* every candle of its window is known or comes with the fetches that are  *)
(* left. That the stored candles have no hole is needed where the fetches  *)
(* are planned, and nowhere else.                                          *)
(***************************************************************************)
\* The window of the sync, and what the exchange has of it.
Window == History!Upto(sync.since, sync.until)
Listed == {t \in Window : t >= listed}

SyncShape ==
    sync = [pc |-> sync.pc, since |-> sync.since, until |-> sync.until,
            known |-> sync.known, first |-> sync.first, starts |-> sync.starts,
            fetched |-> sync.fetched, refill |-> sync.refill, warmup |-> sync.warmup,
            hole |-> sync.hole, ok |-> sync.ok]

HistoryTypeInv ==
    /\ listed \in Nat
    /\ candle \in 2 .. HistoryEnd
    /\ stored \subseteq {t \in 0 .. HistoryEnd : t >= listed}
    /\ sync.fetched \subseteq {t \in 0 .. HistoryEnd : t >= listed}
    /\ SyncShape
    /\ spoiled \in BOOLEAN

\* The fetches that are left bring every candle that is not known.
Covered ==
    \E h \in {sync.since} \cup Listed :
        \/ sync.starts = <<sync.since, h>>
        \/ sync.starts = <<h>> /\ \A t \in Listed : t < h => t \in sync.known

SyncInv ==
    /\ sync.since \in Nat /\ sync.until \in Nat
    /\ sync.since <= sync.until /\ sync.until < candle
    /\ sync.known \subseteq Listed /\ sync.known \subseteq stored
    /\ sync.first \in Listed \cup {HistoryEnd + 1}
    /\ sync.pc = "refresh" => sync.known = Window
    /\ sync.pc \in {"fetch", "store"} => Covered
    /\ sync.pc = "store" => sync.fetched = {t \in Listed : t >= Head(sync.starts)}
    /\ sync.pc = "judge" => sync.known = Listed /\ (Listed # {} => sync.first \in Listed)

HistoryInv ==
    /\ HistoryTypeInv
    /\ sync.pc \in {"refresh", "fetch", "store", "judge"} /\ ~spoiled /\ ~sync.hole => SyncInv

\* The step answers truly.
Told ==
    History!Answers /\ ~spoiled' /\ ~sync.warmup /\ ~sync.hole =>
        sync'.ok <=> (History!Wanted(sync) # {} /\ History!Wanted(sync) \subseteq stored)

-----------------------------------------------------------------------------
\* Sets of naturals have a least element, and a greatest one below a bound.
LEMMA LeastExists ==
    ASSUME NEW S, S \subseteq Nat, S # {}
    PROVE  \E t \in S : \A u \in S : t <= u
<1>1. IsWellFoundedOn(OpToRel(<, Nat), Nat)
  BY NatLessThanWellFounded
<1>2. PICK t \in S : \A u \in S : <<u, t>> \notin OpToRel(<, Nat)
  BY <1>1, WFMin
<1>3. \A u \in S : ~(u < t)
  BY <1>2 DEF OpToRel
<1> QED
  BY <1>3

\* What the model takes for the least of a set is it,
LEMMA LeastIs ==
    ASSUME NEW S, S \subseteq Nat, S # {}
    PROVE  History!Least(S) \in S /\ \A u \in S : History!Least(S) <= u
  BY LeastExists DEF History!Least

\* and likewise the greatest.
LEMMA GreatestIs ==
    ASSUME NEW n \in Nat, NEW S, S \subseteq 0 .. n, S # {}
    PROVE  History!Greatest(S) \in S /\ \A u \in S : History!Greatest(S) >= u
<1> DEFINE T == {n - u : u \in S}
<1>1. T \subseteq Nat /\ T # {}
  <2>1. ASSUME NEW u \in S PROVE n - u \in Nat
    OBVIOUS
  <2> QED
    BY <2>1
<1>2. PICK t \in T : \A u \in T : t <= u
  BY <1>1, LeastExists
<1>3. PICK s \in S : t = n - s
  BY <1>2
<1>4. \A u \in S : n - s <= n - u
  BY <1>2, <1>3
<1>5. \A u \in S : s >= u
  BY <1>4
<1> QED
  BY <1>3, <1>5 DEF History!Greatest

-----------------------------------------------------------------------------
\* A history starts without a sync.
LEMMA HistoryInit == History!Init => HistoryInv
<1> SUFFICES ASSUME History!Init PROVE HistoryInv
  OBVIOUS
<1>1. SyncShape /\ sync.pc = "idle" /\ sync.fetched = {}
  BY DEF History!Init, History!NoSync, SyncShape
<1> QED
  <2>1. /\ listed \in Nat /\ candle \in 2 .. HistoryEnd /\ spoiled \in BOOLEAN
        /\ stored \subseteq {t \in 0 .. HistoryEnd : t >= listed}
    <3>1. PICK from \in 0 .. 2 : listed = from
      BY DEF History!Init
    <3>2. stored \subseteq listed .. 1
      BY DEF History!Init
    <3>3. stored \subseteq {t \in 0 .. HistoryEnd : t >= listed}
      BY <3>1, <3>2, HistoryAssumption
    <3>4. spoiled \in BOOLEAN /\ candle = 2
      BY Zenon DEF History!Init
    <3> QED
      BY <3>1, <3>3, <3>4, HistoryAssumption
  <2> QED
    BY <1>1, <2>1 DEF HistoryInv, HistoryTypeInv

\* Two fetches that follow each other.
LEMMA TwoFetches ==
    ASSUME NEW a \in Nat, NEW b \in Nat
    PROVE  <<a>> \o <<b>> = <<a, b>>
<1> DEFINE s == <<a>> \o <<b>>
           t == <<a, b>>
<1>1. /\ s \in Seq(Nat) /\ Len(s) = 2 /\ s[1] = a /\ s[2] = b
      /\ t \in Seq(Nat) /\ Len(t) = 2 /\ t[1] = a /\ t[2] = b
  OBVIOUS
<1> HIDE DEF s, t
<1>2. \A i \in 1 .. Len(s) : s[i] = t[i]
  BY <1>1
<1>3. s = t
  BY <1>1, <1>2, SeqEqual
<1> QED
  BY <1>3 DEF s, t

\* The fetches of a new sync: before the stored candles, after them, or both.
LEMMA StartsCover ==
    ASSUME NEW since \in Nat, NEW until \in Nat, since <= until, until < HistoryEnd,
           NEW known, NEW from \in Nat,
           known \subseteq {t \in History!Upto(since, until) : t >= from},
           ~History!HasHole(known), ~(History!Upto(since, until) \subseteq known)
    PROVE  \E h \in {since} \cup {t \in History!Upto(since, until) : t >= from} :
              \/ History!Starts(since, until, known) = <<since, h>>
              \/ /\ History!Starts(since, until, known) = <<h>>
                 /\ \A t \in {u \in History!Upto(since, until) : u >= from} : t < h => t \in known
<1>1. CASE known = {}
  BY <1>1 DEF History!Starts, History!Upto
<1>2. CASE known # {}
  <2> DEFINE l == History!Least(known)
             g == History!Greatest(known)
  <2>1. known \subseteq 0 .. HistoryEnd
    BY DEF History!Upto
  <2>2. /\ l \in known /\ \A u \in known : l <= u
        /\ g \in known /\ \A u \in known : g >= u
    <3>1. known \subseteq Nat /\ HistoryEnd \in Nat
      BY <2>1, HistoryAssumption
    <3>2. l \in known /\ \A u \in known : l <= u
      BY <1>2, <3>1, LeastIs
    <3>3. g \in known /\ \A u \in known : g >= u
      BY <1>2, <2>1, <3>1, GreatestIs
    <3> QED
      BY <3>2, <3>3
  <2>3. \A u \in 0 .. HistoryEnd : l <= u /\ u <= g => u \in known
    BY <1>2 DEF History!HasHole, History!Upto
  <2>4. /\ l \in Nat /\ g \in Nat /\ since <= l /\ g <= until /\ from <= l /\ l <= g
    <3> HIDE DEF l, g
    <3> QED
      BY <2>1, <2>2 DEF History!Upto
  <2> HIDE DEF l, g
  <2>5. History!Starts(since, until, known) =
           LET head == IF l > since THEN <<since>> ELSE <<>>
               tail == IF g < until THEN <<g + 1>> ELSE <<>>
           IN  IF head \o tail = <<>> THEN <<since>> ELSE head \o tail
    BY <1>2 DEF History!Starts, l, g
  <2>6. g < until => g + 1 \in {t \in History!Upto(since, until) : t >= from}
    BY <2>4, HistoryAssumption DEF History!Upto
  <2>7. CASE l > since /\ g < until
    <3>1. <<since>> \o <<g + 1>> = <<since, g + 1>>
      BY <2>4, TwoFetches
    <3>2. <<since, g + 1>> # <<>>
      OBVIOUS
    <3>3. History!Starts(since, until, known) = <<since, g + 1>>
      BY <2>5, <2>7, <3>1, <3>2
    <3> QED
      BY <2>6, <2>7, <3>3
  <2>8. CASE l > since /\ ~(g < until)
    <3>1. <<since>> \o <<>> = <<since>>
      OBVIOUS
    <3> QED
      BY <2>5, <2>8, <3>1 DEF History!Upto
  <2>9. CASE ~(l > since) /\ g < until
    <3>1. <<>> \o <<g + 1>> = <<g + 1>>
      BY <2>4
    <3>2. History!Starts(since, until, known) = <<g + 1>>
      BY <2>5, <2>9, <3>1
    <3>3. \A t \in {u \in History!Upto(since, until) : u >= from} : t < g + 1 => t \in known
      BY <2>3, <2>4, <2>9 DEF History!Upto
    <3> QED
      BY <2>6, <2>9, <3>2, <3>3
  <2>10. CASE ~(l > since) /\ ~(g < until)
    BY <2>3, <2>4, <2>10 DEF History!Upto
  <2> QED
    BY <2>7, <2>8, <2>9, <2>10
<1> QED
  BY <1>1, <1>2

\* A sync that begins has planned what it needs, unless what it read has a hole.
LEMMA BeginStep ==
    ASSUME HistoryInv, History!Begin
    PROVE  HistoryInv' /\ Told
<1>1. PICK warm \in BOOLEAN :
          LET until == candle - 1
              since == IF candle >= Length THEN candle - Length ELSE 0
              known == stored \cap History!Upto(since, until)
              complete == History!Upto(since, until) \subseteq known
          IN  /\ sync' = [History!NoSync EXCEPT
                     !.pc = IF complete THEN "refresh" ELSE "fetch",
                     !.since = since, !.until = until, !.known = known, !.warmup = warm,
                     !.hole = History!HasHole(known),
                     !.starts = IF complete THEN <<>>
                                ELSE History!Starts(since, until, known)]
              /\ spoiled' = FALSE
              /\ UNCHANGED <<listed, candle, active, stored, cleaning>>
  BY DEF History!Begin
<1> DEFINE until == candle - 1
           since == IF candle >= Length THEN candle - Length ELSE 0
           window == History!Upto(since, until)
           known == stored \cap window
           starts == IF window \subseteq known THEN <<>>
                     ELSE History!Starts(since, until, known)
<1>2. /\ candle \in Nat /\ candle >= 2 /\ candle <= HistoryEnd /\ HistoryEnd \in Nat
      /\ Length \in Nat /\ Length > 0 /\ listed \in Nat
      /\ stored \subseteq {t \in 0 .. HistoryEnd : t >= listed}
  BY HistoryAssumption DEF HistoryInv, HistoryTypeInv
<1>3. since \in Nat /\ until \in Nat /\ since <= until /\ until < candle /\ until < HistoryEnd
  BY <1>2
<1>4. /\ sync' = [pc |-> IF window \subseteq known THEN "refresh" ELSE "fetch",
                  since |-> since, until |-> until, known |-> known,
                  first |-> HistoryEnd + 1, starts |-> starts, fetched |-> {},
                  refill |-> FALSE, warmup |-> warm, hole |-> History!HasHole(known),
                  ok |-> FALSE]
      /\ ~spoiled' /\ spoiled' \in BOOLEAN
      /\ UNCHANGED <<listed, candle, stored>>
  BY <1>1 DEF History!NoSync
<1> HIDE DEF since, until
<1>5. known \subseteq {t \in window : t >= listed}
  BY <1>2
<1>6. ASSUME ~(window \subseteq known), ~History!HasHole(known)
      PROVE  \E h \in {since} \cup {t \in window : t >= listed} :
                \/ starts = <<since, h>>
                \/ starts = <<h>> /\ \A t \in {u \in window : u >= listed} : t < h => t \in known
  <2> HIDE DEF known
  <2>1. starts = History!Starts(since, until, known)
    BY <1>6
  <2> QED
    BY <1>2, <1>3, <1>5, <1>6, <2>1, StartsCover
<1>7. HistoryTypeInv'
  BY <1>4 DEF HistoryInv, HistoryTypeInv, SyncShape
<1>8. /\ sync'.since = since /\ sync'.until = until /\ sync'.known = known
      /\ sync'.first = HistoryEnd + 1 /\ sync'.starts = starts
      /\ sync'.hole = History!HasHole(known)
      /\ sync'.pc = IF window \subseteq known THEN "refresh" ELSE "fetch"
  BY <1>4
<1>9. Window' = window /\ Listed' = {t \in window : t >= listed}
  BY <1>4, <1>8 DEF Window, Listed, History!Upto
<1>10. ~History!HasHole(known) => SyncInv'
  <2> SUFFICES ASSUME ~History!HasHole(known) PROVE SyncInv'
    OBVIOUS
  <2>1. ~(window \subseteq known) => Covered'
    BY <1>6, <1>8, <1>9 DEF Covered
  <2>2. window \subseteq known => known = window
    OBVIOUS
  <2>3. known \subseteq stored' /\ since <= until /\ until < candle'
    BY <1>3, <1>4
  <2> HIDE DEF window, known, starts
  <2> QED
    BY <1>3, <1>5, <1>8, <1>9, <2>1, <2>2, <2>3 DEF SyncInv
<1>11. Told
  BY <1>8 DEF Told, History!Answers
<1> QED
  BY <1>4, <1>7, <1>8, <1>10, <1>11 DEF HistoryInv

\* A fetch that is not cut short brings every listed candle from its start on.
LEMMA FetchStep ==
    ASSUME HistoryInv, History!Fetch
    PROVE  HistoryInv' /\ Told
<1>1. PICK cut \in listed .. candle + 1 :
          /\ sync.pc = "fetch"
          /\ sync' = [sync EXCEPT !.pc = "store",
                 !.fetched = History!Given(Head(sync.starts), cut) \cap Window]
          /\ spoiled' = (spoiled \/ cut <= sync.until)
          /\ UNCHANGED <<listed, candle, active, stored, cleaning>>
  BY DEF History!Fetch, Window
<1>2. /\ sync' = [sync EXCEPT !.pc = "store", !.fetched = sync'.fetched]
      /\ sync'.fetched = History!Given(Head(sync.starts), cut) \cap Window
  BY <1>1 DEF HistoryInv, HistoryTypeInv, SyncShape
<1>3. HistoryTypeInv'
  <2>1. SyncShape' /\ sync'.fetched \subseteq {t \in 0 .. HistoryEnd : t >= listed}
    BY <1>2 DEF HistoryInv, HistoryTypeInv, SyncShape, History!Given, History!Upto
  <2> QED
    BY <1>1, <2>1 DEF HistoryInv, HistoryTypeInv
<1>4. /\ sync'.pc = "store" /\ sync'.since = sync.since /\ sync'.until = sync.until
      /\ sync'.known = sync.known /\ sync'.first = sync.first
      /\ sync'.starts = sync.starts /\ sync'.hole = sync.hole
  BY <1>2 DEF HistoryInv, HistoryTypeInv, SyncShape
<1>5. Window' = Window /\ Listed' = Listed
  BY <1>1, <1>4 DEF Window, Listed, History!Upto
<1>6. ASSUME ~spoiled', ~sync.hole
      PROVE  SyncInv'
  <2>1. ~spoiled /\ ~(cut <= sync.until)
    BY <1>1, <1>6
  <2>2. SyncInv
    BY <1>1, <1>6, <2>1 DEF HistoryInv
  <2>3. Covered /\ Covered'
    BY <1>1, <1>4, <1>5, <2>2 DEF SyncInv, Covered
  <2>4. PICK h \in {sync.since} \cup Listed :
            sync.starts = <<sync.since, h>> \/ sync.starts = <<h>>
    BY <2>3 DEF Covered
  <2>5. Head(sync.starts) \in Nat /\ Head(sync.starts) >= sync.since
    BY <2>2, <2>4 DEF SyncInv, Listed, Window, History!Upto
  <2>6. sync'.fetched = {t \in Listed : t >= Head(sync.starts)}
    <3>1. candle \in Nat /\ listed \in Nat /\ cut \in Nat /\ cut > sync.until
      BY <1>1, <2>1, <2>2, HistoryAssumption DEF HistoryInv, HistoryTypeInv, SyncInv
    <3>2. \A t \in Window : t \in Nat /\ t <= sync.until /\ t \in 0 .. HistoryEnd
      BY DEF Window, History!Upto
    <3> DEFINE f == Head(sync.starts)
    <3> HIDE DEF f
    <3>3. sync'.fetched =
             {t \in 0 .. HistoryEnd : f <= t /\ t <= candle /\ t >= listed /\ t < cut} \cap Window
      BY <1>2 DEF History!Given, History!Upto, f
    <3>4. f \in Nat /\ sync.until \in Nat /\ sync.until < candle
      BY <2>2, <2>5 DEF SyncInv, f
    <3>5. ASSUME NEW t \in Window
          PROVE  /\ t \in 0 .. HistoryEnd
                 /\ f <= t /\ t <= candle /\ t >= listed /\ t < cut <=> t >= listed /\ t >= f
      BY <3>1, <3>2, <3>4
    <3>6. sync'.fetched = {t \in Listed : t >= f}
      BY <3>3, <3>5 DEF Listed
    <3> QED
      BY <3>6 DEF f
  <2> QED
    BY <1>1, <1>4, <1>5, <2>2, <2>3, <2>6 DEF SyncInv
<1>7. Told
  BY <1>4 DEF Told, History!Answers
<1> QED
  BY <1>3, <1>4, <1>6, <1>7 DEF HistoryInv

\* What is stored is known; after the last fetch that is all there is.
LEMMA StoreStep ==
    ASSUME HistoryInv, History!Store
    PROVE  HistoryInv' /\ Told
<1> DEFINE first == History!Least(sync.fetched \cup {sync.first})
           known == sync.known \cup sync.fetched
           more == Tail(sync.starts)
<1>1. /\ sync.pc = "store"
      /\ stored' = stored \cup (sync.fetched \ sync.known)
      /\ sync' = [sync EXCEPT !.first = first, !.known = known, !.starts = more,
                              !.pc = IF more = <<>> THEN "judge" ELSE "fetch"]
      /\ UNCHANGED <<listed, candle, active, cleaning, spoiled>>
  BY DEF History!Store
<1> HIDE DEF first
<1>2. /\ SyncShape'
      /\ sync'.since = sync.since /\ sync'.until = sync.until /\ sync'.hole = sync.hole
      /\ sync'.first = first /\ sync'.known = known /\ sync'.starts = more
      /\ sync'.pc = IF more = <<>> THEN "judge" ELSE "fetch"
  BY <1>1 DEF HistoryInv, HistoryTypeInv, SyncShape
<1>3. Window' = Window /\ Listed' = Listed
  BY <1>1, <1>2 DEF Window, Listed, History!Upto
<1>4. ASSUME ~spoiled, ~sync.hole
      PROVE  SyncInv'
  <2>1. /\ SyncInv /\ Covered
        /\ sync.fetched = {t \in Listed : t >= Head(sync.starts)}
    BY <1>1, <1>4 DEF HistoryInv, SyncInv
  <2>2. \A t \in Listed : t \in Nat /\ sync.since <= t /\ t <= sync.until /\ t < HistoryEnd + 1
    BY <2>1, HistoryAssumption DEF Listed, Window, History!Upto, SyncInv
  <2>3. /\ first \in Listed \cup {HistoryEnd + 1}
        /\ sync.fetched # {} \/ sync.first \in Listed => first \in Listed
    <3> DEFINE S == sync.fetched \cup {sync.first}
    <3>1. S \subseteq Nat /\ S # {} /\ S \subseteq Listed \cup {HistoryEnd + 1}
      BY <2>1, <2>2, HistoryAssumption DEF SyncInv
    <3>2. first \in S /\ \A u \in S : first <= u
      <4> HIDE DEF S
      <4>1. History!Least(S) \in S /\ \A u \in S : History!Least(S) <= u
        BY <3>1, LeastIs
      <4> QED
        BY <4>1 DEF S, first
    <3>3. ASSUME NEW t \in S, t \in Listed
          PROVE  first \in Listed
      BY <2>2, <3>1, <3>2, <3>3, HistoryAssumption
    <3> QED
      BY <2>1, <3>1, <3>2, <3>3
  <2>4. PICK h \in {sync.since} \cup Listed :
            \/ sync.starts = <<sync.since, h>>
            \/ sync.starts = <<h>> /\ \A t \in Listed : t < h => t \in sync.known
    BY <2>1 DEF Covered
  <2>5. h \in Nat /\ sync.since \in Nat /\ h >= sync.since
    BY <2>1, <2>2, <2>4 DEF SyncInv
  <2>6. known \subseteq Listed /\ known \subseteq stored'
    BY <1>1, <2>1 DEF SyncInv
  <2>7. CASE sync.starts = <<sync.since, h>>
    <3>1. Head(sync.starts) = sync.since /\ more = <<h>> /\ more # <<>>
      BY <2>5, <2>7
    <3>2. known = Listed
      BY <2>1, <2>2, <2>6, <3>1
    <3>3. Covered'
      BY <1>2, <1>3, <3>1, <3>2 DEF Covered
    <3> QED
      BY <1>1, <1>2, <1>3, <2>1, <2>3, <2>6, <3>1, <3>3 DEF SyncInv
  <2>8. CASE sync.starts = <<h>> /\ \A t \in Listed : t < h => t \in sync.known
    <3>1. Head(sync.starts) = h /\ more = <<>>
      BY <2>5, <2>8
    <3>2. known = Listed
      BY <2>1, <2>2, <2>5, <2>6, <2>8, <3>1
    <3>3. Listed # {} => sync.fetched # {}
      BY <2>1, <2>2, <2>4, <2>5, <3>1
    <3> QED
      BY <1>1, <1>2, <1>3, <2>1, <2>3, <2>6, <3>1, <3>2, <3>3 DEF SyncInv
  <2> QED
    BY <2>4, <2>7, <2>8
<1>5. HistoryTypeInv'
  <2>1. sync'.fetched = sync.fetched
    BY <1>1 DEF HistoryInv, HistoryTypeInv, SyncShape
  <2> QED
    BY <1>1, <1>2, <2>1 DEF HistoryInv, HistoryTypeInv
<1>6. Told
  BY <1>2 DEF Told, History!Answers
<1> QED
  BY <1>1, <1>2, <1>4, <1>5, <1>6 DEF HistoryInv

\* The verdict of a sync that knows all there is.
LEMMA JudgeStep ==
    ASSUME HistoryInv, History!Judge
    PROVE  HistoryInv' /\ Told
<1> DEFINE ok == \/ History!IsRequiredComplete(sync) \/ History!IsCompleteFromFirst(sync)
                 \/ History!WarmedUp(sync)
<1>1. /\ sync.pc = "judge"
      /\ sync' = IF ok \/ sync.refill
                 THEN [sync EXCEPT !.pc = "told", !.ok = ok]
                 ELSE [sync EXCEPT !.pc = "fetch", !.refill = TRUE, !.starts = <<sync.since>>]
      /\ UNCHANGED <<listed, candle, active, stored, cleaning, spoiled>>
  BY DEF History!Judge
<1> HIDE DEF ok
<1>2. ASSUME ~spoiled, ~sync.hole, ~sync.warmup
      PROVE  ok <=> (Listed # {} /\ Listed \subseteq stored)
  <2>1. SyncInv /\ sync.known = Listed /\ Listed \subseteq stored
    BY <1>1, <1>2 DEF HistoryInv, SyncInv
  <2>2. CASE Listed = {}
    <3>1. sync.since \in Window
      BY <2>1, HistoryAssumption DEF Window, History!Upto, SyncInv, HistoryInv, HistoryTypeInv
    <3>2. ~(Window \subseteq sync.known)
      BY <2>1, <2>2, <3>1
    <3>3. ~(sync.first <= sync.until)
      BY <2>1, <2>2, HistoryAssumption DEF SyncInv, HistoryInv, HistoryTypeInv
    <3> QED
      BY <1>2, <2>2, <3>2, <3>3 DEF ok, History!IsRequiredComplete, Window,
         History!IsCompleteFromFirst, History!WarmedUp
  <2>3. CASE Listed # {}
    <3>1. sync.first \in Listed
      BY <1>1, <2>1, <2>3 DEF SyncInv
    <3>2. sync.first <= sync.until /\ History!Upto(sync.first, sync.until) \subseteq Listed
      BY <2>1, <3>1 DEF Listed, Window, History!Upto, SyncInv, HistoryInv, HistoryTypeInv
    <3> QED
      BY <2>1, <2>3, <3>2 DEF ok, History!IsCompleteFromFirst
  <2> QED
    BY <2>2, <2>3
<1>3. CASE ok \/ sync.refill
  <2>1. /\ sync' = [sync EXCEPT !.pc = "told", !.ok = ok]
    BY <1>1, <1>3
  <2>2. SyncShape' /\ sync'.pc = "told" /\ sync'.ok = ok /\ sync'.fetched = sync.fetched
    BY <2>1 DEF HistoryInv, HistoryTypeInv, SyncShape
  <2>3. HistoryInv'
    BY <1>1, <2>2 DEF HistoryInv, HistoryTypeInv
  <2>4. Told
    BY <1>1, <1>2, <2>2 DEF Told, History!Wanted, Listed, Window
  <2> QED
    BY <2>3, <2>4
<1>4. CASE ~(ok \/ sync.refill)
  <2>1. sync' = [sync EXCEPT !.pc = "fetch", !.refill = TRUE, !.starts = <<sync.since>>]
    BY <1>1, <1>4
  <2>2. /\ SyncShape' /\ sync'.pc = "fetch" /\ sync'.starts = <<sync.since>>
        /\ sync'.since = sync.since /\ sync'.until = sync.until /\ sync'.hole = sync.hole
        /\ sync'.known = sync.known /\ sync'.first = sync.first
        /\ sync'.fetched = sync.fetched
    BY <2>1 DEF HistoryInv, HistoryTypeInv, SyncShape
  <2>3. Window' = Window /\ Listed' = Listed
    BY <1>1, <2>2 DEF Window, Listed, History!Upto
  <2>4. ASSUME ~spoiled, ~sync.hole
        PROVE  SyncInv'
    <3>1. SyncInv
      BY <1>1, <2>4 DEF HistoryInv
    <3>2. \A t \in Listed : ~(t < sync.since)
      BY <3>1 DEF Listed, Window, History!Upto, SyncInv
    <3>3. Covered'
      BY <2>2, <2>3, <3>2 DEF Covered
    <3> QED
      BY <1>1, <2>2, <2>3, <3>1, <3>3 DEF SyncInv
  <2>5. HistoryTypeInv'
    BY <1>1, <2>2 DEF HistoryInv, HistoryTypeInv
  <2>6. Told
    BY <2>2 DEF Told, History!Answers
  <2> QED
    BY <1>1, <2>2, <2>4, <2>5, <2>6 DEF HistoryInv
<1> QED
  BY <1>3, <1>4

\* A complete window is all there is; a failed sync is spoiled; and a sync that has returned
\* promises nothing.
LEMMA EndSteps ==
    ASSUME HistoryInv, History!RefreshLatest \/ History!SyncFails \/ History!Return
    PROVE  HistoryInv' /\ Told
<1>1. CASE History!RefreshLatest
  <2>1. /\ sync.pc = "refresh" /\ sync' = [sync EXCEPT !.pc = "told", !.ok = TRUE]
        /\ UNCHANGED <<listed, candle, stored, spoiled>>
    BY <1>1 DEF History!RefreshLatest
  <2>2. SyncShape' /\ sync'.pc = "told" /\ sync'.ok = TRUE /\ sync'.fetched = sync.fetched
    BY <2>1 DEF HistoryInv, HistoryTypeInv, SyncShape
  <2>3. HistoryInv'
    BY <2>1, <2>2 DEF HistoryInv, HistoryTypeInv
  <2>4. ASSUME ~spoiled, ~sync.hole
        PROVE  Listed # {} /\ Listed \subseteq stored
    <3>1. SyncInv /\ sync.known = Window
      BY <2>1, <2>4 DEF HistoryInv, SyncInv
    <3>2. sync.since \in Window
      BY <3>1, HistoryAssumption DEF Window, History!Upto, SyncInv, HistoryInv, HistoryTypeInv
    <3> QED
      BY <3>1, <3>2 DEF SyncInv, Listed
  <2>5. Told
    BY <2>1, <2>2, <2>4 DEF Told, History!Wanted, Listed, Window
  <2> QED
    BY <2>3, <2>5
<1>2. CASE History!SyncFails
  <2>1. /\ sync' = [sync EXCEPT !.pc = "told", !.ok = FALSE] /\ spoiled'
        /\ spoiled' \in BOOLEAN
        /\ UNCHANGED <<listed, candle, stored>>
    BY <1>2 DEF History!SyncFails
  <2>2. SyncShape' /\ sync'.pc = "told" /\ sync'.fetched = sync.fetched
    BY <2>1 DEF HistoryInv, HistoryTypeInv, SyncShape
  <2> QED
    BY <2>1, <2>2 DEF HistoryInv, HistoryTypeInv, Told
<1>3. CASE History!Return
  <2>1. /\ SyncShape' /\ sync'.pc = "idle" /\ sync'.fetched = {}
        /\ UNCHANGED <<listed, candle, stored, spoiled>>
    BY <1>3 DEF History!Return, History!NoSync, SyncShape
  <2> QED
    BY <2>1 DEF HistoryInv, HistoryTypeInv, Told, History!Answers
<1> QED
  BY <1>1, <1>2, <1>3

\* Candles that end are after the window, and rows that are deleted under a sync spoil it.
LEMMA CandleSteps ==
    ASSUME HistoryInv,
           \/ History!NextCandle \/ History!Activate \/ History!Deactivate
           \/ History!ReadSymbols \/ History!DeleteOld
    PROVE  HistoryInv' /\ Told
<1>1. listed' = listed /\ sync' = sync
  BY DEF History!NextCandle, History!Activate, History!Deactivate, History!ReadSymbols,
     History!DeleteOld
<1>2. Told
  BY <1>1 DEF Told, History!Answers
<1>3. /\ candle' \in 2 .. HistoryEnd /\ candle' >= candle
      /\ stored' \subseteq {t \in 0 .. HistoryEnd : t >= listed}
  <2>1. CASE History!NextCandle
    BY <2>1, HistoryAssumption DEF HistoryInv, HistoryTypeInv, History!NextCandle
  <2>2. CASE ~History!NextCandle
    <3>1. candle' = candle /\ stored' \subseteq stored
      BY <2>2 DEF History!Activate, History!Deactivate, History!ReadSymbols, History!DeleteOld
    <3>2. /\ candle \in 2 .. HistoryEnd /\ candle \in Nat
          /\ stored \subseteq {t \in 0 .. HistoryEnd : t >= listed}
      BY HistoryAssumption DEF HistoryInv, HistoryTypeInv
    <3> QED
      BY <1>1, <3>1, <3>2
  <2> QED
    BY <2>1, <2>2
<1>4. /\ spoiled' \in BOOLEAN
      /\ ~spoiled' => ~spoiled /\ (sync.known \subseteq stored => sync.known \subseteq stored')
  <2>1. CASE History!NextCandle
    BY <2>1 DEF HistoryInv, HistoryTypeInv, History!NextCandle
  <2>2. CASE History!DeleteOld
    <3> DEFINE gone == {t \in stored : t + Retention < candle}
    <3>1. stored' = stored \ gone /\ spoiled' = (spoiled \/ gone \cap sync.known # {})
      BY <2>2 DEF History!DeleteOld
    <3> HIDE DEF gone
    <3> QED
      BY <3>1
  <2>3. CASE History!Activate \/ History!Deactivate \/ History!ReadSymbols
    BY <2>3 DEF HistoryInv, HistoryTypeInv, History!Activate, History!Deactivate,
       History!ReadSymbols
  <2> QED
    BY <2>1, <2>2, <2>3
<1>5. HistoryTypeInv'
  BY <1>1, <1>3, <1>4 DEF HistoryInv, HistoryTypeInv, SyncShape
<1>6. Window' = Window /\ Listed' = Listed /\ (Covered' <=> Covered)
  BY <1>1 DEF Window, Listed, History!Upto, Covered
<1>7. ASSUME sync.known \subseteq stored', SyncInv
      PROVE  SyncInv'
  <2>1. sync.until \in Nat /\ sync.until < candle /\ candle \in Nat /\ candle' \in Nat
    BY <1>3, <1>7, HistoryAssumption DEF SyncInv, HistoryInv, HistoryTypeInv
  <2>2. sync.until < candle'
    BY <1>3, <2>1
  <2> QED
    BY <1>1, <1>6, <1>7, <2>2 DEF SyncInv
<1> QED
  BY <1>1, <1>2, <1>4, <1>5, <1>7 DEF HistoryInv, SyncInv

\* Every step keeps the invariant, and answers truly if it answers.
LEMMA HistoryStep ==
    ASSUME HistoryInv, [History!Next]_(History!historyVars)
    PROVE  HistoryInv' /\ Told
<1>1. CASE UNCHANGED History!historyVars
  BY <1>1 DEF History!historyVars, HistoryInv, HistoryTypeInv, SyncShape, SyncInv, Covered,
     Window, Listed, History!Upto, Told, History!Answers
<1> QED
  BY <1>1, BeginStep, FetchStep, StoreStep, JudgeStep, EndSteps, CandleSteps DEF History!Next

-----------------------------------------------------------------------------
(***************************************************************************)
(* The archives. A repair compares with the archive it found, which is the *)
(* last one as long as no crash lost it; between the deletion and the new  *)
(* rows the archive is empty, and what is about to follow is better.       *)
(***************************************************************************)
ArchiveTypeInv ==
    /\ repair = [pc |-> repair.pc, live |-> repair.live, old |-> repair.old,
                 best |-> repair.best]
    /\ repair.live \in BOOLEAN /\ excused \in BOOLEAN
    /\ closed = 0 => repair.pc = "idle"

ArchiveInv ==
    /\ ArchiveTypeInv
    /\ repair.pc \in {"repair", "decide"} => archive = repair.old
    /\ ~excused /\ repair.pc # "create" => archive = was
    /\ ~excused /\ repair.pc = "create" =>
          was = {} \/ Archive!Better(repair.best, was)

\* The step keeps a better archive, or none that a reader had.
Improves ==
    archive' # archive /\ archive' # {} /\ closed > 0 /\ ~excused =>
        was = {} \/ Archive!Better(archive', was) \/ archive' = was

\* Only the window of the deal decides which archive is better.
LEMMA SameWindow ==
    ASSUME closed' = closed
    PROVE  \A S, T : (Archive!Better(S, T))' <=> Archive!Better(S, T)
  BY DEF Archive!Better, Archive!IsComplete, Archive!Last, Archive!Upto

\* Before the first deal closes there is no archive and no repair.
LEMMA ArchiveInit ==
    ASSUME closed = 0, archive = {}, repair = Archive!NoRun, was = {}, excused = FALSE
    PROVE  ArchiveInv
  BY DEF ArchiveInv, ArchiveTypeInv, Archive!NoRun

\* Every step replaces an archive by a better one, or has an excuse.
LEMMA ArchiveStep ==
    ASSUME ArchiveInv, [Archive!Next]_(Archive!archiveVars)
    PROVE  ArchiveInv' /\ Improves
<1> USE DEF ArchiveInv, ArchiveTypeInv, Improves
<1>1. CASE Archive!CloseDeal
  BY <1>1 DEF Archive!CloseDeal
<1>2. CASE Archive!Backfill
  <2>1. /\ repair' = [pc |-> repair'.pc, live |-> repair'.live, old |-> archive,
                      best |-> repair'.best]
        /\ repair'.live \in BOOLEAN /\ repair'.pc \in {"repair", "decide"}
        /\ repair.pc = "start" /\ closed > 0
        /\ UNCHANGED <<closed, archive, was, excused>>
    BY <1>2 DEF Archive!Backfill
  <2> QED
    BY <2>1
<1>3. CASE Archive!Repair
  <2>1. /\ repair' = [pc |-> "decide", live |-> repair.live, old |-> repair.old,
                      best |-> repair'.best]
        /\ repair.pc = "repair"
        /\ UNCHANGED <<closed, archive, was, excused>>
    BY <1>3 DEF Archive!Repair
  <2> QED
    BY <2>1
<1>4. CASE Archive!Decide
  <2>1. /\ repair.pc = "decide"
        /\ excused' \in BOOLEAN /\ (~excused' => ~excused /\ ~repair.live)
        /\ UNCHANGED <<closed, was>>
    BY <1>4 DEF Archive!Decide
  <2>2. CASE Archive!Replaces(repair)
    <3>1. archive' = {} /\ repair' = [repair EXCEPT !.pc = "create"]
      BY <1>4, <2>2 DEF Archive!Decide
    <3>2. repair.live \/ repair.old = {} \/ Archive!Better(repair.best, repair.old)
      BY <2>2 DEF Archive!Replaces
    <3> QED
      BY <2>1, <3>1, <3>2, SameWindow
  <2>3. CASE ~Archive!Replaces(repair)
    <3>1. archive' = archive /\ repair' = Archive!NoRun
      BY <1>4, <2>3 DEF Archive!Decide
    <3> QED
      BY <2>1, <3>1 DEF Archive!NoRun
  <2> QED
    BY <2>2, <2>3
<1>5. CASE Archive!Create
  BY <1>5 DEF Archive!Create, Archive!NoRun
<1>6. CASE Archive!Restart
  <2>1. /\ repair' = [pc |-> "start", live |-> FALSE, old |-> {}, best |-> {}]
        /\ excused' \in BOOLEAN /\ (~excused' => ~excused /\ repair.pc # "create")
        /\ closed > 0
        /\ UNCHANGED <<closed, archive, was>>
    BY <1>6 DEF Archive!Restart, Archive!NoRun
  <2> QED
    BY <2>1
<1>7. ASSUME UNCHANGED <<closed, archive, repair, was, excused>>
      PROVE  ArchiveInv' /\ Improves
  BY <1>7, SameWindow
<1>8. CASE Archive!NextCandle \/ Archive!Activate \/ Archive!Deactivate
           \/ Archive!ReadSymbols \/ Archive!DeleteOld \/ Archive!Sync
  BY <1>7, <1>8 DEF Archive!NextCandle, Archive!Activate, Archive!Deactivate,
     Archive!ReadSymbols, Archive!DeleteOld, Archive!Sync
<1>9. CASE UNCHANGED Archive!archiveVars
  BY <1>7, <1>9 DEF Archive!archiveVars
<1> QED
  BY <1>1, <1>2, <1>3, <1>4, <1>5, <1>6, <1>8, <1>9 DEF Archive!Next

-----------------------------------------------------------------------------
(***************************************************************************)
(* The services together.                                                  *)
(***************************************************************************)
\* What a step of the services is to each part.
LEMMA PartSteps ==
    ASSUME [MCNext]_allVars
    PROVE  /\ UNCHANGED part
           /\ part = "full feed" => [FullFeed!Next]_feedVars
           /\ part = "reloads" => [Reloads!Next]_targetVars
           /\ [Sockets!Next]_socketVars
           /\ [Cache!Next]_cacheVars
           /\ part = "config" => [Config!Next]_configVars
           /\ part = "saves" => [Saves!Next]_configVars
           /\ part \notin {"config", "saves"} => UNCHANGED configVars
           /\ part = "history" => [History!Next]_(History!historyVars)
           /\ part # "history" => sync' = sync
           /\ part = "archive" => [Archive!Next]_(Archive!archiveVars)
           /\ part # "archive" => UNCHANGED <<closed, archive, repair, was, excused>>
<1>1. CASE part = "feed" /\ OfFeed(Feed!Next)
  BY <1>1 DEF OfFeed, Live, candleVars
<1>2. CASE part = "full feed" /\ OfFeed(FullFeed!Next)
  BY <1>2 DEF OfFeed, Live, candleVars
<1>3. CASE part = "targets" /\ OfTargets(Targets!Next)
  BY <1>3 DEF OfTargets, Live, candleVars
<1>4. CASE part = "reloads" /\ OfTargets(Reloads!Next)
  BY <1>4 DEF OfTargets, Live, candleVars
<1>5. CASE part = "sockets" /\ OfSockets(Sockets!Next)
  BY <1>5 DEF OfSockets, Live, candleVars
<1>6. CASE part = "cache" /\ OfCache(Cache!Next)
  BY <1>6 DEF OfCache, Live, candleVars
<1>7. CASE part = "plugin" /\ OfPlugin(Next)
  BY <1>7 DEF OfPlugin, Live, candleVars
<1>8. CASE part = "saves" /\ OfConfig(Saves!Next)
  BY <1>8 DEF OfConfig, OfStore, candleVars
<1>9. CASE part = "config" /\ OfConfig(Config!Next)
  BY <1>9 DEF OfConfig, OfStore, candleVars
<1>10. CASE part = "history" /\ OfHistory(History!Next)
  BY <1>10 DEF OfHistory, OfStore
<1>11. CASE part = "archive" /\ OfArchive(Archive!Next)
  BY <1>11 DEF OfArchive, OfStore
<1>12. CASE UNCHANGED allVars
  BY <1>12 DEF allVars, candleVars, History!historyVars, Archive!archiveVars
<1> QED
  BY <1>1, <1>2, <1>3, <1>4, <1>5, <1>6, <1>7, <1>8, <1>9, <1>10, <1>11, <1>12 DEF MCNext

\* The candles of the instance keep the invariant of the feed.
LEMMA FeedIsCorrect == MCSpec => [](CandlesSpan /\ StoredInOrder)
<1> DEFINE Inv == part = "full feed" => FeedInv
<1>1. MCInit => Inv
  BY FeedInit DEF MCInit
<1>2. Inv /\ [MCNext]_allVars => Inv'
  BY FeedStep, PartSteps
<1>3. Inv => CandlesSpan /\ StoredInOrder
  BY FeedCorrect DEF CandlesSpan, StoredInOrder
<1> QED
  BY <1>1, <1>2, <1>3, PTL DEF MCSpec

\* A candle that is live, on its way or stored spans exactly the prices that reached it
\* (watcher.py), however late a trade is, whatever batch fails and whatever a full queue drops.
THEOREM CandlesAreWhole == MCSpec => []CandlesSpan
  BY FeedIsCorrect, PTL

\* The feed writes the candles of a symbol to Tickers in the order of time (watcher.py),
\* although a batch that failed is written later and trades arrive late.
THEOREM CandlesAreOrdered == MCSpec => []StoredInOrder
  BY FeedIsCorrect, PTL

\* However configurations burst, the exchange client that is built last is the newest one's
\* (watcher.py), or the newest build failed.
THEOREM ClientIsNewest == MCSpec => []NewestClient
<1> DEFINE Inv == part = "reloads" => ClientInv
<1>1. MCInit => Inv
  BY DEF MCInit, Targets!Init, ClientInv
<1>2. Inv /\ [MCNext]_allVars => Inv'
  BY ClientStep, PartSteps
<1>3. Inv => NewestClient
  BY DEF ClientInv, NewestClient, Reloads!NewestClient
<1> QED
  BY <1>1, <1>2, <1>3, PTL DEF MCSpec

\* A subscriber reads next, or has read last, the latest payload
\* (websocket_fanout.py), whoever subscribes, leaves and stops meanwhile.
THEOREM NobodyFallsBehind == MCSpec => []NobodyBehind
<1>1. MCInit => FanoutInv
  BY FanoutInit DEF MCInit
<1>2. FanoutInv /\ [MCNext]_allVars => FanoutInv'
  BY FanoutStep, PartSteps
<1>3. FanoutInv => NobodyBehind
  BY DEF FanoutInv, FollowInv, NobodyBehind, Sockets!NobodyBehind
<1> QED
  BY <1>1, <1>2, <1>3, PTL DEF MCSpec

\* After a clear the cache serves nothing older (helper/async_cache.py), whatever calls it
\* crosses and however often the table is written.
THEOREM CacheIsFresh == MCSpec => []FreshAfterClear
<1>1. MCInit => CacheInv
  BY CacheInit DEF MCInit
<1>2. CacheInv /\ [MCNext]_allVars => CacheInv'
  BY CacheStep, PartSteps
<1>3. CacheInv => FreshAfterClear
  BY DEF CacheInv, Honest, FreshAfterClear, Cache!FreshAfterClear, Cache!Hits
<1> QED
  BY <1>1, <1>2, <1>3, PTL DEF MCSpec

\* No process forgets a change of the configuration without a reason it can be told
\* (service/config.py 320-347, 391-413): it knows the row, a message is under way or will be
\* sent, or the change is one it missed.
THEOREM ProcessesAgree == MCSpec => []InstancesAgree
<1> DEFINE Inv == part = "config" => ConfigInv
<1>1. MCInit => Inv
  BY ConfigInit DEF MCInit
<1>2. Inv /\ [MCNext]_allVars => Inv'
  BY ConfigStep, PartSteps
<1>3. Inv => InstancesAgree
  BY DEF ConfigInv, InstancesAgree
<1> QED
  BY <1>1, <1>2, <1>3, PTL DEF MCSpec

\* An undisturbed request commits nothing its checks would refuse
\* (trade_lifecycle_config.py 223-276, controller/config.py 141-341, 624-688), however many
\* requests, processes and restores there are, but for the word of the dry run that the
\* check and the rows read differently; and a backup names the re-entry of its sidestep.
THEOREM ChangesAreGuarded == MCSpec => ChangesGuarded
<1> DEFINE Inv == /\ part = "saves" => GuardInv(One)
                  /\ part = "config" => GuardInv(Instances)
           Keeps == \A r \in Requests :
               /\ Saves!Committed(r) /\ req[r].fresh =>
                    /\ Saves!Valid(db) => Saves!Valid(db')
                    /\ db'["mode"] # db["mode"] => ~(req[r].deal /\ open)
                    /\ db["dry"] /\ ~db'["dry"] =>
                         \/ req[r].kind = "activate" /\ Saves!Ready(db)
                         \/ req[r].kind = "save" /\ req[r].set["dry"] = "disabled"
               /\ Saves!Restored(r) => Saves!Valid(db')
<1>1. MCInit => Inv
  BY SingleInit, SeveralInit DEF MCInit
<1>2. Inv /\ [MCNext]_allVars => Inv' /\ [Keeps]_configVars
  <2> SUFFICES ASSUME Inv, [MCNext]_allVars PROVE Inv' /\ [Keeps]_configVars
    OBVIOUS
  <2>1. Guarded => Keeps
    BY DEF Guarded, Kept, Saves!Committed, Saves!Restored
  <2>2. CASE part = "saves"
    BY <2>1, <2>2, PartSteps, SingleStep
  <2>3. CASE part = "config"
    BY <2>1, <2>3, PartSteps, SeveralStep
  <2>4. CASE part \notin {"saves", "config"}
    BY <2>4, PartSteps
  <2> QED
    BY <2>2, <2>3, <2>4
<1>3. ([][Keeps]_configVars) => ChangesGuarded
  BY PTL DEF ChangesGuarded, Saves!ChangesGuarded, Saves!configVars, configVars
<1> HIDE DEF Inv, Keeps
<1> QED
  BY <1>1, <1>2, <1>3, PTL DEF MCSpec

\* A sync answers truly (data.py 435-615), wherever its window lies, whatever the exchange
\* lists and whatever is stored: yes exactly if the exchange has candles of the window and
\* every one is stored. Left out are, as in the property, a sync with a warm-up minimum, one
\* that started from stored candles with a hole, and one that lost a page or under which the
\* cleanup deleted a row.
THEOREM SyncIsTold == MCSpec => SyncTold
<1> DEFINE Inv == part = "history" => HistoryInv
<1>1. MCInit => Inv
  BY HistoryInit DEF MCInit
<1>2. Inv /\ [MCNext]_allVars => Inv' /\ [Told]_(History!historyVars)
  <2> SUFFICES ASSUME Inv, [MCNext]_allVars PROVE Inv' /\ [Told]_(History!historyVars)
    OBVIOUS
  <2>1. CASE part = "history"
    BY <2>1, PartSteps, HistoryStep
  <2>2. CASE part # "history"
    BY <2>2, PartSteps DEF Told, History!Answers
  <2> QED
    BY <2>1, <2>2
<1>3. ([][Told]_(History!historyVars)) => SyncTold
  BY PTL DEF SyncTold, History!SyncTold, Told
<1> HIDE DEF Inv
<1> QED
  BY <1>1, <1>2, <1>3, PTL DEF MCSpec

\* The archive of a deal is only ever replaced by a better one (replay_candles.py 271-400),
\* whatever candles the two repairs read, unless a live candle forced it or the process died
\* between the deletion and the new rows.
THEOREM ArchivesImprove == MCSpec => ArchiveImproves
<1> DEFINE Inv == part = "archive" => ArchiveInv
<1>1. MCInit => Inv
  BY ArchiveInit DEF MCInit, Archive!Init
<1>2. Inv /\ [MCNext]_allVars => Inv' /\ [Improves]_(Archive!archiveVars)
  <2> SUFFICES ASSUME Inv, [MCNext]_allVars PROVE Inv' /\ [Improves]_(Archive!archiveVars)
    OBVIOUS
  <2>1. CASE part = "archive"
    BY <2>1, PartSteps, ArchiveStep
  <2>2. CASE part # "archive"
    BY <2>2, PartSteps DEF Improves
  <2> QED
    BY <2>1, <2>2
<1>3. ([][Improves]_(Archive!archiveVars)) => ArchiveImproves
  BY PTL DEF ArchiveImproves, Archive!ArchiveImproves, Improves
<1> HIDE DEF Inv
<1> QED
  BY <1>1, <1>2, <1>3, PTL DEF MCSpec

==================================================================================
