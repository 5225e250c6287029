-------------------------- MODULE SignalAdmission --------------------------
(***************************************************************************)
(* Scarce-slot admission of entry signals (service/signal_runtime.py) and  *)
(* the plugins that buy what it admits (signals/asap.py, sym_signals.py).  *)
(*                                                                         *)
(* One plugin task runs at a time, so _PENDING_ADMISSION_LOCK is never     *)
(* contended and is left out.  Around the plugin, the DCA worker and the   *)
(* dashboard open, close and re-enter deals between any two awaits.        *)
(***************************************************************************)
EXTENDS Integers, FiniteSets

CONSTANTS
    Symbols,        \* trading pairs
    Plugins,        \* the plugins that may run: "asap", "sym_signals"
    NoSymbol,       \* no symbol
    MaxBots,        \* the largest effective max_bots
    Limits,         \* effective max_bots, in the modes Autopilot may be in
    PluginReloads,  \* config changes cancel the plugin and start it again
    StopsDuringReentry  \* a mission is stopped while its re-entry buy is in flight

ASSUME SlotAssumption ==
    /\ IsFiniteSet(Symbols) /\ NoSymbol \notin Symbols
    /\ MaxBots \in Nat
    /\ Limits \subseteq 0 .. MaxBots
    /\ StopsDuringReentry \in BOOLEAN

VARIABLES
    rows,     \* the OpenTrades row of a symbol; "ghost": one without a deal
    pending,  \* _PENDING_ADMISSION_SYMBOLS
    lease,    \* SignalAdmissionLease._symbols of the plugin's batch
    pc,       \* where the plugin is suspended
    plugin,   \* which plugin runs the batch
    cands,    \* its candidate symbols
    seen,     \* the active symbols the resolver has read
    current,  \* the symbol it is buying
    reentry,  \* symbols with a re-entry buy in flight
    stats     \* the symbol whose statistics the worker is about to write

vars == <<rows, pending, lease, pc, plugin, cands, seen, current, reentry, stats>>

batch == <<plugin, cands, seen, current>>
others == <<reentry, stats>>

Init ==
    /\ rows = [s \in Symbols |-> "none"]
    /\ pending = {}
    /\ lease = {}
    /\ pc = "idle"
    /\ plugin \in Plugins
    /\ cands = {}
    /\ seen = {}
    /\ current = NoSymbol
    /\ reentry = {}
    /\ stats = NoSymbol

\* get_active_open_symbols
Active == {s \in Symbols : rows[s] # "none"}

Deals == {s \in Symbols : rows[s] \in {"long", "waiting"}}

\* What counts against max_bots: deals and reservations.
Taken == Deals \cup pending

Available(limit) ==
    LET free == limit - Cardinality(seen \cup pending)
    IN  IF free > 0 THEN free ELSE 0

SetRow(s, state) == rows' = [rows EXCEPT ![s] = state]

-----------------------------------------------------------------------------
(***************************************************************************)
(* One decision window of the plugin.                                      *)
(***************************************************************************)
\* is_max_bots_reached, then the entry checks: sym_signals has one candidate.
Start(p, symbols) ==
    /\ pc = "idle"
    /\ \E limit \in Limits : Active = {} \/ Cardinality(Active) < limit
    /\ symbols # {} /\ symbols \cap Active = {}
    /\ p = "sym_signals" => Cardinality(symbols) = 1
    /\ plugin' = p
    /\ cands' = symbols
    /\ pc' = "resolve"
    /\ UNCHANGED <<rows, pending, lease, seen, current, others>>

\* is_global_trading_paused
Paused ==
    /\ pc = "resolve"
    /\ pc' = "idle"
    /\ cands' = {}
    /\ UNCHANGED <<rows, pending, lease, plugin, seen, current, others>>

\* A mistake: missions that wait for re-entry do not count as active.
ReadLongs ==
    /\ pc = "resolve"
    /\ seen' = {s \in Symbols : rows[s] \in {"long", "ghost"}}
    /\ pc' = "decide"
    /\ UNCHANGED <<rows, pending, lease, plugin, cands, current, others>>

ReadActive ==
    /\ pc = "resolve"
    /\ seen' = Active
    /\ pc' = "decide"
    /\ UNCHANGED <<rows, pending, lease, plugin, cands, current, others>>

Ranked(admitted, limit, blocked) ==
    LET eligible == cands \ (seen \cup pending \cup blocked)
    IN  /\ admitted \subseteq eligible
        /\ Cardinality(admitted) = IF Cardinality(eligible) < Available(limit)
                                   THEN Cardinality(eligible) ELSE Available(limit)

Admitted(admitted) ==
    /\ lease' = admitted
    /\ seen' = {}
    /\ cands' = {}
    /\ pc' = IF admitted = {} THEN "idle" ELSE "sizing"
    /\ UNCHANGED <<rows, plugin, current, others>>

\* A mistake: reservations of other batches do not count against the limit.
DecideByRows(admitted, limit, blocked) ==
    /\ pc = "decide"
    /\ admitted \subseteq cands \ (seen \cup pending \cup blocked)
    /\ Cardinality(admitted) <= limit - Cardinality(seen)
    /\ pending' = pending \cup admitted
    /\ Admitted(admitted)

\* A mistake: a new batch replaces the reservations of the batches before.
DecideAfresh(admitted, limit, blocked) ==
    /\ pc = "decide"
    /\ Ranked(admitted, limit, blocked)
    /\ pending' = admitted
    /\ Admitted(admitted)

\* The best-ranked eligible candidates get the free slots; a campaign blocks
\* its own symbol.  From here on they are reserved.
Decide(admitted, limit, blocked) ==
    /\ pc = "decide"
    /\ Ranked(admitted, limit, blocked)
    /\ pending' = pending \cup admitted
    /\ Admitted(admitted)

BuyNext(symbols) ==
    IF symbols = {}
    THEN pc' = "idle" /\ current' = NoSymbol
    ELSE pc' = "buying" /\ current' \in symbols

\* resolve_signal_entry_orders has returned.
EntriesSized ==
    /\ pc = "sizing"
    /\ BuyNext(lease)
    /\ UNCHANGED <<rows, pending, lease, plugin, cands, seen, others>>

\* The finally blocks: release_symbol and release.
ReleaseAll ==
    /\ pending' = pending \ lease
    /\ lease' = {}
    /\ pc' = "idle"
    /\ current' = NoSymbol
    /\ UNCHANGED <<rows, plugin, cands, seen, others>>

\* sym_signals loads the history of the symbol first, inside its try block.
HistoryMissing ==
    /\ pc = "sizing" /\ plugin = "sym_signals"
    /\ ReleaseAll

\* persist_buy_trade of a base order creates the row, or takes one over.
BuyFills ==
    /\ pc = "buying"
    /\ SetRow(current, "long")
    /\ pc' = "bought"
    /\ UNCHANGED <<pending, lease, batch, others>>

BuyFails ==
    /\ pc = "buying"
    /\ pc' = "bought"
    /\ UNCHANGED <<rows, pending, lease, batch, others>>

ReleaseSymbol ==
    /\ pc = "bought"
    /\ pending' = pending \ {current}
    /\ lease' = lease \ {current}
    /\ BuyNext(lease \ {current})
    /\ UNCHANGED <<rows, plugin, cands, seen, others>>

\* A plugin reload cancels the task where it waits.  asap sizes its entries
\* before the try block, so what it has reserved stays reserved.
CancelPlugin ==
    /\ PluginReloads
    /\ \/ /\ pc \in {"resolve", "decide"}
          /\ pc' = "idle" /\ cands' = {} /\ seen' = {}
          /\ UNCHANGED <<rows, pending, lease, plugin, current, others>>
       \/ /\ pc = "sizing" /\ plugin = "asap"
          /\ pc' = "idle" /\ lease' = {}
          /\ UNCHANGED <<rows, pending, batch, others>>
       \/ /\ pc = "sizing" /\ plugin = "sym_signals"
          /\ ReleaseAll
       \/ /\ pc \in {"buying", "bought"}
          /\ ReleaseAll

-----------------------------------------------------------------------------
(***************************************************************************)
(* The deals change under the plugin.                                      *)
(***************************************************************************)
unattended == <<pending, lease, pc, batch>>

CloseDeal(s) ==
    /\ rows[s] = "long"
    /\ SetRow(s, "none")
    /\ UNCHANGED <<unattended, others>>

SidestepExit(s) ==
    /\ rows[s] = "long"
    /\ SetRow(s, "waiting")
    /\ UNCHANGED <<unattended, others>>

ReentryStarts(s) ==
    /\ rows[s] = "waiting"
    /\ reentry' = reentry \cup {s}
    /\ UNCHANGED <<rows, unattended, stats>>

ReentryFills(s) ==
    /\ s \in reentry
    /\ SetRow(s, "long")
    /\ reentry' = reentry \ {s}
    /\ UNCHANGED <<unattended, stats>>

ReentryFails(s) ==
    /\ s \in reentry
    /\ reentry' = reentry \ {s}
    /\ UNCHANGED <<rows, unattended, stats>>

\* stop_campaign takes no lock a re-entry buy in flight would hold.
StopCampaign(s) ==
    /\ StopsDuringReentry \/ s \notin reentry
    /\ rows[s] = "waiting"
    /\ SetRow(s, "none")
    /\ UNCHANGED <<unattended, others>>

\* update_open_trades: the row is there, and then it is written.
FindRow(s) ==
    /\ stats = NoSymbol /\ rows[s] # "none"
    /\ stats' = s
    /\ UNCHANGED <<rows, unattended, reentry>>

WriteStatistics ==
    /\ stats # NoSymbol
    /\ rows' = [rows EXCEPT ![stats] = IF @ = "none" THEN "ghost" ELSE @]
    /\ stats' = NoSymbol
    /\ UNCHANGED <<unattended, reentry>>

\* receive_sell_signal on a row without trades removes it.
ForceRemove(s) ==
    /\ rows[s] = "ghost"
    /\ SetRow(s, "none")
    /\ UNCHANGED <<unattended, others>>

\* Reservations live in the process.
Restart ==
    /\ pc # "idle" \/ pending # {}
    /\ pending' = {} /\ lease' = {} /\ pc' = "idle"
    /\ cands' = {} /\ seen' = {} /\ current' = NoSymbol
    /\ reentry' = {} /\ stats' = NoSymbol
    /\ UNCHANGED <<rows, plugin>>

-----------------------------------------------------------------------------
Decision ==
    \/ \E p \in Plugins, symbols \in SUBSET Symbols : Start(p, symbols)
    \/ Paused \/ ReadActive
    \/ \E admitted, blocked \in SUBSET cands, limit \in Limits : Decide(admitted, limit, blocked)

Entry == EntriesSized \/ HistoryMissing \/ BuyFills \/ BuyFails \/ ReleaseSymbol \/ CancelPlugin

DealStep(s) ==
    \/ CloseDeal(s) \/ SidestepExit(s) \/ StopCampaign(s)
    \/ ReentryStarts(s) \/ ReentryFills(s) \/ ReentryFails(s)
    \/ FindRow(s) \/ ForceRemove(s)

Next ==
    \/ Decision
    \/ Entry
    \/ \E s \in Symbols : DealStep(s)
    \/ WriteStatistics
    \/ Restart

Spec == Init /\ [][Next]_vars

-----------------------------------------------------------------------------
TypeOK ==
    /\ rows \in [Symbols -> {"none", "long", "waiting", "ghost"}]
    /\ pending \subseteq Symbols
    /\ lease \subseteq Symbols
    /\ pc \in {"idle", "resolve", "decide", "sizing", "buying", "bought"}
    /\ plugin \in Plugins
    /\ cands \subseteq Symbols
    /\ seen \subseteq Symbols
    /\ current \in Symbols \cup {NoSymbol}
    /\ reentry \subseteq Symbols
    /\ stats \in Symbols \cup {NoSymbol}

\* resolve_signal_admission_batch keeps deals and reservations within max_bots
\* although it decides on rows it has read earlier, and although a bought
\* symbol moves from the reservations to the rows in two steps.
SlotsBounded == Cardinality(Taken) <= MaxBots

\* What the resolver has read is stale when it decides, but only on the safe
\* side: deals may have closed since, none has been opened or re-entered that
\* it does not count.
SeenCoversDeals == pc = "decide" => Deals \subseteq seen

\* SignalAdmissionLease: "Always release reservations on context exit".  No
\* symbol stays reserved without a plugin that will release it.
NoReservationLost == pending \subseteq lease

Pool == INSTANCE SlotPool WITH taken <- Taken

\* Seen through deals and reservations, admission is a pool of slots: a batch
\* enters only as far as it fits, and a buy that fills never leaves the pool
\* between its reservation and its row.
ImplementsSlotPool == Pool!Spec
============================================================================
