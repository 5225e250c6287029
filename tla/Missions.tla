------------------------------- MODULE Missions -------------------------------
(***************************************************************************)
(* The missions of one symbol: a deal of the classic lifecycle, or a       *)
(* sidestep campaign that sells a bearish leg, waits flat and re-enters.   *)
(* The signal plugin opens them, the DCA worker runs them, the dashboard   *)
(* stops, activates, pauses and trades them, and nobody holds a lock over  *)
(* the reads a transition is computed from and the transaction writing it. *)
(*                                                                         *)
(* Quotes are the profits of single legs; prices and sizes are left out.   *)
(***************************************************************************)
EXTENDS Integers, FiniteSetsExt

CONSTANTS
    MaxCampaigns, \* bound: campaigns
    MaxLegs,      \* bound: deal ids
    Profits,      \* what a leg may earn
    MaxSwitches   \* bound: saves of another trade mode

VARIABLES
    row,       \* the OpenTrades row
    camps,     \* SpotCampaigns
    last,      \* the campaign with the latest last_transition_at
    sidestep,  \* is_sidestep_mode of the config
    switches,
    actor,     \* what each task does, for which snapshot, with which context and row found
    legs,      \* deal ids handed out
    held,      \* deal ids whose coins are on the exchange
    earned,    \* what the sales of each campaign's legs have earned, 0 for classic deals
    closed,    \* Sum(ClosedTrades.profit), by campaign_id
    crossed    \* campaigns another task wrote between a task's read and its write

vars == <<row, camps, last, sidestep, switches, actor, legs, held, earned, closed, crossed>>
books == <<legs, held, earned, closed>>
config == <<sidestep, switches>>

Campaigns == 1 .. MaxCampaigns
Actors == {"bot", "worker", "dash"}
LiveStates == {"active", "waiting"}

NoRow == [leg |-> 0, camp |-> 0, mode |-> "none", exposure |-> "none", paused |-> FALSE]
NoCampaign == [state |-> "none", realized |-> 0, cooling |-> FALSE, paused |-> FALSE]
NoContext == [camp |-> 0, create |-> FALSE, state |-> "none", realized |-> 0, profit |-> 0]
Idle == [pc |-> "idle", kind |-> "none", snap |-> NoRow, ctx |-> NoContext, found |-> NoRow]

Init ==
    /\ row = NoRow /\ camps = [c \in Campaigns |-> NoCampaign] /\ last = 0
    /\ sidestep \in BOOLEAN /\ switches = 0
    /\ actor = [a \in Actors |-> Idle]
    /\ legs = 0 /\ held = {}
    /\ earned = [c \in 0 .. MaxCampaigns |-> 0] /\ closed = [c \in 0 .. MaxCampaigns |-> 0]
    /\ crossed = {}

-----------------------------------------------------------------------------
(***************************************************************************)
(* What is read.                                                           *)
(***************************************************************************)
InState(S) == {c \in Campaigns : camps[c].state \in S}
Created == {c \in Campaigns : camps[c].state # "none"}

\* The id a campaign is created with: one that no other task has drawn either
Unused == Campaigns \ (Created \union {actor[a].ctx.camp : a \in Actors})
Fresh == {c \in Unused : \A d \in Unused : c <= d}

\* _find_symbol_campaign: the most recent of some campaigns, 0 if there are none
Recent(S) == IF S = {} THEN 0 ELSE IF last \in S THEN last ELSE CHOOSE c \in S : TRUE

\* resolve_mission_pause_fields
PausedOf(r) == IF r.camp # 0 THEN camps[r.camp].paused ELSE r.paused

\* _derive_campaign_runtime_state: the campaign knows better than the row.
Derived(r) ==
    IF r.camp = 0 THEN r
    ELSE [r EXCEPT !.mode = "sidestep", !.paused = camps[r.camp].paused,
                   !.exposure = CASE camps[r.camp].state = "waiting" -> "waiting"
                                  [] camps[r.camp].state = "active" -> "long"
                                  [] OTHER -> @]

Done(a) == actor' = [actor EXCEPT ![a] = Idle]
Cross(S) == crossed' = crossed \union (S \ {0})

\* The campaigns a task that is buying or selling right now is about to write to
InFlight(A) ==
    {actor[a].ctx.camp : a \in A} \union {actor[a].snap.camp : a \in A}

Submit(a, pc, kind, snap) ==
    actor' = [actor EXCEPT ![a] = [pc |-> pc, kind |-> kind, snap |-> snap, ctx |-> NoContext,
                                   found |-> NoRow]]

-----------------------------------------------------------------------------
(***************************************************************************)
(* Buying.                                                                 *)
(***************************************************************************)
\* A new deal: get_admission_blocks finds no live campaign and there is no open trade.
Enter ==
    /\ actor["bot"].pc = "idle" /\ row = NoRow /\ InState(LiveStates) = {}
    /\ legs < MaxLegs
    /\ Submit("bot", "buying", "entry", row)
    /\ UNCHANGED <<row, camps, last, config, books, crossed>>

\* The exchange fills the buy; resolve_buy_context.
BuyFills(a) ==
    LET kind == actor[a].kind
        explicit == actor[a].snap.camp
        live == Recent(InState(LiveStates))
        Resume(c) == [camp |-> c, create |-> FALSE, state |-> "active",
                      realized |-> camps[c].realized, profit |-> 0]
        \* the id alone: every other field takes its default
        Bare(c) == [NoContext EXCEPT !.camp = c, !.state = "active"]
    IN  /\ actor[a].pc = "buying"
        /\ \E ctx \in
            CASE kind = "reentry" -> {Resume(explicit)}
              [] kind = "safety" -> {Bare(IF row.camp # 0 THEN row.camp
                                          ELSE Recent(InState({"active"})))}
              [] kind = "entry" /\ ~sidestep -> {NoContext}
              [] kind = "entry" /\ sidestep /\ live # 0 -> {Resume(live)}
              [] OTHER -> {[NoContext EXCEPT !.camp = c, !.create = TRUE, !.state = "active"] :
                             c \in Fresh} :
            actor' = [actor EXCEPT ![a].pc = "bought", ![a].ctx = ctx]
        /\ UNCHANGED <<row, camps, last, config, books, crossed>>

BuyFails(a) ==
    /\ actor[a].pc = "buying"
    /\ Done(a)
    /\ UNCHANGED <<row, camps, last, config, books, crossed>>

\* _apply_buy_campaign_context; a campaign that is created starts unpaused, and a bare
\* context leaves last_transition_at empty.
ApplyBuy(a, ctx) ==
    IF ctx.camp = 0 THEN UNCHANGED <<camps, last>>
    ELSE /\ camps' = [camps EXCEPT ![ctx.camp].state = ctx.state,
                                   ![ctx.camp].realized = ctx.realized,
                                   ![ctx.camp].cooling = FALSE]
         /\ last' = IF actor[a].kind # "safety" THEN ctx.camp ELSE IF last = ctx.camp THEN 0 ELSE last

\* A mistake: the row of a re-entered mission is written without its campaign.
PersistBuyRowOnly(a) ==
    LET ctx == actor[a].ctx
    IN  /\ actor[a].pc = "bought" /\ legs < MaxLegs
        /\ row' = [leg |-> legs + 1, camp |-> ctx.camp, exposure |-> "long",
                   mode |-> IF ctx.camp # 0 THEN "sidestep" ELSE "classic",
                   paused |-> row.paused]
        /\ legs' = legs + 1 /\ held' = held \union {legs + 1}
        /\ Done(a)
        /\ UNCHANGED <<camps, last, config, earned, closed, crossed>>

\* persist_buy_trade: an order that opens a leg gets a new deal id and writes the whole row.
PersistBuy(a) ==
    LET ctx == actor[a].ctx
        opens == actor[a].kind \in {"entry", "reentry"}
    IN  /\ actor[a].pc = "bought"
        /\ opens => legs < MaxLegs
        /\ ApplyBuy(a, ctx)
        /\ row' = IF opens
                  THEN [leg |-> legs + 1, camp |-> ctx.camp, exposure |-> "long",
                        mode |-> IF ctx.camp # 0 THEN "sidestep" ELSE "classic",
                        paused |-> row.paused]
                  ELSE IF row # NoRow /\ ctx.camp # 0 THEN [row EXCEPT !.camp = ctx.camp]
                  ELSE row
        /\ legs' = IF opens THEN legs + 1 ELSE legs
        /\ held' = IF opens THEN held \union {legs + 1} ELSE held
        \* a stopped campaign comes back to life; a bare context wipes what was realized, or
        \* makes a flat mission active
        /\ Cross({c \in {ctx.camp} \ {0} : \/ camps[c].state \notin LiveStates /\ ~ctx.create
                                           \/ camps[c].realized # ctx.realized
                                           \/ camps[c].state = "waiting" /\ ~opens}
                 \union IF row.camp = ctx.camp THEN {} ELSE {row.camp}
                 \union IF row.camp = ctx.camp \/ opens THEN {} ELSE {ctx.camp})
        /\ Done(a)
        /\ UNCHANGED <<config, earned, closed>>

-----------------------------------------------------------------------------
(***************************************************************************)
(* Selling and stopping.                                                   *)
(***************************************************************************)
\* resolve_close_context: the campaign of the row, or else the latest of the symbol,
\* whatever has become of it
CloseContext(kind, p) ==
    LET c == IF row.camp # 0 THEN row.camp ELSE Recent(Created)
    IN  [camp |-> c, create |-> FALSE, profit |-> p,
         realized |-> (IF c = 0 THEN 0 ELSE camps[c].realized) + p,
         state |-> CASE kind = "exit" -> "waiting" [] kind = "tp" -> "done" [] OTHER -> "stopped"]

\* create_spot_sell sells what the leg holds.
SellFills(a) ==
    LET leg == actor[a].snap.leg
    IN  /\ actor[a].pc = "selling" /\ leg \in held
        /\ \E p \in Profits :
            /\ actor' = [actor EXCEPT ![a].pc = "sold",
                                      ![a].ctx = CloseContext(actor[a].kind, p)]
            /\ earned' = [earned EXCEPT ![actor[a].snap.camp] = @ + p]
        /\ held' = held \ {leg}
        /\ UNCHANGED <<row, camps, last, config, legs, closed, crossed>>

SellFails(a) ==
    /\ actor[a].pc = "selling"
    /\ Done(a)
    /\ UNCHANGED <<row, camps, last, config, books, crossed>>

\* _apply_close_campaign_context
ApplyClose(c, ctx) ==
    IF c = 0 THEN UNCHANGED <<camps, last>>
    ELSE /\ camps' = [camps EXCEPT ![c].state = ctx.state, ![c].realized = ctx.realized,
                                   ![c].cooling = ctx.state = "waiting"]
         /\ last' = c

\* persist_closed_trade: the summary carries what the whole mission has realized.
PersistClose(a) ==
    LET ctx == actor[a].ctx
    IN  /\ actor[a].pc = "sold" /\ actor[a].kind # "exit"
        /\ closed' = [closed EXCEPT ![ctx.camp] =
                        @ + IF ctx.camp # 0 THEN ctx.realized ELSE ctx.profit]
        /\ row' = NoRow
        /\ ApplyClose(ctx.camp, ctx)
        /\ Cross(IF ctx.camp = row.camp /\ ctx.camp = actor[a].snap.camp THEN {}
                 ELSE {ctx.camp, row.camp})
        /\ Done(a)
        /\ UNCHANGED <<config, legs, held, earned>>

\* A mistake: the row of an exited mission is deleted like a closed one.
PersistExitAsClose(a) ==
    LET ctx == actor[a].ctx
    IN  /\ actor[a].pc = "sold" /\ actor[a].kind = "exit"
        /\ row' = NoRow
        /\ ApplyClose(ctx.camp, ctx)
        /\ Cross({c \in {ctx.camp} : row.camp # c})
        /\ Done(a)
        /\ UNCHANGED <<config, books>>

\* persist_sidestep_transition keeps the row, flat.
PersistExit(a) ==
    LET ctx == actor[a].ctx
    IN  /\ actor[a].pc = "sold" /\ actor[a].kind = "exit"
        /\ row' = IF row = NoRow THEN NoRow
                  ELSE [row EXCEPT !.leg = 0, !.camp = ctx.camp, !.exposure = "waiting"]
        /\ ApplyClose(ctx.camp, ctx)
        /\ Cross(IF row.camp = ctx.camp /\ actor[a].snap.camp = ctx.camp
                    /\ camps[ctx.camp].state = "active" THEN {}
                 ELSE {ctx.camp, row.camp})
        /\ Done(a)
        /\ UNCHANGED <<config, books>>

\* receive_stop_signal deletes the deal; nothing is sold and no summary is written.
StopDeal ==
    /\ actor["dash"].pc = "idle" /\ row # NoRow
    /\ actor' = [actor EXCEPT !["dash"] = [pc |-> "stopping", kind |-> "stop", snap |-> row,
                                           ctx |-> CloseContext("stop", 0), found |-> NoRow]]
    /\ UNCHANGED <<row, camps, last, config, books, crossed>>

PersistStop ==
    /\ actor["dash"].pc = "stopping"
    /\ row' = NoRow
    /\ ApplyClose(row.camp, actor["dash"].ctx)
    /\ Cross({row.camp} \union InFlight({"worker", "bot"}))
    /\ Done("dash")
    /\ UNCHANGED <<config, books>>

\* stop_campaign, one transaction: a summary, and the rows of the symbol are deleted.
StopCampaign(c) ==
    /\ actor["dash"].pc = "idle" /\ camps[c].state \in LiveStates
    /\ camps' = [camps EXCEPT ![c].state = "stopped", ![c].cooling = FALSE]
    /\ last' = c
    /\ closed' = [closed EXCEPT ![c] = @ + camps[c].realized]
    /\ row' = NoRow
    /\ Cross(InFlight(Actors) \union ({row.camp} \ {c}))
    /\ UNCHANGED <<config, actor, legs, held, earned>>

\* activate_campaign: the operator re-enters without the strategy's word.
Activate(c) ==
    /\ actor["dash"].pc = "idle" /\ camps[c].state = "waiting" /\ ~camps[c].paused
    /\ legs < MaxLegs
    /\ Submit("dash", "buying", "reentry", [row EXCEPT !.camp = c])
    /\ UNCHANGED <<row, camps, last, config, books, crossed>>

\* receive_sell_signal and receive_buy_signal on a running deal
ManualOrder(kind) ==
    /\ actor["dash"].pc = "idle" /\ row.leg # 0
    /\ \/ kind = "tp" /\ actor["worker"].pc \notin {"selling", "sold"}
          /\ Submit("dash", "selling", "manual", row)
       \/ kind = "safety" /\ ~PausedOf(row)
          /\ Submit("dash", "buying", "safety", row)
    /\ UNCHANGED <<row, camps, last, config, books, crossed>>

-----------------------------------------------------------------------------
(***************************************************************************)
(* TradingControlsService: a pause is written where it was found.          *)
(***************************************************************************)
ResolvePause ==
    /\ actor["dash"].pc = "idle" /\ row # NoRow
    /\ Submit("dash", "pausing", IF PausedOf(row) THEN "resume" ELSE "pause", row)
    /\ UNCHANGED <<row, camps, last, config, books, crossed>>

\* A mistake: the pause of a mission is always written to its row.
PauseRow ==
    /\ actor["dash"].pc = "pausing"
    /\ row' = IF row = NoRow THEN row ELSE [row EXCEPT !.paused = actor["dash"].kind = "pause"]
    /\ Done("dash")
    /\ UNCHANGED <<camps, last, config, books, crossed>>

WritePause ==
    LET c == actor["dash"].snap.camp
        paused == actor["dash"].kind = "pause"
    IN  /\ actor["dash"].pc = "pausing"
        /\ IF c # 0
           THEN camps' = [camps EXCEPT ![c].paused = paused] /\ UNCHANGED row
           ELSE /\ row' = IF row = NoRow THEN row ELSE [row EXCEPT !.paused = paused]
                /\ UNCHANGED camps
        /\ Done("dash")
        /\ UNCHANGED <<last, config, books, crossed>>

-----------------------------------------------------------------------------
(***************************************************************************)
(* A tick of the DCA worker.                                               *)
(***************************************************************************)
\* The rows of the symbol are read; only in sidestep mode is there a campaign to ensure.
Tick ==
    /\ actor["worker"].pc = "idle" /\ row # NoRow
    /\ Submit("worker", IF sidestep THEN "ensure" ELSE "act", "tick", Derived(row))
    /\ UNCHANGED <<row, camps, last, config, books, crossed>>

\* ensure_campaign_for_open_trade reads the row, and then either the campaign it names or
\* the symbol's; the deal may have gone since the tick began.
ReadRow ==
    /\ actor["worker"].pc = "ensure"
    /\ actor' = [actor EXCEPT !["worker"].pc = IF row.camp # 0 THEN "lookup" ELSE "search",
                              !["worker"].found = row]
    /\ UNCHANGED <<row, camps, last, config, books, crossed>>

\* _exposure_state_for_campaign_state
Expected(c) == IF camps[c].state = "waiting" THEN "waiting" ELSE "long"

\* The tick goes on; a deal that had no campaign when it was read gets this one.
Ensured(c) ==
    LET w == actor["worker"]
        snap == IF w.snap.camp # 0 THEN w.snap
                ELSE [w.snap EXCEPT !.camp = c, !.mode = "sidestep"]
    IN  actor' = [actor EXCEPT !["worker"] = [w EXCEPT !.pc = "act", !.ctx = NoContext,
                                                      !.found = NoRow, !.snap = snap]]

LookUp ==
    LET found == actor["worker"].found
        expected == Expected(found.camp)
    IN  /\ actor["worker"].pc = "lookup"
        /\ IF found.mode = "sidestep" /\ found.exposure = expected
           THEN Ensured(found.camp)
           ELSE actor' = [actor EXCEPT !["worker"].pc = "repair",
                                       !["worker"].found.exposure = expected]
        /\ UNCHANGED <<row, camps, last, config, books, crossed>>

\* The repair goes to whatever row the symbol has by now.
Repair ==
    LET found == actor["worker"].found
    IN  /\ actor["worker"].pc = "repair"
        /\ row' = IF row = NoRow THEN row
                  ELSE [row EXCEPT !.mode = "sidestep", !.exposure = found.exposure]
        /\ Cross(IF row.camp # found.camp \/ Expected(found.camp) # found.exposure
                 THEN {row.camp} ELSE {})
        /\ Ensured(found.camp)
        /\ UNCHANGED <<camps, last, config, books>>

Search ==
    LET active == Recent(InState({"active"}))
    IN  /\ actor["worker"].pc = "search"
        /\ \E c \in IF active # 0 THEN {active} ELSE Fresh :
              actor' = [actor EXCEPT !["worker"].pc = "attach",
                                     !["worker"].ctx = [NoContext EXCEPT !.camp = c,
                                                                         !.create = active = 0]]
        /\ UNCHANGED <<row, camps, last, config, books, crossed>>

\* _attach_campaign, one transaction: it does not look at what the row says by now.
Attach ==
    LET c == actor["worker"].ctx.camp
        create == actor["worker"].ctx.create
    IN  /\ actor["worker"].pc = "attach"
        /\ IF create
           THEN camps' = [camps EXCEPT ![c] = [NoCampaign EXCEPT !.state = "active"]] /\ last' = c
           ELSE UNCHANGED <<camps, last>>
        /\ row' = IF row = NoRow THEN row ELSE [row EXCEPT !.camp = c, !.mode = "sidestep"]
        \* the deal has gone, or is another one by now; or the campaign found has ended
        /\ Cross(IF \/ row = NoRow /\ create
                    \/ row.camp \notin {0, c}
                    \/ ~create /\ camps[c].state # "active"
                    \/ row.exposure = "waiting"
                 THEN {c, row.camp} ELSE {})
        /\ Ensured(c)
        /\ UNCHANGED <<config, books>>

\* process_ticker_data: paused missions and those with nothing to do end the tick.
EndTick ==
    /\ actor["worker"].pc = "act"
    /\ Done("worker")
    /\ UNCHANGED <<row, camps, last, config, books, crossed>>

\* __attempt_waiting_reentry, and the gate of receive_buy_order
Reenter ==
    LET snap == actor["worker"].snap
    IN  /\ actor["worker"].pc = "act" /\ snap.exposure = "waiting" /\ ~snap.paused
        /\ snap.mode = "sidestep" /\ snap.camp # 0 /\ sidestep
        /\ ~camps[snap.camp].cooling /\ ~PausedOf(row)
        /\ legs < MaxLegs
        /\ Submit("worker", "buying", "reentry", snap)
        /\ UNCHANGED <<row, camps, last, config, books, crossed>>

\* __should_sidestep_exit, __calculate_tp and __calculate_dca; a sale that finds another
\* one in progress is skipped, and sells what the symbol holds by then.
Trade(kind) ==
    LET snap == actor["worker"].snap
    IN  /\ actor["worker"].pc = "act" /\ snap.exposure = "long" /\ ~snap.paused
        /\ \/ kind = "exit" /\ sidestep /\ snap.mode = "sidestep" /\ snap.camp # 0
           \/ kind \in {"tp", "sl"}
           \/ kind = "safety" /\ snap.mode # "sidestep" /\ ~PausedOf(row)
        /\ IF kind = "safety" THEN Submit("worker", "buying", "safety", snap)
           ELSE /\ actor["dash"].pc \notin {"selling", "sold"} /\ row.leg # 0
                /\ Submit("worker", "selling", kind, row)
        /\ UNCHANGED <<row, camps, last, config, books, crossed>>

CoolDown(c) ==
    /\ camps[c].cooling
    /\ camps' = [camps EXCEPT ![c].cooling = FALSE]
    /\ UNCHANGED <<row, last, config, actor, books, crossed>>

\* _prepare_trade_mode_updates: not while a deal is open or a campaign waits.
SwitchMode ==
    /\ row = NoRow /\ InState({"waiting"}) = {} /\ switches < MaxSwitches
    /\ sidestep' = ~sidestep /\ switches' = switches + 1
    /\ UNCHANGED <<row, camps, last, actor, books, crossed>>

-----------------------------------------------------------------------------
Next ==
    \/ Enter
    \/ \E a \in Actors : BuyFills(a) \/ BuyFails(a) \/ PersistBuy(a)
    \/ \E a \in {"worker", "dash"} : SellFills(a) \/ SellFails(a) \/ PersistClose(a)
    \/ PersistExit("worker")
    \/ StopDeal \/ PersistStop
    \/ \E c \in Campaigns : StopCampaign(c) \/ Activate(c) \/ CoolDown(c)
    \/ \E kind \in {"tp", "safety"} : ManualOrder(kind)
    \/ ResolvePause \/ WritePause
    \/ Tick \/ ReadRow \/ LookUp \/ Repair \/ Search \/ Attach \/ EndTick \/ Reenter
    \/ \E kind \in {"exit", "tp", "sl", "safety"} : Trade(kind)
    \/ SwitchMode

\* Prices keep coming and every handler goes on; the strategy's word, free funds and a fill
\* for a re-entry come together now and then.
WorkerStep ==
    \/ Tick \/ ReadRow \/ LookUp \/ Repair \/ Search \/ Attach \/ EndTick
    \/ PersistExit("worker")
    \/ BuyFails("worker") \/ PersistBuy("worker") \/ SellFails("worker") \/ PersistClose("worker")

Fairness ==
    /\ WF_vars(WorkerStep) /\ SF_vars(Reenter) /\ SF_vars(BuyFills("worker"))
    /\ WF_vars(\E c \in Campaigns : CoolDown(c))

Spec == Init /\ [][Next]_vars /\ Fairness

-----------------------------------------------------------------------------
\* A live campaign nobody crossed is the one the symbol's row names, there is one at most,
\* and row and campaign agree on whether the mission waits.
MissionsAgree ==
    \A c \in InState(LiveStates) \ crossed :
        /\ row.camp = c
        /\ camps[c].state = "waiting" <=> row.exposure = "waiting"

\* What ClosedTrades says a mission has earned is what its legs have earned, once it ended.
MissionBookedOnce ==
    \A c \in InState({"done", "stopped"}) \ crossed : closed[c] = earned[c]

\* A mission that waits flat is bought back in the end, unless it is paused or ended.
WaitingEnds ==
    \A c \in Campaigns :
        camps[c].state = "waiting" ~> \/ camps[c].state # "waiting" \/ camps[c].paused
                                      \/ c \in crossed \/ legs = MaxLegs

\* docs: the profit pool holds what was realized, "ClosedTrades.profit".
ClosedProfitIsRealized ==
    MapThenSumSet(LAMBDA c : closed[c], DOMAIN closed)
        <= MapThenSumSet(LAMBDA c : earned[c], DOMAIN earned)
===============================================================================
