------------------------------- MODULE ExitRules -------------------------------
(***************************************************************************)
(* What a tick of the DCA worker decides about a deal: whether to buy a    *)
(* safety order and whether to sell, and why. Between ticks the worker     *)
(* keeps a take-profit confirmation and a trailing peak per symbol, while  *)
(* deals come and go. A paused deal gets no ticks.                         *)
(*                                                                         *)
(* Every order buys one unit, so a deal's cost is the sum of its prices;   *)
(* fees are left out and percentages are whole numbers.                    *)
(***************************************************************************)
EXTENDS Integers, Sequences, FiniteSetsExt

CONSTANTS
    Configs,  \* the settings a deal may be traded with
    Prices,
    Realized, \* what the earlier legs of a mission may have earned
    MaxDeals, \* bound: deals
    MaxTicks, \* bound: ticks are counted up to the highest requirement
    MaxTime   \* bound: seconds

VARIABLES
    config,
    deal,    \* the open deal as get_trades_for_orders aggregates it
    deals,
    now,
    pending, \* _pending_tp_confirmations[symbol]
    peak,    \* _trailing_tp_peaks[symbol]
    armed,   \* the deal whose tick set the peak up
    above,   \* how many ticks that look at the target have reached it on end, since when
    exit     \* the decision of the last tick: reason, deal, and what it rested on

vars == <<config, deal, deals, now, pending, peak, armed, above, exit>>

NoDeal == [id |-> 0, bought |-> <<>>, ladder |-> <<>>, mission |-> FALSE, realized |-> 0, at |-> 0]
NoExit == [reason |-> "none", trailed |-> FALSE, own |-> FALSE, ticks |-> 0, seconds |-> 0]
NotPending == [on |-> FALSE, since |-> 0, ticks |-> 0, stamp |-> <<>>]
NoPeak == [on |-> FALSE, pnl |-> 0]
NotAbove == [ticks |-> 0, since |-> 0, stamp |-> <<>>]

Init ==
    /\ config \in Configs /\ deal = NoDeal /\ deals = 0 /\ now = 0
    /\ pending = NotPending /\ peak = NoPeak /\ armed = 0
    /\ above = NotAbove /\ exit = NoExit

-----------------------------------------------------------------------------
(***************************************************************************)
(* dca_math, utils.calculate_actual_pnl and dca_safety_orders              *)
(***************************************************************************)
Cost(d) == MapThenSumSet(LAMBDA i : d.bought[i], DOMAIN d.bought)
Units(d) == Len(d.bought)
Orders(d) == Len(d.ladder)

\* calculate_actual_pnl, rounded down
Pnl(d, p) == (100 * (p * Units(d) - Cost(d))) \div Cost(d)

\* The take-profit price of a mission counts what its earlier legs have realized.
TakeProfitHit(d, p) == 100 * (p * Units(d) - Cost(d) + d.realized) >= config.tp * Cost(d)

StopLossHit(d, p) == 100 * (p * Units(d) - Cost(d)) <= -config.sl * Cost(d)

\* calculate_cumulative_safety_order_deviation, for the safety order after n others
Deviation(n) == MapThenSumSet(LAMBDA i : config.step * config.scale ^ i, 0 .. n)

\* derive_safety_order_context: how deep the next dynamic safety order has to be
Threshold(d) ==
    LET n == Orders(d)
        Depth(i) == IF d.ladder[i] < 0 THEN -d.ladder[i] ELSE d.ladder[i]
    IN  IF n = 0 THEN -config.step
        ELSE -(Depth(n) * config.scale + IF n >= 2 THEN Depth(n - 1) ELSE config.step)

Deepest(d) == Min({d.ladder[i] : i \in DOMAIN d.ladder})

\* __calculate_dca: the dynamic trigger has the strategy's word for a new signal and goes
\* deeper than every safety order before; the static one counts from the base order.
Buys(d, p, word) ==
    /\ Orders(d) < config.max
    /\ IF config.dynamic
       THEN /\ Pnl(d, p) <= Threshold(d) /\ word
            /\ Orders(d) > 0 => Pnl(d, p) < Deepest(d)
       ELSE 100 * (p - d.bought[1]) <= -Deviation(Orders(d)) * d.bought[1]

\* The so_percentage that is stored; the static ladder stores the height of its rung.
Rung(d, p) ==
    IF config.dynamic THEN Pnl(d, p)
    ELSE Deviation(Orders(d)) - IF Orders(d) = 0 THEN 0 ELSE Deviation(Orders(d) - 1)

\* The order is funded and filled, or the size, the gates or the exchange refuse it.
Bought(d, p, word) ==
    {d} \union IF ~d.mission /\ Buys(d, p, word)
               THEN {[d EXCEPT !.bought = Append(@, p), !.ladder = Append(@, Rung(d, p)),
                               !.at = now]}
               ELSE {}

-----------------------------------------------------------------------------
(***************************************************************************)
(* dca_tp_state                                                            *)
(***************************************************************************)
\* A confirmation belongs to the latest order of a deal and to a take-profit price.
Stamp(d) == <<d.id, Units(d), config.tp>>

Confirming == config.trailing = 0 /\ config.confirm
Qualified(d) == pending.on /\ pending.stamp = Stamp(d)

\* evaluate_tp_confirmation
Confirmed(d) ==
    \/ config.seconds = 0 /\ config.ticks = 0
    \/ /\ Qualified(d)
       /\ config.seconds > 0 => now - pending.since >= config.seconds
       /\ config.ticks > 0 => pending.ticks + 1 >= config.ticks

\* A mistake: a price that falls below the take-profit leaves the confirmation alone.
PendingThrough(d, p) ==
    IF ~(TakeProfitHit(d, p) /\ Confirming) THEN pending
    ELSE IF Confirmed(d) THEN NotPending
    ELSE IF Qualified(d) THEN [pending EXCEPT !.ticks = Min({@ + 1, MaxTicks})]
    ELSE [on |-> TRUE, since |-> now, ticks |-> 1, stamp |-> Stamp(d)]

\* What becomes of the confirmation before stop loss, timeout or a sale clear it
PendingAfter(d, p) ==
    IF ~TakeProfitHit(d, p) /\ config.trailing > 0 THEN pending
    ELSE IF TakeProfitHit(d, p) /\ Confirming /\ config.seconds + config.ticks = 0 THEN pending
    ELSE IF ~(TakeProfitHit(d, p) /\ Confirming) \/ Confirmed(d) THEN NotPending
    ELSE IF Qualified(d) THEN [pending EXCEPT !.ticks = Min({@ + 1, MaxTicks})]
    ELSE [on |-> TRUE, since |-> now, ticks |-> 1, stamp |-> Stamp(d)]

\* apply_trailing_take_profit: a peak of zero counts as none, and a sale that the price
\* asks for only sets the peak up.
Trail(pnl, asked) ==
    LET top == IF peak.on THEN peak.pnl ELSE 0
        falls == \/ pnl < top /\ top - pnl > config.trailing
                 \/ pnl < config.tp /\ pnl > config.trailing
    IN  IF ~asked /\ ~peak.on THEN [sell |-> FALSE, peak |-> peak]
        ELSE IF pnl = top \/ top = 0 THEN [sell |-> FALSE, peak |-> [on |-> TRUE, pnl |-> pnl]]
        ELSE IF falls THEN [sell |-> TRUE, peak |-> NoPeak]
        ELSE [sell |-> FALSE, peak |-> [on |-> TRUE, pnl |-> Max({top, pnl})]]

-----------------------------------------------------------------------------
(***************************************************************************)
(* process_ticker_data for a running deal: __calculate_dca, and then       *)
(* __calculate_tp on the same snapshot of the deal; a sidestep exit comes  *)
(* before both. word is what the strategies say.                           *)
(***************************************************************************)
\* The stop loss waits for the last safety order; the strategy may veto any sale so far.
Asked(d, p, word) ==
    LET stop == StopLossHit(d, p) /\ Orders(d) = config.max
        target == TakeProfitHit(d, p) /\ (Confirming => Confirmed(d))
    IN  IF config.strategy /\ ~word THEN "none"
        ELSE IF stop THEN "stop_loss"
        ELSE IF target THEN "take_profit" ELSE "none"

\* Autopilot gives up on deals that are old and not too far under water.
TimedOut(d, p) ==
    config.timeout > 0 /\ now - d.at > config.timeout /\ Pnl(d, p) >= -config.sl

Tick(p, word) ==
    LET asked == Asked(deal, p, word)
        trail == Trail(Pnl(deal, p), asked # "none")
        trailed == config.trailing > 0 /\ trail.sell
        reason == IF TimedOut(deal, p) THEN "autopilot_timeout"
                  ELSE IF config.trailing = 0 THEN asked
                  ELSE IF ~trailed THEN "none"
                  ELSE IF asked = "none" THEN "trailing_take_profit" ELSE asked
        run == IF above.stamp = Stamp(deal) THEN above.ticks ELSE 0
        since == IF run = 0 THEN now ELSE above.since
        stopped == StopLossHit(deal, p) /\ Orders(deal) = config.max
    IN  /\ deal.id # 0
        /\ above' = IF TakeProfitHit(deal, p) /\ Confirming
                    THEN [ticks |-> Min({run + 1, MaxTicks}), since |-> since,
                          stamp |-> Stamp(deal)]
                    ELSE NotAbove
        /\ exit' = IF reason = "none" THEN NoExit
                   ELSE [reason |-> reason, trailed |-> trailed, own |-> armed = deal.id,
                         ticks |-> above'.ticks, seconds |-> now - since]
        /\ pending' = IF reason # "none" \/ stopped THEN NotPending ELSE PendingAfter(deal, p)
        /\ peak' = IF config.trailing > 0 THEN trail.peak ELSE peak
        /\ armed' = IF ~peak'.on THEN 0 ELSE IF peak.on THEN armed ELSE deal.id
        \* The sale goes through, or the exchange leaves the deal open.
        /\ \/ reason # "none" /\ deal' = NoDeal
           \/ deal' \in Bought(deal, p, word)
        /\ UNCHANGED <<config, deals, now>>

\* __should_sidestep_exit: a mission whose leg is below its own target, earlier legs or not,
\* is sold on the bearish strategy's word. Sold or not, the tick ends here: the target is not
\* looked at, and what is pending stays.
SidestepExit(p) ==
    /\ deal.mission /\ 100 * (p * Units(deal) - Cost(deal)) < config.tp * Cost(deal)
    /\ exit' = [NoExit EXCEPT !.reason = "sidestep_exit"]
    /\ deal' \in {deal, NoDeal}
    /\ UNCHANGED <<config, deals, now, pending, peak, armed, above>>

-----------------------------------------------------------------------------
\* A classic deal, or a leg of a mission
Open(p) ==
    /\ deal.id = 0 /\ deals < MaxDeals
    /\ \E m \in BOOLEAN : \E r \in IF m THEN Realized ELSE {0} :
        deal' = [NoDeal EXCEPT !.id = deals + 1, !.bought = <<p>>, !.mission = m,
                               !.realized = r, !.at = now]
    /\ deals' = deals + 1 /\ exit' = NoExit
    /\ UNCHANGED <<config, now, pending, peak, armed, above>>

\* The operator sells, or stops the deal: the worker is not told.
ClosedElsewhere ==
    /\ deal.id # 0
    /\ deal' = NoDeal /\ exit' = NoExit
    /\ UNCHANGED <<config, deals, now, pending, peak, armed, above>>

\* Time matters to confirmations and timeouts.
Wait ==
    /\ now < MaxTime /\ config.seconds + config.timeout > 0
    /\ now' = now + 1 /\ exit' = NoExit
    /\ UNCHANGED <<config, deal, deals, pending, peak, armed, above>>

\* on_config_change: settings of one name may replace each other.
Reconfigure ==
    /\ \E c \in Configs : c.name = config.name /\ c # config /\ config' = c
    /\ exit' = NoExit
    /\ UNCHANGED <<deal, deals, now, pending, peak, armed, above>>

Next ==
    \/ \E p \in Prices : Open(p) \/ SidestepExit(p) \/ \E word \in BOOLEAN : Tick(p, word)
    \/ ClosedElsewhere \/ Wait \/ Reconfigure

Spec == Init /\ [][Next]_vars

-----------------------------------------------------------------------------
\* A take-profit that waits for its confirmation is sold only after the price was at or
\* above this target, for this deal, on enough ticks on end and for long enough. What counts
\* are the ticks that look at the target: a tick on which a sidestep exit is tried and fails
\* does not, whatever its price.
SpikesFiltered ==
    exit.reason = "take_profit" /\ Confirming =>
        exit.ticks >= config.ticks /\ exit.seconds >= config.seconds

\* A trailing take-profit follows the profit of the deal it sells.
TrailsOwnPeak == exit.trailed => exit.own
===============================================================================
