----------------------------- MODULE TpLimitOrder -----------------------------
(***************************************************************************)
(* The standing take-profit limit order of one symbol: the DCA worker arms *)
(* it, reconciles it and replaces it; a sell, a stop or a manual add from  *)
(* the dashboard cancels it first; the exchange fills or ends it whenever  *)
(* it likes. The per-symbol sell lock serialises what touches the order,   *)
(* not the reads the decisions rest on, nor a stop's or an add's write.    *)
(*                                                                         *)
(* An exchange call and the write that follows it are one step where only  *)
(* the exchange can come between them and a later status says the same.    *)
(***************************************************************************)
EXTENDS Integers, FiniteSets

CONSTANTS
    MaxOrders,  \* bound: take-profit orders
    MaxDeals,   \* bound: deals
    Size,       \* what a deal holds at first
    MaxRequests, \* bound: what the dashboard asks for
    MaxCrashes  \* bound: how often the process dies

VARIABLES
    row,      \* OpenTrades: the deal, 0 for no row, its amounts and its tp_limit_order_id
    deals,
    orders,   \* what the exchange knows of each take-profit order
    lock,     \* _sell_locks[symbol]: who holds it
    actor,    \* the worker and the dashboard: where each is, what for, with which snapshot
    placed,   \* the order a worker has placed and not yet recorded
    closings, \* how many closed trades each order has produced
    booked,   \* how much of its partial fill has been booked
    lost,     \* orders no row names any more: crashes, failed cancellations, crossing stops
    stale,    \* orders reconciled for a row that no longer named them
    requests, crashes

vars == <<row, deals, orders, lock, actor, placed, closings, booked, lost, stale, requests, crashes>>
ledger == <<closings, booked, stale>>

Orders == 1 .. MaxOrders
Actors == {"worker", "dash"}

NoRow == [deal |-> 0, held |-> 0, sold |-> 0, tp |-> 0]
NoOrder == [amount |-> 0, filled |-> 0, state |-> "none"]
Idle == [pc |-> "idle", todo |-> "none", snap |-> NoRow]

Init ==
    /\ row = NoRow /\ deals = 0
    /\ orders = [o \in Orders |-> NoOrder]
    /\ lock = "none" /\ actor = [a \in Actors |-> Idle] /\ placed = 0
    /\ closings = [o \in Orders |-> 0] /\ booked = [o \in Orders |-> 0]
    /\ lost = {} /\ stale = {} /\ requests = 0 /\ crashes = 0

-----------------------------------------------------------------------------
OpenDeal ==
    /\ row.deal = 0 /\ deals < MaxDeals
    /\ deals' = deals + 1
    /\ row' = [deal |-> deals', held |-> Size, sold |-> 0, tp |-> 0]
    /\ UNCHANGED <<orders, lock, actor, placed, ledger, lost, requests, crashes>>

Fill(o) ==
    /\ orders[o].state = "open"
    /\ LET f == orders[o].filled + 1
       IN  orders' = [orders EXCEPT ![o].filled = f,
                                    ![o].state = IF f = orders[o].amount THEN "filled" ELSE @]
    /\ UNCHANGED <<row, deals, lock, actor, placed, ledger, lost, requests, crashes>>

Expire(o) ==
    /\ orders[o].state = "open"
    /\ orders' = [orders EXCEPT ![o].state = "canceled"]
    /\ UNCHANGED <<row, deals, lock, actor, placed, ledger, lost, requests, crashes>>

-----------------------------------------------------------------------------
(***************************************************************************)
(* What a status makes of the rows. Every write goes by symbol.            *)
(***************************************************************************)
\* _finalize_completed_sell, or the partial fill of an order smaller than the deal
Finalize(o) ==
    IF orders[o].amount >= row.held - row.sold
    THEN /\ row' = NoRow
         /\ closings' = [closings EXCEPT ![o] = @ + 1]
         /\ UNCHANGED booked
    ELSE /\ row' = [row EXCEPT !.sold = @ + orders[o].filled, !.tp = 0]
         /\ booked' = [booked EXCEPT ![o] = @ + orders[o].filled]
         /\ UNCHANGED closings

\* _persist_tp_limit_partial_fill; without a row it writes nothing.
BookPartial(o) ==
    IF row.deal = 0 THEN UNCHANGED <<row, booked>>
    ELSE /\ row' = [row EXCEPT !.sold = @ + orders[o].filled]
         /\ booked' = [booked EXCEPT ![o] = @ + orders[o].filled]

Remember(o) == stale' = IF row.tp = o THEN stale ELSE stale \union {o}

Move(a, pc) == actor' = [actor EXCEPT ![a].pc = pc]
Done(a) == actor' = [actor EXCEPT ![a] = Idle]

-----------------------------------------------------------------------------
(***************************************************************************)
(* A tick of the DCA worker, as far as it sells: __calculate_tp.           *)
(***************************************************************************)
Tick ==
    /\ actor["worker"].pc = "idle" /\ row.deal # 0
    /\ actor' = [actor EXCEPT !["worker"] = [pc |-> "reconcile", todo |-> "none", snap |-> row]]
    /\ UNCHANGED <<row, deals, orders, lock, placed, ledger, lost, requests, crashes>>

\* A mistake: a filled order is forgotten like one that was canceled.
ReconcileForgets ==
    LET o == actor["worker"].snap.tp
    IN  /\ actor["worker"].pc = "reconcile" /\ lock = "none" /\ o # 0
        /\ orders[o].state \in {"filled", "canceled"}
        /\ row' = [row EXCEPT !.tp = 0]
        /\ Move("worker", "decide")
        /\ UNCHANGED <<deals, orders, lock, placed, ledger, lost, requests, crashes>>

\* reconcile_tp_limit_order, with the order id of the snapshot
Reconcile ==
    LET o == actor["worker"].snap.tp
    IN  /\ actor["worker"].pc = "reconcile" /\ lock = "none" /\ o # 0
        /\ \/ /\ orders[o].state = "filled"
              /\ Finalize(o) /\ Remember(o) /\ Done("worker") /\ UNCHANGED lock
           \/ /\ orders[o].state = "canceled"
              /\ BookPartial(o) /\ Remember(o)
              /\ lock' = "worker" /\ Move("worker", "clear")
              /\ UNCHANGED closings
        /\ UNCHANGED <<deals, orders, placed, lost, requests, crashes>>

\* No order, one that is open, or one the exchange does not answer about.
NothingToReconcile ==
    /\ actor["worker"].pc = "reconcile"
    /\ actor["worker"].snap.tp # 0 => lock = "none"
    /\ Move("worker", "decide")
    /\ UNCHANGED <<row, deals, orders, lock, placed, ledger, lost, requests, crashes>>

\* The order is outdated, or the price asks for a sale, or neither.
Decide(todo) ==
    /\ actor["worker"].pc = "decide"
    /\ todo = "refresh" => actor["worker"].snap.tp # 0
    /\ todo = "sell" => lock = "none"
    /\ actor' = [actor EXCEPT !["worker"].pc = "cancel", !["worker"].todo = todo]
    /\ UNCHANGED <<row, deals, orders, lock, placed, ledger, lost, requests, crashes>>

\* Nothing to sell: the tick may still buy a safety order.
EndTick(bought) ==
    /\ actor["worker"].pc = "decide"
    /\ bought > 0 => row.deal # 0 /\ row.held = Size
    /\ row' = [row EXCEPT !.held = @ + bought]
    /\ Done("worker")
    /\ UNCHANGED <<deals, orders, lock, placed, ledger, lost, requests, crashes>>

-----------------------------------------------------------------------------
(***************************************************************************)
(* arm_tp_limit_order: the order is placed, then recorded.                 *)
(***************************************************************************)
Place ==
    /\ actor["worker"].pc = "decide" /\ actor["worker"].snap.tp = 0 /\ lock = "none"
    /\ LET snap == actor["worker"].snap
       IN  \E o \in Orders :
            /\ orders[o].state = "none" /\ \A p \in Orders : p < o => orders[p].state # "none"
            /\ snap.held > snap.sold
            /\ orders' = [orders EXCEPT ![o] = [amount |-> snap.held - snap.sold,
                                                filled |-> 0, state |-> "open"]]
            /\ placed' = o
    /\ lock' = "worker" /\ Move("worker", "record")
    /\ UNCHANGED <<row, deals, ledger, lost, requests, crashes>>

\* A mistake: an order without a row to record it in is left on the exchange.
RecordOrLeave ==
    /\ actor["worker"].pc = "record"
    /\ row' = IF row.deal # 0 THEN [row EXCEPT !.tp = placed] ELSE row
    /\ placed' = 0 /\ lock' = "none" /\ Done("worker")
    /\ UNCHANGED <<deals, orders, ledger, lost, requests, crashes>>

\* set_tp_limit_order fails without a row, or on an error of the database; the answer to
\* the cancellation that follows is not looked at.
Record ==
    /\ actor["worker"].pc = "record"
    /\ \/ /\ row.deal # 0
          /\ row' = [row EXCEPT !.tp = placed]
          /\ UNCHANGED <<orders, lost>>
       \/ /\ orders[placed].state = "open"
          /\ orders' = [orders EXCEPT ![placed].state = "canceled"]
          /\ lost' = lost \union {placed}
          /\ UNCHANGED row
       \/ /\ lost' = lost \union {placed}
          /\ UNCHANGED <<row, orders>>
    /\ placed' = 0 /\ lock' = "none" /\ Done("worker")
    /\ UNCHANGED <<deals, ledger, requests, crashes>>

-----------------------------------------------------------------------------
(***************************************************************************)
(* The dashboard, and what a sale, a stop or an add does once the standing *)
(* order is out of its way.                                                *)
(***************************************************************************)
Request(todo) ==
    /\ actor["dash"].pc = "idle" /\ row.deal # 0 /\ requests < MaxRequests
    /\ todo = "sell" => lock = "none"
    /\ requests' = requests + 1
    /\ actor' = [actor EXCEPT !["dash"] = [pc |-> "cancel", todo |-> todo, snap |-> row]]
    /\ UNCHANGED <<row, deals, orders, lock, placed, ledger, lost, crashes>>

\* A sale goes on under the lock it has; the others give it back.
GoOn(a) ==
    /\ lock' = IF actor[a].todo = "sell" THEN a ELSE "none"
    /\ actor' = [actor EXCEPT ![a].pc = CASE actor[a].todo = "sell" -> "selling"
                                          [] actor[a].todo = "refresh" -> "decide"
                                          [] OTHER -> "persist",
                              ![a].snap.tp = 0]

\* A mistake: nothing is canceled.
CancelNothing(a) ==
    /\ actor[a].pc = "cancel" /\ lock = "none"
    /\ GoOn(a)
    /\ UNCHANGED <<row, deals, orders, placed, ledger, lost, requests, crashes>>

\* _cancel_tp_limit_order_locked, with the order id of the row
CancelTp(a) ==
    LET o == row.tp
    IN  /\ actor[a].pc = "cancel" /\ lock = "none"
        /\ \/ /\ o = 0
              /\ GoOn(a)
              /\ UNCHANGED <<row, orders, closings, booked>>
           \/ /\ o # 0 /\ orders[o].state = "filled"
              /\ Finalize(o) /\ Done(a)
              /\ UNCHANGED <<orders, lock>>
           \/ /\ o # 0 /\ orders[o].state \in {"open", "canceled"}
              /\ orders' = [orders EXCEPT ![o].state = "canceled"]
              /\ BookPartial(o)
              /\ lock' = a /\ Move(a, "clear")
              /\ UNCHANGED closings
           \/ \* The cancellation is refused or its result unknown; the id is kept.
              /\ o # 0
              /\ Done(a)
              /\ UNCHANGED <<row, orders, lock, closings, booked>>
        /\ UNCHANGED <<deals, placed, stale, lost, requests, crashes>>

\* A mistake: the fill is booked and the order still recorded.
KeepTp(a) ==
    /\ actor[a].pc = "clear"
    /\ IF actor[a].todo = "none" THEN lock' = "none" /\ Done(a) ELSE GoOn(a)
    /\ UNCHANGED <<row, deals, orders, placed, ledger, lost, requests, crashes>>

\* clear_tp_limit_order, a write of its own after the fill was booked
ClearTp(a) ==
    /\ actor[a].pc = "clear"
    /\ row' = [row EXCEPT !.tp = 0]
    /\ IF actor[a].todo = "none" THEN lock' = "none" /\ Move(a, "decide") ELSE GoOn(a)
    /\ UNCHANGED <<deals, orders, placed, ledger, lost, requests, crashes>>

\* create_spot_sell sells n of what is left.
Sell(a, n) ==
    /\ actor[a].pc = "selling" /\ n <= row.held - row.sold
    /\ row' = IF n = row.held - row.sold THEN NoRow ELSE [row EXCEPT !.sold = @ + n]
    /\ lock' = "none" /\ Done(a)
    /\ UNCHANGED <<deals, orders, placed, ledger, lost, requests, crashes>>

\* persist_stopped_trade deletes the row with whatever order it names by then.
PersistStop ==
    /\ actor["dash"].pc = "persist" /\ actor["dash"].todo = "stop"
    /\ row' = NoRow
    /\ lost' = lost \union ({row.tp} \ {0})
    /\ Done("dash")
    /\ UNCHANGED <<deals, orders, lock, placed, ledger, requests, crashes>>

\* persist_manual_buy_add raises without a row.
PersistAdd ==
    /\ actor["dash"].pc = "persist" /\ actor["dash"].todo = "add"
    /\ row' = IF row.deal = 0 THEN row ELSE [row EXCEPT !.held = @ + 1]
    /\ Done("dash")
    /\ UNCHANGED <<deals, orders, lock, placed, ledger, lost, requests, crashes>>

\* The process ends and starts again with the rows it has; an order that was placed and
\* not recorded is lost, a fill that was booked and not cleared will be booked again.
Crash ==
    /\ crashes < MaxCrashes /\ crashes' = crashes + 1
    /\ \E a \in Actors : actor[a].pc \notin {"idle", "decide", "cancel", "persist"}
    /\ actor' = [a \in Actors |-> Idle] /\ lock' = "none"
    /\ lost' = lost \union ({placed} \ {0})
    /\ stale' = IF \E a \in Actors : actor[a].pc = "clear" THEN stale \union ({row.tp} \ {0})
                ELSE stale
    /\ placed' = 0
    /\ UNCHANGED <<row, deals, orders, closings, booked, requests>>

Next ==
    \/ OpenDeal
    \/ \E o \in Orders : Fill(o) \/ Expire(o)
    \/ Tick \/ Reconcile \/ NothingToReconcile
    \/ \E todo \in {"refresh", "sell"} : Decide(todo)
    \/ \E n \in 0 .. 1 : EndTick(n)
    \/ Place \/ Record
    \/ \E todo \in {"sell", "stop", "add"} : Request(todo)
    \/ \E a \in Actors :
        CancelTp(a) \/ ClearTp(a) \/ \E n \in 0 .. Size + MaxRequests + 1 : Sell(a, n)
    \/ PersistStop \/ PersistAdd
    \/ Crash

\* A worker's tick and a request go on; prices keep coming, so ticks do.
WorkerStep ==
    \/ Tick \/ Reconcile \/ NothingToReconcile \/ EndTick(0) \/ Record
    \/ CancelTp("worker") \/ ClearTp("worker") \/ Sell("worker", 0)
DashStep == CancelTp("dash") \/ ClearTp("dash") \/ Sell("dash", 0) \/ PersistStop \/ PersistAdd

\* The exchange answers about an order now and then.
Fairness == WF_vars(WorkerStep) /\ WF_vars(DashStep) /\ SF_vars(Reconcile)

Spec == Init /\ [][Next]_vars /\ Fairness

-----------------------------------------------------------------------------
\* A take-profit order that may still fill is named by the row of its deal or about to be,
\* unless it was lost in one of three ways: the process died, its cancellation failed, or
\* a stop deleted the row between the cancellation and the worker's next order.
OrdersTracked ==
    \A o \in Orders : orders[o].state = "open" => o \in {row.tp, placed} \union lost

\* No sale is made while a take-profit order of the symbol still holds the coins.
SellsAlone ==
    \A a \in Actors : actor[a].pc = "selling" =>
        \A o \in Orders \ lost : orders[o].state # "open"

\* What an order sold enters the books once, by a close or as a partial fill, unless it was
\* reconciled for a row that had moved on.
BookedOnce ==
    \A o \in Orders \ stale :
        closings[o] * orders[o].amount + booked[o] <= orders[o].filled

\* Nothing that was sold is booked twice.
NeverBookedTwice ==
    \A o \in Orders : closings[o] * orders[o].amount + booked[o] <= orders[o].filled

\* A filled order of an open deal is booked in the end, whoever finds it first.
FillsAreBooked ==
    \A o \in Orders : orders[o].state = "filled" /\ row.tp = o
        ~> closings[o] + booked[o] > 0 \/ o \in lost
===============================================================================
