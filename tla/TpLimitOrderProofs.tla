--------------------------- MODULE TpLimitOrderProofs ---------------------------
(***************************************************************************)
(* OrdersTracked, SellsAlone and BookedOnce for any number of orders, deals, *)
(* requests and crashes. None is inductive: the worker forgets and replaces  *)
(* orders by the snapshot of its tick, so its order must be the one the row  *)
(* names, or none; who sells relies on who holds the sell lock; and an order *)
(* is booked while the row still names it, which its booker has yet to clear.*)
(***************************************************************************)
EXTENDS TpLimitOrder, TLAPS

Rows == [deal : Int, held : Int, sold : Int, tp : Orders \cup {0}]

TypeInv ==
    /\ row \in Rows /\ deals \in Nat
    /\ orders \in [Orders -> [amount : Nat, filled : Nat,
                              state : {"none", "open", "filled", "canceled"}]]
    /\ lock \in Actors \cup {"none"}
    /\ actor \in [Actors ->
          [pc : {"idle", "reconcile", "decide", "cancel", "clear", "selling", "persist", "record"},
           todo : {"none", "refresh", "sell", "stop", "add"}, snap : Rows]]
    /\ placed \in Orders \cup {0}

\* What a task does with the order alone, it does under the lock.
LockInv ==
    /\ \A a \in Actors : actor[a].pc \in {"clear", "selling", "record"} => lock = a
    /\ actor["dash"].pc # "record"
    /\ placed # 0 => actor["worker"].pc = "record"

\* The worker knows the order of the row, or the row has none; it places one only then.
SnapInv ==
    /\ row.deal = 0 => row = NoRow
    /\ actor["worker"].pc # "idle" => row.tp \in {0, actor["worker"].snap.tp}
    /\ actor["worker"].pc = "record" => row.tp = 0

Open(o) == orders[o].state = "open"

\* An order is forgotten only when it can no longer fill.
ClearInv ==
    \A a \in Actors : actor[a].pc = "clear" /\ row.tp # 0 => ~Open(row.tp)

OrderInv == TypeInv /\ LockInv /\ SnapInv /\ ClearInv /\ OrdersTracked /\ SellsAlone

-----------------------------------------------------------------------------
\* Nothing is open and nobody holds the lock at first.
LEMMA OrderInit == Init => OrderInv
<1> SUFFICES ASSUME Init
             PROVE  OrderInv
  OBVIOUS
<1> USE DEF Init, NoRow, NoOrder, Idle
<1>1. TypeInv
  BY DEF TypeInv, Rows, Actors
<1>2. LockInv /\ SnapInv /\ ClearInv
  BY DEF LockInv, SnapInv, ClearInv, Actors
<1>3. OrdersTracked /\ SellsAlone
  BY DEF OrdersTracked, SellsAlone, Actors
<1> QED
  BY <1>1, <1>2, <1>3 DEF OrderInv

-----------------------------------------------------------------------------
(***************************************************************************)
(* The state keeps its shape.                                              *)
(***************************************************************************)
\* What a status makes of the row: nothing, a partial sale, or the end of the deal.
LEMMA StatusRow ==
    ASSUME TypeInv, NEW o \in Orders, Finalize(o) \/ BookPartial(o)
    PROVE  /\ row' \in Rows
           /\ row'.tp \in {0, row.tp}
           /\ row.deal = 0 /\ row = NoRow => row' = NoRow
           /\ row' = NoRow \/ row'.deal = row.deal
<1> USE DEF TypeInv, Rows, NoRow
<1>1. CASE BookPartial(o)
  BY <1>1 DEF BookPartial
<1>2. CASE Finalize(o) /\ orders[o].amount >= row.held - row.sold
  BY <1>2 DEF Finalize
<1>3. CASE Finalize(o) /\ ~(orders[o].amount >= row.held - row.sold)
  <2>1. row' = [row EXCEPT !.sold = @ + orders[o].filled, !.tp = 0]
    BY <1>3 DEF Finalize
  <2>2. row # NoRow
    BY <1>3
  <2>3. row.sold + orders[o].filled \in Int
    OBVIOUS
  <2>4. row' \in Rows /\ row'.tp = 0 /\ row'.deal = row.deal
    BY <2>1, <2>3
  <2> QED
    BY <2>2, <2>4
<1> QED
  BY <1>1, <1>2, <1>3

\* A row whose order is finalized names no order.
LEMMA FinalizedRow ==
    ASSUME TypeInv, NEW o \in Orders, Finalize(o)
    PROVE  row'.tp = 0
<1> USE DEF TypeInv, Rows, NoRow
<1>1. CASE orders[o].amount >= row.held - row.sold
  BY <1>1 DEF Finalize
<1>2. CASE ~(orders[o].amount >= row.held - row.sold)
  <2>1. row' = [row EXCEPT !.sold = @ + orders[o].filled, !.tp = 0]
    BY <1>2 DEF Finalize
  <2>2. row.sold + orders[o].filled \in Int
    OBVIOUS
  <2> QED
    BY <2>1, <2>2
<1> QED
  BY <1>1, <1>2

\* A task that goes on, ends or moves stays a task.
LEMMA TaskStep ==
    ASSUME TypeInv, NEW a \in Actors,
           \/ GoOn(a) \/ Done(a)
           \/ \E pc \in {"decide", "clear"} : Move(a, pc)
    PROVE  actor' \in [Actors ->
          [pc : {"idle", "reconcile", "decide", "cancel", "clear", "selling", "persist", "record"},
           todo : {"none", "refresh", "sell", "stop", "add"}, snap : Rows]]
<1> USE DEF TypeInv, Rows, NoRow, Actors
<1>1. CASE GoOn(a)
  BY <1>1 DEF GoOn
<1>2. CASE Done(a)
  BY <1>2 DEF Done, Idle
<1>3. CASE \E pc \in {"decide", "clear"} : Move(a, pc)
  BY <1>3 DEF Move
<1> QED
  BY <1>1, <1>2, <1>3

\* Every step keeps the shape of the state.
LEMMA TypeStep ==
    ASSUME Size \in Nat, MaxRequests \in Nat, TypeInv, [Next]_vars
    PROVE  TypeInv'
<1> USE DEF TypeInv, Rows, Actors, Idle, NoRow
<1>1. CASE OpenDeal
  BY <1>1 DEF OpenDeal
<1>2. ASSUME NEW o \in Orders, Fill(o) \/ Expire(o)
      PROVE  TypeInv'
  BY <1>2 DEF Fill, Expire
<1>3. CASE Tick
  BY <1>3 DEF Tick
<1>4. CASE Reconcile
  <2> DEFINE o == actor["worker"].snap.tp
  <2>1. o \in Orders /\ (Finalize(o) \/ BookPartial(o))
    BY <1>4 DEF Reconcile
  <2>2. row' \in Rows
    BY <2>1, StatusRow
  <2>3. /\ Done("worker") \/ Move("worker", "clear")
        /\ lock' \in {lock, "worker"} /\ UNCHANGED <<deals, orders, placed>>
    BY <1>4 DEF Reconcile
  <2> HIDE DEF o
  <2>4. actor' \in [Actors ->
          [pc : {"idle", "reconcile", "decide", "cancel", "clear", "selling", "persist", "record"},
           todo : {"none", "refresh", "sell", "stop", "add"}, snap : Rows]]
    BY <2>3, TaskStep
  <2> QED
    BY <2>2, <2>3, <2>4
<1>5. CASE NothingToReconcile
  BY <1>5 DEF NothingToReconcile, Move
<1>6. ASSUME NEW todo \in {"refresh", "sell"}, Decide(todo)
      PROVE  TypeInv'
  <2> DEFINE new == [actor["worker"] EXCEPT !.pc = "cancel", !.todo = todo]
  <2>1. /\ actor' = [actor EXCEPT !["worker"] = new]
        /\ UNCHANGED <<row, deals, orders, lock, placed, ledger, lost, requests, crashes>>
    BY <1>6 DEF Decide
  <2>2. new \in [pc : {"idle", "reconcile", "decide", "cancel", "clear", "selling", "persist",
                       "record"},
                 todo : {"none", "refresh", "sell", "stop", "add"}, snap : Rows]
    OBVIOUS
  <2> HIDE DEF new
  <2> QED
    BY <2>1, <2>2
<1>7. ASSUME NEW n \in 0 .. 1, EndTick(n)
      PROVE  TypeInv'
  BY <1>7 DEF EndTick, Done
<1>8. CASE Place
  BY <1>8 DEF Place, Move
<1>9. CASE Record
  BY <1>9 DEF Record, Done
<1>10. ASSUME NEW todo \in {"sell", "stop", "add"}, Request(todo)
       PROVE  TypeInv'
  BY <1>10 DEF Request
<1>11. ASSUME NEW a \in Actors, CancelTp(a)
       PROVE  TypeInv'
  <2> DEFINE o == row.tp
  <2>1. \/ UNCHANGED row
        \/ o \in Orders /\ (Finalize(o) \/ BookPartial(o))
    BY <1>11 DEF CancelTp
  <2>2. row' \in Rows
    BY <2>1, StatusRow
  <2>3. /\ GoOn(a) \/ Done(a) \/ Move(a, "clear")
        /\ UNCHANGED <<deals, placed>>
    BY <1>11 DEF CancelTp
  <2>4. lock' \in Actors \cup {"none"}
    BY <1>11 DEF CancelTp, GoOn
  <2>5. orders' = orders \/ orders' = [orders EXCEPT ![o].state = "canceled"]
    BY <1>11 DEF CancelTp
  <2> QED
    BY <2>2, <2>3, <2>4, <2>5, TaskStep
<1>12. ASSUME NEW a \in Actors, ClearTp(a)
       PROVE  TypeInv'
  BY <1>12 DEF ClearTp, GoOn, Move
<1>13. ASSUME NEW a \in Actors, NEW n \in 0 .. Size + MaxRequests + 1, Sell(a, n)
       PROVE  TypeInv'
  BY <1>13 DEF Sell, Done
<1>14. CASE PersistStop \/ PersistAdd
  BY <1>14 DEF PersistStop, PersistAdd, Done
<1>15. CASE Crash
  BY <1>15 DEF Crash
<1>16. CASE UNCHANGED vars
  BY <1>16 DEF vars
<1> QED
  BY <1>1, <1>2, <1>3, <1>4, <1>5, <1>6, <1>7, <1>8, <1>9, <1>10, <1>11, <1>12, <1>13,
     <1>14, <1>15, <1>16 DEF Next

-----------------------------------------------------------------------------
(***************************************************************************)
(* Who holds the lock, what the worker knows, what is still open.          *)
(***************************************************************************)
Places == LockInv /\ SnapInv /\ ClearInv /\ OrdersTracked /\ SellsAlone

\* A deal that opens, and a tick that ends, move no order.
LEMMA DealsMove ==
    ASSUME TypeInv, Places, TypeInv', OpenDeal \/ \E n \in 0 .. 1 : EndTick(n)
    PROVE  Places'
<1> USE DEF TypeInv, Rows, Actors, NoRow, Idle, Places, LockInv, SnapInv, ClearInv, Open,
            OrdersTracked, SellsAlone
<1>1. CASE OpenDeal
  BY <1>1 DEF OpenDeal
<1>2. ASSUME NEW n \in 0 .. 1, EndTick(n)
      PROVE  Places'
  BY <1>2 DEF EndTick, Done
<1> QED
  BY <1>1, <1>2

\* The exchange fills and expires what is open: fewer orders are open after it.
LEMMA ExchangeMoves ==
    ASSUME TypeInv, Places, TypeInv', NEW o \in Orders, Fill(o) \/ Expire(o)
    PROVE  Places'
<1> USE DEF TypeInv, Rows, Actors, Places, LockInv, SnapInv, ClearInv, Open,
            OrdersTracked, SellsAlone
<1>1. \A p \in Orders : orders'[p].state = "open" => orders[p].state = "open"
  <2>1. CASE Fill(o)
    BY <2>1 DEF Fill
  <2>2. CASE Expire(o)
    BY <2>2 DEF Expire
  <2> QED
    BY <2>1, <2>2
<1>2. UNCHANGED <<row, lock, actor, placed, lost>>
  BY DEF Fill, Expire
<1>3. LockInv' /\ SnapInv'
  BY <1>2
<1>4. ClearInv'
  BY <1>1, <1>2
<1>5. OrdersTracked' /\ SellsAlone'
  BY <1>1, <1>2
<1> QED
  BY <1>3, <1>4, <1>5

\* A tick or a request that sets out reads the row and takes no lock.
LEMMA TicksMove ==
    ASSUME TypeInv, Places, TypeInv',
           \/ Tick \/ NothingToReconcile
           \/ \E todo \in {"refresh", "sell"} : Decide(todo)
           \/ \E todo \in {"sell", "stop", "add"} : Request(todo)
    PROVE  Places'
  BY DEF TypeInv, Rows, Actors, Places, LockInv, SnapInv, ClearInv, Open,
         OrdersTracked, SellsAlone, Tick, NothingToReconcile, Decide, Request, Move

\* An order is placed by the worker, under the lock, and is on its way to the row;
LEMMA PlaceMoves ==
    ASSUME TypeInv, Places, TypeInv', Place
    PROVE  Places'
  BY DEF TypeInv, Rows, Actors, Places, LockInv, SnapInv, ClearInv, Open,
         OrdersTracked, SellsAlone, Place, Move

\* then the row names it, or it is noted as lost.
LEMMA RecordMoves ==
    ASSUME TypeInv, Places, TypeInv', Record
    PROVE  Places'
  BY DEF TypeInv, Rows, Actors, Idle, Places, LockInv, SnapInv, ClearInv, Open,
         OrdersTracked, SellsAlone, Record, Done

\* A deal that is stopped and one that is added to: the request holds no lock.
LEMMA DashMoves ==
    ASSUME TypeInv, Places, TypeInv', PersistStop \/ PersistAdd
    PROVE  Places'
  BY DEF TypeInv, Rows, Actors, NoRow, Idle, Places, LockInv, SnapInv, ClearInv, Open,
         OrdersTracked, SellsAlone, PersistStop, PersistAdd, Done

\* A crash forgets the tasks; an order on its way to the row is lost, and noted.
LEMMA CrashMoves ==
    ASSUME TypeInv, Places, TypeInv', Crash
    PROVE  Places'
  BY DEF TypeInv, Rows, Actors, Idle, Places, LockInv, SnapInv, ClearInv, Open,
         OrdersTracked, SellsAlone, Crash

\* The worker reads the status of its order, books it, and clears or ends.
LEMMA ReconcileMoves ==
    ASSUME TypeInv, Places, TypeInv', Reconcile
    PROVE  Places'
<1> DEFINE o == actor["worker"].snap.tp
<1>1. o \in Orders /\ (Finalize(o) \/ BookPartial(o))
  BY DEF Reconcile, TypeInv, Rows, Actors
<1>2. row'.tp \in {0, row.tp} /\ (row.deal = 0 => row' = NoRow)
      /\ (row' = NoRow \/ row'.deal = row.deal)
  BY <1>1, StatusRow DEF Places, SnapInv
<1>3. row.tp \in {0, o} /\ ~Open(o)
  BY DEF Reconcile, Places, SnapInv, Open
<1>4. /\ lock = "none" /\ UNCHANGED <<orders, placed, lost>>
      /\ \/ Done("worker") /\ lock' = lock
         \/ Move("worker", "clear") /\ lock' = "worker"
  BY DEF Reconcile
<1>5. \A a \in Actors \ {"worker"} : actor'[a] = actor[a]
  BY <1>4 DEF TypeInv, Done, Move
<1>6. \/ actor'["worker"] = Idle /\ lock' = "none"
      \/ actor'["worker"] = [actor["worker"] EXCEPT !.pc = "clear"] /\ lock' = "worker"
  BY <1>4 DEF TypeInv, Actors, Done, Move
<1> HIDE DEF o
<1>7. placed = 0 /\ \A a \in Actors : actor[a].pc \notin {"clear", "selling", "record"}
  BY <1>4 DEF Places, LockInv, Actors
<1>8. actor'["worker"].pc \in {"idle", "clear"} /\ actor["worker"].pc = "reconcile"
  BY <1>6 DEF TypeInv, Actors, Idle, Reconcile
<1>9. LockInv'
  <2>1. /\ actor'["dash"] = actor["dash"] /\ placed' = 0
        /\ actor'["worker"].pc = "clear" => lock' = "worker"
    BY <1>4, <1>5, <1>6, <1>7 DEF Actors, Idle
  <2>2. \A a \in Actors : actor'[a].pc \in {"clear", "selling", "record"} => lock' = a
    BY <1>5, <1>7, <1>8, <2>1 DEF Actors
  <2>3. actor'["dash"].pc # "record"
    BY <1>7, <2>1 DEF Actors
  <2> QED
    BY <2>1, <2>2, <2>3 DEF LockInv
<1>10. SnapInv'
  BY <1>2, <1>4, <1>6, <1>8 DEF TypeInv, Rows, Actors, Idle, NoRow, Places, SnapInv
<1>11. ClearInv'
  BY <1>2, <1>3, <1>4, <1>5, <1>7, <1>8 DEF ClearInv, Open, Actors
<1>12. OrdersTracked'
  BY <1>1, <1>2, <1>3, <1>4 DEF Places, OrdersTracked, Open
<1>13. SellsAlone'
  BY <1>5, <1>7, <1>8 DEF SellsAlone, Actors
<1> QED
  BY <1>9, <1>10, <1>11, <1>12, <1>13 DEF Places

\* A sale that goes on has found every order forgotten or unable to fill.
LEMMA GoOnMoves ==
    ASSUME TypeInv, Places, TypeInv', NEW a \in Actors, GoOn(a), row'.tp = 0,
           actor[a].pc \in {"cancel", "clear"}, lock \in {"none", a},
           row.tp # 0 => ~Open(row.tp),
           row' = [row EXCEPT !.tp = 0],
           UNCHANGED <<orders, placed, lost>>
    PROVE  Places'
<1>1. placed = 0 /\ \A b \in Actors \ {a} : actor[b].pc \notin {"clear", "selling", "record"}
  BY DEF Places, LockInv, Actors
<1>2. /\ \A b \in Actors \ {a} : actor'[b] = actor[b]
      /\ actor'[a].pc \in {"selling", "decide", "persist"}
      /\ actor'[a].pc = "selling" => lock' = a
  BY DEF TypeInv, GoOn
<1>3. LockInv'
  BY <1>1, <1>2 DEF LockInv, Actors
<1>4. SnapInv'
  BY <1>2 DEF TypeInv, Rows, NoRow, Actors, Places, SnapInv
<1>5. ClearInv'
  BY <1>1, <1>2 DEF ClearInv, Actors
<1>6. \A o \in Orders : Open(o) => o \in lost
  BY <1>1 DEF Places, OrdersTracked, Open, Orders
<1>7. OrdersTracked' /\ SellsAlone'
  BY <1>6 DEF OrdersTracked, SellsAlone, Open
<1> QED
  BY <1>3, <1>4, <1>5, <1>7 DEF Places

\* A cancellation books what filled, and only then is the order canceled under the lock.
LEMMA CancelMoves ==
    ASSUME TypeInv, Places, TypeInv', NEW a \in Actors, CancelTp(a)
    PROVE  Places'
<1>1. CASE row.tp = 0 /\ GoOn(a)
  BY <1>1, GoOnMoves DEF CancelTp, TypeInv, Rows
<1>2. CASE row.tp # 0 /\ ~Open(row.tp) /\ Finalize(row.tp) /\ Done(a) /\ UNCHANGED <<orders, lock>>
  <2>1. /\ row'.tp \in {0, row.tp} /\ (row.deal = 0 => row' = NoRow)
        /\ lock = "none" /\ UNCHANGED <<placed, lost>>
    BY <1>2, StatusRow DEF CancelTp, TypeInv, Rows, Places, SnapInv
  <2>2. /\ actor'[a] = Idle /\ \A b \in Actors \ {a} : actor'[b] = actor[b]
        /\ placed = 0 /\ \A b \in Actors : actor[b].pc \notin {"clear", "selling", "record"}
    BY <1>2, <2>1 DEF Done, TypeInv, Places, LockInv, Actors
  <2>3. LockInv' /\ ClearInv' /\ SellsAlone'
    BY <2>1, <2>2, <1>2 DEF LockInv, ClearInv, SellsAlone, Actors, Idle
  <2>4. OrdersTracked'
    BY <2>1, <1>2 DEF Places, OrdersTracked, Open
  <2>5. row' = NoRow \/ row'.deal = row.deal
    BY <1>2, StatusRow DEF TypeInv, Rows
  <2>6. SnapInv'
    BY <2>1, <2>2, <2>5 DEF TypeInv, Rows, NoRow, Actors, Idle, Places, SnapInv
  <2> QED
    BY <2>3, <2>4, <2>6 DEF Places
<1>3. CASE /\ row.tp # 0 /\ BookPartial(row.tp)
           /\ orders' = [orders EXCEPT ![row.tp].state = "canceled"]
           /\ lock' = a /\ Move(a, "clear")
  <2>1. /\ row'.tp = row.tp /\ (row.deal = 0 => row' = NoRow) /\ (row' = NoRow \/ row'.deal = row.deal)
        /\ lock = "none" /\ UNCHANGED <<placed, lost>>
    BY <1>3, StatusRow DEF CancelTp, BookPartial, TypeInv, Rows, Places, SnapInv
  <2>2. \A o \in Orders : Open(o)' => Open(o)
    BY <1>3 DEF Open, TypeInv
  <2>3. ~Open(row.tp)'
    BY <1>3, <2>1 DEF Open, TypeInv, Rows
  <2>4. /\ actor'[a] = [actor[a] EXCEPT !.pc = "clear"]
        /\ \A b \in Actors \ {a} : actor'[b] = actor[b]
        /\ placed = 0 /\ \A b \in Actors : actor[b].pc \notin {"clear", "selling", "record"}
    BY <1>3, <2>1 DEF Move, TypeInv, Places, LockInv, Actors
  <2>5. /\ actor'[a].pc = "clear" /\ actor'[a].snap = actor[a].snap
        /\ actor[a].pc = "cancel"
    BY <2>4 DEF TypeInv, CancelTp
  <2>6. LockInv'
    BY <1>3, <2>1, <2>4, <2>5 DEF LockInv, Actors
  <2>7. ClearInv'
    BY <2>1, <2>3 DEF ClearInv
  <2>8. OrdersTracked'
    BY <2>1, <2>2 DEF Places, OrdersTracked, Open
  <2>9. SellsAlone'
    BY <2>4, <2>5 DEF SellsAlone
  <2>10. SnapInv'
    BY <2>1, <2>4, <2>5 DEF TypeInv, Rows, NoRow, Actors, Places, SnapInv
  <2> QED
    BY <2>6, <2>7, <2>8, <2>9, <2>10 DEF Places
<1>4. CASE Done(a) /\ UNCHANGED <<row, orders, lock>>
  BY <1>4 DEF CancelTp, TypeInv, Rows, Actors, Idle, Places, LockInv, SnapInv, ClearInv, Open,
              OrdersTracked, SellsAlone, Done
<1> QED
  BY <1>1, <1>2, <1>3, <1>4 DEF CancelTp, Open

\* The row forgets an order that is no longer open.
LEMMA ClearMoves ==
    ASSUME TypeInv, Places, TypeInv', NEW a \in Actors, ClearTp(a)
    PROVE  Places'
<1>1. lock = a /\ (row.tp # 0 => ~Open(row.tp))
  BY DEF ClearTp, Places, LockInv, ClearInv
<1>2. CASE GoOn(a)
  BY <1>1, <1>2, GoOnMoves DEF ClearTp, TypeInv, Rows
<1>3. CASE lock' = "none" /\ Move(a, "decide")
  BY <1>1, <1>3
  DEF ClearTp, TypeInv, Rows, NoRow, Actors, Places, LockInv, SnapInv, ClearInv, Open,
      OrdersTracked, SellsAlone, Move
<1> QED
  BY <1>2, <1>3 DEF ClearTp

\* A sale holds the lock: no other task sells, and no known order is open.
LEMMA SellMoves ==
    ASSUME TypeInv, Places, TypeInv', NEW a \in Actors,
           NEW n \in 0 .. Size + MaxRequests + 1, Sell(a, n)
    PROVE  Places'
<1>1. lock = a /\ placed = 0 /\ \A b \in Actors \ {a} : actor[b].pc \notin {"clear", "selling", "record"}
  BY DEF Sell, Places, LockInv, Actors
<1>2. \A o \in Orders : Open(o) => o \in lost
  BY DEF Sell, Places, SellsAlone, Open
<1>3. row'.tp \in {0, row.tp} /\ (row.deal = 0 => row' = NoRow)
  BY DEF Sell, TypeInv, Rows, NoRow, Places, SnapInv
<1>4. OrdersTracked' /\ SellsAlone'
  BY <1>2 DEF Sell, OrdersTracked, SellsAlone, Open
<1>5. /\ actor'[a] = Idle /\ \A b \in Actors \ {a} : actor'[b] = actor[b]
      /\ lock' = "none" /\ UNCHANGED <<orders, placed>>
  BY DEF Sell, Done, TypeInv
<1>6. LockInv' /\ ClearInv'
  BY <1>1, <1>5 DEF LockInv, ClearInv, Actors, Idle
<1>7. row' = NoRow \/ row'.deal = row.deal
  BY DEF Sell, TypeInv, Rows
<1>8. SnapInv'
  BY <1>3, <1>5, <1>7 DEF TypeInv, Rows, NoRow, Actors, Idle, Places, SnapInv
<1> QED
  BY <1>4, <1>6, <1>8 DEF Places

-----------------------------------------------------------------------------
\* Every step preserves the invariant of the standing order.
LEMMA OrderStep ==
    ASSUME Size \in Nat, MaxRequests \in Nat, OrderInv, [Next]_vars
    PROVE  OrderInv'
<1>1. TypeInv /\ Places /\ TypeInv'
  BY TypeStep DEF OrderInv, Places
<1>2. CASE UNCHANGED vars
  BY <1>1, <1>2 DEF vars, Places, LockInv, SnapInv, ClearInv, Open, OrdersTracked, SellsAlone,
                    OrderInv
<1>3. CASE Next
  <2>1. Places'
    BY <1>1, <1>3, DealsMove, ExchangeMoves, TicksMove, PlaceMoves, RecordMoves, DashMoves,
       CrashMoves, ReconcileMoves, CancelMoves, ClearMoves, SellMoves DEF Next
  <2> QED
    BY <1>1, <2>1 DEF OrderInv, Places
<1> QED
  BY <1>2, <1>3

\* A take-profit order that may still fill is named by its row or about to be, or was lost in
\* one of the named ways (orders.py), for any number of orders and crashes.
THEOREM OrdersAreTracked ==
    ASSUME Size \in Nat, MaxRequests \in Nat
    PROVE  Spec => []OrdersTracked
<1>1. OrderInv => OrdersTracked
  BY DEF OrderInv
<1> QED
  BY OrderInit, OrderStep, <1>1, PTL DEF Spec

\* No sale is made while a tracked take-profit order still holds the coins (orders.py).
THEOREM SellsAreAlone ==
    ASSUME Size \in Nat, MaxRequests \in Nat
    PROVE  Spec => []SellsAlone
<1>1. OrderInv => SellsAlone
  BY DEF OrderInv
<1> QED
  BY OrderInit, OrderStep, <1>1, PTL DEF Spec

-----------------------------------------------------------------------------
(***************************************************************************)
(* BookedOnce. An order that the row names, or is about to name, has not    *)
(* been booked, except while the task that booked it still has to forget it; *)
(* a second booking needs a row that has moved on, or a crash in between.    *)
(***************************************************************************)
Clearing == \E a \in Actors : actor[a].pc = "clear"

Unbooked(o) == closings[o] = 0 /\ booked[o] = 0

BookInv ==
    /\ closings \in [Orders -> Nat] /\ booked \in [Orders -> Nat]
    /\ \A o \in Orders : orders[o].state = "filled" => orders[o].filled = orders[o].amount
    /\ \A o \in Orders \ stale :
          /\ \/ closings[o] = 0 /\ booked[o] <= orders[o].filled
             \/ closings[o] = 1 /\ booked[o] = 0 /\ orders[o].amount <= orders[o].filled
          /\ orders[o].state = "none" \/ placed = o \/ (row.tp = o /\ ~Clearing) => Unbooked(o)

\* Nothing is booked at first.
LEMMA BookInit == Init => BookInv
  BY DEF Init, BookInv, Unbooked, Clearing, NoOrder, NoRow, Idle, Actors

\* Steps that book nothing: the row keeps its order, forgets it or takes the one placed.
LEMMA NothingBooked ==
    ASSUME TypeInv, TypeInv', BookInv, UNCHANGED ledger,
           \A o \in Orders :
               /\ orders'[o].amount = orders[o].amount /\ orders'[o].filled >= orders[o].filled
               /\ orders'[o].state = "none" => orders[o].state = "none"
               /\ orders'[o].state = "filled" => orders'[o].filled = orders'[o].amount,
           placed' \in {0, placed},
           \/ row'.tp = 0 \/ row'.tp = placed
           \/ row'.tp = row.tp /\ (Clearing => Clearing')
    PROVE  BookInv'
<1>1. closings' = closings /\ booked' = booked /\ stale' = stale
  BY DEF ledger
<1>2. ASSUME NEW o \in Orders \ stale,
             orders'[o].state = "none" \/ placed' = o \/ (row'.tp = o /\ ~Clearing')
      PROVE  Unbooked(o)
  BY <1>2 DEF BookInv, Orders
<1>3. ASSUME NEW o \in Orders \ stale
      PROVE  \/ closings[o] = 0 /\ booked[o] <= orders'[o].filled
             \/ closings[o] = 1 /\ booked[o] = 0 /\ orders'[o].amount <= orders'[o].filled
  BY <1>3 DEF BookInv, TypeInv
<1> QED
  BY <1>1, <1>2, <1>3 DEF BookInv, Unbooked

\* The one booking: an order that was not booked before, or is noted as stale.
LEMMA StatusBooked ==
    ASSUME TypeInv, BookInv, NEW o \in Orders, Unbooked(o) \/ o \in stale',
           \/ Finalize(o) /\ orders[o].state = "filled"
           \/ BookPartial(o) /\ UNCHANGED closings
    PROVE  /\ closings' \in [Orders -> Nat] /\ booked' \in [Orders -> Nat]
           /\ \A q \in Orders \ {o} : closings'[q] = closings[q] /\ booked'[q] = booked[q]
           /\ o \notin stale' =>
                 \/ closings'[o] = 0 /\ booked'[o] <= orders[o].filled
                 \/ closings'[o] = 1 /\ booked'[o] = 0 /\ orders[o].amount <= orders[o].filled
<1> USE DEF TypeInv, BookInv, Unbooked
<1>1. CASE UNCHANGED <<closings, booked>>
  BY <1>1
<1>2. CASE closings' = [closings EXCEPT ![o] = @ + 1] /\ UNCHANGED booked /\ orders[o].state = "filled"
  BY <1>2
<1>3. CASE booked' = [booked EXCEPT ![o] = @ + orders[o].filled] /\ UNCHANGED closings
  BY <1>3
<1> QED
  BY <1>1, <1>2, <1>3 DEF Finalize, BookPartial

\* A step that books a status keeps the ledger: the order was not booked, or is stale.
LEMMA BookedStep ==
    ASSUME TypeInv, BookInv, NEW o \in Orders, Unbooked(o) \/ o \in stale',
           \/ Finalize(o) /\ orders[o].state = "filled"
           \/ BookPartial(o) /\ UNCHANGED closings,
           stale \subseteq stale', placed = 0, placed' = 0,
           row'.tp \in {0, o}, row'.tp = o => Clearing',
           \A q \in Orders :
               /\ orders'[q].amount = orders[q].amount /\ orders'[q].filled = orders[q].filled
               /\ orders'[q].state = "none" => orders[q].state = "none" /\ q # o
               /\ orders'[q].state = "filled" => orders'[q].filled = orders'[q].amount
    PROVE  BookInv'
<1>1. /\ closings' \in [Orders -> Nat] /\ booked' \in [Orders -> Nat]
      /\ \A q \in Orders \ {o} : closings'[q] = closings[q] /\ booked'[q] = booked[q]
      /\ o \notin stale' =>
            \/ closings'[o] = 0 /\ booked'[o] <= orders[o].filled
            \/ closings'[o] = 1 /\ booked'[o] = 0 /\ orders[o].amount <= orders[o].filled
  BY StatusBooked
<1>2. ASSUME NEW q \in Orders \ stale', q # o
      PROVE  /\ \/ closings'[q] = 0 /\ booked'[q] <= orders'[q].filled
                \/ closings'[q] = 1 /\ booked'[q] = 0 /\ orders'[q].amount <= orders'[q].filled
             /\ orders'[q].state = "none" => Unbooked(q)'
  <2>1. q \in Orders \ stale /\ closings'[q] = closings[q] /\ booked'[q] = booked[q]
    BY <1>1, <1>2
  <2> QED
    BY <1>2, <2>1 DEF BookInv, Unbooked
<1>3. ASSUME NEW q \in Orders \ stale',
             placed' = q \/ (row'.tp = q /\ ~Clearing')
      PROVE  FALSE
  BY <1>3 DEF Orders
<1>4. orders'[o].state # "none"
  OBVIOUS
<1> QED
  BY <1>1, <1>2, <1>3, <1>4 DEF BookInv

\* A new order has booked nothing.
LEMMA PlaceBooks ==
    ASSUME TypeInv, TypeInv', Places, BookInv, Place
    PROVE  BookInv'
<1>1. PICK o \in Orders :
          /\ orders[o].state = "none"
          /\ orders' = [orders EXCEPT ![o] =
                 [amount |-> actor["worker"].snap.held - actor["worker"].snap.sold,
                  filled |-> 0, state |-> "open"]]
          /\ placed' = o
  BY DEF Place
<1>2. /\ UNCHANGED <<row, closings, booked, stale>> /\ ~Clearing /\ placed = 0
  BY DEF Place, ledger, Clearing, Places, LockInv, Actors
<1>3. o \notin stale => Unbooked(o)
  BY <1>1 DEF BookInv
<1>4. orders'[o].filled = 0 /\ orders'[o].state = "open"
      /\ \A q \in Orders \ {o} : orders'[q] = orders[q]
  BY <1>1 DEF TypeInv
<1>5. \A q \in Orders : orders'[q].state = "filled" => orders'[q].filled = orders'[q].amount
  BY <1>4 DEF BookInv
<1>6. ASSUME NEW q \in Orders \ stale
      PROVE  /\ \/ closings[q] = 0 /\ booked[q] <= orders'[q].filled
                \/ closings[q] = 1 /\ booked[q] = 0 /\ orders'[q].amount <= orders'[q].filled
             /\ orders'[q].state = "none" \/ placed' = q \/ row'.tp = q => Unbooked(q)
  BY <1>1, <1>2, <1>3, <1>4, <1>6 DEF BookInv, Unbooked
<1> QED
  BY <1>2, <1>5, <1>6 DEF BookInv, Unbooked

\* A crash between booking and clearing is noted as stale.
LEMMA CrashBooks ==
    ASSUME TypeInv, BookInv, Crash
    PROVE  BookInv'
<1>1. /\ UNCHANGED <<row, orders, closings, booked>> /\ placed' = 0
      /\ stale \subseteq stale' /\ (Clearing /\ row.tp # 0 => row.tp \in stale')
  BY DEF Crash, Clearing
<1> QED
  BY <1>1 DEF BookInv, Unbooked, Orders

\* A reconciliation books an order of the row, or one that it notes as stale.
LEMMA ReconcileBooks ==
    ASSUME TypeInv, Places, BookInv, Reconcile
    PROVE  BookInv'
<1> DEFINE o == actor["worker"].snap.tp
<1>1. /\ o \in Orders /\ lock = "none" /\ UNCHANGED <<orders, placed>>
      /\ stale' = IF row.tp = o THEN stale ELSE stale \union {o}
      /\ \/ Finalize(o) /\ orders[o].state = "filled"
         \/ BookPartial(o) /\ UNCHANGED closings /\ Move("worker", "clear")
              /\ orders[o].state = "canceled"
  BY DEF Reconcile, Remember, TypeInv, Rows, Actors
<1>2. row.tp \in {0, o}
  BY DEF Reconcile, Places, SnapInv
<1> HIDE DEF o
<1>3. ~Clearing /\ placed = 0
  BY <1>1 DEF Clearing, Places, LockInv, Actors
<1>4. Unbooked(o) \/ o \in stale'
  BY <1>1, <1>3 DEF BookInv
<1>5. CASE Finalize(o) /\ orders[o].state = "filled"
  <2>1. row'.tp = 0
    BY <1>1, <1>5, FinalizedRow
  <2> QED
    BY <1>1, <1>3, <1>4, <1>5, <2>1, BookedStep DEF BookInv, Orders
<1>6. CASE BookPartial(o) /\ UNCHANGED closings /\ Move("worker", "clear")
           /\ orders[o].state = "canceled"
  <2>1. row'.tp \in {0, o}
    BY <1>1, <1>2, <1>6, StatusRow
  <2>2. Clearing'
    BY <1>6 DEF Clearing, Move, TypeInv, Actors
  <2> QED
    BY <1>1, <1>3, <1>4, <1>6, <2>1, <2>2, BookedStep DEF BookInv
<1> QED
  BY <1>1, <1>5, <1>6

\* A cancellation books what the order had filled, once.
LEMMA CancelBooks ==
    ASSUME TypeInv, TypeInv', Places, BookInv, NEW a \in Actors, CancelTp(a)
    PROVE  BookInv'
<1> DEFINE o == row.tp
<1>1. /\ ~Clearing /\ placed = 0 /\ UNCHANGED <<placed, stale>> /\ o \in Orders \cup {0}
  BY DEF CancelTp, Clearing, Places, LockInv, Actors, TypeInv, Rows
<1>2. o \in Orders => Unbooked(o) \/ o \in stale'
  BY <1>1 DEF BookInv
<1>3. CASE UNCHANGED <<row, orders, closings, booked>>
  BY <1>1, <1>3 DEF BookInv, Unbooked
<1>4. CASE o # 0 /\ Finalize(o) /\ orders[o].state = "filled" /\ UNCHANGED orders
  <2>1. row'.tp = 0
    BY <1>1, <1>4, FinalizedRow DEF Orders
  <2> QED
    BY <1>1, <1>2, <1>4, <2>1, BookedStep DEF BookInv, Orders
<1>5. CASE /\ o # 0 /\ BookPartial(o) /\ UNCHANGED closings /\ Move(a, "clear")
           /\ orders' = [orders EXCEPT ![o].state = "canceled"]
  <2>1. row'.tp \in {0, o}
    BY <1>1, <1>5, StatusRow
  <2>2. Clearing'
    BY <1>5 DEF Clearing, Move, TypeInv
  <2>3. \A q \in Orders :
            /\ orders'[q].amount = orders[q].amount /\ orders'[q].filled = orders[q].filled
            /\ orders'[q].state = "none" => orders[q].state = "none" /\ q # o
            /\ orders'[q].state = "filled" => orders'[q].filled = orders'[q].amount
    BY <1>1, <1>5 DEF TypeInv, BookInv
  <2> QED
    BY <1>1, <1>2, <1>5, <2>1, <2>2, <2>3, BookedStep
<1> QED
  BY <1>1, <1>3, <1>4, <1>5 DEF CancelTp

\* Every step preserves the invariant of the ledger.
LEMMA BookStep ==
    ASSUME TypeInv, TypeInv', Places, BookInv, [Next]_vars
    PROVE  BookInv'
<1> USE DEF ledger
<1>1. CASE OpenDeal \/ PersistStop \/ \E n \in 0 .. 1 : EndTick(n)
  BY <1>1, NothingBooked
  DEF OpenDeal, PersistStop, EndTick, Done, NoRow, Idle, TypeInv, Rows, Actors, BookInv, Clearing
<1>2. ASSUME NEW o \in Orders, Fill(o) \/ Expire(o)
      PROVE  BookInv'
  <2>1. /\ UNCHANGED <<row, actor, placed>> /\ UNCHANGED ledger
    BY <1>2 DEF Fill, Expire
  <2>2. \A q \in Orders :
            /\ orders'[q].amount = orders[q].amount /\ orders'[q].filled >= orders[q].filled
            /\ orders'[q].state = "none" => orders[q].state = "none"
            /\ orders'[q].state = "filled" => orders'[q].filled = orders'[q].amount
    BY <1>2 DEF Fill, Expire, TypeInv, BookInv
  <2> QED
    BY <2>1, <2>2, NothingBooked DEF Clearing
<1>3. CASE \/ Tick \/ NothingToReconcile
           \/ \E todo \in {"refresh", "sell"} : Decide(todo)
           \/ \E todo \in {"sell", "stop", "add"} : Request(todo)
  BY <1>3, NothingBooked
  DEF Tick, NothingToReconcile, Decide, Request, Move, TypeInv, Rows, Actors, BookInv, Clearing
<1>4. CASE PersistAdd
  BY <1>4, NothingBooked
  DEF PersistAdd, Done, Idle, TypeInv, Rows, Actors, BookInv, Clearing
<1>5. CASE Record
  <2>1. row'.tp = placed \/ row' = row
    BY <1>5 DEF Record, TypeInv, Rows
  <2>2. \A q \in Orders :
            /\ orders'[q].amount = orders[q].amount /\ orders'[q].filled >= orders[q].filled
            /\ orders'[q].state = "none" => orders[q].state = "none"
            /\ orders'[q].state = "filled" => orders'[q].filled = orders'[q].amount
    BY <1>5 DEF Record, TypeInv, BookInv
  <2>3. Clearing => Clearing'
    BY <1>5 DEF Record, Clearing, Done, TypeInv
  <2> QED
    BY <1>5, <2>1, <2>2, <2>3, NothingBooked DEF Record
<1>6. ASSUME NEW a \in Actors, ClearTp(a)
      PROVE  BookInv'
  BY <1>6, NothingBooked DEF ClearTp, TypeInv, Rows, BookInv
<1>7. ASSUME NEW a \in Actors, NEW n \in 0 .. Size + MaxRequests + 1, Sell(a, n)
      PROVE  BookInv'
  <2>1. row'.tp \in {0, row.tp} /\ UNCHANGED <<orders, placed>> /\ UNCHANGED ledger
    BY <1>7 DEF Sell, NoRow, TypeInv, Rows
  <2>2. Clearing => Clearing'
    BY <1>7 DEF Sell, Done, Clearing, TypeInv
  <2> QED
    BY <2>1, <2>2, NothingBooked DEF TypeInv, BookInv
<1>8. CASE UNCHANGED vars
  BY <1>8 DEF vars, BookInv, Unbooked, Clearing
<1> QED
  BY <1>1, <1>2, <1>3, <1>4, <1>5, <1>6, <1>7, <1>8, PlaceBooks, CrashBooks, ReconcileBooks,
     CancelBooks DEF Next

\* An order that was closed once has no partial fill on the books.
LEMMA OnceBooked == OrderInv /\ BookInv => BookedOnce
<1> SUFFICES ASSUME OrderInv, BookInv, NEW o \in Orders \ stale
             PROVE  closings[o] * orders[o].amount + booked[o] <= orders[o].filled
  BY DEF BookedOnce
<1>1. orders[o].amount \in Nat /\ orders[o].filled \in Nat /\ booked[o] \in Nat
  BY DEF OrderInv, TypeInv, BookInv
<1>2. CASE closings[o] = 0 /\ booked[o] <= orders[o].filled
  BY <1>1, <1>2
<1>3. CASE closings[o] = 1 /\ booked[o] = 0 /\ orders[o].amount <= orders[o].filled
  BY <1>1, <1>3
<1> QED
  BY <1>2, <1>3 DEF BookInv

\* What an order sold enters the books once, unless it was reconciled for a row that had moved
\* on or a crash fell between the booking and the clearing (orders.py).
THEOREM FillsAreBookedOnce ==
    ASSUME Size \in Nat, MaxRequests \in Nat
    PROVE  Spec => []BookedOnce
<1>1. Init => OrderInv /\ BookInv
  BY OrderInit, BookInit
<1>2. OrderInv /\ BookInv /\ [Next]_vars => (OrderInv /\ BookInv)'
  <2> SUFFICES ASSUME OrderInv, BookInv, [Next]_vars
               PROVE  (OrderInv /\ BookInv)'
    OBVIOUS
  <2>1. OrderInv'
    BY OrderStep
  <2>2. BookInv'
    BY <2>1, BookStep DEF OrderInv, Places
  <2> QED
    BY <2>1, <2>2
<1>3. OrderInv /\ BookInv => BookedOnce
  BY OnceBooked
<1> QED
  BY <1>1, <1>2, <1>3, PTL DEF Spec
=================================================================================
