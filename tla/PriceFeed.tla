------------------------------ MODULE PriceFeed ------------------------------
(***************************************************************************)
(* From a price on the exchange to a DCA tick and a stored candle: the     *)
(* event queue, the coalescing queue of the DCA worker and the candle      *)
(* writer of Watcher.                                                      *)
(*                                                                         *)
(* Every queue operation happens between two awaits of one event loop, so  *)
(* taking a symbol off the DCA queue and popping its payload is one step.  *)
(***************************************************************************)
EXTENDS Integers, Sequences, FiniteSets

CONSTANTS
    Symbols,
    Prices,        \* what a trade may cost; 0 is no price
    Times,         \* candle timestamps, 1 .. n
    DcaQueueSize,  \* DCA_QUEUE_MAXSIZE
    CandleQueueSize, \* OHLCV_QUEUE_MAXSIZE
    BatchSize,     \* OHLCV_BATCH_SIZE
    MaxTrades      \* bound: trades the exchange reports

VARIABLES
    now,       \* the candle the exchange is in
    trades,    \* how many trades it has reported
    last,      \* last_price
    events,    \* event_queue
    pending,   \* _pending_dca_payloads, 0 where there is none
    queued,    \* _queued_dca_symbols
    dcaQueue,
    worker,    \* the DCA worker: the symbol it ticks, "idle" or "dead"
    ticked,    \* the price of the last tick a symbol got
    candles,   \* the live candle of each symbol
    candleQueue,
    buffer,    \* what the candle writer has taken off its queue
    tickers,   \* the rows of Tickers the feed wrote
    handled    \* the prices each symbol's candles were built from

vars == <<now, trades, last, events, pending, queued, dcaQueue, worker, ticked,
          candles, candleQueue, buffer, tickers, handled>>

feed == <<now, trades, last>>
ticks == <<pending, queued, dcaQueue, worker, ticked>>
history == <<candles, candleQueue, buffer, tickers, handled>>

NoCandle == [time |-> 0, high |-> 0, low |-> 0, close |-> 0]

Init ==
    /\ now = 1 /\ trades = 0
    /\ last = [s \in Symbols |-> 0]
    /\ events = <<>>
    /\ pending = [s \in Symbols |-> 0]
    /\ queued = {} /\ dcaQueue = <<>> /\ worker = "idle"
    /\ ticked = [s \in Symbols |-> 0]
    /\ candles = [s \in Symbols |-> NoCandle]
    /\ candleQueue = <<>> /\ buffer = <<>> /\ tickers = <<>>
    /\ handled = [s \in Symbols |-> [t \in Times |-> {}]]

-----------------------------------------------------------------------------
(***************************************************************************)
(* watch_symbol and push_event, one read of a symbol's stream.             *)
(***************************************************************************)
Clock ==
    /\ now + 1 \in Times
    /\ now' = now + 1
    /\ UNCHANGED <<trades, last, events, ticks, history>>

\* An event carries the candle of the trade's own time; a late trade has an older one.
Trade(s, p, t) ==
    /\ trades < MaxTrades /\ t <= now
    /\ trades' = trades + 1
    /\ last' = [last EXCEPT ![s] = p]
    /\ events' = IF last[s] = p THEN events
                 ELSE Append(events, [symbol |-> s, price |-> p, time |-> t])
    /\ UNCHANGED <<now, ticks, history>>

-----------------------------------------------------------------------------
(***************************************************************************)
(* process_events: queue_dca_payload, then prepare_ohlcv_write.            *)
(***************************************************************************)
\* A mistake: a symbol that waits in the queue keeps the price it was queued with.
KeepFirstPayload(s, p) ==
    IF s \in queued THEN UNCHANGED <<pending, queued, dcaQueue>>
    ELSE /\ Len(dcaQueue) < DcaQueueSize
         /\ pending' = [pending EXCEPT ![s] = p]
         /\ queued' = queued \union {s}
         /\ dcaQueue' = Append(dcaQueue, s)

QueueDcaPayload(s, p) ==
    \/ /\ s \in queued
       /\ pending' = [pending EXCEPT ![s] = p]
       /\ UNCHANGED <<queued, dcaQueue>>
    \/ /\ s \notin queued /\ Len(dcaQueue) < DcaQueueSize
       /\ pending' = [pending EXCEPT ![s] = p]
       /\ queued' = queued \union {s}
       /\ dcaQueue' = Append(dcaQueue, s)
    \/ \* QueueFull: the event is dropped together with its payload.
       /\ s \notin queued /\ Len(dcaQueue) >= DcaQueueSize
       /\ pending' = [pending EXCEPT ![s] = 0]
       /\ UNCHANGED <<queued, dcaQueue>>

Larger(a, b) == IF a >= b THEN a ELSE b
Smaller(a, b) == IF a <= b THEN a ELSE b

\* A mistake: the newer of two candles of the same minute replaces the older.
LatestCandle(old, new) == new

\* merge_candle, without the volume
Merge(old, new) ==
    [old EXCEPT !.high = Larger(@, new.high), !.low = Smaller(@, new.low),
                !.close = new.close]

\* A mistake: every event closes the candle before it.
RollAlways(old, new) == new.time > 0 /\ old.time > 0

Rolls(old, new) == old.time > 0 /\ old.time < new.time

\* queue_bounded_payload drops a closed candle that finds its queue full.
QueueBounded(queue, row) ==
    IF Len(queue) < CandleQueueSize THEN Append(queue, row) ELSE queue

HandleEvent ==
    /\ events # <<>>
    /\ LET e == Head(events)
           s == e.symbol
           old == candles[s]
           new == [time |-> e.time, high |-> e.price, low |-> e.price, close |-> e.price]
           row == [symbol |-> s, candle |-> old]
       IN  /\ QueueDcaPayload(s, e.price)
           /\ candles' = [candles EXCEPT ![s] =
                 IF old.time < new.time THEN new
                 ELSE IF old.time = new.time THEN Merge(old, new) ELSE old]
           /\ candleQueue' =
                 IF Rolls(old, new) THEN QueueBounded(candleQueue, row) ELSE candleQueue
           /\ handled' = IF old.time > new.time THEN handled
                         ELSE [handled EXCEPT ![s][e.time] = @ \union {e.price}]
    /\ events' = Tail(events)
    /\ UNCHANGED <<feed, worker, ticked, buffer, tickers>>

-----------------------------------------------------------------------------
(***************************************************************************)
(* _process_dca_queue: one worker, one tick at a time.                     *)
(***************************************************************************)
\* pop_pending_dca_payload; a symbol without a payload is passed over.
TakeTick ==
    /\ worker = "idle" /\ dcaQueue # <<>>
    /\ LET s == Head(dcaQueue)
       IN  /\ queued' = queued \ {s}
           /\ pending' = [pending EXCEPT ![s] = 0]
           /\ worker' = IF pending[s] = 0 THEN "idle" ELSE s
           /\ ticked' = IF pending[s] = 0 THEN ticked ELSE [ticked EXCEPT ![s] = pending[s]]
    /\ dcaQueue' = Tail(dcaQueue)
    /\ UNCHANGED <<feed, events, history>>

TickEnds ==
    /\ worker \in Symbols
    /\ worker' = "idle"
    /\ UNCHANGED <<feed, events, pending, queued, dcaQueue, ticked, history>>

\* An error the loop does not catch ends the task; its price has been ticked in part.
TickCrashes ==
    /\ worker \in Symbols
    /\ worker' = "dead"
    /\ UNCHANGED <<feed, events, pending, queued, dcaQueue, ticked, history>>

\* ensure_worker_tasks, at the next turn of the main loop
EnsureWorkers ==
    /\ worker = "dead"
    /\ worker' = "idle"
    /\ UNCHANGED <<feed, events, pending, queued, dcaQueue, ticked, history>>

-----------------------------------------------------------------------------
(***************************************************************************)
(* _process_ohlcv_queue and _flush_ohlcv_buffer.                           *)
(***************************************************************************)
TakeCandle ==
    /\ candleQueue # <<>> /\ Len(buffer) < BatchSize
    /\ buffer' = Append(buffer, Head(candleQueue))
    /\ candleQueue' = Tail(candleQueue)
    /\ UNCHANGED <<feed, events, ticks, candles, tickers, handled>>

\* A full batch, a second without a candle, or the cancellation of the writer.
Flush ==
    /\ buffer # <<>> /\ (Len(buffer) >= BatchSize \/ candleQueue = <<>>)
    /\ tickers' = tickers \o buffer
    /\ buffer' = <<>>
    /\ UNCHANGED <<feed, events, ticks, candles, candleQueue, handled>>

\* The buffer is cleared before the write, so a failed write loses it.
FlushFails ==
    /\ buffer # <<>> /\ (Len(buffer) >= BatchSize \/ candleQueue = <<>>)
    /\ buffer' = <<>>
    /\ UNCHANGED <<feed, events, ticks, candles, candleQueue, tickers, handled>>

Next ==
    \/ Clock
    \/ \E s \in Symbols, p \in Prices, t \in Times : Trade(s, p, t)
    \/ HandleEvent
    \/ TakeTick \/ TickEnds \/ TickCrashes \/ EnsureWorkers
    \/ TakeCandle \/ Flush \/ FlushFails

Spec == Init /\ [][Next]_vars

-----------------------------------------------------------------------------
\* Every candle, live, on its way or stored, spans exactly the prices that reached it.
CandlesSpan ==
    LET rows == candleQueue \o buffer \o tickers
        Spans(s, c) == c.time > 0 =>
            /\ handled[s][c.time] # {}
            /\ c.high \in handled[s][c.time] /\ c.low \in handled[s][c.time]
            /\ \A p \in handled[s][c.time] : c.low <= p /\ p <= c.high
    IN  /\ \A i \in 1 .. Len(rows) : Spans(rows[i].symbol, rows[i].candle)
        /\ \A s \in Symbols : Spans(s, candles[s])

\* The feed writes at most one row per symbol and minute, in the order of time, however late
\* a trade is reported and whatever batch fails. Nothing is said of the rows that a history
\* sync writes to the same table, which has no unique constraint.
StoredInOrder ==
    \A i, j \in 1 .. Len(tickers) :
        i < j /\ tickers[i].symbol = tickers[j].symbol
            => tickers[i].candle.time < tickers[j].candle.time

\* The last price of every symbol is the last one the worker ticks it with, over bursts
\* that the queue coalesces and crashes of the worker.
NewestTicked == \A s \in Symbols : <>[](ticked[s] = last[s])
=============================================================================
