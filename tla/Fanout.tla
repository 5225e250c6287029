-------------------------------- MODULE Fanout --------------------------------
(***************************************************************************)
(* WebSocketFanout: one producer, one queue of length one per subscriber.  *)
(*                                                                         *)
(* No code that holds the lock awaits anything, so taking it never         *)
(* suspends: subscribing, leaving, broadcasting and stopping are one step  *)
(* each. The producer reads through a cache of two seconds, shorter than   *)
(* its interval, so every run of it reads the data as it is then.          *)
(***************************************************************************)
EXTENDS Naturals

CONSTANTS
    Clients,
    MaxVersion,  \* bound: changes of the data
    MaxStops     \* bound: stops of the service

VARIABLES
    version,     \* the data the producer reads
    task,        \* _task: "none", "waiting", "woken", "producing" or "sleeping"
    payload,     \* what the producer has read
    latest,      \* _latest_payload, 0 for None
    subscribers, \* _subscribers; _has_subscribers is set while there is one
    client,      \* whether a client is in its subscription
    queue,       \* its queue: 0 when empty, else a payload or STOP
    seen,        \* the last payload it was sent
    stops

vars == <<version, task, payload, latest, subscribers, client, queue, seen, stops>>
sockets == <<subscribers, client, queue, seen>>

STOP == MaxVersion + 1

Init ==
    /\ version = 1 /\ task = "none" /\ payload = 0 /\ latest = 0
    /\ subscribers = {}
    /\ client = [c \in Clients |-> FALSE]
    /\ queue = [c \in Clients |-> 0] /\ seen = [c \in Clients |-> 0]
    /\ stops = 0

\* A mistake: a queue that is full keeps what it holds.
SignalIfEmpty(S, p) == [c \in Clients |-> IF c \in S /\ queue[c] = 0 THEN p ELSE queue[c]]

\* _queue_signal
Signal(S, p) == [c \in Clients |-> IF c \in S THEN p ELSE queue[c]]

Change ==
    /\ version < MaxVersion
    /\ version' = version + 1
    /\ UNCHANGED <<task, payload, latest, sockets, stops>>

\* start is called by every subscriber as well as by the application.
Started(t) == IF t = "none" THEN "waiting" ELSE t

Wake(t) == IF t = "waiting" THEN "woken" ELSE t

Subscribe(c) ==
    /\ ~client[c]
    /\ client' = [client EXCEPT ![c] = TRUE]
    /\ subscribers' = subscribers \union {c}
    /\ queue' = [queue EXCEPT ![c] = latest]
    /\ seen' = [seen EXCEPT ![c] = 0]
    /\ task' = Wake(Started(task))
    /\ UNCHANGED <<version, payload, latest, stops>>

Get(c) ==
    /\ client[c] /\ queue[c] \notin {0, STOP}
    /\ seen' = [seen EXCEPT ![c] = queue[c]]
    /\ queue' = [queue EXCEPT ![c] = 0]
    /\ UNCHANGED <<version, task, payload, latest, subscribers, client, stops>>

\* The sentinel ends the subscription, and so does a client that disconnects.
Leave(c) ==
    /\ client[c]
    /\ client' = [client EXCEPT ![c] = FALSE]
    /\ subscribers' = subscribers \ {c}
    /\ latest' = IF subscribers' = {} THEN 0 ELSE latest
    /\ UNCHANGED <<version, task, payload, queue, seen, stops>>

LeaveOnStop(c) == queue[c] = STOP /\ Leave(c)

\* A waiter that was woken runs although the subscriber may be gone by then.
Produce ==
    /\ task = "woken"
    /\ task' = "producing"
    /\ payload' = version
    /\ UNCHANGED <<version, latest, sockets, stops>>

Broadcast ==
    /\ task = "producing"
    /\ latest' = payload
    /\ queue' = Signal(subscribers, payload)
    /\ task' = "sleeping"
    /\ UNCHANGED <<version, payload, subscribers, client, seen, stops>>

ProduceFails ==
    /\ task = "producing"
    /\ task' = "sleeping"
    /\ UNCHANGED <<version, payload, latest, sockets, stops>>

\* A mistake: the producer waits for the next subscriber although it still has some.
SleepForever ==
    /\ task = "sleeping"
    /\ task' = "waiting"
    /\ UNCHANGED <<version, payload, latest, sockets, stops>>

SleepEnds ==
    /\ task = "sleeping"
    /\ task' = IF subscribers = {} THEN "waiting" ELSE "woken"
    /\ UNCHANGED <<version, payload, latest, sockets, stops>>

\* stop; the cancelled task returns from whatever it awaits.
Stop ==
    /\ stops < MaxStops
    /\ stops' = stops + 1
    /\ task' = "none" /\ latest' = 0
    /\ subscribers' = {}
    /\ queue' = Signal(subscribers, STOP)
    /\ UNCHANGED <<version, payload, client, seen>>

Next ==
    \/ Change \/ Produce \/ Broadcast \/ ProduceFails \/ SleepEnds \/ Stop
    \/ \E c \in Clients : Subscribe(c) \/ Get(c) \/ Leave(c) \/ LeaveOnStop(c)

Spec == Init /\ [][Next]_vars

-----------------------------------------------------------------------------
\* However slowly a client reads, what it reads next or has read last is the latest payload.
NobodyBehind ==
    \A c \in subscribers : latest # 0 => latest \in {queue[c], seen[c]}

\* Every client that stays is shown the newest data, over failures of the producer and
\* the departure of everybody else.
NewestShown == \A c \in Clients : client[c] ~> (~client[c] \/ seen[c] = version)
===============================================================================
