----------------------------- MODULE MonitorLive -----------------------------
(***************************************************************************)
(* The live events of a monitor (runtime.py, live_subscribe and _publish_  *)
(* event) and the websocket that carries them to a client (service.py,     *)
(* _live).                                                                 *)
(*                                                                         *)
(* Two kinds of events share one counter of ids.  A public event goes to   *)
(* every stream and into a ring from which a client that comes back with   *)
(* the last id it saw is served.  A private one, hello or state, opens one *)
(* stream only; what it was followed by is kept beside the ring.           *)
(*                                                                         *)
(* An event crosses two bounded queues on its way: the live queue of its   *)
(* stream and the relay to the websocket.  A full queue loses its oldest   *)
(* element.  Steps without an await in the code are one step here.         *)
(***************************************************************************)
EXTENDS Integers, Sequences, FiniteSets, SequencesExt

CONSTANTS
    Client,     \* browser tabs and other readers of /api/v1/live
    Ring,       \* the length of the ring (_REPLAY_EVENTS)
    AnchorRing, \* the length of the ring of private events (_REPLAY_EVENTS)
    LiveQueue,  \* _LIVE_QUEUE_EVENTS
    RelayQueue, \* the length of the relay in _live
    MaxEvents   \* bound: ids given out

ASSUME LengthsPositive ==
    /\ Ring \in Nat \ {0} /\ AnchorRing \in Nat \ {0}
    /\ LiveQueue \in Nat \ {0} /\ RelayQueue \in Nat \ {0}
ASSUME MaxEventsIsNat == MaxEvents \in Nat

VARIABLES
    log,        \* the kind of every event, by its id
    ring,       \* the ids of the last public events
    anchors,    \* the last private events, with what a client owes to them
    conn        \* the connection of each client

liveVars == <<log, ring, anchors, conn>>

-----------------------------------------------------------------------------
\* An event stands for its id; in the log it is a "hello", a "state" of one
\* stream, or "public": a state for all, a sample or a heartbeat.
End == 0    \* _LIVE_END

\* "on" while the generator runs, "over" when it has ended and the websocket
\* is still open, "off" without a connection.  lost counts what the relay has
\* lost and the client was not yet told.
NoConn == [stream |-> "off", queue |-> <<>>, relay |-> <<>>, lost |-> 0]

\* A bounded queue or ring that loses its oldest element.
Push(s, x, n) == Append(IF Len(s) < n THEN s ELSE Tail(s), x)

NextId == Len(log) + 1
PublicSeq == Cardinality({i \in 1..Len(log) : log[i] = "public"})

On == {c \in Client : conn[c].stream = "on"}

LInit ==
    /\ log = <<>>
    /\ ring = <<>>
    /\ anchors = <<>>
    /\ conn = [c \in Client |-> NoConn]

\* An event for every stream; what full live queues lose is only counted in
\* the status, which is left out here.
PublishEvent ==
    /\ NextId <= MaxEvents
    /\ log' = Append(log, "public")
    /\ ring' = Push(ring, NextId, Ring)
    /\ conn' = [c \in Client |->
                   IF c \in On THEN [conn[c] EXCEPT !.queue = Push(@, NextId, LiveQueue)]
                   ELSE conn[c]]
    /\ UNCHANGED anchors

\* A state event carries the status, which is read from the project's
\* manifest: where that cannot be read, nothing is published.
StatePublished == PublishEvent
StateUnreadable == UNCHANGED liveVars

-----------------------------------------------------------------------------
(* What a client that comes back is owed.                                  *)

InRing(id) == \E i \in 1..Len(ring) : ring[i] = id
RingAfter(id) ==
    LET kept[n \in 0..Len(ring)] ==
            IF n = 0 THEN <<>>
            ELSE IF ring[n] > id THEN Append(kept[n - 1], ring[n]) ELSE kept[n - 1]
    IN  kept[Len(ring)]
Oldest == PublicSeq - Len(ring) + 1

AnchorsOf(id) == {i \in 1..Len(anchors) : anchors[i].id = id}

ReplayGap == [gap |-> TRUE, events |-> <<>>]
NoGap(events) == [gap |-> FALSE, events |-> events]

\* Mutant: an anchor is good whatever the ring has lost since.
Replay_AnyAnchor(id) ==
    IF InRing(id) THEN NoGap(RingAfter(id))
    ELSE IF AnchorsOf(id) = {} THEN ReplayGap
    ELSE LET a == anchors[CHOOSE i \in AnchorsOf(id) : TRUE]
             skip == a.public - Oldest + 1
         IN  NoGap(a.pending \o SubSeq(ring, (IF skip < 0 THEN 0 ELSE skip) + 1, Len(ring)))

\* From the ring after the id itself; or, for a private id, what was pending
\* then and the part of the ring that is newer, if the ring reaches back.
Replay(id) ==
    IF InRing(id) THEN NoGap(RingAfter(id))
    ELSE IF \E i \in AnchorsOf(id) : anchors[i].public >= Oldest - 1
    THEN LET a == anchors[CHOOSE i \in AnchorsOf(id) : TRUE]
         IN  NoGap(a.pending \o SubSeq(ring, a.public - Oldest + 2, Len(ring)))
    ELSE ReplayGap

-----------------------------------------------------------------------------
(* The relay between a stream and its websocket.                           *)

Overflows(k) == Len(k.relay) = RelayQueue

\* Mutant: the count an evicted item carried is lost with it.
Relay_ForgetsCarried(k, event) ==
    LET item == [event |-> event, dropped |-> IF Overflows(k) THEN 1 ELSE 0]
    IN  [k EXCEPT !.relay = Push(@, item, RelayQueue),
                  !.lost = IF Overflows(k) THEN @ + 1 ELSE @]

\* An item is put on the relay; one that makes room for it leaves it its own
\* count of lost items.
Relay(k, event) ==
    LET item == [event |-> event,
                 dropped |-> IF Overflows(k) THEN Head(k.relay).dropped + 1 ELSE 0]
    IN  [k EXCEPT !.relay = Push(@, item, RelayQueue),
                  !.lost = IF Overflows(k) THEN @ + 1 ELSE @]

\* The stream begins with these events; nothing is awaited between them.
Begin(events) ==
    LET begun[n \in 0..Len(events)] ==
            IF n = 0 THEN [NoConn EXCEPT !.stream = "on"] ELSE Relay(begun[n - 1], events[n])
    IN  begun[Len(events)]

\* hello and state, private to this stream, with two anchors.
Bootstrap(c) ==
    LET hello == NextId
        state == NextId + 1
        first == [id |-> hello, public |-> PublicSeq, pending |-> <<state>>]
        second == [id |-> state, public |-> PublicSeq, pending |-> <<>>]
    IN  /\ state <= MaxEvents
        /\ log' = log \o <<"hello", "state">>
        /\ anchors' = Push(Push(anchors, first, AnchorRing), second, AnchorRing)
        /\ conn' = [conn EXCEPT ![c] = Begin(<<hello, state>>)]
        /\ UNCHANGED ring

\* The status cannot be read: the hello's id is spent, the stream ends with
\* an exception, and the websocket stays open.
BootstrapFails(c) ==
    /\ NextId <= MaxEvents
    /\ log' = Append(log, "hello")
    /\ conn' = [conn EXCEPT ![c] = [NoConn EXCEPT !.stream = "over"]]
    /\ UNCHANGED <<ring, anchors>>

Join(c) == conn[c].stream = "off" /\ (Bootstrap(c) \/ BootstrapFails(c))

\* With the id of an event the client has seen.
Resubscribe(c, id) ==
    /\ conn[c].stream = "off"
    /\ \/ /\ ~Replay(id).gap
          /\ conn' = [conn EXCEPT ![c] = Begin(Replay(id).events)]
          /\ UNCHANGED <<log, ring, anchors>>
       \/ /\ Replay(id).gap
          /\ Bootstrap(c) \/ BootstrapFails(c)

\* The producer moves one element of the live queue to the relay.
Yield(c) ==
    /\ conn[c].stream = "on"
    /\ conn[c].queue # <<>>
    /\ LET k == [conn[c] EXCEPT !.queue = Tail(@)]
           event == Head(conn[c].queue)
       IN  IF event = End
           THEN conn' = [conn EXCEPT ![c] = [k EXCEPT !.stream = "over"]]
           ELSE conn' = [conn EXCEPT ![c] = Relay(k, event)]
    /\ UNCHANGED <<log, ring, anchors>>

\* The websocket takes an item, and with it the count it carries.
Send(c) ==
    /\ conn[c].relay # <<>>
    /\ conn' = [conn EXCEPT ![c].relay = Tail(@), ![c].lost = @ - Head(conn[c].relay).dropped]
    /\ UNCHANGED <<log, ring, anchors>>

\* The client goes; what its queues held is lost with them.
Leave(c) ==
    /\ conn[c].stream # "off"
    /\ conn' = [conn EXCEPT ![c] = NoConn]
    /\ UNCHANGED <<log, ring, anchors>>

\* The end of the monitor is put on every live queue, at the cost of the
\* oldest event of a full one.
EndLive ==
    /\ conn' = [c \in Client |->
                   IF c \in On THEN [conn[c] EXCEPT !.queue = Push(@, End, LiveQueue)]
                   ELSE conn[c]]
    /\ UNCHANGED <<log, ring, anchors>>

\* Mutant: the service leaves the websockets to their clients.
CloseConnections_LeftOpen == UNCHANGED liveVars

\* The service ends producers, senders and, with the runner, the handlers.
CloseConnections ==
    /\ conn' = [c \in Client |-> NoConn]
    /\ UNCHANGED <<log, ring, anchors>>

LiveStep(c) ==
    \/ Join(c) \/ (\E id \in 1..Len(log) : Resubscribe(c, id))
    \/ Yield(c) \/ Send(c) \/ Leave(c)

-----------------------------------------------------------------------------
(* Properties.                                                             *)

\* The public events that were published after event id.
MissedAfter(id) == {i \in 1..Len(log) : i > id /\ log[i] = "public"}

\* What a client that saw only the hello of its stream has not seen of its
\* beginning.
OwedAtBegin(id) == {i \in 1..Len(log) : i = id + 1 /\ log[id] = "hello" /\ log[i] = "state"}

Ascending(events) == \A i, j \in 1..Len(events) : i < j => events[i] < events[j]

\* Whatever event a client saw last, a client that comes back with its id is
\* served exactly what it has missed, in order and without a hole, or is told
\* that there is a gap: however many events, clients and rings came between.
ReplayComplete ==
    \A id \in 1..Len(log) :
        LET r == Replay(id)
        IN  r.gap \/ /\ Ascending(r.events)
                     /\ Range(r.events) = OwedAtBegin(id) \cup MissedAfter(id)

\* The counts that these items carry.
Told(items) == SumFunction([i \in DOMAIN items |-> items[i].dropped])

\* What the relay has lost and the client was not told of yet is what the
\* items it still has will tell: no loss is forgotten, however often items
\* that carry a count are lost themselves.
LossTold == \A c \in Client : conn[c].lost = Told(conn[c].relay)
=============================================================================
