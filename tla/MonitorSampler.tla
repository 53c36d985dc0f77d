--------------------------- MODULE MonitorSampler ---------------------------
(***************************************************************************)
(* The sampler of the monitor (stm32_monitor/sampler.py): one producer     *)
(* task reads the probe in cycles and publishes batches; a bounded queue   *)
(* feeds the task that writes the history; every subscriber has a bounded  *)
(* queue of its own, from which the oldest delivery is evicted.  Clients   *)
(* start, pause, resume, stop and close, one at a time under a lock, while *)
(* the tasks go on between any two awaits.                                 *)
(***************************************************************************)
EXTENDS Integers, SequencesExt

CONSTANTS
    Subscriber,             \* clients that may subscribe to the batches
    HistoryQueueBatches,    \* capacity of the queue to the history
    SubscriberQueueBatches, \* capacity of a subscriber's queue
    MaxEpoch,               \* bound: the epoch up to which runs start, pause, resume
    MaxPublished            \* bound: batches published

ASSUME CapacityAssumption ==
    /\ HistoryQueueBatches \in Nat \ {0}
    /\ SubscriberQueueBatches \in Nat \ {0}
ASSUME SubscriberAssumption == IsFiniteSet(Subscriber)
ASSUME BoundsAssumption == MaxEpoch \in Nat /\ MaxPublished \in Nat

VARIABLES
    state,          \* what clients are told
    epoch,          \* counts everything that makes a cycle under way stale
    plan,           \* the epoch of the prepared read plan, 0: none
    gate,           \* the producer may start a cycle
    action,         \* the client's action that holds the lock
    producer,       \* the producer task
    queue,          \* batches on their way to the history
    writer,         \* the task that writes the history
    pending,        \* drops the next batch will report
    historyDrops,   \* history_drops_total
    inbox,          \* the subscribers' queues
    fresh,          \* history: nothing interrupted the producer's cycle
    ledger          \* history: what was published, saved and lost

control == <<state, epoch, plan, gate, action>>
outputs == <<queue, writer, pending, historyDrops, inbox, ledger>>
vars == <<control, producer, outputs, fresh>>

-----------------------------------------------------------------------------
States == {"IDLE", "RUNNING", "PAUSED", "PAUSED_BLOCKED", "STOPPING", "CLOSED"}

\* start and resume await the admission and then the plan; stop and close
\* await the producer, room for the end mark, and the writer.
Actions == [kind : {"none"}, at : {"none"}]
           \cup [kind : {"start", "resume"}, at : {"admit", "prepare"}]
           \cup [kind : {"stop", "close"}, at : {"producer", "mark", "writer"}]
NoAction == [kind |-> "none", at |-> "none"]
Ending == action.kind \in {"stop", "close"}

\* waiting: for the run gate and the next deadline; group: for the watch
\* group's revision; read: for the probe's answer.
Producers == [at : {"none", "waiting", "group", "read", "done"},
              epoch : Nat, plan : Nat, cancelled : BOOLEAN]
Producer(step) == [at |-> step, epoch |-> 0, plan |-> 0, cancelled |-> FALSE]
Alive == producer.at \in {"waiting", "group", "read"}

\* A batch is its report of drops; the mark ends the history of a run.
Batches == [mark : BOOLEAN, subscriber : Nat, history : Nat]
HistoryEnd == [mark |-> TRUE, subscriber |-> 0, history |-> 0]
NoBatch == [mark |-> FALSE, subscriber |-> 0, history |-> 0]
Writers == [at : {"none", "idle", "appending", "done"}, batch : Batches]
Writer(step) == [at |-> step, batch |-> NoBatch]

Drops == [subscriber : Nat, history : Nat]
NoDrops == [subscriber |-> 0, history |-> 0]

\* A delivery is the number of drops it reports; owed counts the batches
\* published since the subscription, less those received or reported dropped.
StreamEnd == -1
Inboxes == [on : BOOLEAN, items : Seq(Int), owed : Int]
NoInbox == [on |-> FALSE, items |-> <<>>, owed |-> 0]

Ledgers == [published : Nat, saved : Nat, evicted : Nat, evidenced : Nat,
            lost : Nat, shown : Nat]

Init ==
    /\ state = "IDLE" /\ epoch = 0 /\ plan = 0 /\ gate = FALSE
    /\ action = NoAction
    /\ producer = Producer("none")
    /\ queue = <<>>
    /\ writer = Writer("none")
    /\ pending = NoDrops
    /\ historyDrops = 0
    /\ inbox = [s \in Subscriber |-> NoInbox]
    /\ fresh = FALSE
    /\ ledger = [published |-> 0, saved |-> 0, evicted |-> 0, evidenced |-> 0,
                 lost |-> 0, shown |-> 0]

-----------------------------------------------------------------------------
(* The producer. *)

\* _block: the run is over until it is stopped, and no lock is taken.
Block ==
    /\ state' = "PAUSED_BLOCKED"
    /\ epoch' = epoch + 1
    /\ plan' = 0
    /\ gate' = FALSE
    /\ fresh' = FALSE

\* What was awaited is the result of another epoch.
Stale_StateOnly == state # "RUNNING"
Stale == producer.epoch # epoch \/ state # "RUNNING"

Again == producer' = Producer("waiting")
Dies == producer' = Producer("done")

StartCycle ==
    /\ producer.at = "waiting" /\ ~producer.cancelled
    /\ gate /\ state = "RUNNING"
    /\ ledger.published < MaxPublished
    /\ producer' = [producer EXCEPT !.at = "group", !.epoch = epoch]
    /\ fresh' = TRUE
    /\ UNCHANGED <<control, outputs>>

\* The watch group is as it was when the run began.
GroupHolds ==
    /\ producer.at = "group" /\ ~producer.cancelled
    /\ \/ /\ Stale
          /\ Again
       \/ /\ ~Stale
          /\ producer' = [producer EXCEPT !.at = "read", !.plan = plan]
    /\ UNCHANGED <<control, outputs, fresh>>

\* It was edited or deleted, or the store cannot be read: the run is blocked,
\* unless it was interrupted meanwhile; a paused or resumed producer stays.
GroupChanged ==
    /\ producer.at = "group" /\ ~producer.cancelled
    /\ \/ /\ ~Stale
          /\ Block
          /\ Dies
       \/ /\ Stale
          /\ IF producer.epoch # epoch /\ state \in {"PAUSED", "RUNNING"}
             THEN Again ELSE Dies
          /\ UNCHANGED <<state, epoch, plan, gate, fresh>>
    /\ UNCHANGED <<action, outputs>>

\* A read that fails or is cancelled takes its own plan with it, not the plan
\* that was prepared meanwhile.
PlanAfterFailure == IF plan = producer.plan THEN 0 ELSE plan

ReadFails ==
    /\ producer.at = "read" /\ ~producer.cancelled
    /\ \/ /\ Stale
          /\ plan' = PlanAfterFailure
          /\ Again
          /\ UNCHANGED <<state, epoch, gate, fresh>>
       \/ /\ ~Stale
          /\ Block
          /\ Dies
    /\ UNCHANGED <<action, outputs>>

ReadIsLate ==
    /\ producer.at = "read" /\ ~producer.cancelled
    /\ Stale
    /\ Again
    /\ UNCHANGED <<control, outputs, fresh>>

Cancelled ==
    /\ producer.cancelled /\ Alive
    /\ Dies
    /\ plan' = IF producer.at = "read" THEN PlanAfterFailure ELSE plan
    /\ UNCHANGED <<state, epoch, gate, action, outputs, fresh>>

-----------------------------------------------------------------------------
(* Publication: one uninterrupted step of the producer. *)

Full(s) == Len(inbox[s].items) = SubscriberQueueBatches
Evicting == {s \in Subscriber : inbox[s].on /\ Full(s)}

\* The batch evicted hands what it had to report to the batch put in.
ReportedBy(s) == IF Full(s) THEN 1 + Head(inbox[s].items) ELSE 0

Broadcast ==
    inbox' = [s \in Subscriber |->
        IF ~inbox[s].on THEN inbox[s]
        ELSE [inbox[s] EXCEPT
                !.items = Append(IF Full(s) THEN Tail(@) ELSE @, ReportedBy(s)),
                !.owed = @ + 1]]

\* The history's queue is full, or the batch exceeds the bytes left.
Rejected(fits) == Len(queue) = HistoryQueueBatches \/ ~fits

\* _record_history_drop: what a dropped batch reported of the subscribers goes
\* to the next one; what it reported of the history is not counted again.
DropOf(batch) == [subscriber |-> batch.subscriber, history |-> 1]

Sum(p, q) == [subscriber |-> p.subscriber + q.subscriber,
              history |-> p.history + q.history]

Publish(fits) ==
    /\ producer.at = "read" /\ ~producer.cancelled /\ ~Stale
    /\ LET batch == [mark |-> FALSE, subscriber |-> pending.subscriber,
                     history |-> pending.history]
           lost == Rejected(fits)
           kept == IF lost THEN DropOf(batch) ELSE NoDrops
       IN /\ queue' = IF lost THEN queue ELSE Append(queue, batch)
          /\ historyDrops' = historyDrops + (IF lost THEN 1 ELSE 0)
          /\ pending' = [kept EXCEPT !.subscriber = @ + Cardinality(Evicting)]
          /\ ledger' = [ledger EXCEPT !.published = @ + 1,
                                      !.evicted = @ + Cardinality(Evicting),
                                      !.lost = @ + (IF lost THEN 1 ELSE 0)]
    /\ Broadcast
    /\ Again
    /\ UNCHANGED <<control, writer, fresh>>

-----------------------------------------------------------------------------
(* The writer. *)

WriterTakes ==
    /\ writer.at = "idle" /\ queue # <<>>
    /\ queue' = Tail(queue)
    /\ writer' = IF Head(queue).mark THEN Writer("done")
                 ELSE [at |-> "appending", batch |-> Head(queue)]
    /\ UNCHANGED <<control, producer, pending, historyDrops, inbox, fresh, ledger>>

WriterSaves ==
    /\ writer.at = "appending"
    /\ writer' = Writer("idle")
    /\ ledger' = [ledger EXCEPT !.saved = @ + 1,
                                !.evidenced = @ + writer.batch.subscriber,
                                !.shown = @ + writer.batch.history]
    /\ UNCHANGED <<control, producer, queue, pending, historyDrops, inbox, fresh>>

WriterFails ==
    /\ writer.at = "appending"
    /\ writer' = Writer("idle")
    /\ pending' = Sum(pending, DropOf(writer.batch))
    /\ historyDrops' = historyDrops + 1
    /\ ledger' = [ledger EXCEPT !.lost = @ + 1]
    /\ UNCHANGED <<control, producer, queue, inbox, fresh>>

-----------------------------------------------------------------------------
(* The clients' actions. *)

\* start: the group is loaded and checked first; a refusal leaves no trace.
Start ==
    /\ action = NoAction /\ state = "IDLE" /\ epoch < MaxEpoch
    /\ action' = [kind |-> "start", at |-> "admit"]
    /\ plan' = 0
    /\ UNCHANGED <<state, epoch, gate, producer, outputs, fresh>>

Resume ==
    /\ action = NoAction /\ state = "PAUSED" /\ epoch < MaxEpoch
    /\ action' = [kind |-> "resume", at |-> "admit"]
    /\ plan' = 0
    /\ UNCHANGED <<state, epoch, gate, producer, outputs, fresh>>

Admitted ==
    /\ action.at = "admit"
    /\ action' = [action EXCEPT !.at = "prepare"]
    /\ epoch' = epoch + 1
    /\ UNCHANGED <<state, plan, gate, producer, outputs, fresh>>

\* The probe's binding changed or no plan could be prepared.
Denied ==
    /\ action.at \in {"admit", "prepare"}
    /\ action' = NoAction
    /\ \/ /\ action.kind = "resume"
          /\ Block
       \/ /\ action.kind = "start"
          /\ plan' = 0
          /\ UNCHANGED <<state, epoch, gate, fresh>>
    /\ UNCHANGED <<producer, outputs>>

\* The caller is cancelled while it waits: nothing is undone.
GivenUp ==
    /\ action.at \in {"admit", "prepare"}
    /\ action' = NoAction
    /\ UNCHANGED <<state, epoch, plan, gate, producer, outputs, fresh>>

Started ==
    /\ action = [kind |-> "start", at |-> "prepare"]
    /\ action' = NoAction
    /\ state' = "RUNNING" /\ gate' = TRUE /\ plan' = epoch
    /\ producer' = Producer("waiting")
    /\ writer' = Writer("idle")
    /\ queue' = <<>>
    /\ pending' = NoDrops
    /\ ledger' = [ledger EXCEPT !.evicted = 0, !.evidenced = 0, !.lost = 0, !.shown = 0]
    /\ fresh' = FALSE
    /\ UNCHANGED <<epoch, historyDrops, inbox>>

Resumed_GateShut ==
    /\ action = [kind |-> "resume", at |-> "prepare"]
    /\ action' = NoAction
    /\ state' = "RUNNING" /\ plan' = epoch
    /\ fresh' = FALSE
    /\ UNCHANGED <<epoch, gate, producer, outputs>>
Resumed ==
    /\ action = [kind |-> "resume", at |-> "prepare"]
    /\ action' = NoAction
    /\ state' = "RUNNING" /\ gate' = TRUE /\ plan' = epoch
    /\ fresh' = FALSE
    /\ UNCHANGED <<epoch, producer, outputs>>

Pause ==
    /\ action = NoAction /\ state = "RUNNING" /\ epoch < MaxEpoch
    /\ state' = "PAUSED"
    /\ epoch' = epoch + 1
    /\ plan' = 0
    /\ gate' = FALSE
    /\ fresh' = FALSE
    /\ UNCHANGED <<action, producer, outputs>>

\* _stop_run up to its first await: the stop event is set, the gate opened and
\* the producer cancelled at once.
EndRun(kind) ==
    /\ action' = [kind |-> kind, at |-> "producer"]
    /\ epoch' = epoch + 1
    /\ plan' = 0
    /\ gate' = TRUE
    /\ fresh' = FALSE
    /\ producer' = [producer EXCEPT !.cancelled = Alive]

Stop ==
    /\ action = NoAction
    /\ \/ /\ state = "IDLE" /\ epoch < MaxEpoch
          /\ epoch' = epoch + 1
          /\ UNCHANGED <<state, plan, gate, action, producer, fresh>>
       \/ /\ state \notin {"IDLE", "CLOSED"}
          /\ state' = "STOPPING"
          /\ EndRun("stop")
    /\ UNCHANGED outputs

\* A subscriber's stream ends even if its queue is full: the oldest delivery
\* makes room for the end, and is not reported.
EndStreams_IfRoom ==
    inbox' = [s \in Subscriber |->
        IF inbox[s].on /\ ~Full(s)
        THEN [inbox[s] EXCEPT !.items = Append(@, StreamEnd)] ELSE inbox[s]]
EndStreams ==
    inbox' = [s \in Subscriber |->
        IF inbox[s].on
        THEN [inbox[s] EXCEPT !.items = Append(IF Full(s) THEN Tail(@) ELSE @, StreamEnd)]
        ELSE inbox[s]]

\* close leaves the state as it is until the run has ended.
Close ==
    /\ action = NoAction /\ state # "CLOSED"
    /\ \/ /\ state = "IDLE"
          /\ state' = "CLOSED"
          /\ epoch' = epoch + 1 /\ plan' = 0 /\ fresh' = FALSE
          /\ EndStreams
          /\ UNCHANGED <<gate, action, producer, queue, writer, pending, historyDrops, ledger>>
       \/ /\ state # "IDLE"
          /\ EndRun("close")
          /\ UNCHANGED <<state, outputs>>

ProducerEnded ==
    /\ Ending /\ action.at = "producer" /\ ~Alive
    /\ action' = [action EXCEPT !.at = "mark"]
    /\ UNCHANGED <<state, epoch, plan, gate, producer, outputs, fresh>>

\* The mark waits for room; the writer goes on until it finds the mark.
MarkEnd ==
    /\ Ending /\ action.at = "mark" /\ Len(queue) < HistoryQueueBatches
    /\ queue' = Append(queue, HistoryEnd)
    /\ action' = [action EXCEPT !.at = "writer"]
    /\ UNCHANGED <<state, epoch, plan, gate, producer, writer, pending,
                   historyDrops, inbox, fresh, ledger>>

\* Everything of the run is forgotten.
Reset ==
    /\ action' = NoAction
    /\ producer' = Producer("none") /\ writer' = Writer("none") /\ queue' = <<>>
    /\ gate' = FALSE
    /\ \/ action.kind = "stop" /\ state' = "IDLE" /\ UNCHANGED inbox
       \/ action.kind = "close" /\ state' = "CLOSED" /\ EndStreams
    /\ UNCHANGED <<epoch, plan, pending, historyDrops, fresh, ledger>>

RunEnded_Early == Ending /\ action.at = "writer" /\ Reset
RunEnded == Ending /\ action.at = "writer" /\ writer.at = "done" /\ Reset

-----------------------------------------------------------------------------
(* The subscribers. *)

Subscribe(s) ==
    /\ ~inbox[s].on
    /\ inbox' = [inbox EXCEPT ![s] =
                    [NoInbox EXCEPT !.on = TRUE,
                                    !.items = IF state = "CLOSED" THEN <<StreamEnd>> ELSE <<>>]]
    /\ UNCHANGED <<control, producer, queue, writer, pending, historyDrops, fresh, ledger>>

\* The queue of a subscriber that took the delivery at its head.
Taken(s) == [inbox[s] EXCEPT !.items = Tail(@), !.owed = @ - 1 - Head(inbox[s].items)]

Receive(s) ==
    /\ inbox[s].on /\ inbox[s].items # <<>>
    /\ inbox' = [inbox EXCEPT ![s] =
                    IF Head(inbox[s].items) = StreamEnd THEN NoInbox ELSE Taken(s)]
    /\ UNCHANGED <<control, producer, queue, writer, pending, historyDrops, fresh, ledger>>

Unsubscribe(s) ==
    /\ inbox[s].on
    /\ inbox' = [inbox EXCEPT ![s] = NoInbox]
    /\ UNCHANGED <<control, producer, queue, writer, pending, historyDrops, fresh, ledger>>

-----------------------------------------------------------------------------
Cycle == \/ StartCycle \/ GroupHolds \/ GroupChanged
         \/ ReadFails \/ ReadIsLate \/ Cancelled
         \/ \E fits \in BOOLEAN : Publish(fits)
Writing == WriterTakes \/ WriterSaves \/ WriterFails
Acting == Admitted \/ Denied \/ GivenUp \/ Started \/ Resumed
RunEnding == ProducerEnded \/ MarkEnd \/ RunEnded
Asking == Start \/ Resume \/ Pause \/ Stop \/ Close
Streaming == \E s \in Subscriber : Subscribe(s) \/ Receive(s) \/ Unsubscribe(s)

Next == Cycle \/ Writing \/ Acting \/ RunEnding \/ Asking \/ Streaming

Spec == Init /\ [][Next]_vars

\* Tasks run, deadlines pass, and the store and the probe answer or time out;
\* no client need ever ask for anything.
FairSpec ==
    /\ Spec
    /\ WF_vars(Cycle) /\ WF_vars(Writing) /\ WF_vars(Acting) /\ WF_vars(RunEnding)

-----------------------------------------------------------------------------
(* What the sampler promises. *)

Reported(queued) == SumFunction([i \in DOMAIN queued |-> queued[i].subscriber])
Shown(queued) == SumFunction([i \in DOMAIN queued |-> queued[i].history])
Counted(queued) == SumFunction([i \in DOMAIN queued |-> IF queued[i].mark THEN 0 ELSE 1])
Underway == Counted(queue) + (IF writer.at = "appending" THEN 1 ELSE 0)

\* Every variable has its type, and no queue exceeds its capacity.
TypeOK ==
    /\ state \in States
    /\ epoch \in Nat /\ plan \in 0 .. epoch /\ gate \in BOOLEAN
    /\ action \in Actions
    /\ producer \in Producers
    /\ queue \in Seq(Batches) /\ Len(queue) <= HistoryQueueBatches
    /\ writer \in Writers
    /\ pending \in Drops
    /\ historyDrops \in Nat
    /\ inbox \in [Subscriber -> Inboxes]
    /\ \A s \in Subscriber : Len(inbox[s].items) <= SubscriberQueueBatches
    /\ fresh \in BOOLEAN
    /\ ledger \in Ledgers

\* A run that is told to be running or paused has a living producer, and a
\* running one finds the gate open: no answer that arrives during a pause, a
\* resume or from an earlier cycle ends the producer behind the client's back.
ProducerServesRun ==
    ~Ending => /\ state \in {"RUNNING", "PAUSED"} => Alive /\ ~producer.cancelled
               /\ state = "RUNNING" => gate

\* A running sampler has a prepared read plan: the failure of a read that a
\* pause interrupted does not take the plan that resume prepared meanwhile.
PlanReady == state = "RUNNING" /\ ~Ending => plan # 0

\* What clients are told of a run is backed by its producer and its plan.
RunServed == ProducerServesRun /\ PlanReady

\* A batch is published only by a cycle that nothing interrupted: no pause,
\* resume, block, stop or close since the watch group's revision was checked.
OnlyFreshPublished == [][ledger'.published # ledger.published => fresh]_vars

\* What a subscriber was sent since it subscribed is in its queue, received, or
\* reported as dropped by a delivery received or still queued.
GapsReported ==
    state # "CLOSED" =>
        \A s \in Subscriber : inbox[s].on =>
            inbox[s].owed = Len(inbox[s].items) + SumFunction(inbox[s].items)

\* Every batch published is in the history, on its way there, or counted in
\* history_drops_total; stopping a run forgets none.
BatchesAccounted == ledger.published = ledger.saved + Underway + historyDrops

\* Every eviction of a run is reported by a batch in the history, by one on its
\* way, or by the next batch, whichever batches the history lost in between.
EvictionsEvidenced ==
    ledger.evicted = ledger.evidenced + pending.subscriber
                     + Reported(queue) + writer.batch.subscriber

\* If the history of a run lost a batch, a batch saved, on its way, or the next
\* one says so (not how many: a lost batch takes the count it carried along).
LossEvident ==
    ledger.lost > 0 =>
        ledger.shown + pending.history + Shown(queue) + writer.batch.history > 0

\* No loss is forgotten: those of a subscriber, batches, evictions, and that the
\* history has gaps.
LossesAccounted == GapsReported /\ BatchesAccounted /\ EvictionsEvidenced /\ LossEvident

\* Whoever still reads the stream of a closed sampler finds its end.
ClosedStreamsEnd ==
    state = "CLOSED" =>
        \A s \in Subscriber : inbox[s].on =>
            /\ inbox[s].items # <<>>
            /\ Last(inbox[s].items) = StreamEnd

\* stop and close end, however full the queue is and whatever the producer awaits.
StopEnds == Ending ~> ~Ending

\* A running sampler publishes again, or it does not stay running.
SamplingGoesOn ==
    \A n \in 0 .. MaxPublished - 1 :
        (state = "RUNNING" /\ ledger.published = n)
            ~> (state # "RUNNING" \/ Ending \/ ledger.published > n)

\* Runs go on, and end when they are asked to.
RunsProgress == StopEnds /\ SamplingGoesOn
=============================================================================
