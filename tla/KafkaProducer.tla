---------------------------- MODULE KafkaProducer -----------------------------
(***************************************************************************)
(* StockKafkaProducer (backend/websocket_producer/kafka_producer.py)   *)
(* over a librdkafka producer: a bounded queue whose slots are freed only  *)
(* when the delivery report of a message has been served by poll or flush. *)
(* Its methods are synchronous and called from the event loop, one at a    *)
(* time; the broker works on the queue between any two steps of them.      *)
(* A message is its place in the counts: no property reads its content.    *)
(* An exception that produce() does not handle reaches _listen of the      *)
(* client, which logs it and goes on; the rest of the list is gone.        *)
(***************************************************************************)
EXTENDS Integers

CONSTANTS Capacity,   \* queue.buffering.max.messages
          BatchSize,  \* largest list handed to produce_batch
          Handovers   \* bound of the model: aggregates handed over in all

ASSUME KafkaProducerAssumption ==
    /\ Capacity \in Nat \ {0}
    /\ BatchSize \in Nat \ {0}
    /\ Handovers \in Nat

VARIABLES queue,        \* librdkafka: messages and unserved reports
          initialized,  \* _is_initialized
          running,      \* the method being executed
          left,         \* aggregates produce_batch has still to produce
          stats,        \* _total_produced, _total_delivered, _total_errors
          counted,      \* KAFKA_MESSAGES_PRODUCED
          handed,       \* history: aggregates handed to produce_batch
          abandoned,    \* history: messages of a replaced librdkafka producer
          warned,       \* history: close() reported undelivered messages
          escaped,      \* history: aggregates of lists an exception broke off
          raised        \* history: exceptions out of produce_batch

vars == <<queue, initialized, running, left, stats, counted, handed,
          abandoned, warned, escaped, raised>>

exceptions == <<escaped, raised>>
history == <<handed, abandoned, warned, exceptions>>

Queue == [inflight : Nat, acked : Nat, failed : Nat]
EmptyQueue == [inflight |-> 0, acked |-> 0, failed |-> 0]
Size(q) == q.inflight + q.acked + q.failed
HasRoom(q) == Size(q) < Capacity

Stats == [produced : Nat, delivered : Nat, errors : Nat]

TypeOK == /\ queue \in Queue
          /\ initialized \in BOOLEAN
          /\ running \in {"nothing", "produce", "poll", "flush", "close"}
          /\ left \in 0 .. BatchSize
          /\ stats \in Stats
          /\ counted \in Nat
          /\ handed \in Nat
          /\ abandoned \in Nat
          /\ warned \in BOOLEAN
          /\ escaped \in Nat
          /\ raised \in Nat

Init == /\ queue = EmptyQueue
        /\ initialized = FALSE
        /\ running = "nothing"
        /\ left = 0
        /\ stats = [produced |-> 0, delivered |-> 0, errors |-> 0]
        /\ counted = 0
        /\ handed = 0
        /\ abandoned = 0
        /\ warned = FALSE
        /\ escaped = 0
        /\ raised = 0

Idle == running = "nothing"

\* librdkafka's produce() accepts the message.
Accepted(q) == [q EXCEPT !.inflight = @ + 1]
CountProduced(st) == [st EXCEPT !.produced = @ + 1]
CountError(st) == [st EXCEPT !.errors = @ + 1]

\* poll() and flush() call _delivery_callback for every report that is there.
Served(q) == [q EXCEPT !.acked = 0, !.failed = 0]
AfterReports(st, q) == [produced  |-> st.produced,
                        delivered |-> st.delivered + q.acked,
                        errors    |-> st.errors + q.failed]

ServeReports == /\ queue' = Served(queue)
                /\ stats' = AfterReports(stats, queue)

------------------------------------------------------------------------------
\* initialize(): a new librdkafka producer takes the place of the old one.
Initialize == /\ initialized' = TRUE
              /\ \/ initialized /\ UNCHANGED <<queue, abandoned>>
                 \/ /\ ~initialized
                    /\ queue' = EmptyQueue
                    /\ abandoned' = abandoned + Size(queue)

InitializeCall == /\ Idle /\ ~initialized
                  /\ Initialize
                  /\ UNCHANGED <<running, left, stats, counted, handed, warned,
                                 exceptions>>

HandOver(n) == handed + n <= Handovers /\ handed' = handed + n

\* The exception goes to the caller of produce_batch; n aggregates go with it.
BreakOff(n) == /\ escaped' = escaped + n
               /\ raised' = raised + 1

\* produce_batch() with a non-empty list; produce() initialises on demand.
ProduceBatch == /\ Idle
                /\ \E n \in 1 .. BatchSize : HandOver(n) /\ left' = n
                /\ running' = "produce"
                /\ Initialize
                /\ UNCHANGED <<stats, counted, warned, exceptions>>

\* initialize() passes on the KafkaException of Producer(): all of the list is
\* lost.  (Called by itself it then leaves everything as it was.)
InitializeFails ==
    /\ Idle /\ ~initialized
    /\ \E n \in 1 .. BatchSize : HandOver(n) /\ BreakOff(n)
    /\ UNCHANGED <<queue, initialized, running, left, stats, counted, abandoned,
                   warned>>

NextAggregate == running = "produce" /\ 0 < left

Produced == /\ NextAggregate /\ HasRoom(queue)
            /\ queue' = Accepted(queue)
            /\ stats' = CountProduced(stats)
            /\ counted' = counted + 1
            /\ left' = left - 1
            /\ UNCHANGED <<initialized, running, history>>

\* A KafkaException other than a full queue.
Refused == /\ NextAggregate
           /\ stats' = CountError(stats)
           /\ left' = left - 1
           /\ UNCHANGED <<queue, initialized, running, counted, history>>

\* Any other exception, of encode() or of produce() (a time stamp beyond 64
\* bits): neither this aggregate nor the rest of the list is produced or
\* counted, and the reports are not polled.
Escapes == /\ NextAggregate
           /\ BreakOff(left)
           /\ left' = 0
           /\ running' = "nothing"
           /\ UNCHANGED <<queue, initialized, stats, counted, handed, abandoned,
                          warned>>

\* BufferError: poll(1.0) waits for a report ...
QueueFull == /\ NextAggregate /\ ~HasRoom(queue)
             /\ running' = "poll"
             /\ UNCHANGED <<queue, initialized, left, stats, counted, history>>

\* Mutant: a failed retry is not counted.
RetryUncounted ==
    /\ running = "poll" /\ running' = "produce"
    /\ LET q == Served(queue) IN
         \/ /\ HasRoom(q)
            /\ queue' = Accepted(q)
            /\ stats' = CountProduced(AfterReports(stats, queue))
         \/ queue' = q /\ stats' = AfterReports(stats, queue)
    /\ left' = left - 1
    /\ UNCHANGED <<initialized, counted, history>>

\* ... and returns with or without one; the one retry succeeds or is counted
\* as an error.
Retry == /\ running = "poll"
         /\ LET q  == Served(queue)
                st == AfterReports(stats, queue)
            IN  \/ /\ HasRoom(q)
                   /\ queue' = Accepted(q)
                   /\ stats' = CountProduced(st)
                \/ /\ queue' = q
                   /\ stats' = CountError(st)
         /\ running' = "produce"
         /\ left' = left - 1
         /\ UNCHANGED <<initialized, counted, history>>

\* poll(0) at the end of produce_batch.
BatchDone == /\ running = "produce" /\ left = 0
             /\ running' = "nothing"
             /\ ServeReports
             /\ UNCHANGED <<initialized, left, counted, history>>

\* poll() by the listen loop.
Poll == /\ Idle
        /\ ServeReports
        /\ UNCHANGED <<initialized, running, left, counted, history>>

\* flush() and close() (which flushes) block in librdkafka's flush; without a
\* producer both return at once, which an empty queue describes as well.
Flush == /\ Idle /\ running' = "flush"
         /\ UNCHANGED <<queue, initialized, left, stats, counted, history>>

Close == /\ Idle /\ running' = "close"
         /\ UNCHANGED <<queue, initialized, left, stats, counted, history>>

\* The queue is empty or the timeout is over.
FlushReturns == /\ running = "flush"
                /\ running' = "nothing"
                /\ ServeReports
                /\ UNCHANGED <<initialized, left, counted, history>>

\* Mutant: what flush() leaves behind is not looked at.
CloseReturnsSilently ==
    /\ running = "close" /\ running' = "nothing"
    /\ ServeReports
    /\ initialized' = FALSE
    /\ UNCHANGED <<warned, left, counted, handed, abandoned, exceptions>>

CloseReturns == /\ running = "close"
                /\ running' = "nothing"
                /\ ServeReports
                /\ initialized' = FALSE
                /\ warned' = (warned \/ 0 < queue.inflight)
                /\ UNCHANGED <<left, counted, handed, abandoned, exceptions>>

------------------------------------------------------------------------------
\* The broker acknowledges a message, or it runs into delivery.timeout.ms or
\* its last retry.
Acknowledge == /\ 0 < queue.inflight
               /\ queue' = [queue EXCEPT !.inflight = @ - 1, !.acked = @ + 1]

DeliveryFails == /\ 0 < queue.inflight
                 /\ queue' = [queue EXCEPT !.inflight = @ - 1, !.failed = @ + 1]

Broker == /\ Acknowledge \/ DeliveryFails
          /\ UNCHANGED <<initialized, running, left, stats, counted, history>>

Next == \/ InitializeCall \/ ProduceBatch \/ InitializeFails
        \/ Produced \/ Refused \/ Escapes \/ QueueFull \/ Retry \/ BatchDone
        \/ Poll \/ Flush \/ Close \/ FlushReturns \/ CloseReturns
        \/ Broker

Spec == Init /\ [][Next]_vars

------------------------------------------------------------------------------
\* No aggregate is lost without a trace or counted twice: whatever the order of
\* full queues, retries, late reports, flushes, closes, re-initialisations and
\* exceptions, an aggregate handed to produce_batch is still to be produced,
\* waiting in the queue, counted as delivered, counted as an error, in a
\* producer that was replaced, or in a list that an exception broke off; and
\* each exception the caller sees takes at most one list along.
EveryAggregateAccounted ==
    /\ handed = left + Size(queue) + stats.delivered + stats.errors
                  + abandoned + escaped
    /\ escaped <= BatchSize * raised

\* Messages are abandoned only after a close() that warned of "undelivered
\* messages": close() and the lazy initialize() never drop one quietly.
AbandonedOnlyAfterWarning == 0 < abandoned => warned

------------------------------------------------------------------------------
\* What the repository says of the program and the code does not keep: TLC
\* refutes this (README, "Disagreements").

\* "Gesamtzahl fehlgeschlagener Kafka-Produces": an aggregate that is not
\* produced is counted as an error.
LossIsCounted == escaped = 0

\* "Gesamtzahl produzierter Kafka-Nachrichten": the metric agrees with the
\* producer's own counter.
MetricMatchesCounter == counted = stats.produced
==============================================================================
