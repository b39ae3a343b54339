------------------------- MODULE KafkaProducer_proofs -------------------------
(***************************************************************************)
(* Proofs about KafkaProducer: for every capacity, list size and number of *)
(* aggregates, none is lost without a trace.                               *)
(***************************************************************************)
EXTENDS KafkaProducer, TLAPS

\* A list is only worked on by an initialised producer, and poll() is entered
\* with an aggregate still in hand; outside of it nothing is left to produce.
ProducingInv == /\ running \in {"produce", "poll"} => initialized
                /\ running = "poll" => 0 < left
                /\ running \notin {"produce", "poll"} => left = 0

\* What close() leaves in the queue of a producer that is not initialised it
\* has warned of; this is what the next initialize() abandons.
ClosedInv == ~initialized /\ 0 < Size(queue) => warned

IInv == /\ TypeOK
        /\ ProducingInv
        /\ ClosedInv
        /\ EveryAggregateAccounted
        /\ AbandonedOnlyAfterWarning

\* The size of a queue is the sum of three natural numbers.
LEMMA SizeNat ==
    ASSUME NEW q \in Queue
    PROVE  /\ Size(q) \in Nat
           /\ q.inflight \in Nat /\ q.acked \in Nat /\ q.failed \in Nat
           /\ Size(q) = q.inflight + q.acked + q.failed
BY DEF Queue, Size

\* Serving the reports takes them out of the queue and into the counters, one
\* for one.
LEMMA ServedAccounts ==
    ASSUME NEW q \in Queue, NEW st \in Stats
    PROVE  /\ Served(q) \in Queue /\ AfterReports(st, q) \in Stats
           /\ Size(Served(q)) = q.inflight
           /\ Size(Served(q)) + AfterReports(st, q).delivered
                + AfterReports(st, q).errors
              = Size(q) + st.delivered + st.errors
           /\ AfterReports(st, q).produced = st.produced
<1>1. /\ Served(q) \in Queue
      /\ Served(q).inflight = q.inflight
      /\ Served(q).acked = 0 /\ Served(q).failed = 0
  BY DEF Served, Queue
<1>2. /\ q.inflight \in Nat /\ q.acked \in Nat /\ q.failed \in Nat
      /\ Size(q) = q.inflight + q.acked + q.failed
  BY SizeNat
<1>3. /\ st.produced \in Nat /\ st.delivered \in Nat /\ st.errors \in Nat
  BY DEF Stats
<1>4. /\ AfterReports(st, q) \in Stats
      /\ AfterReports(st, q).produced = st.produced
      /\ AfterReports(st, q).delivered = st.delivered + q.acked
      /\ AfterReports(st, q).errors = st.errors + q.failed
  BY <1>2, <1>3 DEF AfterReports, Stats
<1>5. Size(Served(q)) = q.inflight
  BY <1>1, <1>2 DEF Size
<1> QED
  BY <1>1, <1>2, <1>3, <1>4, <1>5

\* An accepted message takes one slot.
LEMMA AcceptedAccounts ==
    ASSUME NEW q \in Queue
    PROVE  Accepted(q) \in Queue /\ Size(Accepted(q)) = Size(q) + 1
<1>1. Accepted(q) = [inflight |-> q.inflight + 1, acked |-> q.acked,
                     failed |-> q.failed]
  BY DEF Accepted, Queue
<1> QED
  BY <1>1, SizeNat DEF Queue, Size

\* Either counter goes up by one and the others stay.
LEMMA CountersMove ==
    ASSUME NEW st \in Stats
    PROVE  /\ CountProduced(st) \in Stats /\ CountError(st) \in Stats
           /\ CountProduced(st).delivered = st.delivered
           /\ CountProduced(st).errors = st.errors
           /\ CountError(st).delivered = st.delivered
           /\ CountError(st).errors = st.errors + 1
BY DEF Stats, CountProduced, CountError

LEMMA InitInv == Init => IInv
<1> SUFFICES ASSUME Init
             PROVE  IInv
  OBVIOUS
<1>1. queue \in Queue /\ Size(queue) = 0
  BY DEF Init, EmptyQueue, Queue, Size
<1>2. /\ stats \in Stats /\ stats.delivered = 0 /\ stats.errors = 0
  <2>1. stats = [produced |-> 0, delivered |-> 0, errors |-> 0]
    BY DEF Init
  <2> QED
    BY <2>1 DEF Stats
<1>3. left \in 0 .. BatchSize
  BY KafkaProducerAssumption DEF Init
<1>4. EveryAggregateAccounted
  BY <1>1, <1>2, KafkaProducerAssumption DEF Init, EveryAggregateAccounted
<1>5. TypeOK
  BY <1>1, <1>2, <1>3 DEF Init, TypeOK
<1>6. ProducingInv /\ ClosedInv /\ AbandonedOnlyAfterWarning
  BY <1>1 DEF Init, ProducingInv, ClosedInv, AbandonedOnlyAfterWarning
<1> QED
  BY <1>4, <1>5, <1>6 DEF IInv

\* initialize() moves what is left of a closed producer to the abandoned ones.
LEMMA InitializeAccounts ==
    ASSUME IInv, Initialize
    PROVE  /\ initialized' = TRUE
           /\ queue' \in Queue /\ abandoned' \in Nat
           /\ Size(queue') + abandoned' = Size(queue) + abandoned
           /\ 0 < abandoned' => warned
<1>1. queue \in Queue /\ abandoned \in Nat
  BY DEF IInv, TypeOK
<1>2. CASE initialized /\ UNCHANGED <<queue, abandoned>>
  BY <1>1, <1>2 DEF Initialize, IInv, AbandonedOnlyAfterWarning
<1>3. CASE /\ ~initialized
           /\ queue' = EmptyQueue
           /\ abandoned' = abandoned + Size(queue)
  <2>1. queue' \in Queue /\ Size(queue') = 0
    BY <1>3 DEF EmptyQueue, Queue, Size
  <2>2. Size(queue) \in Nat
    BY <1>1, SizeNat
  <2>3. 0 < abandoned' => warned
    BY <1>1, <1>3, <2>2 DEF IInv, AbandonedOnlyAfterWarning, ClosedInv
  <2> QED
    BY <1>1, <1>3, <2>1, <2>2, <2>3 DEF Initialize
<1> QED
  BY <1>2, <1>3 DEF Initialize

LEMMA StepInv == IInv /\ [Next]_vars => IInv'
<1> SUFFICES ASSUME IInv, [Next]_vars
             PROVE  IInv'
  OBVIOUS
<1> USE DEF IInv
<1>q. /\ queue \in Queue /\ stats \in Stats
      /\ left \in 0 .. BatchSize /\ counted \in Nat /\ handed \in Nat
      /\ abandoned \in Nat /\ escaped \in Nat /\ raised \in Nat
      /\ warned \in BOOLEAN /\ initialized \in BOOLEAN
      /\ running \in {"nothing", "produce", "poll", "flush", "close"}
  BY DEF TypeOK
<1>n. /\ BatchSize \in Nat /\ Handovers \in Nat /\ Capacity \in Nat
  BY KafkaProducerAssumption
<1>s. /\ Size(queue) \in Nat
      /\ stats.produced \in Nat /\ stats.delivered \in Nat /\ stats.errors \in Nat
  BY <1>q, SizeNat DEF Stats
<1>a. /\ handed = left + Size(queue) + stats.delivered + stats.errors
                      + abandoned + escaped
      /\ escaped <= BatchSize * raised
  BY DEF EveryAggregateAccounted
<1>1. CASE InitializeCall
  <2>1. /\ initialized' = TRUE
        /\ queue' \in Queue /\ abandoned' \in Nat
        /\ Size(queue') + abandoned' = Size(queue) + abandoned
        /\ 0 < abandoned' => warned
    BY <1>1, InitializeAccounts DEF InitializeCall
  <2>2. Size(queue') \in Nat
    BY <2>1, SizeNat
  <2>3. UNCHANGED <<running, left, stats, counted, handed, warned, escaped, raised>>
    BY <1>1 DEF InitializeCall, exceptions
  <2>4. EveryAggregateAccounted'
    BY <1>q, <1>s, <1>a, <2>1, <2>2, <2>3 DEF EveryAggregateAccounted
  <2> QED
    BY <1>q, <2>1, <2>3, <2>4
       DEF TypeOK, ProducingInv, ClosedInv, AbandonedOnlyAfterWarning
<1>2. CASE ProduceBatch
  <2>1. /\ initialized' = TRUE
        /\ queue' \in Queue /\ abandoned' \in Nat
        /\ Size(queue') + abandoned' = Size(queue) + abandoned
        /\ 0 < abandoned' => warned
    BY <1>2, InitializeAccounts DEF ProduceBatch
  <2>2. Size(queue') \in Nat
    BY <2>1, SizeNat
  <2>3. PICK n \in 1 .. BatchSize : left' = n /\ handed' = handed + n
    BY <1>2 DEF ProduceBatch, HandOver
  <2>4. running' = "produce" /\ UNCHANGED <<stats, counted, warned, escaped, raised>>
    BY <1>2 DEF ProduceBatch, exceptions
  <2>5. left = 0
    BY <1>2 DEF ProduceBatch, Idle, ProducingInv
  <2>6. left' \in 0 .. BatchSize /\ handed' \in Nat
    BY <1>q, <1>n, <2>3
  <2>7. EveryAggregateAccounted'
    BY <1>q, <1>s, <1>a, <2>1, <2>2, <2>3, <2>4, <2>5
       DEF EveryAggregateAccounted
  <2> QED
    BY <1>q, <2>1, <2>4, <2>6, <2>7
       DEF TypeOK, ProducingInv, ClosedInv, AbandonedOnlyAfterWarning
<1>3. CASE Produced
  <2>1. /\ queue' = Accepted(queue) /\ stats' = CountProduced(stats)
        /\ counted' = counted + 1 /\ left' = left - 1 /\ 0 < left
        /\ running = "produce"
        /\ UNCHANGED <<initialized, running, handed, abandoned, warned,
                       escaped, raised>>
    BY <1>3 DEF Produced, NextAggregate, history, exceptions
  <2>2. queue' \in Queue /\ Size(queue') = Size(queue) + 1
    BY <1>q, <2>1, AcceptedAccounts
  <2>3. /\ stats' \in Stats /\ stats'.delivered = stats.delivered
        /\ stats'.errors = stats.errors
    BY <1>q, <2>1, CountersMove
  <2>4. left' \in 0 .. BatchSize /\ counted' \in Nat
    BY <1>q, <1>n, <2>1
  <2>5. EveryAggregateAccounted'
    BY <1>q, <1>s, <1>a, <2>1, <2>2, <2>3 DEF EveryAggregateAccounted
  <2> QED
    BY <1>q, <2>1, <2>2, <2>3, <2>4, <2>5
       DEF TypeOK, ProducingInv, ClosedInv, AbandonedOnlyAfterWarning
<1>4. CASE Refused
  <2>1. /\ stats' = CountError(stats) /\ left' = left - 1 /\ 0 < left
        /\ running = "produce"
        /\ UNCHANGED <<queue, initialized, running, counted, handed, abandoned,
                       warned, escaped, raised>>
    BY <1>4 DEF Refused, NextAggregate, history, exceptions
  <2>2. /\ stats' \in Stats /\ stats'.delivered = stats.delivered
        /\ stats'.errors = stats.errors + 1
    BY <1>q, <2>1, CountersMove
  <2>3. left' \in 0 .. BatchSize
    BY <1>q, <1>n, <2>1
  <2>4. EveryAggregateAccounted'
    BY <1>q, <1>s, <1>a, <2>1, <2>2 DEF EveryAggregateAccounted
  <2> QED
    BY <1>q, <2>1, <2>2, <2>3, <2>4
       DEF TypeOK, ProducingInv, ClosedInv, AbandonedOnlyAfterWarning
<1>15. ASSUME NEW n \in 0 .. BatchSize, BreakOff(n)
       PROVE  /\ escaped' \in Nat /\ raised' \in Nat
              /\ escaped' = escaped + n
              /\ escaped' <= BatchSize * raised'
  <2>1. escaped' = escaped + n /\ raised' = raised + 1
    BY <1>15 DEF BreakOff
  <2>2. BatchSize * raised' = BatchSize * raised + BatchSize
    BY <1>q, <1>n, <2>1
  <2>3. BatchSize * raised \in Nat
    BY <1>q, <1>n
  <2> QED
    BY <1>q, <1>n, <1>a, <2>1, <2>2, <2>3
<1>16. CASE InitializeFails
  <2>1. PICK n \in 1 .. BatchSize : HandOver(n) /\ BreakOff(n)
    BY <1>16 DEF InitializeFails
  <2>2. handed' = handed + n /\ n \in 0 .. BatchSize /\ handed' \in Nat
    BY <1>q, <1>n, <2>1 DEF HandOver
  <2>3. UNCHANGED <<queue, initialized, running, left, stats, counted,
                    abandoned, warned>>
    BY <1>16 DEF InitializeFails
  <2>4. /\ escaped' \in Nat /\ raised' \in Nat /\ escaped' = escaped + n
        /\ escaped' <= BatchSize * raised'
    BY <1>15, <2>1, <2>2
  <2>5. EveryAggregateAccounted'
    <3>1. Size(queue') = Size(queue)
      BY <2>3
    <3> QED
      BY <1>q, <1>s, <1>a, <2>2, <2>3, <2>4, <3>1 DEF EveryAggregateAccounted
  <2> QED
    BY <1>q, <2>2, <2>3, <2>4, <2>5
       DEF TypeOK, ProducingInv, ClosedInv, AbandonedOnlyAfterWarning, Size
<1>17. CASE Escapes
  <2>1. /\ running = "produce" /\ BreakOff(left)
        /\ left' = 0 /\ running' = "nothing"
        /\ UNCHANGED <<queue, initialized, stats, counted, handed, abandoned,
                       warned>>
    BY <1>17 DEF Escapes, NextAggregate
  <2>2. /\ escaped' \in Nat /\ raised' \in Nat /\ escaped' = escaped + left
        /\ escaped' <= BatchSize * raised'
    BY <1>15, <1>q, <2>1
  <2>3. EveryAggregateAccounted'
    <3>1. Size(queue') = Size(queue)
      BY <2>1
    <3> QED
      BY <1>q, <1>s, <1>a, <2>1, <2>2, <3>1 DEF EveryAggregateAccounted
  <2>4. left' \in 0 .. BatchSize
    BY <1>n, <2>1
  <2> QED
    BY <1>q, <2>1, <2>2, <2>3, <2>4
       DEF TypeOK, ProducingInv, ClosedInv, AbandonedOnlyAfterWarning, Size
<1>5. CASE QueueFull
  BY <1>5, <1>q, <1>n
     DEF QueueFull, NextAggregate, history, exceptions, TypeOK, ProducingInv, ClosedInv,
         EveryAggregateAccounted, AbandonedOnlyAfterWarning
<1>6. CASE Retry
  <2> DEFINE q == Served(queue)
             st == AfterReports(stats, queue)
  <2>1. /\ q \in Queue /\ st \in Stats
        /\ Size(q) + st.delivered + st.errors
             = Size(queue) + stats.delivered + stats.errors
    BY <1>q, ServedAccounts
  <2>2. /\ running = "poll" /\ running' = "produce" /\ left' = left - 1
        /\ UNCHANGED <<initialized, counted, handed, abandoned, warned,
                       escaped, raised>>
    BY <1>6 DEF Retry, history, exceptions
  <2>3. 0 < left /\ initialized
    BY <2>2 DEF ProducingInv
  <2>4. left' \in 0 .. BatchSize
    BY <1>q, <1>n, <2>2, <2>3
  <2>5. /\ Size(q) \in Nat /\ st.delivered \in Nat /\ st.errors \in Nat
    BY <2>1, SizeNat DEF Stats
  <2>6. CASE queue' = Accepted(q) /\ stats' = CountProduced(st)
    <3>1. queue' \in Queue /\ Size(queue') = Size(q) + 1
      BY <2>1, <2>6, AcceptedAccounts
    <3>2. /\ stats' \in Stats /\ stats'.delivered = st.delivered
          /\ stats'.errors = st.errors
      BY <2>1, <2>6, CountersMove
    <3>3. EveryAggregateAccounted'
      <4> HIDE DEF q, st
      <4> QED
        BY <1>q, <1>s, <1>a, <2>1, <2>2, <2>5, <3>1, <3>2
           DEF EveryAggregateAccounted
    <3> QED
      BY <1>q, <2>2, <2>3, <2>4, <3>1, <3>2, <3>3
         DEF TypeOK, ProducingInv, ClosedInv, AbandonedOnlyAfterWarning
  <2>7. CASE queue' = q /\ stats' = CountError(st)
    <3>1. /\ stats' \in Stats /\ stats'.delivered = st.delivered
          /\ stats'.errors = st.errors + 1
      BY <2>1, <2>7, CountersMove
    <3>2. queue' \in Queue /\ Size(queue') = Size(q)
      BY <2>1, <2>7
    <3>3. EveryAggregateAccounted'
      <4>1. /\ left' = left - 1 /\ handed' = handed /\ abandoned' = abandoned
            /\ escaped' = escaped /\ raised' = raised
        BY <2>2
      <4>2. Size(queue') + stats'.delivered + stats'.errors
              = Size(queue) + stats.delivered + stats.errors + 1
        <5> HIDE DEF q, st
        <5> QED
          BY <1>s, <2>1, <2>5, <3>1, <3>2
      <4>3. /\ Size(queue') \in Nat /\ stats'.delivered \in Nat
            /\ stats'.errors \in Nat
        BY <3>1, <3>2, SizeNat DEF Stats
      <4>4. handed' = left' + Size(queue') + stats'.delivered + stats'.errors
                        + abandoned' + escaped'
        BY <1>q, <1>s, <1>a, <4>1, <4>2, <4>3
      <4>5. escaped' <= BatchSize * raised'
        BY <1>a, <4>1
      <4> QED
        BY <4>4, <4>5 DEF EveryAggregateAccounted
    <3> QED
      BY <1>q, <2>2, <2>3, <2>4, <3>1, <3>2, <3>3
         DEF TypeOK, ProducingInv, ClosedInv, AbandonedOnlyAfterWarning
  <2> QED
    BY <1>6, <2>6, <2>7 DEF Retry
<1>7. ASSUME ServeReports, UNCHANGED <<left, counted, handed, abandoned, escaped, raised>>
      PROVE  /\ queue' \in Queue /\ stats' \in Stats
             /\ Size(queue') = queue.inflight
             /\ 0 < Size(queue') => 0 < Size(queue)
             /\ EveryAggregateAccounted'
  <2>1. queue' = Served(queue) /\ stats' = AfterReports(stats, queue)
    BY <1>7 DEF ServeReports
  <2>2. /\ queue' \in Queue /\ stats' \in Stats
        /\ Size(queue') = queue.inflight
        /\ Size(queue') + stats'.delivered + stats'.errors
             = Size(queue) + stats.delivered + stats.errors
    BY <1>q, <2>1, ServedAccounts
  <2>3. /\ Size(queue') \in Nat /\ stats'.delivered \in Nat
        /\ stats'.errors \in Nat
    BY <2>2, SizeNat DEF Stats
  <2>4. EveryAggregateAccounted'
    BY <1>7, <1>q, <1>s, <1>a, <2>2, <2>3 DEF EveryAggregateAccounted
  <2>5. 0 < Size(queue') => 0 < Size(queue)
    BY <1>q, <2>2, SizeNat
  <2> QED
    BY <2>2, <2>4, <2>5
<1>8. CASE BatchDone
  <2>1. /\ running = "produce" /\ left = 0 /\ running' = "nothing"
        /\ ServeReports
        /\ UNCHANGED <<initialized, left, counted, handed, abandoned, warned,
                       escaped, raised>>
    BY <1>8 DEF BatchDone, history, exceptions
  <2> QED
    BY <1>q, <1>7, <2>1
       DEF TypeOK, ProducingInv, ClosedInv, AbandonedOnlyAfterWarning
<1>9. CASE Poll
  <2>1. /\ ServeReports
        /\ UNCHANGED <<running, initialized, left, counted, handed, abandoned,
                       warned, escaped, raised>>
    BY <1>9 DEF Poll, history, exceptions
  <2> QED
    BY <1>q, <1>7, <2>1
       DEF TypeOK, ProducingInv, ClosedInv, AbandonedOnlyAfterWarning
<1>10. CASE Flush \/ Close
  BY <1>10, <1>q
     DEF Flush, Close, Idle, history, exceptions, TypeOK, ProducingInv, ClosedInv,
         EveryAggregateAccounted, AbandonedOnlyAfterWarning
<1>11. CASE FlushReturns
  <2>1. /\ running = "flush" /\ running' = "nothing" /\ ServeReports
        /\ UNCHANGED <<initialized, left, counted, handed, abandoned, warned,
                       escaped, raised>>
    BY <1>11 DEF FlushReturns, history, exceptions
  <2> QED
    BY <1>q, <1>7, <2>1
       DEF TypeOK, ProducingInv, ClosedInv, AbandonedOnlyAfterWarning
<1>12. CASE CloseReturns
  <2>1. /\ running = "close" /\ running' = "nothing" /\ ServeReports
        /\ initialized' = FALSE
        /\ warned' = (warned \/ 0 < queue.inflight)
        /\ UNCHANGED <<left, counted, handed, abandoned, escaped, raised>>
    BY <1>12 DEF CloseReturns, exceptions
  <2>2. ClosedInv'
    BY <1>7, <2>1 DEF ClosedInv
  <2> QED
    BY <1>q, <1>7, <2>1, <2>2
       DEF TypeOK, ProducingInv, AbandonedOnlyAfterWarning
<1>13. CASE Broker
  <2>1. UNCHANGED <<initialized, running, left, stats, counted, handed,
                    abandoned, warned, escaped, raised>>
    BY <1>13 DEF Broker, history, exceptions
  <2>2. queue' \in Queue /\ Size(queue') = Size(queue)
    <3>1. /\ queue.inflight \in Nat /\ queue.acked \in Nat
          /\ queue.failed \in Nat
      BY <1>q, SizeNat
    <3>2. CASE Acknowledge
      <4>1. /\ queue' = [inflight |-> queue.inflight - 1,
                         acked |-> queue.acked + 1, failed |-> queue.failed]
            /\ 0 < queue.inflight
        BY <1>q, <3>2 DEF Acknowledge, Queue
      <4> QED
        BY <3>1, <4>1 DEF Queue, Size
    <3>3. CASE DeliveryFails
      <4>1. /\ queue' = [inflight |-> queue.inflight - 1,
                         acked |-> queue.acked, failed |-> queue.failed + 1]
            /\ 0 < queue.inflight
        BY <1>q, <3>3 DEF DeliveryFails, Queue
      <4> QED
        BY <3>1, <4>1 DEF Queue, Size
    <3> QED
      BY <1>13, <3>2, <3>3 DEF Broker
  <2>3. EveryAggregateAccounted'
    BY <1>a, <2>1, <2>2 DEF EveryAggregateAccounted
  <2> QED
    BY <1>q, <2>1, <2>2, <2>3
       DEF TypeOK, ProducingInv, ClosedInv, AbandonedOnlyAfterWarning
<1>14. CASE UNCHANGED vars
  BY <1>14, <1>q, <1>a
     DEF vars, history, exceptions, TypeOK, ProducingInv, ClosedInv, Size,
         EveryAggregateAccounted, AbandonedOnlyAfterWarning
<1> QED
  BY <1>1, <1>2, <1>3, <1>4, <1>5, <1>6, <1>8, <1>9, <1>10, <1>11, <1>12,
     <1>13, <1>14, <1>16, <1>17 DEF Next

LEMMA InvHolds == Spec => []IInv
BY InitInv, StepInv, PTL DEF Spec

\* The producer's counters and flags keep their types.
THEOREM KafkaProducerTypeCorrect == Spec => []TypeOK
BY InvHolds, PTL DEF IInv

\* produce, poll, flush and close account for every aggregate, however large
\* the queue and the lists are.
THEOREM EveryAggregateAccountedHolds == Spec => []EveryAggregateAccounted
BY InvHolds, PTL DEF IInv

\* close() has warned whenever initialize() replaces a producer that still has
\* messages.
THEOREM AbandonedOnlyAfterWarningHolds == Spec => []AbandonedOnlyAfterWarning
BY InvHolds, PTL DEF IInv
==============================================================================
