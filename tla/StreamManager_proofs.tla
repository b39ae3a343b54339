------------------------- MODULE StreamManager_proofs -------------------------
(***************************************************************************)
(* Type correctness and the stop guarantees of StreamManager for any set   *)
(* of streams, any number of batches and any back-off parameters.          *)
(*                                                                         *)
(* The safety properties speak of streams that are not in _tasks; what     *)
(* makes them inductive is what holds of a stream while it is being        *)
(* stopped.  Phase(s) is how far stop_stream has come with s, and          *)
(* Good(c, p, t) is what a client record c satisfies in phase p, t telling *)
(* whether the stream is in _tasks.  A client's step keeps Good for every  *)
(* phase, and a manager's step keeps it for the stream it works on.        *)
(***************************************************************************)
EXTENDS StreamManager, TLAPS

Phases == {"idle", "unsubscribe", "close", "await", "awaitAgain"}

Phase(s) == IF target = s THEN caller ELSE "idle"

\* What the record alone satisfies.
Shape(c) ==
    /\ c.pc \in {"none", "created"} => c.ws = "none"
    /\ c.pc \in {"closing", "done"} => c.ws # "open"
    /\ c.pc = "done" => ~c.cancel
    /\ c.pc = "auth" /\ c.ws = "open" => c.subs = {}
    /\ c.pc = "subscribing" /\ c.ws = "open" =>
          c.subs = 1 .. c.next - 1 /\ c.next <= NumBatches
    /\ c.pc = "listening" /\ c.ws = "open" => c.subs = 1 .. NumBatches

\* What the stop in progress adds, wherever the task is.
Frame(c, p, t) ==
    /\ p = "idle" => ~c.cancel
    /\ p # "idle" => ~c.running /\ c.stop /\ t
    /\ p \in {"unsubscribe", "close"} => ~c.cancel

\* ... and where it depends on the place.
Place(c, p, t) ==
    /\ p \in {"unsubscribe", "close"} => c.pc \notin {"none", "created"}
    /\ p \in {"close", "await", "awaitAgain"} /\ c.pc = "backoff" => c.ws # "open"
    /\ p \in {"await", "awaitAgain"} /\ c.pc = "created" => c.cancel
    /\ ~t => c.pc \in {"none", "done"}

Good(c, p, t) == Shape(c) /\ Frame(c, p, t) /\ Place(c, p, t)

ManagerInv ==
    /\ caller = "idle" <=> target = NoStream
    /\ mgr \in {"fresh", "down"} => caller = "idle" /\ tasks = {}
    /\ mgr = "closing" /\ caller = "idle" => toStop = tasks
    /\ mgr = "closing" /\ caller # "idle" =>
          target \notin toStop /\ tasks = toStop \cup {target}

IInv == /\ TypeOK
        /\ \A s \in Streams : Good(client[s], Phase(s), s \in tasks)
        /\ ManagerInv
------------------------------------------------------------------------------
\* The reconnect handler's methods keep its type (ReconnectHandler_proofs has
\* the same lemmas: the two components share Backoff, and no proof module).
\* A product with a factor of at least one does not fall below the other factor.
LEMMA ProductNotBelow ==
    ASSUME NEW a \in Nat, NEW k \in Nat
    PROVE  a * (k + 1) \in Nat /\ a <= a * (k + 1)
<1>1. a * (k + 1) = a * k + a
  OBVIOUS
<1>2. a * k \in Nat
  OBVIOUS
<1> QED
  BY <1>1, <1>2

\* AfterWait keeps the delay between its bounds: the product with a multiplier
\* of at least one does not fall below the delay.
LEMMA AfterWaitType ==
    ASSUME NEW h \in Handler
    PROVE  AfterWait(h) \in Handler
<1>1. h.delay \in Nat /\ InitialDelay <= h.delay /\ h.retry \in 0 .. RetryCap
  BY BackoffAssumption DEF Handler
<1>2. h.delay * Multiplier \in Nat /\ h.delay <= h.delay * Multiplier
  <2>1. PICK k \in Nat : Multiplier = k + 1
    BY BackoffAssumption
  <2> QED
    BY <1>1, <2>1, ProductNotBelow
<1>3. Capped(h.delay * Multiplier, MaxDelay) \in InitialDelay .. MaxDelay
  BY <1>1, <1>2, BackoffAssumption DEF Capped
<1>4. Capped(h.retry + 1, RetryCap) \in 0 .. RetryCap
  BY <1>1, BackoffAssumption DEF Capped
<1> QED
  BY <1>3, <1>4 DEF AfterWait, Handler, ConnectionState

\* The other methods keep the type of the handler as well.
LEMMA HandlerMethodTypes ==
    ASSUME NEW h \in Handler
    PROVE  /\ \A st \in ConnectionState : WithState(h, st) \in Handler
           /\ OnConnected(h) \in Handler
           /\ OnDisconnected(h) \in Handler
           /\ \A stable \in BOOLEAN : OnStreaming(h, stable) \in Handler
<1>1. InitialDelay \in InitialDelay .. MaxDelay /\ 0 \in 0 .. RetryCap
  BY BackoffAssumption
<1>2. \A st \in ConnectionState : WithState(h, st) \in Handler
  BY DEF WithState, Handler
<1>3. \A stable \in BOOLEAN : OnStreaming(h, stable) \in Handler
  BY <1>1 DEF OnStreaming, Handler, ConnectionState
<1> QED
  BY <1>2, <1>3 DEF OnConnected, OnDisconnected, ConnectionState

\* A new handler is on the first rung.
LEMMA NewHandlerType == NewHandler \in Handler
BY BackoffAssumption DEF NewHandler, Handler, ConnectionState

\* A new client is well formed, and its handler starts on the first rung.
LEMMA NewClientType == NewClient \in Client
BY NewHandlerType, WsClientAssumption DEF NewClient, Client, Suspension, Handle

------------------------------------------------------------------------------\* How a client's step ends.

\* The step leaves stream s with a record that is Good in phase p.
LeavesGood(s, p, t) ==
    /\ gauge' \in [Streams -> BOOLEAN]
    /\ ready' \in BOOLEAN
    /\ \E d \in Client : /\ client' = [client EXCEPT ![s] = d]
                         /\ Good(d, p, t)

\* A step that continues with a Good record.
LEMMA ContinueStep ==
    ASSUME ClientTypeOK, NEW s \in Streams, NEW p \in Phases, NEW t \in BOOLEAN,
           NEW c \in Client, Good(c, p, t), Continue(s, c)
    PROVE  LeavesGood(s, p, t)
BY DEF ClientTypeOK, Continue, LeavesGood

\* The end of _cleanup, with a handle that is not open.
LEMMA FinishStep ==
    ASSUME ClientTypeOK, NEW s \in Streams, NEW p \in Phases,
           NEW c \in Client, Frame(c, p, TRUE), ~c.cancel, c.ws # "open",
           Finish(s, c)
    PROVE  LeavesGood(s, p, TRUE)
<1> DEFINE d == [c EXCEPT !.pc = "done"]
<1>1. d \in Client
  BY DEF Client, Suspension
<1>2. /\ d.pc = "done" /\ d.ws = c.ws /\ d.cancel = c.cancel
      /\ d.running = c.running /\ d.stop = c.stop
  BY DEF Client
<1>3. Good(d, p, TRUE)
  BY <1>2 DEF Good, Shape, Frame, Place
<1>4. client' = [client EXCEPT ![s] = d]
  BY DEF Finish
<1>5. gauge' \in [Streams -> BOOLEAN] /\ ready' \in BOOLEAN
  BY DEF Finish, ClientTypeOK
<1> QED
  BY <1>1, <1>3, <1>4, <1>5 DEF LeavesGood

\* _cleanup, whatever the handle.
LEMMA CleanupStep ==
    ASSUME ClientTypeOK, NEW s \in Streams, NEW p \in Phases,
           NEW c \in Client, Frame(c, p, TRUE), ~c.cancel, Cleanup(s, c)
    PROVE  LeavesGood(s, p, TRUE)
<1>1. CASE c.ws = "open"
  <2> DEFINE d == [Closed(c, "closedOK") EXCEPT !.pc = "closing"]
  <2>1. d \in Client
    BY DEF Client, Suspension, Handle, Closed
  <2>2. /\ d.pc = "closing" /\ d.ws = "closedOK" /\ d.cancel = c.cancel
        /\ d.running = c.running /\ d.stop = c.stop
    BY DEF Client, Closed
  <2>3. Good(d, p, TRUE)
    BY <2>2 DEF Good, Shape, Frame, Place
  <2>4. Continue(s, d)
    BY <1>1 DEF Cleanup
  <2> QED
    BY <2>1, <2>3, <2>4, ContinueStep
<1>2. CASE c.ws # "open"
  BY <1>2, FinishStep DEF Cleanup
<1> QED
  BY <1>1, <1>2

\* The test of the main loop.
LEMMA NextCycleStep ==
    ASSUME ClientTypeOK, NEW s \in Streams, NEW p \in Phases,
           NEW c \in Client, Frame(c, p, TRUE), ~c.cancel, NextCycle(s, c)
    PROVE  LeavesGood(s, p, TRUE)
<1>1. CASE c.running /\ ~c.stop
  <2> DEFINE d == [c EXCEPT !.pc = "rate"]
  <2>1. d \in Client
    BY DEF Client, Suspension
  <2>2. /\ d.pc = "rate" /\ d.cancel = c.cancel
        /\ d.running = c.running /\ d.stop = c.stop
    BY DEF Client
  <2>3. Good(d, p, TRUE)
    BY <2>2 DEF Good, Shape, Frame, Place
  <2>4. Continue(s, d)
    BY <1>1 DEF NextCycle
  <2> QED
    BY <2>1, <2>3, <2>4, ContinueStep
<1>2. CASE ~(c.running /\ ~c.stop)
  BY <1>2, CleanupStep DEF NextCycle
<1> QED
  BY <1>1, <1>2

\* "except Exception": a client that is being stopped is not running and does
\* not begin a back-off.
LEMMA FailStep ==
    ASSUME ClientTypeOK, NEW s \in Streams, NEW p \in Phases,
           NEW c \in Client, Frame(c, p, TRUE), ~c.cancel, Fail(s, c)
    PROVE  LeavesGood(s, p, TRUE)
<1>1. CASE Cleanup(s, c)
  BY <1>1, CleanupStep
<1>2. CASE Cleanup(s, [c EXCEPT !.h = WithState(@, "FAILED")])
  <2> DEFINE d == [c EXCEPT !.h = WithState(@, "FAILED")]
  <2>1. d \in Client
    BY HandlerMethodTypes DEF Client, ConnectionState
  <2>2. d.cancel = c.cancel /\ d.running = c.running /\ d.stop = c.stop
    BY DEF Client
  <2>3. Frame(d, p, TRUE)
    BY <2>2 DEF Frame
  <2> QED
    BY <1>2, <2>1, <2>2, <2>3, CleanupStep
<1>3. CASE c.running /\ Continue(s, [c EXCEPT !.pc = "backoff",
                                          !.h = OnDisconnected(@)])
  <2> DEFINE d == [c EXCEPT !.pc = "backoff", !.h = OnDisconnected(@)]
  <2>1. d \in Client
    BY HandlerMethodTypes DEF Client, Suspension
  <2>2. /\ d.pc = "backoff" /\ d.cancel = c.cancel
        /\ d.running = c.running /\ d.stop = c.stop
    BY DEF Client
  <2>3. p = "idle"
    BY <1>3 DEF Frame
  <2>4. Good(d, p, TRUE)
    BY <2>2, <2>3 DEF Good, Shape, Frame, Place
  <2> QED
    BY <1>3, <2>1, <2>4, ContinueStep
<1> QED
  BY <1>1, <1>2, <1>3 DEF Fail

------------------------------------------------------------------------------\* The client's actions, one lemma each: none leaves a record that is not Good.

\* A task that starts is not being stopped: stop() of a created task is followed
\* by the cancellation with no step of the task in between.
LEMMA BeginKeepsGood ==
    ASSUME ClientTypeOK, NEW s \in Streams, NEW p \in Phases, NEW t \in BOOLEAN,
           Good(client[s], p, t), Begin(s)
    PROVE  LeavesGood(s, p, t)
<1> DEFINE c == client[s]
<1>1. c \in Client
  BY DEF ClientTypeOK
<1>2. c.pc = "created" /\ ~c.cancel
  BY DEF Begin, At
<1>3. p = "idle" /\ t = TRUE
  BY <1>2 DEF Good, Place, Phases
<1> DEFINE d == [c EXCEPT !.running = TRUE, !.stop = FALSE]
<1>4. d \in Client
  BY <1>1 DEF Client
<1>5. Frame(d, p, TRUE) /\ ~d.cancel
  BY <1>1, <1>2, <1>3 DEF Frame, Client
<1>6. NextCycle(s, d)
  BY DEF Begin
<1> QED
  BY <1>3, <1>4, <1>5, <1>6, NextCycleStep

\* wait_for_connection returns.
LEMMA RateGrantedKeepsGood ==
    ASSUME ClientTypeOK, NEW s \in Streams, NEW p \in Phases, NEW t \in BOOLEAN,
           Good(client[s], p, t), RateGranted(s)
    PROVE  LeavesGood(s, p, t)
<1> DEFINE c == client[s]
<1>1. c \in Client
  BY DEF ClientTypeOK
<1>2. c.pc = "rate"
  BY DEF RateGranted, At
<1>3. t = TRUE
  BY <1>2 DEF Good, Place
<1> DEFINE d == [c EXCEPT !.pc = "connecting", !.h = WithState(@, "CONNECTING")]
<1>4. d \in Client
  BY <1>1, HandlerMethodTypes DEF Client, Suspension, Handle, ConnectionState
<1>5. /\ d.pc = "connecting" /\ d.cancel = c.cancel
      /\ d.running = c.running /\ d.stop = c.stop
  BY <1>1 DEF Client
<1>6. Good(d, p, t)
  BY <1>1, <1>2, <1>3, <1>5 DEF Good, Shape, Frame, Place
<1>7. Continue(s, d)
  BY <1>2 DEF RateGranted, At
<1> QED
  BY <1>4, <1>6, <1>7, ContinueStep
\* A new connection, with or without a cancellation that gets lost: nothing has
\* been subscribed on it.
LEMMA ConnectedKeepsGood ==
    ASSUME ClientTypeOK, NEW s \in Streams, NEW p \in Phases, NEW t \in BOOLEAN,
           Good(client[s], p, t), Connected(s)
    PROVE  LeavesGood(s, p, t)
<1> DEFINE c == client[s]
<1>1. c \in Client
  BY DEF ClientTypeOK
<1>2. c.pc = "connecting"
  BY DEF Connected
<1>3. t = TRUE
  BY <1>2 DEF Good, Place
<1> DEFINE d == [c EXCEPT !.pc = "auth", !.cancel = FALSE, !.ws = "open",
                         !.authed = FALSE, !.subs = {},
                         !.h = WithState(OnConnected(@), "AUTHENTICATING")]
<1>4. d \in Client
  BY <1>1, HandlerMethodTypes DEF Client, Suspension, Handle, ConnectionState
<1>5. /\ d.pc = "auth" /\ d.cancel = FALSE /\ d.subs = {}
      /\ d.running = c.running /\ d.stop = c.stop
  BY <1>1 DEF Client
<1>6. Good(d, p, t)
  BY <1>1, <1>2, <1>3, <1>5 DEF Good, Shape, Frame, Place
<1>7. Continue(s, d)
  BY <1>2 DEF Connected
<1> QED
  BY <1>4, <1>6, <1>7, ContinueStep

\* The attempt fails.
LEMMA ConnectFailsKeepsGood ==
    ASSUME ClientTypeOK, NEW s \in Streams, NEW p \in Phases, NEW t \in BOOLEAN,
           Good(client[s], p, t), ConnectFails(s)
    PROVE  LeavesGood(s, p, t)
<1> DEFINE c == client[s]
<1>1. c \in Client
  BY DEF ClientTypeOK
<1>2. c.pc = "connecting" /\ ~c.cancel
  BY DEF ConnectFails, At
<1>3. t = TRUE
  BY <1>2 DEF Good, Place
<1>4. Frame(c, p, TRUE)
  BY <1>3 DEF Good
<1>5. Fail(s, c)
  BY DEF ConnectFails, At
<1> QED
  BY <1>1, <1>2, <1>3, <1>4, <1>5, FailStep

\* The answer to the key: the subscriptions start with the first batch.
LEMMA AuthReplyKeepsGood ==
    ASSUME ClientTypeOK, NEW s \in Streams, NEW p \in Phases, NEW t \in BOOLEAN,
           Good(client[s], p, t), NEW reply \in AcceptedReply, AuthReply(s, reply)
    PROVE  LeavesGood(s, p, t)
<1> DEFINE c == client[s]
<1>1. c \in Client
  BY DEF ClientTypeOK
<1>2. c.pc = "auth" /\ c.ws = "open"
  BY DEF AuthReply
<1>3. t = TRUE
  BY <1>2 DEF Good, Place
<1>4. PICK accepted \in BOOLEAN :
        Continue(s, [c EXCEPT !.pc = "subscribing", !.cancel = FALSE,
                              !.authed = accepted, !.next = 1,
                              !.h = WithState(@, "SUBSCRIBING")])
  BY DEF AuthReply
<1> DEFINE d == [c EXCEPT !.pc = "subscribing", !.cancel = FALSE,
                          !.authed = accepted, !.next = 1,
                          !.h = WithState(@, "SUBSCRIBING")]
<1>5. d \in Client
  <2>1. 1 \in 1 .. NumBatches + 1
    BY WsClientAssumption
  <2>2. c.h \in Handler /\ WithState(c.h, "SUBSCRIBING") \in Handler
    BY <1>1, HandlerMethodTypes DEF Client, ConnectionState
  <2> QED
    BY <1>1, <2>1, <2>2 DEF Client, Suspension
<1>6. /\ d.pc = "subscribing" /\ d.cancel = FALSE /\ d.next = 1
      /\ d.subs = c.subs /\ d.running = c.running /\ d.stop = c.stop
  BY <1>1 DEF Client
<1>7. c.subs = {}
  BY <1>2 DEF Good, Shape
<1>8. 1 .. 1 - 1 = {} /\ 1 <= NumBatches
  BY WsClientAssumption
<1>9. Good(d, p, t)
  BY <1>3, <1>6, <1>7, <1>8 DEF Good, Shape, Frame, Place
<1> QED
  BY <1>4, <1>5, <1>9, ContinueStep

\* A refused key, a timeout or a lost connection.
LEMMA AuthFailsKeepsGood ==
    ASSUME ClientTypeOK, NEW s \in Streams, NEW p \in Phases, NEW t \in BOOLEAN,
           Good(client[s], p, t), AuthFails(s)
    PROVE  LeavesGood(s, p, t)
<1> DEFINE c == client[s]
<1>1. c \in Client
  BY DEF ClientTypeOK
<1>2. c.pc = "auth" /\ ~c.cancel
  BY DEF AuthFails, At
<1>3. t = TRUE
  BY <1>2 DEF Good, Place
<1>4. Frame(c, p, TRUE)
  BY <1>3 DEF Good
<1>5. Fail(s, c)
  BY DEF AuthFails, At
<1> QED
  BY <1>1, <1>2, <1>3, <1>4, <1>5, FailStep

\* One batch further, the peer has every batch before the next one.
LEMMA SendBatchKeepsGood ==
    ASSUME ClientTypeOK, NEW s \in Streams, NEW p \in Phases, NEW t \in BOOLEAN,
           Good(client[s], p, t), SendBatch(s)
    PROVE  LeavesGood(s, p, t)
<1> DEFINE c == client[s]
<1>1. c \in Client
  BY DEF ClientTypeOK
<1>2. c.pc = "subscribing" /\ c.ws = "open" /\ c.next < NumBatches
  BY DEF SendBatch, At
<1>3. t = TRUE
  BY <1>2 DEF Good, Place
<1>4. c.subs = 1 .. c.next - 1 /\ c.next <= NumBatches /\ c.next \in Nat
      /\ 1 <= c.next
  BY <1>1, <1>2, WsClientAssumption DEF Good, Shape, Client
<1>5. c.subs \cup {c.next} = 1 .. c.next
  BY <1>4
<1> DEFINE d == [c EXCEPT !.subs = @ \cup {c.next}, !.next = @ + 1]
<1>6. /\ d.subs = 1 .. c.next /\ d.next = c.next + 1 /\ d.pc = c.pc
      /\ d.ws = c.ws /\ d.cancel = c.cancel
      /\ d.running = c.running /\ d.stop = c.stop
  BY <1>1, <1>5 DEF Client
<1>7. d \in Client
  <2>1. 1 .. c.next \in SUBSET (1 .. NumBatches)
        /\ c.next + 1 \in 1 .. NumBatches + 1
    BY <1>2, <1>4, WsClientAssumption
  <2> QED
    BY <1>1, <1>5, <2>1 DEF Client
<1>8. 1 .. c.next = 1 .. (c.next + 1) - 1 /\ c.next + 1 <= NumBatches
  BY <1>2, <1>4, WsClientAssumption
<1>9. Good(d, p, t)
  BY <1>2, <1>3, <1>6, <1>8 DEF Good, Shape, Frame, Place
<1>10. Continue(s, d)
  BY DEF SendBatch
<1> QED
  BY <1>7, <1>9, <1>10, ContinueStep

\* With the last batch the peer has them all.
LEMMA SendLastBatchKeepsGood ==
    ASSUME ClientTypeOK, NEW s \in Streams, NEW p \in Phases, NEW t \in BOOLEAN,
           Good(client[s], p, t), SendLastBatch(s)
    PROVE  LeavesGood(s, p, t)
<1> DEFINE c == client[s]
<1>1. c \in Client
  BY DEF ClientTypeOK
<1>2. c.pc = "subscribing" /\ c.ws = "open" /\ c.next = NumBatches
  BY DEF SendLastBatch, At
<1>3. t = TRUE
  BY <1>2 DEF Good, Place
<1>4. c.subs = 1 .. c.next - 1 /\ c.next <= NumBatches /\ c.next \in Nat
      /\ 1 <= c.next
  BY <1>1, <1>2, WsClientAssumption DEF Good, Shape, Client
<1>5. c.subs \cup {c.next} = 1 .. c.next
  BY <1>4
<1>6. PICK stable \in BOOLEAN :
        client' = [client EXCEPT ![s] =
                     [c EXCEPT !.subs = @ \cup {c.next}, !.next = @ + 1,
                               !.pc = "listening", !.h = OnStreaming(@, stable)]]
  BY DEF SendLastBatch
<1> DEFINE d == [c EXCEPT !.subs = @ \cup {c.next}, !.next = @ + 1,
                          !.pc = "listening", !.h = OnStreaming(@, stable)]
<1>7. /\ d.subs = 1 .. NumBatches /\ d.pc = "listening"
      /\ d.cancel = c.cancel /\ d.running = c.running /\ d.stop = c.stop
  BY <1>1, <1>2, <1>5 DEF Client
<1>8. d \in Client
  <2>1. c.next + 1 \in 1 .. NumBatches + 1
    BY <1>2, <1>4, WsClientAssumption
  <2>2. OnStreaming(c.h, stable) \in Handler
    BY <1>1, HandlerMethodTypes DEF Client
  <2>3. c.subs \cup {c.next} \in SUBSET (1 .. NumBatches)
    BY <1>2, <1>5
  <2> QED
    BY <1>1, <2>1, <2>2, <2>3 DEF Client, Suspension
<1>9. Good(d, p, t)
  BY <1>3, <1>7 DEF Good, Shape, Frame, Place
<1>10. gauge' \in [Streams -> BOOLEAN] /\ ready' \in BOOLEAN
  BY DEF SendLastBatch, ClientTypeOK
<1> QED
  BY <1>6, <1>8, <1>9, <1>10 DEF LeavesGood

\* The connection is gone before the subscriptions are out.
LEMMA SendFailsKeepsGood ==
    ASSUME ClientTypeOK, NEW s \in Streams, NEW p \in Phases, NEW t \in BOOLEAN,
           Good(client[s], p, t), SendFails(s)
    PROVE  LeavesGood(s, p, t)
<1> DEFINE c == client[s]
<1>1. c \in Client
  BY DEF ClientTypeOK
<1>2. c.pc = "subscribing" /\ ~c.cancel
  BY DEF SendFails, At
<1>3. t = TRUE
  BY <1>2 DEF Good, Place
<1>4. Frame(c, p, TRUE)
  BY <1>3 DEF Good
<1>5. Fail(s, c)
  BY DEF SendFails, At
<1> QED
  BY <1>1, <1>2, <1>3, <1>4, <1>5, FailStep

\* A message arrives after stop().
LEMMA StopSeenKeepsGood ==
    ASSUME ClientTypeOK, NEW s \in Streams, NEW p \in Phases, NEW t \in BOOLEAN,
           Good(client[s], p, t), StopSeen(s)
    PROVE  LeavesGood(s, p, t)
<1> DEFINE c == client[s]
<1>1. c \in Client
  BY DEF ClientTypeOK
<1>2. c.pc = "listening" /\ ~c.cancel
  BY DEF StopSeen, At
<1>3. t = TRUE
  BY <1>2 DEF Good, Place
<1>4. Frame(c, p, TRUE)
  BY <1>3 DEF Good
<1>5. NextCycle(s, c)
  BY DEF StopSeen, At
<1> QED
  BY <1>1, <1>2, <1>3, <1>4, <1>5, NextCycleStep

\* A client told to disconnect does not lose its place.
LEMMA ForceDisconnectKeepsGood ==
    ASSUME ClientTypeOK, NEW s \in Streams, NEW p \in Phases, NEW t \in BOOLEAN,
           Good(client[s], p, t), ForceDisconnect(s)
    PROVE  LeavesGood(s, p, t)
<1> DEFINE c == client[s]
<1>1. c \in Client
  BY DEF ClientTypeOK
<1>2. c.pc = "listening"
  BY DEF ForceDisconnect, At
<1>3. t = TRUE
  BY <1>2 DEF Good, Place
<1> DEFINE d == [c EXCEPT !.running = FALSE]
<1>4. d \in Client
  BY <1>1 DEF Client
<1>5. /\ d.pc = c.pc /\ d.cancel = c.cancel /\ d.subs = c.subs /\ d.ws = c.ws
      /\ d.running = FALSE /\ d.stop = c.stop
  BY <1>1 DEF Client
<1>6. Good(d, p, t)
  BY <1>2, <1>3, <1>5 DEF Good, Shape, Frame, Place
<1>7. Continue(s, d)
  BY DEF ForceDisconnect
<1> QED
  BY <1>4, <1>6, <1>7, ContinueStep

\* The connection ends under the listen loop.
LEMMA StreamEndsKeepsGood ==
    ASSUME ClientTypeOK, NEW s \in Streams, NEW p \in Phases, NEW t \in BOOLEAN,
           Good(client[s], p, t), StreamEnds(s)
    PROVE  LeavesGood(s, p, t)
<1> DEFINE c == client[s]
<1>1. c \in Client
  BY DEF ClientTypeOK
<1>2. c.pc = "listening" /\ ~c.cancel
  BY DEF StreamEnds, At
<1>3. t = TRUE
  BY <1>2 DEF Good, Place
<1>4. Frame(c, p, TRUE)
  BY <1>3 DEF Good
<1>5. NextCycle(s, c) \/ Fail(s, c)
  BY DEF StreamEnds, At
<1> QED
  BY <1>1, <1>2, <1>3, <1>4, <1>5, NextCycleStep, FailStep

\* The back-off is over.
LEMMA BackoffEndsKeepsGood ==
    ASSUME ClientTypeOK, NEW s \in Streams, NEW p \in Phases, NEW t \in BOOLEAN,
           Good(client[s], p, t), BackoffEnds(s)
    PROVE  LeavesGood(s, p, t)
<1> DEFINE c == client[s]
<1>1. c \in Client
  BY DEF ClientTypeOK
<1>2. c.pc = "backoff" /\ ~c.cancel
  BY DEF BackoffEnds, At
<1>3. t = TRUE
  BY <1>2 DEF Good, Place
<1> DEFINE d == [c EXCEPT !.h = AfterWait(@)]
<1>4. d \in Client
  BY <1>1, HandlerMethodTypes, AfterWaitType DEF Client
<1>5. d.cancel = c.cancel /\ d.running = c.running /\ d.stop = c.stop
  BY <1>1 DEF Client
<1>6. Frame(d, p, TRUE)
  BY <1>3, <1>5 DEF Good, Frame
<1>7. NextCycle(s, d)
  BY DEF BackoffEnds, At
<1> QED
  BY <1>2, <1>3, <1>4, <1>5, <1>6, <1>7, NextCycleStep

\* The closing handshake of _cleanup is over.
LEMMA CloseEndsKeepsGood ==
    ASSUME ClientTypeOK, NEW s \in Streams, NEW p \in Phases, NEW t \in BOOLEAN,
           Good(client[s], p, t), CloseEnds(s)
    PROVE  LeavesGood(s, p, t)
<1> DEFINE c == client[s]
<1>1. c \in Client
  BY DEF ClientTypeOK
<1>2. c.pc = "closing" /\ ~c.cancel
  BY DEF CloseEnds, At
<1>3. t = TRUE
  BY <1>2 DEF Good, Place
<1>4. Frame(c, p, TRUE) /\ c.ws # "open"
  BY <1>2, <1>3 DEF Good, Shape
<1>5. Finish(s, c)
  BY DEF CloseEnds
<1> QED
  BY <1>1, <1>2, <1>3, <1>4, <1>5, FinishStep

\* A cancellation inside a cycle is caught and leads to _cleanup.
LEMMA CancelInCycleKeepsGood ==
    ASSUME ClientTypeOK, NEW s \in Streams, NEW p \in Phases, NEW t \in BOOLEAN,
           Good(client[s], p, t), CancelInCycle(s)
    PROVE  LeavesGood(s, p, t)
<1> DEFINE c == client[s]
<1>1. c \in Client
  BY DEF ClientTypeOK
<1>2. c.pc \notin {"none", "done"}
  BY DEF CancelInCycle
<1>3. t = TRUE
  BY <1>2 DEF Good, Place
<1> DEFINE d == [c EXCEPT !.cancel = FALSE]
<1>4. d \in Client
  BY <1>1 DEF Client
<1>5. d.cancel = FALSE /\ d.running = c.running /\ d.stop = c.stop
  BY <1>1 DEF Client
<1>6. Frame(d, p, TRUE)
  BY <1>3, <1>5 DEF Good, Frame
<1>7. Cleanup(s, d)
  BY DEF CancelInCycle
<1> QED
  BY <1>3, <1>4, <1>5, <1>6, <1>7, CleanupStep

\* A cancellation anywhere else ends the task without _cleanup.  It comes from
\* stop_stream after client.stop(), which has closed the handle, so also a
\* back-off that was entered with an open handle has none by then.
LEMMA CancelOutsideCycleKeepsGood ==
    ASSUME ClientTypeOK, NEW s \in Streams, NEW p \in Phases, NEW t \in BOOLEAN,
           Good(client[s], p, t), CancelOutsideCycle(s)
    PROVE  LeavesGood(s, p, t)
<1> DEFINE c == client[s]
<1>1. c \in Client
  BY DEF ClientTypeOK
<1>2. c.cancel /\ c.pc \in {"created", "backoff", "closing"}
  BY DEF CancelOutsideCycle
<1>3. t = TRUE /\ p \in {"await", "awaitAgain"}
  BY <1>2 DEF Good, Frame, Place, Phases
<1>4. c.ws # "open"
  BY <1>2, <1>3 DEF Good, Shape, Place
<1> DEFINE d == [c EXCEPT !.pc = "done", !.cancel = FALSE]
<1>5. d \in Client
  BY <1>1 DEF Client, Suspension
<1>6. /\ d.pc = "done" /\ d.cancel = FALSE /\ d.ws = c.ws
      /\ d.running = c.running /\ d.stop = c.stop
  BY <1>1 DEF Client
<1>7. Good(d, p, t)
  BY <1>3, <1>4, <1>6 DEF Good, Shape, Frame, Place
<1>8. Continue(s, d)
  BY DEF CancelOutsideCycle
<1> QED
  BY <1>5, <1>7, <1>8, ContinueStep

\* The peer closes the connection of the handle.
LEMMA PeerClosesKeepsGood ==
    ASSUME ClientTypeOK, NEW s \in Streams, NEW p \in Phases, NEW t \in BOOLEAN,
           Good(client[s], p, t), PeerCloses(s)
    PROVE  LeavesGood(s, p, t)
<1> DEFINE c == client[s]
<1>1. c \in Client
  BY DEF ClientTypeOK
<1>2. c.ws = "open"
  BY DEF PeerCloses
<1>3. t = TRUE /\ c.pc \notin {"none", "created", "closing", "done"}
  BY <1>2 DEF Good, Shape, Place
<1>4. PICK how \in {"closedOK", "closedErr"} : Continue(s, Closed(c, how))
  BY DEF PeerCloses
<1> DEFINE d == Closed(c, how)
<1>5. d \in Client
  BY <1>1 DEF Closed, Client, Handle
<1>6. /\ d.pc = c.pc /\ d.cancel = c.cancel /\ d.ws = how
      /\ d.running = c.running /\ d.stop = c.stop
  BY <1>1 DEF Closed, Client
<1>7. Good(d, p, t)
  BY <1>3, <1>6 DEF Good, Shape, Frame, Place
<1> QED
  BY <1>4, <1>5, <1>7, ContinueStep

\* The peer closes a connection no handle names: the client does not notice.
LEMMA PeerClosesLeakedKeepsGood ==
    ASSUME ClientTypeOK, NEW s \in Streams, NEW p \in Phases, NEW t \in BOOLEAN,
           Good(client[s], p, t), PeerClosesLeaked(s)
    PROVE  LeavesGood(s, p, t)
<1> DEFINE c == client[s]
<1>1. c \in Client
  BY DEF ClientTypeOK
<1>2. client' = [client EXCEPT ![s] = c]
  BY DEF PeerClosesLeaked, ClientTypeOK
<1>3. gauge' \in [Streams -> BOOLEAN] /\ ready' \in BOOLEAN
  BY DEF PeerClosesLeaked, ClientTypeOK
<1> QED
  BY <1>1, <1>2, <1>3 DEF LeavesGood

\* Any step of a client or of its peer.
LEMMA ClientStepKeepsGood ==
    ASSUME ClientTypeOK, NEW s \in Streams, NEW p \in Phases, NEW t \in BOOLEAN,
           Good(client[s], p, t), ClientStep(s) \/ PeerStep(s)
    PROVE  /\ LeavesGood(s, p, t)
           /\ leaked' \in [Streams -> BOOLEAN]
           /\ subscribed' \in BOOLEAN
<1>1. LeavesGood(s, p, t)
  BY BeginKeepsGood, RateGrantedKeepsGood, ConnectedKeepsGood,
     ConnectFailsKeepsGood, AuthReplyKeepsGood, AuthFailsKeepsGood,
     SendBatchKeepsGood, SendLastBatchKeepsGood, SendFailsKeepsGood,
     StopSeenKeepsGood, ForceDisconnectKeepsGood, StreamEndsKeepsGood,
     BackoffEndsKeepsGood, CloseEndsKeepsGood, CancelInCycleKeepsGood,
     CancelOutsideCycleKeepsGood, PeerClosesKeepsGood,
     PeerClosesLeakedKeepsGood
  DEF ClientStep, PeerStep
<1>2. leaked' \in [Streams -> BOOLEAN]
  BY DEF ClientTypeOK, ClientStep, PeerStep, Begin, RateGranted, Connected,
         ConnectFails, AuthReply, AuthFails, SendBatch, SendLastBatch, SendFails,
         StopSeen, ForceDisconnect, StreamEnds, BackoffEnds, CloseEnds,
         CancelInCycle, CancelOutsideCycle, PeerCloses, PeerClosesLeaked
<1>3. subscribed' \in BOOLEAN
  BY DEF ClientTypeOK, ClientStep, PeerStep, Begin, RateGranted, Connected,
         ConnectFails, AuthReply, AuthFails, SendBatch, SendLastBatch, SendFails,
         StopSeen, ForceDisconnect, StreamEnds, BackoffEnds, CloseEnds,
         CancelInCycle, CancelOutsideCycle, PeerCloses, PeerClosesLeaked
<1> QED
  BY <1>1, <1>2, <1>3

------------------------------------------------------------------------------
\* From one stream to the whole state.

\* What is known of every stream.
EveryGood == \A s \in Streams : Good(client[s], Phase(s), s \in tasks)

\* If a step changes at most the record of stream s, and leaves the phase and
\* the entry in _tasks of the other streams alone, only s needs a look.
LEMMA OneStreamMoves ==
    ASSUME ClientTypeOK, EveryGood, NEW s \in Streams, NEW d \in Client,
           client' = [client EXCEPT ![s] = d],
           \A r \in Streams \ {s} : /\ Phase(r)' = Phase(r)
                                   /\ (r \in tasks)' = (r \in tasks),
           Good(d, Phase(s)', (s \in tasks)')
    PROVE  client' \in [Streams -> Client] /\ EveryGood'
<1>1. client' \in [Streams -> Client] /\ client'[s] = d
  BY DEF ClientTypeOK
<1>2. ASSUME NEW r \in Streams
      PROVE  Good(client'[r], Phase(r)', (r \in tasks)')
  <2>1. CASE r = s
    BY <1>1, <2>1
  <2>2. CASE r # s
    <3>1. client'[r] = client[r]
      BY <2>2 DEF ClientTypeOK
    <3>2. Good(client[r], Phase(r), r \in tasks)
      BY DEF EveryGood
    <3> QED
      BY <2>2, <3>1, <3>2
  <2> QED
    BY <2>1, <2>2
<1> QED
  BY <1>1, <1>2 DEF EveryGood

\* The phase is always one of the known ones.
LEMMA PhaseType ==
    ASSUME ManagerTypeOK, NEW s \in Streams
    PROVE  Phase(s) \in Phases
BY DEF ManagerTypeOK, Phase, Phases

\* No stream exists yet.
LEMMA InitIInv == Init => IInv
<1> SUFFICES ASSUME Init PROVE IInv
  OBVIOUS
<1> DEFINE c0 == [NewClient EXCEPT !.pc = "none"]
<1>1. c0 \in Client /\ c0.pc = "none" /\ c0.ws = "none" /\ c0.cancel = FALSE
  BY NewClientType DEF NewClient, Client, Suspension
<1>2. client = [s \in Streams |-> c0]
  BY DEF Init, ClientInit
<1>3. TypeOK
  BY <1>1, <1>2 DEF Init, ClientInit, TypeOK, ClientTypeOK, ManagerTypeOK
<1>4. Good(c0, "idle", FALSE)
  BY <1>1 DEF Good, Shape, Frame, Place
<1>5. EveryGood
  <2>1. ASSUME NEW s \in Streams PROVE Good(client[s], Phase(s), s \in tasks)
    <3>1. client[s] = c0 /\ Phase(s) = "idle" /\ (s \in tasks) = FALSE
      BY <1>2 DEF Init, Phase
    <3> QED
      BY <1>4, <3>1
  <2> QED
    BY <2>1 DEF EveryGood
<1>6. ManagerInv
  BY DEF Init, ManagerInv
<1> QED
  BY <1>3, <1>5, <1>6 DEF IInv, EveryGood

\* The clients' and the peers' steps.
LEMMA ClientStepKeepsIInv ==
    ASSUME IInv, NEW s \in Streams, ClientStep(s) \/ PeerStep(s),
           UNCHANGED managerVars
    PROVE  IInv'
<1>1. ClientTypeOK /\ ManagerTypeOK /\ EveryGood /\ ManagerInv
  BY DEF IInv, TypeOK, EveryGood
<1>2. Phase(s) \in Phases /\ Good(client[s], Phase(s), s \in tasks)
  BY <1>1, PhaseType DEF EveryGood
<1>3. /\ LeavesGood(s, Phase(s), s \in tasks)
      /\ leaked' \in [Streams -> BOOLEAN] /\ subscribed' \in BOOLEAN
  <2>1. (s \in tasks) \in BOOLEAN
    OBVIOUS
  <2> QED
    BY <1>1, <1>2, <2>1, ClientStepKeepsGood
<1>4. \A r \in Streams : Phase(r)' = Phase(r) /\ (r \in tasks)' = (r \in tasks)
  BY DEF managerVars, Phase
<1>5. PICK d \in Client : /\ client' = [client EXCEPT ![s] = d]
                         /\ Good(d, Phase(s), s \in tasks)
  BY <1>3 DEF LeavesGood
<1>6. client' \in [Streams -> Client] /\ EveryGood'
  BY <1>1, <1>4, <1>5, OneStreamMoves
<1>7. ManagerTypeOK' /\ ManagerInv'
  BY <1>1 DEF managerVars, ManagerTypeOK, ManagerInv
<1> QED
  BY <1>3, <1>6, <1>7 DEF IInv, TypeOK, ClientTypeOK, EveryGood, LeavesGood

\* A step that leaves every client, every phase and _tasks alone.
LEMMA ManagerOnlyStep ==
    ASSUME IInv, UNCHANGED <<clientVars, tasks, caller, target>>,
           ManagerTypeOK', ManagerInv'
    PROVE  IInv'
<1>1. ClientTypeOK' /\ EveryGood'
  BY DEF IInv, TypeOK, ClientTypeOK, EveryGood, clientVars, Phase
<1> QED
  BY <1>1 DEF IInv, TypeOK, EveryGood

LEMMA InitializeKeepsIInv == IInv /\ Initialize => IInv'
<1> SUFFICES ASSUME IInv, Initialize PROVE IInv'
  OBVIOUS
<1>1. ManagerTypeOK' /\ ManagerInv'
  BY DEF IInv, TypeOK, ManagerTypeOK, ManagerInv, Initialize
<1> QED
  BY <1>1, ManagerOnlyStep DEF Initialize

LEMMA StopAllKeepsIInv == IInv /\ StopAll => IInv'
<1> SUFFICES ASSUME IInv, StopAll PROVE IInv'
  OBVIOUS
<1>1. ManagerTypeOK' /\ ManagerInv'
  BY DEF IInv, TypeOK, ManagerTypeOK, ManagerInv, StopAll
<1> QED
  BY <1>1, ManagerOnlyStep DEF StopAll

\* Nothing is left in _tasks when everything has been stopped.
LEMMA ShutDownKeepsIInv == IInv /\ ShutDown => IInv'
<1> SUFFICES ASSUME IInv, ShutDown PROVE IInv'
  OBVIOUS
<1>1. ManagerTypeOK' /\ ManagerInv'
  BY DEF IInv, TypeOK, ManagerTypeOK, ManagerInv, ShutDown
<1> QED
  BY <1>1, ManagerOnlyStep DEF ShutDown

\* A stream that is started has a new client; the old one had ended.
LEMMA StartStreamKeepsIInv ==
    ASSUME IInv, NEW s \in Streams, StartStream(s)
    PROVE  IInv'
<1>1. ClientTypeOK /\ ManagerTypeOK /\ EveryGood /\ ManagerInv
  BY DEF IInv, TypeOK, EveryGood
<1>2. /\ NewClient \in Client /\ NewClient.pc = "created"
      /\ NewClient.ws = "none" /\ NewClient.cancel = FALSE
  BY NewClientType DEF NewClient
<1>3. \A r \in Streams : Phase(r)' = "idle" /\ Phase(r) = "idle"
  BY <1>1 DEF Phase, StartStream
<1>4. Good(NewClient, Phase(s)', (s \in tasks)')
  BY <1>2, <1>3 DEF StartStream, Good, Shape, Frame, Place
<1>5. client' \in [Streams -> Client] /\ EveryGood'
  <2>1. client' = [client EXCEPT ![s] = NewClient]
    BY DEF StartStream
  <2>2. \A r \in Streams \ {s} : (r \in tasks)' = (r \in tasks)
    BY DEF StartStream
  <2> QED
    BY <1>1, <1>2, <1>3, <1>4, <2>1, <2>2, OneStreamMoves
<1>6. ManagerTypeOK' /\ ManagerInv'
  BY <1>1 DEF StartStream, ManagerTypeOK, ManagerInv
<1>7. ClientTypeOK'
  BY <1>1, <1>5 DEF StartStream, ClientTypeOK
<1> QED
  BY <1>5, <1>6, <1>7 DEF IInv, TypeOK, EveryGood


\* A step of stop_stream replaces the record of the stream it works on and moves
\* on in its phases.
LEMMA StopStepMoves ==
    ASSUME IInv, NEW s \in Streams, NEW d \in Client,
           s \in tasks, target \in {s, NoStream},
           target = NoStream => caller = "idle",
           client' = [client EXCEPT ![s] = d],
           target' = s, caller' \in Phases \ {"idle"}, tasks' = tasks,
           Good(d, caller', TRUE)
    PROVE  client' \in [Streams -> Client] /\ EveryGood'
<1>1. \A r \in Streams \ {s} : /\ Phase(r)' = Phase(r)
                              /\ (r \in tasks)' = (r \in tasks)
  BY StreamsAssumption DEF Phase, Phases
<1>2. Phase(s)' = caller' /\ (s \in tasks)' = TRUE
  BY DEF Phase
<1>3. Good(d, Phase(s)', (s \in tasks)')
  BY <1>2
<1>4. ClientTypeOK /\ EveryGood
  BY DEF IInv, TypeOK, EveryGood
<1> QED
  BY <1>1, <1>3, <1>4, OneStreamMoves

\* Cancelling a task whose client has been stopped and whose handle, if the task
\* is in its back-off, is closed.
LEMMA CancelTaskGood ==
    ASSUME NEW c \in Client, Shape(c), ~c.running, c.stop,
           c.pc = "backoff" => c.ws # "open"
    PROVE  LET d == [c EXCEPT !.cancel = c.pc # "done"]
           IN  d \in Client /\ Good(d, "await", TRUE)
<1> DEFINE d == [c EXCEPT !.cancel = c.pc # "done"]
<1>1. d \in Client
  BY DEF Client
<1>2. /\ d.pc = c.pc /\ d.ws = c.ws /\ d.subs = c.subs /\ d.next = c.next
      /\ d.running = c.running /\ d.stop = c.stop
  BY DEF Client
<1>3. d.cancel = (c.pc # "done")
  BY DEF Client
<1>4. Shape(d)
  BY <1>2, <1>3 DEF Shape
<1>5. Frame(d, "await", TRUE)
  BY <1>2 DEF Frame
<1>6. Place(d, "await", TRUE)
  BY <1>2, <1>3 DEF Place
<1> QED
  BY <1>1, <1>4, <1>5, <1>6 DEF Good

\* stop_stream up to its first suspension.  An open handle belongs to a task
\* that has begun, so a task that has not is cancelled at once.
LEMMA BeginStopGood ==
    ASSUME IInv, NEW s \in Streams, s \in tasks, caller = "idle", BeginStop(s)
    PROVE  /\ ClientTypeOK' /\ EveryGood'
           /\ target' = s /\ caller' \in {"unsubscribe", "close", "await"}
           /\ tasks' = tasks
<1> DEFINE c == client[s]
           d == [c EXCEPT !.running = FALSE, !.stop = TRUE]
<1>1. /\ ClientTypeOK /\ target = NoStream
      /\ Good(c, "idle", TRUE) /\ c \in Client
  <2>1. ClientTypeOK /\ target = NoStream
    BY DEF IInv, TypeOK, ManagerInv
  <2>2. Good(c, Phase(s), s \in tasks) /\ Phase(s) = "idle"
    BY DEF IInv, Phase
  <2>3. Good(c, "idle", TRUE)
    BY <2>2
  <2> QED
    BY <2>1, <2>3 DEF ClientTypeOK
<1>2. d \in Client
  BY <1>1 DEF Client
<1>3. /\ d.pc = c.pc /\ d.ws = c.ws /\ d.subs = c.subs /\ d.next = c.next
      /\ d.cancel = c.cancel /\ d.running = FALSE /\ d.stop = TRUE
  BY <1>1 DEF Client
<1>4. Shape(d) /\ ~d.cancel
  BY <1>1, <1>3 DEF Good, Shape, Frame
<1>5. gauge' \in [Streams -> BOOLEAN] /\ target' = s
      /\ UNCHANGED <<leaked, ready, subscribed, tasks>>
  BY <1>1 DEF BeginStop, ClientTypeOK
<1>6. /\ client' \in [Streams -> Client] /\ EveryGood'
      /\ caller' \in {"unsubscribe", "close", "await"}
  <2>1. CASE c.ws = "open" /\ subscribed
    <3>1. client' = [client EXCEPT ![s] = d] /\ caller' = "unsubscribe"
      BY <2>1, <1>3 DEF BeginStop
    <3>2. c.pc \notin {"none", "created"}
      BY <2>1, <1>1 DEF Good, Shape
    <3>3. Good(d, "unsubscribe", TRUE)
      BY <1>3, <1>4, <3>2 DEF Good, Frame, Place
    <3> QED
      BY <1>1, <1>2, <1>5, <3>1, <3>3, StopStepMoves DEF Phases
  <2>2. CASE c.ws = "open" /\ ~subscribed
    <3> DEFINE e == Closed(d, "closedOK")
    <3>1. client' = [client EXCEPT ![s] = e] /\ caller' = "close"
      BY <2>2, <1>3 DEF BeginStop
    <3>2. c.pc \notin {"none", "created"}
      BY <2>2, <1>1 DEF Good, Shape
    <3>3. e \in Client /\ e.pc = c.pc /\ e.ws = "closedOK"
          /\ e.cancel = d.cancel /\ e.running = FALSE /\ e.stop = TRUE
      BY <1>2, <1>3 DEF Closed, Client, Handle
    <3>4. Good(e, "close", TRUE)
      BY <1>4, <3>2, <3>3 DEF Good, Shape, Frame, Place
    <3> QED
      BY <1>1, <1>5, <3>1, <3>3, <3>4, StopStepMoves DEF Phases
  <2>3. CASE c.ws # "open"
    <3> DEFINE e == [d EXCEPT !.cancel = d.pc # "done"]
    <3>1. client' = [client EXCEPT ![s] = e] /\ caller' = "await"
      BY <2>3, <1>3 DEF BeginStop, CancelTask
    <3>2. e \in Client /\ Good(e, "await", TRUE)
      BY <2>3, <1>2, <1>3, <1>4, CancelTaskGood
    <3> QED
      BY <1>1, <1>5, <3>1, <3>2, StopStepMoves DEF Phases
  <2> QED
    BY <2>1, <2>2, <2>3, <1>1 DEF ClientTypeOK
<1> QED
  BY <1>1, <1>5, <1>6 DEF ClientTypeOK

LEMMA StopStreamKeepsIInv ==
    ASSUME IInv, NEW s \in Streams, StopStream(s)
    PROVE  IInv'
<1>1. /\ ClientTypeOK' /\ EveryGood'
      /\ target' = s /\ caller' \in {"unsubscribe", "close", "await"}
      /\ tasks' = tasks
  BY BeginStopGood DEF StopStream
<1>2. ManagerTypeOK' /\ ManagerInv'
  BY <1>1, StreamsAssumption
  DEF IInv, TypeOK, ManagerTypeOK, ManagerInv, StopStream
<1> QED
  BY <1>1, <1>2 DEF IInv, TypeOK, EveryGood

LEMMA StopNextKeepsIInv ==
    ASSUME IInv, NEW s \in Streams, StopNext(s)
    PROVE  IInv'
<1>1. s \in tasks /\ caller = "idle" /\ toStop = tasks
  BY DEF IInv, ManagerInv, StopNext
<1>2. /\ ClientTypeOK' /\ EveryGood'
      /\ target' = s /\ caller' \in {"unsubscribe", "close", "await"}
      /\ tasks' = tasks
  BY <1>1, BeginStopGood DEF StopNext
<1>3. ManagerTypeOK' /\ ManagerInv'
  BY <1>1, <1>2, StreamsAssumption
  DEF IInv, TypeOK, ManagerTypeOK, ManagerInv, StopNext
<1> QED
  BY <1>2, <1>3 DEF IInv, TypeOK, EveryGood

\* What stop_stream knows of its stream between two of its steps.
LEMMA TargetGood ==
    ASSUME IInv, caller # "idle"
    PROVE  /\ target \in Streams /\ target \in tasks
           /\ client[target] \in Client
           /\ Good(client[target], caller, TRUE)
           /\ ~client[target].running /\ client[target].stop
<1>1. target \in Streams
  BY DEF IInv, TypeOK, ManagerTypeOK, ManagerInv
<1>2. client[target] \in Client
  BY <1>1 DEF IInv, TypeOK, ClientTypeOK
<1>3. Good(client[target], caller, target \in tasks)
  BY <1>1 DEF IInv, Phase
<1>4. target \in tasks /\ ~client[target].running /\ client[target].stop
  BY <1>3 DEF Good, Frame
<1>5. Good(client[target], caller, TRUE)
  BY <1>3, <1>4
<1> QED
  BY <1>1, <1>2, <1>4, <1>5

\* The manager's invariant while stop_stream goes on.
LEMMA StopStepManager ==
    ASSUME IInv, caller # "idle", UNCHANGED <<tasks, mgr, target, toStop>>,
           caller' \in Phases \ {"idle"}
    PROVE  ManagerTypeOK' /\ ManagerInv'
BY DEF IInv, TypeOK, ManagerTypeOK, ManagerInv, Phases

LEMMA UnsubscribedKeepsIInv == IInv /\ Unsubscribed => IInv'
<1> SUFFICES ASSUME IInv, Unsubscribed PROVE IInv'
  OBVIOUS
<1> DEFINE c == client[target]
           d == IF c.ws = "open" THEN Closed(c, "closedOK") ELSE c
<1>1. /\ caller = "unsubscribe" /\ caller' = "close"
      /\ client' = [client EXCEPT ![target] = d]
      /\ UNCHANGED <<gauge, leaked, ready, tasks, mgr, target, toStop>>
      /\ subscribed' = FALSE
  BY DEF Unsubscribed
<1>2. /\ target \in Streams /\ target \in tasks /\ c \in Client
      /\ Good(c, "unsubscribe", TRUE)
  BY <1>1, TargetGood
<1>3. d \in Client /\ d.ws # "open" /\ d.pc = c.pc /\ d.cancel = c.cancel
      /\ d.running = c.running /\ d.stop = c.stop
      /\ (d.ws = c.ws \/ c.ws = "open")
  BY <1>2 DEF Closed, Client, Handle
<1>4. Good(d, "close", TRUE)
  BY <1>2, <1>3 DEF Good, Shape, Frame, Place
<1>5. client' \in [Streams -> Client] /\ EveryGood'
  BY <1>1, <1>2, <1>3, <1>4, StreamsAssumption, StopStepMoves DEF Phases
<1>6. ManagerTypeOK' /\ ManagerInv'
  BY <1>1, StopStepManager DEF Phases
<1>7. ClientTypeOK'
  BY <1>1, <1>5 DEF IInv, TypeOK, ClientTypeOK
<1> QED
  BY <1>5, <1>6, <1>7 DEF IInv, TypeOK, EveryGood

LEMMA CloseReturnsKeepsIInv == IInv /\ CloseReturns => IInv'
<1> SUFFICES ASSUME IInv, CloseReturns PROVE IInv'
  OBVIOUS
<1> DEFINE c == client[target]
           d == [c EXCEPT !.cancel = c.pc # "done"]
<1>1. /\ caller = "close" /\ caller' = "await"
      /\ client' = [client EXCEPT ![target] = d]
      /\ gauge' = [gauge EXCEPT ![target] = FALSE]
      /\ UNCHANGED <<leaked, ready, subscribed, tasks, mgr, target, toStop>>
  BY DEF CloseReturns, CancelTask
<1>2. /\ target \in Streams /\ target \in tasks /\ c \in Client
      /\ Good(c, "close", TRUE) /\ ~c.running /\ c.stop
  BY <1>1, TargetGood
<1>3. d \in Client /\ Good(d, "await", TRUE)
  <2>1. Shape(c) /\ (c.pc = "backoff" => c.ws # "open")
    BY <1>2 DEF Good, Place
  <2> QED
    BY <1>2, <2>1, CancelTaskGood
<1>4. client' \in [Streams -> Client] /\ EveryGood'
  BY <1>1, <1>2, <1>3, StreamsAssumption, StopStepMoves DEF Phases
<1>5. ManagerTypeOK' /\ ManagerInv'
  BY <1>1, StopStepManager DEF Phases
<1>6. ClientTypeOK'
  BY <1>1, <1>4 DEF IInv, TypeOK, ClientTypeOK
<1> QED
  BY <1>4, <1>5, <1>6 DEF IInv, TypeOK, EveryGood

LEMMA WaitTimesOutKeepsIInv == IInv /\ WaitTimesOut => IInv'
<1> SUFFICES ASSUME IInv, WaitTimesOut PROVE IInv'
  OBVIOUS
<1> DEFINE c == client[target]
           d == [c EXCEPT !.cancel = TRUE]
<1>1. /\ caller = "await" /\ caller' = "awaitAgain" /\ c.pc # "done"
      /\ client' = [client EXCEPT ![target] = d]
      /\ UNCHANGED <<gauge, leaked, ready, subscribed, tasks, mgr, target, toStop>>
  BY DEF WaitTimesOut
<1>2. /\ target \in Streams /\ target \in tasks /\ c \in Client
      /\ Good(c, "await", TRUE)
  BY <1>1, TargetGood
<1>3. /\ d \in Client /\ d.cancel /\ d.pc = c.pc /\ d.ws = c.ws
      /\ d.subs = c.subs /\ d.next = c.next
      /\ d.running = c.running /\ d.stop = c.stop
  BY <1>2 DEF Client
<1>4. Good(d, "awaitAgain", TRUE)
  BY <1>1, <1>2, <1>3 DEF Good, Shape, Frame, Place
<1>5. client' \in [Streams -> Client] /\ EveryGood'
  BY <1>1, <1>2, <1>3, <1>4, StreamsAssumption, StopStepMoves DEF Phases
<1>6. ManagerTypeOK' /\ ManagerInv'
  BY <1>1, StopStepManager DEF Phases
<1>7. ClientTypeOK'
  BY <1>1, <1>5 DEF IInv, TypeOK, ClientTypeOK
<1> QED
  BY <1>5, <1>6, <1>7 DEF IInv, TypeOK, EveryGood

\* stop_stream returns: its stream has no task, no open handle and no pending
\* cancellation left.
LEMMA TaskEndedKeepsIInv == IInv /\ TaskEnded => IInv'
<1> SUFFICES ASSUME IInv, TaskEnded PROVE IInv'
  OBVIOUS
<1> DEFINE c == client[target]
<1>1. /\ caller \in {"await", "awaitAgain"} /\ c.pc = "done"
      /\ caller' = "idle" /\ target' = NoStream /\ tasks' = tasks \ {target}
      /\ UNCHANGED <<client, gauge, leaked, ready, subscribed, mgr, toStop>>
  BY DEF TaskEnded, clientVars
<1>2. target \in Streams /\ c \in Client /\ Good(c, caller, TRUE)
  BY <1>1, TargetGood
<1>3. Good(c, "idle", FALSE)
  BY <1>1, <1>2 DEF Good, Shape, Frame, Place
<1>4. \A r \in Streams \ {target} : /\ Phase(r)' = Phase(r)
                                   /\ (r \in tasks)' = (r \in tasks)
  BY <1>1, StreamsAssumption DEF Phase
<1>5. ASSUME NEW r \in Streams
      PROVE  Good(client'[r], Phase(r)', (r \in tasks)')
  <2>1. CASE r = target
    <3>1. Phase(r)' = "idle" /\ (r \in tasks)' = FALSE /\ client'[r] = c
      BY <1>1, <2>1 DEF Phase
    <3> QED
      BY <1>3, <3>1
  <2>2. CASE r # target
    <3>1. Good(client[r], Phase(r), r \in tasks)
      BY DEF IInv
    <3>2. client'[r] = client[r]
      BY <1>1
    <3> QED
      BY <1>4, <2>2, <3>1, <3>2
  <2> QED
    BY <2>1, <2>2
<1>6. EveryGood'
  BY <1>5 DEF EveryGood
<1>7. ManagerTypeOK' /\ ManagerInv'
  BY <1>1, <1>2 DEF IInv, TypeOK, ManagerTypeOK, ManagerInv
<1>8. ClientTypeOK'
  BY <1>1 DEF IInv, TypeOK, ClientTypeOK
<1> QED
  BY <1>6, <1>7, <1>8 DEF IInv, TypeOK, EveryGood

------------------------------------------------------------------------------
\* Every step keeps the invariant.
LEMMA IInvInductive == IInv /\ [Next]_vars => IInv'
<1> SUFFICES ASSUME IInv, [Next]_vars PROVE IInv'
  OBVIOUS
<1>1. CASE CallerCalls
  BY <1>1, InitializeKeepsIInv, StopAllKeepsIInv, StartStreamKeepsIInv,
     StopStreamKeepsIInv DEF CallerCalls
<1>2. CASE CallerStep
  BY <1>2, UnsubscribedKeepsIInv, CloseReturnsKeepsIInv, WaitTimesOutKeepsIInv,
     TaskEndedKeepsIInv, StopNextKeepsIInv, ShutDownKeepsIInv DEF CallerStep
<1>3. CASE \E s \in Streams : /\ ClientStep(s) \/ PeerStep(s)
                              /\ UNCHANGED managerVars
  BY <1>3, ClientStepKeepsIInv
<1>4. CASE UNCHANGED vars
  <2>1. UNCHANGED <<clientVars, tasks, caller, target>>
        /\ UNCHANGED <<mgr, toStop>>
    BY <1>4 DEF vars, managerVars
  <2>2. ManagerTypeOK' /\ ManagerInv'
    BY <2>1 DEF IInv, TypeOK, ManagerTypeOK, ManagerInv
  <2> QED
    BY <2>1, <2>2, ManagerOnlyStep
<1> QED
  BY <1>1, <1>2, <1>3, <1>4 DEF Next

\* The invariant holds throughout every behaviour.
LEMMA SpecIInv == Spec => []IInv
BY InitIInv, IInvInductive, PTL DEF Spec

\* Types: no sequence of calls, failures and cancellations takes a variable out
\* of its range.
THEOREM StreamManagerTypeCorrect == Spec => []TypeOK
<1>1. IInv => TypeOK
  BY DEF IInv
<1> QED
  BY <1>1, SpecIInv, PTL

\* stop_stream forgets a stream only when its task has ended.
THEOREM NoOrphanTaskHolds == Spec => []NoOrphanTask
<1>1. IInv => NoOrphanTask
  BY DEF IInv, NoOrphanTask, Live, Good, Place
<1> QED
  BY <1>1, SpecIInv, PTL

\* After stop_stream the client's handle is not an open connection, whatever the
\* task was doing when it was stopped.
THEOREM HandleClosedAfterStopHolds == Spec => []HandleClosedAfterStop
<1>1. IInv => HandleClosedAfterStop
  BY DEF IInv, HandleClosedAfterStop, Good, Shape, Place
<1> QED
  BY <1>1, SpecIInv, PTL

\* After stop_all no task is left and no handle is open.
THEOREM DownMeansStoppedHolds == Spec => []DownMeansStopped
<1>1. IInv => DownMeansStopped
  BY DEF IInv, ManagerInv, DownMeansStopped, Live, Good, Shape, Place
<1> QED
  BY <1>1, SpecIInv, PTL

\* A client that listens has subscribed every batch on the connection it
\* listens to.
THEOREM ListeningIsSubscribedHolds == Spec => []ListeningIsSubscribed
<1>1. IInv => ListeningIsSubscribed
  BY DEF IInv, ListeningIsSubscribed, Good, Shape
<1> QED
  BY <1>1, SpecIInv, PTL

------------------------------------------------------------------------------
(***************************************************************************)
(* The manager over its clients implements StreamLifecycle (the safety     *)
(* part; TLC checks the rest).  A step of a client can only open or close  *)
(* its own handle, and a stream that holds an open handle is in _tasks,    *)
(* which is HandleClosedAfterStop; a manager's step is one of the abstract *)
(* actions or leaves the abstract state alone.                             *)
(***************************************************************************)
\* The abstract state.
Status == [s \in Streams |-> IF s \notin tasks THEN "off"
                             ELSE IF target = s THEN "stopping" ELSE "active"]
Attached == [s \in Streams |-> client[s].ws = "open"]
Service == IF mgr = "down" THEN "closed" ELSE "open"

AbstractStep == [Lifecycle!Next]_(Lifecycle!vars)

\* A step that leaves the abstract state alone.
LEMMA StutterStep ==
    ASSUME Status' = Status, Attached' = Attached, Service' = Service
    PROVE  AbstractStep
BY DEF AbstractStep, Status, Attached, Service, Lifecycle!vars

\* What the client records leave visible after a step of one stream.
LEMMA AttachedMoves ==
    ASSUME ClientTypeOK, NEW s \in Streams, NEW d \in Client,
           client' = [client EXCEPT ![s] = d]
    PROVE  Attached' = [Attached EXCEPT ![s] = d.ws = "open"]
BY DEF ClientTypeOK, Attached

\* A step of one client: its handle is opened, closed, or as it was.
LEMMA OneClientAbstract ==
    ASSUME IInv, IInv', NEW s \in Streams, NEW d \in Client,
           client' = [client EXCEPT ![s] = d],
           UNCHANGED managerVars
    PROVE  AbstractStep
<1>1. /\ ClientTypeOK
      /\ Status' = Status /\ Service' = Service
  BY DEF IInv, TypeOK, managerVars, Status, Service
<1>2. Attached' = [Attached EXCEPT ![s] = d.ws = "open"]
  BY <1>1, AttachedMoves
<1>3. CASE (d.ws = "open") = Attached[s]
  <2>1. Attached' = Attached
    BY <1>2, <1>3 DEF Attached
  <2> QED
    BY <1>1, <2>1, StutterStep
<1>4. CASE d.ws = "open" /\ ~Attached[s]
  <2>1. client'[s] = d
    BY <1>1 DEF ClientTypeOK
  <2>2. s \in tasks
    BY <1>4, <2>1 DEF IInv, Good, Shape, Place, managerVars
  <2>3. Status[s] # "off"
    BY <2>2 DEF Status
  <2>4. Attached' = [Attached EXCEPT ![s] = TRUE]
    BY <1>2, <1>4
  <2>5. Lifecycle!Attach(s)
    BY <1>1, <1>4, <2>3, <2>4
    DEF Lifecycle!Attach, Status, Attached, Service
  <2> QED
    BY <2>5 DEF AbstractStep, Lifecycle!Next
<1>5. CASE d.ws # "open" /\ Attached[s]
  <2>1. Attached' = [Attached EXCEPT ![s] = FALSE]
    BY <1>2, <1>5
  <2>2. Lifecycle!Detach(s)
    BY <1>1, <1>5, <2>1 DEF Lifecycle!Detach, Status, Attached, Service
  <2> QED
    BY <2>2 DEF AbstractStep, Lifecycle!Next
<1>6. Attached[s] = (client[s].ws = "open")
  BY DEF Attached
<1> QED
  BY <1>3, <1>4, <1>5, <1>6

\* The steps of the tasks and of the peers.
LEMMA ClientStepAbstract ==
    ASSUME IInv, IInv', NEW s \in Streams, ClientStep(s) \/ PeerStep(s),
           UNCHANGED managerVars
    PROVE  AbstractStep
<1>1. ClientTypeOK /\ ManagerTypeOK /\ EveryGood
  BY DEF IInv, TypeOK, EveryGood
<1>2. Phase(s) \in Phases /\ Good(client[s], Phase(s), s \in tasks)
  BY <1>1, PhaseType DEF EveryGood
<1>3. LeavesGood(s, Phase(s), s \in tasks)
  <2>1. (s \in tasks) \in BOOLEAN
    OBVIOUS
  <2> QED
    BY <1>1, <1>2, <2>1, ClientStepKeepsGood
<1>4. PICK d \in Client : client' = [client EXCEPT ![s] = d]
  BY <1>3 DEF LeavesGood
<1> QED
  BY <1>4, OneClientAbstract

\* A step of stop_stream after its first suspension, which closes the handle of
\* the stream it works on or leaves it alone.
LEMMA StopStepAbstract ==
    ASSUME IInv, IInv', caller # "idle", NEW d \in Client,
           client' = [client EXCEPT ![target] = d],
           d.ws = "open" => client[target].ws = "open",
           UNCHANGED <<tasks, mgr, target>>
    PROVE  AbstractStep
<1>1. ClientTypeOK /\ target \in Streams
  BY TargetGood DEF IInv, TypeOK
<1>2. Status' = Status /\ Service' = Service
  BY DEF Status, Service
<1>3. Attached' = [Attached EXCEPT ![target] = d.ws = "open"]
  BY <1>1, AttachedMoves
<1>4. CASE (d.ws = "open") = Attached[target]
  <2>1. Attached' = Attached
    BY <1>1, <1>3, <1>4 DEF Attached
  <2> QED
    BY <1>2, <2>1, StutterStep
<1>5. CASE d.ws # "open" /\ Attached[target]
  <2>1. Attached' = [Attached EXCEPT ![target] = FALSE]
    BY <1>3, <1>5
  <2>2. PICK s \in Streams : s = target
    BY <1>1
  <2>3. Lifecycle!Detach(s)
    BY <1>1, <1>2, <1>5, <2>1, <2>2
    DEF Lifecycle!Detach, Status, Attached, Service
  <2> QED
    BY <2>3 DEF AbstractStep, Lifecycle!Next
<1>6. Attached[target] = (client[target].ws = "open")
  BY <1>1 DEF Attached
<1> QED
  BY <1>4, <1>5, <1>6

\* The stop of a stream begins while no other one is being stopped.
LEMMA BeginStopAbstract ==
    ASSUME IInv, NEW s \in Streams, s \in tasks, caller = "idle", BeginStop(s),
           Service' = Service
    PROVE  AbstractStep
<1> DEFINE c == client[s]
           stopped == [c EXCEPT !.running = FALSE, !.stop = TRUE]
<1>1. ClientTypeOK /\ target = NoStream /\ c \in Client
  BY DEF IInv, TypeOK, ManagerInv, ClientTypeOK
<1>2. tasks' = tasks /\ target' = s
  BY DEF BeginStop
<1>3. /\ Status[s] = "active"
      /\ \A r \in Streams : Status[r] # "stopping"
      /\ Status' = [Status EXCEPT ![s] = "stopping"]
  BY <1>1, <1>2, StreamsAssumption DEF Status
<1>4. Attached' \in {Attached, [Attached EXCEPT ![s] = FALSE]}
  <2>1. stopped.ws = c.ws /\ stopped.pc = c.pc
    BY <1>1 DEF Client
  <2>2. CASE c.ws = "open" /\ subscribed
    <3>1. client' = [client EXCEPT ![s] = stopped]
      BY <2>1, <2>2 DEF BeginStop
    <3> QED
      BY <1>1, <2>1, <3>1 DEF ClientTypeOK, Attached
  <2>3. CASE c.ws = "open" /\ ~subscribed
    <3>1. client' = [client EXCEPT ![s] = Closed(stopped, "closedOK")]
      BY <2>1, <2>3 DEF BeginStop
    <3>2. Closed(stopped, "closedOK").ws # "open"
      BY <1>1 DEF Closed, Client
    <3> QED
      BY <1>1, <3>1, <3>2 DEF ClientTypeOK, Attached
  <2>4. CASE c.ws # "open"
    <3> DEFINE d == [stopped EXCEPT !.cancel = stopped.pc # "done"]
    <3>1. client' = [client EXCEPT ![s] = d]
      BY <2>1, <2>4 DEF BeginStop, CancelTask
    <3>2. d.ws = c.ws
      BY <1>1 DEF Client
    <3> QED
      BY <1>1, <3>1, <3>2 DEF ClientTypeOK, Attached
  <2> QED
    BY <2>2, <2>3, <2>4
<1>5. Lifecycle!BeginStop(s)
  BY <1>3, <1>4 DEF Lifecycle!BeginStop, Status, Attached, Service
<1> QED
  BY <1>5 DEF AbstractStep, Lifecycle!Next

\* stop_stream returns: the stream, whose handle is closed, is off.
LEMMA TaskEndedAbstract ==
    ASSUME IInv, IInv', TaskEnded
    PROVE  AbstractStep
<1>1. target \in Streams /\ target \in tasks
  BY TargetGood DEF TaskEnded
<1>2. PICK s \in Streams : s = target
  BY <1>1
<1>3. /\ tasks' = tasks \ {s} /\ target' = NoStream
      /\ client' = client /\ mgr' = mgr
  BY <1>2 DEF TaskEnded, clientVars
<1>4. Attached' = Attached /\ Service' = Service
  BY <1>3 DEF Attached, Service
<1>5. ~Attached[s]
  BY <1>3 DEF IInv, Good, Shape, Place, Attached
<1>6. Status[s] = "stopping" /\ Status' = [Status EXCEPT ![s] = "off"]
  BY <1>1, <1>2, <1>3, StreamsAssumption DEF Status
<1>7. Lifecycle!EndStop(s)
  BY <1>4, <1>5, <1>6 DEF Lifecycle!EndStop, Status, Attached, Service
<1> QED
  BY <1>7 DEF AbstractStep, Lifecycle!Next

\* A stream is started with a handle that is not open, and the old handle,
\* HandleClosedAfterStop says, was not either.
LEMMA StartStreamAbstract ==
    ASSUME IInv, NEW s \in Streams, StartStream(s)
    PROVE  AbstractStep
<1>1. /\ ClientTypeOK /\ NewClient \in Client /\ NewClient.ws = "none"
      /\ target = NoStream /\ client[s].ws # "open"
  BY NewClientType
  DEF IInv, TypeOK, ManagerInv, NewClient, StartStream, Good, Shape, Place
<1>2. Attached' = Attached
  BY <1>1 DEF StartStream, ClientTypeOK, Attached
<1>3. Service = "open" /\ Service' = Service
  BY DEF StartStream, Service
<1>4. Status[s] = "off" /\ Status' = [Status EXCEPT ![s] = "active"]
  BY <1>1, StreamsAssumption DEF StartStream, Status
<1>5. Lifecycle!Start(s)
  BY <1>2, <1>3, <1>4 DEF Lifecycle!Start, Status, Attached, Service
<1> QED
  BY <1>5 DEF AbstractStep, Lifecycle!Next

\* The service is closed when _tasks is empty, or leaves it as it is.
LEMMA ManagerOnlyAbstract ==
    ASSUME UNCHANGED <<clientVars, tasks, target>>,
           mgr # "down", mgr' = "down" => tasks = {}
    PROVE  AbstractStep
<1>1. Status' = Status /\ Attached' = Attached /\ Service = "open"
  BY DEF Status, Attached, Service, clientVars
<1>2. CASE mgr' = "down"
  <2>1. \A s \in Streams : Status[s] = "off"
    BY <1>2 DEF Status
  <2>2. Lifecycle!Close
    BY <1>1, <1>2, <2>1 DEF Lifecycle!Close, Status, Attached, Service
  <2> QED
    BY <2>2 DEF AbstractStep, Lifecycle!Next
<1>3. CASE mgr' # "down"
  BY <1>1, <1>3, StutterStep DEF Service
<1> QED
  BY <1>2, <1>3

\* The calls.
LEMMA CallerCallsAbstract ==
    ASSUME IInv, IInv', CallerCalls
    PROVE  AbstractStep
<1>1. CASE Initialize
  BY <1>1, ManagerOnlyAbstract DEF Initialize, IInv, ManagerInv
<1>2. CASE StopAll
  BY <1>2, ManagerOnlyAbstract DEF StopAll
<1>3. CASE \E s \in Streams : StartStream(s)
  BY <1>3, StartStreamAbstract
<1>4. ASSUME NEW s \in Streams, StopStream(s) PROVE AbstractStep
  <2>1. Service' = Service
    BY <1>4 DEF StopStream, Service
  <2> QED
    BY <1>4, <2>1, BeginStopAbstract DEF StopStream
<1> QED
  BY <1>1, <1>2, <1>3, <1>4 DEF CallerCalls

\* ... and how they go on.
LEMMA CallerStepAbstract ==
    ASSUME IInv, IInv', CallerStep
    PROVE  AbstractStep
<1> DEFINE c == client[target]
<1>1. CASE Unsubscribed
  <2>1. c \in Client /\ caller # "idle"
    BY <1>1, TargetGood DEF Unsubscribed
  <2> DEFINE d == IF c.ws = "open" THEN Closed(c, "closedOK") ELSE c
  <2>2. d \in Client /\ d.ws # "open"
    BY <2>1 DEF Closed, Client, Handle
  <2>3. client' = [client EXCEPT ![target] = d]
        /\ UNCHANGED <<tasks, mgr, target>>
    BY <1>1 DEF Unsubscribed
  <2> QED
    BY <2>1, <2>2, <2>3, StopStepAbstract
<1>2. CASE CloseReturns
  <2>1. c \in Client /\ caller # "idle"
    BY <1>2, TargetGood DEF CloseReturns
  <2> DEFINE d == [c EXCEPT !.cancel = c.pc # "done"]
  <2>2. d \in Client /\ d.ws = c.ws
    BY <2>1 DEF Client
  <2>3. client' = [client EXCEPT ![target] = d]
        /\ UNCHANGED <<tasks, mgr, target>>
    BY <1>2 DEF CloseReturns, CancelTask
  <2> QED
    BY <2>1, <2>2, <2>3, StopStepAbstract
<1>3. CASE WaitTimesOut
  <2>1. c \in Client /\ caller # "idle"
    BY <1>3, TargetGood DEF WaitTimesOut
  <2> DEFINE d == [c EXCEPT !.cancel = TRUE]
  <2>2. d \in Client /\ d.ws = c.ws
    BY <2>1 DEF Client
  <2>3. client' = [client EXCEPT ![target] = d]
        /\ UNCHANGED <<tasks, mgr, target>>
    BY <1>3 DEF WaitTimesOut
  <2> QED
    BY <2>1, <2>2, <2>3, StopStepAbstract
<1>4. CASE TaskEnded
  BY <1>4, TaskEndedAbstract
<1>5. ASSUME NEW s \in Streams, StopNext(s) PROVE AbstractStep
  <2>1. Service' = Service /\ s \in tasks /\ caller = "idle"
    BY <1>5 DEF StopNext, Service, IInv, ManagerInv
  <2> QED
    BY <1>5, <2>1, BeginStopAbstract DEF StopNext
<1>6. CASE ShutDown
  BY <1>6, ManagerOnlyAbstract DEF ShutDown, IInv, ManagerInv
<1> QED
  BY <1>1, <1>2, <1>3, <1>4, <1>5, <1>6 DEF CallerStep

\* Whatever is started, stopped, lost or cancelled, and in whatever order, the
\* manager shows its caller only what StreamLifecycle allows: a stream that is
\* off holds no connection, one stream is stopped at a time, a stop ends only
\* with the connection given back, and the service closes with every stream off.
THEOREM KeepsLifecycleHolds == Spec => KeepsLifecycle
<1>1. Init => Lifecycle!Init
  <2> SUFFICES ASSUME Init PROVE Lifecycle!Init
    OBVIOUS
  <2>1. \A s \in Streams : client[s].ws = "none" /\ s \notin tasks
    BY DEF Init, ClientInit, NewClient
  <2>2. mgr = "fresh"
    BY DEF Init
  <2> QED
    BY <2>1, <2>2 DEF Lifecycle!Init
<1>2. IInv /\ IInv' /\ [Next]_vars => [Lifecycle!Next]_(Lifecycle!vars)
  <2> SUFFICES ASSUME IInv, IInv', [Next]_vars PROVE AbstractStep
    BY DEF AbstractStep
  <2>1. CASE CallerCalls
    BY <2>1, CallerCallsAbstract
  <2>2. CASE CallerStep
    BY <2>2, CallerStepAbstract
  <2>3. CASE \E s \in Streams : /\ ClientStep(s) \/ PeerStep(s)
                                /\ UNCHANGED managerVars
    BY <2>3, ClientStepAbstract
  <2>4. CASE UNCHANGED vars
    BY <2>4, StutterStep
    DEF vars, clientVars, managerVars, Status, Attached, Service
  <2> QED
    BY <2>1, <2>2, <2>3, <2>4 DEF Next
<1> QED
  BY <1>1, <1>2, SpecIInv, PTL DEF Spec, KeepsLifecycle, Lifecycle!SafeSpec

------------------------------------------------------------------------------
(***************************************************************************)
(* The two flags that all clients of the manager share.                    *)
(***************************************************************************)
FlagsInv == ReadyUnlessOtherEnded /\ MarkedUnlessOtherStopped

\* What a step that changes at most the client of stream s may do to the flags:
\* whoever begins to listen sets both, whoever clears the first one has ended,
\* and whoever clears the second one is being stopped.
StepFlags(s) ==
    /\ client'[s].pc = "none" => client[s].pc = "none"
    /\ Listens(s)' /\ ~ready' => Listens(s) /\ ~ready
    /\ Works(s)' /\ ~subscribed' => Works(s) /\ ~subscribed
    /\ ~ready' => ~ready \/ client'[s].pc = "done"
    /\ ~subscribed' => ~subscribed \/ (client'[s].pc # "none" /\ ~Works(s)')

\* Such a step keeps the relation of flags and clients: a client that still
\* listens without a flag either did so before, or has just lost it to s.
LEMMA StepFlagsSuffice ==
    ASSUME FlagsInv, NEW s \in Streams, StepFlags(s),
           \A t \in Streams \ {s} : client'[t] = client[t]
    PROVE  FlagsInv'
<1>1. ASSUME NEW r \in Streams, Listens(r)', ~ready'
      PROVE  \E t \in Streams \ {r} : client'[t].pc # "none" /\ ~Listens(t)'
  <2>1. CASE ready
    <3>1. client'[s].pc = "done" /\ r # s
      BY <1>1, <2>1 DEF StepFlags, Listens
    <3> QED
      BY <3>1 DEF Listens
  <2>2. CASE ~ready
    <3>1. Listens(r)
      BY <1>1, <2>2 DEF StepFlags, Listens
    <3>2. PICK t \in Streams \ {r} : client[t].pc # "none" /\ ~Listens(t)
      BY <2>2, <3>1 DEF FlagsInv, ReadyUnlessOtherEnded
    <3>3. client'[t].pc # "none" /\ ~Listens(t)'
      BY <1>1, <3>2 DEF StepFlags, Listens
    <3> QED
      BY <3>3
  <2> QED
    BY <2>1, <2>2
<1>2. ASSUME NEW r \in Streams, Works(r)', ~subscribed'
      PROVE  \E t \in Streams \ {r} : client'[t].pc # "none" /\ ~Works(t)'
  <2>1. CASE subscribed
    <3>1. client'[s].pc # "none" /\ ~Works(s)' /\ r # s
      BY <1>2, <2>1 DEF StepFlags
    <3> QED
      BY <3>1
  <2>2. CASE ~subscribed
    <3>1. Works(r)
      BY <1>2, <2>2 DEF StepFlags, Works, Listens
    <3>2. PICK t \in Streams \ {r} : client[t].pc # "none" /\ ~Works(t)
      BY <2>2, <3>1 DEF FlagsInv, MarkedUnlessOtherStopped
    <3>3. client'[t].pc # "none" /\ ~Works(t)'
      BY <1>2, <3>2 DEF StepFlags, Works, Listens
    <3> QED
      BY <3>3
  <2> QED
    BY <2>1, <2>2
<1> QED
  BY <1>1, <1>2 DEF FlagsInv, ReadyUnlessOtherEnded, MarkedUnlessOtherStopped

\* A client that goes to another place than the messages takes the readiness
\* along only if it has ended.
Quiet(s) == /\ client'[s].pc \notin {"none", "listening"}
            /\ ready' = ready \/ client'[s].pc = "done"

LEMMA QuietFlags ==
    ASSUME NEW s \in Streams, Quiet(s), UNCHANGED subscribed
    PROVE  StepFlags(s)
BY DEF Quiet, StepFlags, Works, Listens

LEMMA CleanupIsQuiet ==
    ASSUME ClientTypeOK, NEW s \in Streams, NEW c \in Client, Cleanup(s, c)
    PROVE  Quiet(s)
<1>1. [Closed(c, "closedOK") EXCEPT !.pc = "closing"].pc = "closing"
  BY DEF Closed, Client
<1>2. [c EXCEPT !.pc = "done"].pc = "done"
  BY DEF Client
<1> QED
  BY <1>1, <1>2 DEF Cleanup, Continue, Finish, ClientTypeOK, Quiet

LEMMA NextCycleIsQuiet ==
    ASSUME ClientTypeOK, NEW s \in Streams, NEW c \in Client, NextCycle(s, c)
    PROVE  Quiet(s)
<1>1. [c EXCEPT !.pc = "rate"].pc = "rate"
  BY DEF Client
<1> QED
  BY <1>1, CleanupIsQuiet DEF NextCycle, Continue, ClientTypeOK, Quiet

LEMMA FailIsQuiet ==
    ASSUME ClientTypeOK, NEW s \in Streams, NEW c \in Client, Fail(s, c)
    PROVE  Quiet(s)
<1>1. [c EXCEPT !.h = WithState(@, "FAILED")] \in Client
  BY HandlerMethodTypes DEF Client, ConnectionState
<1>2. [c EXCEPT !.pc = "backoff", !.h = OnDisconnected(@)].pc = "backoff"
  BY DEF Client
<1> QED
  BY <1>1, <1>2, CleanupIsQuiet DEF Fail, Continue, ClientTypeOK, Quiet

LEMMA AuthReplyIsQuiet ==
    ASSUME ClientTypeOK, NEW s \in Streams, NEW reply \in AcceptedReply,
           AuthReply(s, reply)
    PROVE  Quiet(s)
<1> DEFINE c == client[s]
<1>1. c \in Client
  BY DEF ClientTypeOK
<1>2. PICK accepted \in BOOLEAN :
        Continue(s, [c EXCEPT !.pc = "subscribing", !.cancel = FALSE,
                              !.authed = accepted, !.next = 1,
                              !.h = WithState(@, "SUBSCRIBING")])
  BY DEF AuthReply
<1> DEFINE d == [c EXCEPT !.pc = "subscribing", !.cancel = FALSE,
                          !.authed = accepted, !.next = 1,
                          !.h = WithState(@, "SUBSCRIBING")]
<1>3. d.pc = "subscribing"
  BY <1>1 DEF Client
<1>4. client' = [client EXCEPT ![s] = d] /\ ready' = ready
  BY <1>2 DEF Continue
<1> QED
  BY <1>3, <1>4 DEF ClientTypeOK, Quiet

\* A client that neither moves nor is told anything leaves the flags alone.
LEMMA SamePlaceFlags ==
    ASSUME NEW s \in Streams, UNCHANGED <<ready, subscribed>>,
           client'[s].pc = client[s].pc, client'[s].running = client[s].running
    PROVE  StepFlags(s)
<1>1. Listens(s)' <=> Listens(s)
  BY DEF Listens
<1>2. Works(s)' <=> Works(s)
  BY <1>1 DEF Works
<1>3. ready' = ready /\ subscribed' = subscribed
  OBVIOUS
<1>4. /\ Listens(s)' /\ ~ready' => Listens(s) /\ ~ready
      /\ Works(s)' /\ ~subscribed' => Works(s) /\ ~subscribed
  BY <1>1, <1>2, <1>3
<1>5. ~ready' => ~ready
  BY <1>3
<1>6. ~subscribed' => ~subscribed
  BY <1>3
<1>7. client'[s].pc = "none" => client[s].pc = "none"
  OBVIOUS
<1> QED
  BY <1>4, <1>5, <1>6, <1>7 DEF StepFlags

\* A step of the task: it begins to listen only by setting both flags.
LEMMA ClientStepFlags ==
    ASSUME ClientTypeOK, NEW s \in Streams, ClientStep(s) \/ PeerStep(s)
    PROVE  StepFlags(s)
<1> DEFINE c == client[s]
<1>c. c \in Client /\ c.h \in Handler
  BY DEF ClientTypeOK, Client
<1>1. CASE Begin(s) \/ BackoffEnds(s)
  <2>1. /\ [c EXCEPT !.running = TRUE, !.stop = FALSE] \in Client
        /\ [c EXCEPT !.h = AfterWait(@)] \in Client
    BY <1>c, AfterWaitType DEF Client
  <2>2. Quiet(s) /\ UNCHANGED subscribed
    BY <1>1, <2>1, NextCycleIsQuiet DEF Begin, BackoffEnds
  <2> QED
    BY <2>2, QuietFlags
<1>2. CASE ConnectFails(s) \/ AuthFails(s) \/ SendFails(s)
  <2>1. Quiet(s) /\ UNCHANGED subscribed
    BY <1>c, <1>2, FailIsQuiet DEF ConnectFails, AuthFails, SendFails
  <2> QED
    BY <2>1, QuietFlags
<1>3. CASE StreamEnds(s) \/ StopSeen(s)
  <2>1. Quiet(s) /\ UNCHANGED subscribed
    BY <1>c, <1>3, FailIsQuiet, NextCycleIsQuiet DEF StreamEnds, StopSeen
  <2> QED
    BY <2>1, QuietFlags
<1>4. CASE CloseEnds(s) \/ CancelOutsideCycle(s)
  <2>1. /\ [c EXCEPT !.pc = "done"].pc = "done"
        /\ [c EXCEPT !.pc = "done", !.cancel = FALSE].pc = "done"
    BY <1>c DEF Client
  <2>2. client'[s].pc = "done" /\ UNCHANGED subscribed
    BY <1>4, <2>1 DEF CloseEnds, Finish, CancelOutsideCycle, Continue, ClientTypeOK
  <2> QED
    BY <2>2, QuietFlags DEF Quiet
<1>5. CASE CancelInCycle(s)
  <2>1. [c EXCEPT !.cancel = FALSE] \in Client
    BY <1>c DEF Client
  <2>2. Quiet(s) /\ UNCHANGED subscribed
    BY <1>5, <2>1, CleanupIsQuiet DEF CancelInCycle
  <2> QED
    BY <2>2, QuietFlags
<1>6. CASE RateGranted(s)
  <2>1. [c EXCEPT !.pc = "connecting", !.h = WithState(@, "CONNECTING")].pc
            = "connecting"
    BY <1>c DEF Client
  <2>2. Quiet(s) /\ UNCHANGED subscribed
    BY <1>6, <2>1 DEF RateGranted, Continue, ClientTypeOK, Quiet
  <2> QED
    BY <2>2, QuietFlags
<1>7. CASE Connected(s)
  <2> DEFINE d == [c EXCEPT !.pc = "auth", !.cancel = FALSE, !.ws = "open",
                            !.authed = FALSE, !.subs = {},
                            !.h = WithState(OnConnected(@), "AUTHENTICATING")]
  <2>1. d.pc = "auth"
    BY <1>c DEF Client
  <2>2. client' = [client EXCEPT ![s] = d] /\ UNCHANGED <<ready, subscribed>>
    BY <1>7 DEF Connected, Continue
  <2>3. Quiet(s)
    BY <2>1, <2>2 DEF ClientTypeOK, Quiet
  <2> QED
    BY <2>2, <2>3, QuietFlags
<1>8. CASE \E reply \in AcceptedReply : AuthReply(s, reply)
  <2>1. Quiet(s) /\ UNCHANGED subscribed
    BY <1>8, AuthReplyIsQuiet DEF AuthReply
  <2> QED
    BY <2>1, QuietFlags
<1>9. CASE SendBatch(s)
  <2>1. /\ c.pc = "subscribing" /\ UNCHANGED <<ready, subscribed>>
        /\ client' = [client EXCEPT ![s] =
                         [c EXCEPT !.subs = @ \cup {c.next}, !.next = @ + 1]]
    BY <1>9 DEF SendBatch, Continue, At
  <2>2. client'[s].pc = "subscribing"
    BY <1>c, <2>1 DEF ClientTypeOK, Client
  <2> QED
    BY <2>1, <2>2, QuietFlags DEF Quiet
<1>10. CASE SendLastBatch(s)
  <2> DEFINE d(stable) == [c EXCEPT !.subs = @ \cup {c.next}, !.next = @ + 1,
                                    !.pc = "listening",
                                    !.h = OnStreaming(@, stable)]
  <2>1. ready' = TRUE /\ subscribed' = TRUE
    BY <1>10 DEF SendLastBatch
  <2>2. PICK stable \in BOOLEAN : client' = [client EXCEPT ![s] = d(stable)]
    BY <1>10 DEF SendLastBatch
  <2>3. d(stable).pc = "listening"
    BY <1>c DEF Client
  <2>4. client'[s].pc = "listening"
    BY <2>2, <2>3 DEF ClientTypeOK
  <2> QED
    BY <2>1, <2>4 DEF StepFlags
<1>11. CASE ForceDisconnect(s)
  <2>1. /\ [c EXCEPT !.running = FALSE].pc = c.pc
        /\ [c EXCEPT !.running = FALSE].running = FALSE
    BY <1>c DEF Client
  <2>2. /\ client'[s] = [c EXCEPT !.running = FALSE]
        /\ UNCHANGED <<ready, subscribed>>
    BY <1>11 DEF ForceDisconnect, Continue, ClientTypeOK
  <2> QED
    BY <2>1, <2>2 DEF StepFlags, Works, Listens
<1>12. CASE PeerCloses(s)
  <2>1. \A how : Closed(c, how).pc = c.pc /\ Closed(c, how).running = c.running
    BY <1>c DEF Closed, Client
  <2>2. /\ client'[s].pc = c.pc /\ client'[s].running = c.running
        /\ UNCHANGED <<ready, subscribed>>
    BY <1>12, <2>1 DEF PeerCloses, Continue, ClientTypeOK
  <2> QED
    BY <2>2, SamePlaceFlags
<1>13. CASE PeerClosesLeaked(s)
  BY <1>13, SamePlaceFlags DEF PeerClosesLeaked
<1> QED
  BY <1>1, <1>2, <1>3, <1>4, <1>5, <1>6, <1>7, <1>8, <1>9, <1>10, <1>11, <1>12,
     <1>13 DEF ClientStep, PeerStep

\* A step of the task leaves the other clients alone.
LEMMA ClientStepAlone ==
    ASSUME IInv, NEW s \in Streams, ClientStep(s) \/ PeerStep(s)
    PROVE  \A t \in Streams \ {s} : client'[t] = client[t]
<1>1. ClientTypeOK /\ ManagerTypeOK /\ EveryGood
  BY DEF IInv, TypeOK, EveryGood
<1>2. Phase(s) \in Phases /\ Good(client[s], Phase(s), s \in tasks)
      /\ (s \in tasks) \in BOOLEAN
  BY <1>1, PhaseType DEF EveryGood
<1>3. LeavesGood(s, Phase(s), s \in tasks)
  BY <1>1, <1>2, ClientStepKeepsGood
<1> QED
  BY <1>1, <1>3 DEF LeavesGood, ClientTypeOK

\* A step of stop_stream: its client is not one at work.
LEMMA StopStepFlags ==
    ASSUME ClientTypeOK, NEW s \in Streams, NEW d \in Client,
           client' = [client EXCEPT ![s] = d], UNCHANGED ready,
           d.pc = client[s].pc, ~d.running,
           subscribed' = subscribed \/ d.pc # "none"
    PROVE  StepFlags(s) /\ \A t \in Streams \ {s} : client'[t] = client[t]
<1>1. client'[s] = d /\ \A t \in Streams \ {s} : client'[t] = client[t]
  BY DEF ClientTypeOK
<1>2. Listens(s)' <=> Listens(s)
  BY <1>1 DEF Listens
<1>3. ~Works(s)'
  BY <1>1 DEF Works
<1>4. ready' = ready
  OBVIOUS
<1>5. ~ready' => ~ready
  BY <1>4
<1>6. ~subscribed' => ~subscribed \/ client'[s].pc # "none"
  BY <1>1
<1>7. client'[s].pc = "none" => client[s].pc = "none"
  BY <1>1
<1> QED
  BY <1>1, <1>2, <1>3, <1>5, <1>6, <1>7 DEF StepFlags

\* The first step of a stop.
LEMMA BeginStopFlags ==
    ASSUME IInv, NEW s \in Streams, BeginStop(s)
    PROVE  StepFlags(s) /\ \A t \in Streams \ {s} : client'[t] = client[t]
<1> DEFINE c == client[s]
           d == [c EXCEPT !.running = FALSE, !.stop = TRUE]
<1>1. ClientTypeOK /\ c \in Client
  BY DEF IInv, TypeOK, ClientTypeOK
<1>2. d \in Client /\ d.pc = c.pc /\ ~d.running
  BY <1>1 DEF Client
<1>3. PICK e \in {d, Closed(d, "closedOK"), [d EXCEPT !.cancel = d.pc # "done"]} :
        client' = [client EXCEPT ![s] = e]
  BY DEF BeginStop, CancelTask
<1>4. e \in Client /\ e.pc = c.pc /\ ~e.running
  BY <1>2, <1>3 DEF Client, Closed, Handle
<1>5. UNCHANGED <<ready, subscribed>>
  BY DEF BeginStop
<1> QED
  BY <1>1, <1>3, <1>4, <1>5, StopStepFlags

\* The manager's steps that stop a client.
LEMMA StopFlags ==
    ASSUME IInv, Unsubscribed \/ CloseReturns \/ WaitTimesOut
    PROVE  /\ target \in Streams
           /\ StepFlags(target)
           /\ \A t \in Streams \ {target} : client'[t] = client[t]
<1> DEFINE c == client[target]
<1>1. caller # "idle"
  BY DEF Unsubscribed, CloseReturns, WaitTimesOut
<1>2. /\ ClientTypeOK /\ target \in Streams /\ c \in Client /\ ~c.running
      /\ Good(c, caller, TRUE)
  BY <1>1, TargetGood DEF IInv, TypeOK
<1>3. PICK e \in {c, Closed(c, "closedOK"), [c EXCEPT !.cancel = c.pc # "done"],
                   [c EXCEPT !.cancel = TRUE]} :
        client' = [client EXCEPT ![target] = e]
  BY DEF Unsubscribed, CloseReturns, WaitTimesOut, CancelTask
<1>4. e \in Client /\ e.pc = c.pc /\ ~e.running
  BY <1>2, <1>3 DEF Client, Closed, Handle
<1>5. UNCHANGED ready
  BY DEF Unsubscribed, CloseReturns, WaitTimesOut
<1>6. CASE Unsubscribed
  <2>1. e.pc # "none"
    BY <1>2, <1>4, <1>6 DEF Unsubscribed, Good, Place
  <2> QED
    BY <1>2, <1>3, <1>4, <1>5, <2>1, StopStepFlags
<1>7. CASE CloseReturns \/ WaitTimesOut
  <2>1. subscribed' = subscribed
    BY <1>7 DEF CloseReturns, WaitTimesOut
  <2> QED
    BY <1>2, <1>3, <1>4, <1>5, <2>1, StopStepFlags
<1> QED
  BY <1>6, <1>7

\* A stream that is started has a client that has not begun.
LEMMA StartStreamFlags ==
    ASSUME IInv, NEW s \in Streams, StartStream(s)
    PROVE  StepFlags(s) /\ \A t \in Streams \ {s} : client'[t] = client[t]
<1>1. /\ client'[s].pc = "created"
      /\ \A t \in Streams \ {s} : client'[t] = client[t]
  BY DEF StartStream, NewClient, IInv, TypeOK, ClientTypeOK
<1>2. Quiet(s) /\ UNCHANGED subscribed
  BY <1>1 DEF StartStream, Quiet
<1> QED
  BY <1>1, <1>2, QuietFlags

\* Every step that changes a client or a flag is one of those.
LEMMA FlagsInductive == IInv /\ FlagsInv /\ [Next]_vars => FlagsInv'
<1> SUFFICES ASSUME IInv, FlagsInv, [Next]_vars PROVE FlagsInv'
  OBVIOUS
<1>1. ASSUME NEW s \in Streams, ClientStep(s) \/ PeerStep(s) PROVE FlagsInv'
  <2>1. StepFlags(s)
    BY <1>1, ClientStepFlags DEF IInv, TypeOK
  <2> QED
    BY <1>1, <2>1, ClientStepAlone, StepFlagsSuffice
<1>2. ASSUME NEW s \in Streams, StopStream(s) \/ StopNext(s) PROVE FlagsInv'
  BY <1>2, BeginStopFlags, StepFlagsSuffice DEF StopStream, StopNext
<1>3. ASSUME NEW s \in Streams, StartStream(s) PROVE FlagsInv'
  BY <1>3, StartStreamFlags, StepFlagsSuffice
<1>4. CASE Unsubscribed \/ CloseReturns \/ WaitTimesOut
  BY <1>4, StopFlags, StepFlagsSuffice
<1>5. CASE UNCHANGED clientVars
  BY <1>5 DEF FlagsInv, ReadyUnlessOtherEnded, MarkedUnlessOtherStopped,
              Works, Listens, clientVars
<1>6. Initialize \/ StopAll \/ TaskEnded \/ ShutDown \/ UNCHANGED vars
        => UNCHANGED clientVars
  BY DEF Initialize, StopAll, TaskEnded, ShutDown, vars
<1> QED
  BY <1>1, <1>2, <1>3, <1>4, <1>5, <1>6 DEF Next, CallerCalls, CallerStep

LEMMA SpecFlagsInv == Spec => []FlagsInv
<1>1. Init => FlagsInv
  BY DEF Init, ClientInit, NewClient, FlagsInv, ReadyUnlessOtherEnded,
         MarkedUnlessOtherStopped, Works, Listens
<1> QED
  BY <1>1, SpecIInv, FlagsInductive, PTL DEF Spec

\* The health server is shared: for any set of streams, a listening client is
\* reported not ready only while another one has ended and not come back.
THEOREM ReadyUnlessOtherEndedHolds == Spec => []ReadyUnlessOtherEnded
<1>1. FlagsInv => ReadyUnlessOtherEnded
  BY DEF FlagsInv
<1> QED
  BY <1>1, SpecFlagsInv, PTL

\* And so is the set of marks: those of a client at work are missing only while
\* another one has been stopped and is not at work again.
THEOREM MarkedUnlessOtherStoppedHolds == Spec => []MarkedUnlessOtherStopped
<1>1. FlagsInv => MarkedUnlessOtherStopped
  BY DEF FlagsInv
<1> QED
  BY <1>1, SpecFlagsInv, PTL
==============================================================================
