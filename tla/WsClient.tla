------------------------------- MODULE WsClient ------------------------------
(***************************************************************************)
(* MassiveWebSocketClient (backend/websocket_producer/ws_client.py): one   *)
(* asyncio task per stream runs start(), i.e. the loop of connection       *)
(* cycles, the back-off after a failure and the clean-up.  A step is what  *)
(* the task does between two suspensions.  The peer may close an open      *)
(* connection at any moment, and the task may be cancelled at any          *)
(* suspension (the stream manager does both stop() and cancel()).          *)
(*                                                                         *)
(* Messages themselves go to Kafka and change nothing here; only the two   *)
(* that steer the client are steps: a message seen after stop(), and the   *)
(* status force_disconnect.  The ticker list does not change while a       *)
(* stream runs, so _subscribed_tickers is all of it or nothing.            *)
(***************************************************************************)
EXTENDS Backoff

CONSTANTS Streams,     \* StreamType: SECOND, MINUTE
          NumBatches   \* subscribe messages needed for the active tickers

ASSUME WsClientAssumption == NumBatches \in Nat \ {0}

VARIABLES client,      \* per stream: the client object and its task
          gauge,       \* WS_CONNECTION_STATE per stream
          leaked,      \* per stream: a connection is open that no handle names
          ready,       \* HealthCheckServer._is_ready, one for all streams
          subscribed   \* TickerManager._subscribed_tickers, one for all streams

clientVars == <<client, gauge, leaked, ready, subscribed>>

\* Where the task is suspended.
Suspension ==
    {"none",         \* no task was ever created for the stream
     "created",      \* create_task() done, first step pending
     "rate",         \* wait_for_connection
     "connecting",   \* _connect
     "auth",         \* _authenticate
     "subscribing",  \* _subscribe, between two batches
     "listening",    \* _listen
     "backoff",      \* wait_before_retry
     "closing",      \* _ws.close() in _cleanup
     "done"}

\* _ws: never set, open, or closed with / without a closing handshake.
Handle == {"none", "open", "closedOK", "closedErr"}

Client == [pc      : Suspension,
           running : BOOLEAN,             \* _is_running
           stop    : BOOLEAN,             \* _stop_event
           cancel  : BOOLEAN,             \* task.cancel() not yet delivered
           ws      : Handle,
           authed  : BOOLEAN,             \* the peer accepted the API key
           next    : 1 .. NumBatches + 1, \* next batch of _subscribe
           subs    : SUBSET (1 .. NumBatches), \* batches the peer has received
           h       : Handler]             \* _reconnect

NewClient == [pc |-> "created", running |-> FALSE, stop |-> FALSE,
              cancel |-> FALSE, ws |-> "none", authed |-> FALSE,
              next |-> 1, subs |-> {}, h |-> NewHandler]

ClientTypeOK == /\ client \in [Streams -> Client]
                /\ gauge \in [Streams -> BOOLEAN]
                /\ leaked \in [Streams -> BOOLEAN]
                /\ ready \in BOOLEAN
                /\ subscribed \in BOOLEAN

ClientInit == /\ client = [s \in Streams |-> [NewClient EXCEPT !.pc = "none"]]
              /\ gauge = [s \in Streams |-> FALSE]
              /\ leaked = [s \in Streams |-> FALSE]
              /\ ready = FALSE
              /\ subscribed = FALSE

\* The connection behind the handle is closed, and with it go the
\* authentication and the subscriptions the peer kept for it.
Closed(c, how) == [c EXCEPT !.ws = how, !.authed = FALSE, !.subs = {}]

Live(s) == client[s].pc \notin {"none", "done"}

------------------------------------------------------------------------------
\* How a step ends.  Each takes the client record c the step has produced.

Continue(s, c) == /\ client' = [client EXCEPT ![s] = c]
                  /\ UNCHANGED <<gauge, ready>>

\* The rest of _cleanup once the handle is not open.
Finish(s, c) == /\ client' = [client EXCEPT ![s] = [c EXCEPT !.pc = "done"]]
                /\ gauge' = [gauge EXCEPT ![s] = FALSE]
                /\ ready' = FALSE

\* Mutant: the handle is not closed.
CleanupWithoutClose(s, c) == Finish(s, c)

\* _cleanup: an open handle is closed first (it stops being open at once, the
\* closing handshake takes a while).
Cleanup(s, c) ==
    \/ /\ c.ws = "open"
       /\ Continue(s, [Closed(c, "closedOK") EXCEPT !.pc = "closing"])
    \/ /\ c.ws # "open"
       /\ Finish(s, c)

\* Mutant: "while True".
NextCycleAlways(s, c) == Continue(s, [c EXCEPT !.pc = "rate"])

\* The condition of the main loop.
NextCycle(s, c) ==
    \/ /\ c.running /\ ~c.stop
       /\ Continue(s, [c EXCEPT !.pc = "rate"])
    \/ /\ ~(c.running /\ ~c.stop)
       /\ Cleanup(s, c)

\* "except Exception" around a connection cycle.
Fail(s, c) ==
    \/ /\ ~c.running
       /\ Cleanup(s, c)
    \/ /\ c.running /\ GivesUp(c.h)
       /\ Cleanup(s, [c EXCEPT !.h = WithState(@, "FAILED")])
    \/ /\ c.running /\ ~GivesUp(c.h)
       /\ Continue(s, [c EXCEPT !.pc = "backoff", !.h = OnDisconnected(@)])

------------------------------------------------------------------------------
\* The task's steps.

At(s, p) == client[s].pc = p /\ ~client[s].cancel

Begin(s) ==
    /\ At(s, "created")
    /\ NextCycle(s, [client[s] EXCEPT !.running = TRUE, !.stop = FALSE])
    /\ UNCHANGED <<leaked, subscribed>>

RateGranted(s) ==
    /\ At(s, "rate")
    /\ Continue(s, [client[s] EXCEPT !.pc = "connecting",
                                     !.h = WithState(@, "CONNECTING")])
    /\ UNCHANGED <<leaked, subscribed>>

\* The new connection replaces the handle, whatever the old one was.  Like
\* every asyncio.wait_for of Python 3.11, this one drops a cancellation that
\* arrives when its future is already done.
Connected(s) ==
    /\ client[s].pc = "connecting"
    /\ leaked' = [leaked EXCEPT ![s] = @ \/ client[s].ws = "open"]
    /\ Continue(s, [client[s] EXCEPT
                      !.pc = "auth", !.cancel = FALSE, !.ws = "open",
                      !.authed = FALSE, !.subs = {},
                      !.h = WithState(OnConnected(@), "AUTHENTICATING")])
    /\ UNCHANGED subscribed

\* Refused, unreachable, or CONNECT_TIMEOUT.
ConnectFails(s) ==
    /\ At(s, "connecting")
    /\ Fail(s, client[s])
    /\ UNCHANGED <<leaked, subscribed>>

\* Mutant: _subscribe goes on with the batch it had reached before.
AuthReplyResumes(s, reply) ==
    /\ client[s].pc = "auth" /\ client[s].ws = "open"
    /\ Continue(s, [client[s] EXCEPT
                      !.pc = "subscribing", !.cancel = FALSE,
                      !.authed = reply = "auth_success",
                      !.h = WithState(@, "SUBSCRIBING")])
    /\ UNCHANGED <<leaked, subscribed>>

\* The first message after the key was sent.  "auth_success" says that the
\* peer took the key; the greeting "connected", and any answer without a
\* decisive status, are taken for success too.
AuthReply(s, reply) ==
    /\ client[s].pc = "auth" /\ client[s].ws = "open"
    /\ \E accepted \in BOOLEAN :
         /\ reply = "auth_success" => accepted
         /\ Continue(s, [client[s] EXCEPT
                           !.pc = "subscribing", !.cancel = FALSE,
                           !.authed = accepted, !.next = 1,
                           !.h = WithState(@, "SUBSCRIBING")])
    /\ UNCHANGED <<leaked, subscribed>>

\* "auth_failed", AUTH_TIMEOUT, or the connection is gone.
AuthFails(s) ==
    /\ At(s, "auth")
    /\ Fail(s, client[s])
    /\ UNCHANGED <<leaked, subscribed>>

\* A batch is sent and another one is left.
SendBatch(s) ==
    LET c == client[s] IN
    /\ At(s, "subscribing") /\ c.ws = "open" /\ c.next < NumBatches
    /\ Continue(s, [c EXCEPT !.subs = @ \cup {c.next}, !.next = @ + 1])
    /\ UNCHANGED <<leaked, subscribed>>

\* Mutants: the readiness is not set again, the tickers are not marked.
LastBatch(s) ==
    LET c == client[s] IN
    /\ At(s, "subscribing") /\ c.ws = "open" /\ c.next = NumBatches
    /\ client' = [client EXCEPT ![s] =
                    [c EXCEPT !.subs = @ \cup {c.next}, !.next = @ + 1,
                              !.pc = "listening", !.h = OnStreaming(@, FALSE)]]
    /\ gauge' = [gauge EXCEPT ![s] = TRUE]
    /\ UNCHANGED leaked
LastBatchNotReady(s) == LastBatch(s) /\ subscribed' = TRUE /\ UNCHANGED ready
LastBatchUnmarked(s) == LastBatch(s) /\ ready' = TRUE /\ UNCHANGED subscribed

\* The last batch, and everything up to the first message of _listen.  Whether
\* reset_after_success has gone by since on_connected is left open: sends may
\* have been held up.
SendLastBatch(s) ==
    LET c == client[s] IN
    /\ At(s, "subscribing") /\ c.ws = "open" /\ c.next = NumBatches
    /\ \E stable \in BOOLEAN :
         client' = [client EXCEPT ![s] =
                    [c EXCEPT !.subs = @ \cup {c.next}, !.next = @ + 1,
                              !.pc = "listening", !.h = OnStreaming(@, stable)]]
    /\ subscribed' = TRUE
    /\ ready' = TRUE
    /\ gauge' = [gauge EXCEPT ![s] = TRUE]
    /\ UNCHANGED leaked

\* send() on a connection that is gone.
SendFails(s) ==
    /\ At(s, "subscribing") /\ client[s].ws # "open"
    /\ Fail(s, client[s])
    /\ UNCHANGED <<leaked, subscribed>>

\* _listen looks at the stop event only when a message has arrived.
StopSeen(s) ==
    /\ At(s, "listening") /\ client[s].ws = "open" /\ client[s].stop
    /\ NextCycle(s, client[s])
    /\ UNCHANGED <<leaked, subscribed>>

\* _handle_status_message: the loop ends with the next disconnection.
ForceDisconnect(s) ==
    /\ At(s, "listening") /\ client[s].ws = "open" /\ ~client[s].stop
    /\ Continue(s, [client[s] EXCEPT !.running = FALSE])
    /\ UNCHANGED <<leaked, subscribed>>

\* Mutant: a connection closed in order ends the client.
StreamEndsForGood(s) ==
    /\ At(s, "listening")
    /\ \/ client[s].ws = "closedOK" /\ Cleanup(s, client[s])
       \/ client[s].ws = "closedErr" /\ Fail(s, client[s])
    /\ UNCHANGED <<leaked, subscribed>>

\* "async for" ends silently after a closing handshake and raises otherwise.
StreamEnds(s) ==
    /\ At(s, "listening")
    /\ \/ client[s].ws = "closedOK" /\ NextCycle(s, client[s])
       \/ client[s].ws = "closedErr" /\ Fail(s, client[s])
    /\ UNCHANGED <<leaked, subscribed>>

BackoffEnds(s) ==
    /\ At(s, "backoff")
    /\ NextCycle(s, [client[s] EXCEPT !.h = AfterWait(@)])
    /\ UNCHANGED <<leaked, subscribed>>

CloseEnds(s) ==
    /\ At(s, "closing")
    /\ Finish(s, client[s])
    /\ UNCHANGED <<leaked, subscribed>>

\* CancelledError is caught around the connection cycle only.
CancelInCycle(s) ==
    /\ client[s].cancel
    /\ client[s].pc \in
         {"rate", "connecting", "auth", "subscribing", "listening"}
    /\ Cleanup(s, [client[s] EXCEPT !.cancel = FALSE])
    /\ UNCHANGED <<leaked, subscribed>>

\* Before the first step, during the back-off (inside the except block) and
\* during the clean-up it ends the task on the spot.
CancelOutsideCycle(s) ==
    /\ client[s].cancel
    /\ client[s].pc \in {"created", "backoff", "closing"}
    /\ Continue(s, [client[s] EXCEPT !.pc = "done", !.cancel = FALSE])
    /\ UNCHANGED <<leaked, subscribed>>

------------------------------------------------------------------------------
\* The peer.

PeerCloses(s) ==
    /\ client[s].ws = "open"
    /\ \E how \in {"closedOK", "closedErr"} :
         Continue(s, Closed(client[s], how))
    /\ UNCHANGED <<leaked, subscribed>>

PeerClosesLeaked(s) ==
    /\ leaked[s]
    /\ leaked' = [leaked EXCEPT ![s] = FALSE]
    /\ UNCHANGED <<client, gauge, ready, subscribed>>

AcceptedReply == {"auth_success", "connected", "other"}

ClientStep(s) ==
    \/ Begin(s) \/ RateGranted(s)
    \/ Connected(s) \/ ConnectFails(s)
    \/ \E reply \in AcceptedReply : AuthReply(s, reply)
    \/ AuthFails(s)
    \/ SendBatch(s) \/ SendLastBatch(s) \/ SendFails(s)
    \/ StreamEnds(s) \/ BackoffEnds(s) \/ CloseEnds(s)
    \/ CancelInCycle(s) \/ CancelOutsideCycle(s)

PeerStep(s) ==
    \/ StopSeen(s) \/ ForceDisconnect(s)
    \/ PeerCloses(s) \/ PeerClosesLeaked(s)
==============================================================================
