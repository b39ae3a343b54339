---------------------------- MODULE StreamManager ----------------------------
(***************************************************************************)
(* StreamManager (backend/websocket_producer/stream_manager.py) over the   *)
(* clients of WsClient.  One coroutine (entrypoint.run) calls its methods  *)
(* one after the other; a method that awaits spans several steps, between  *)
(* which the clients' tasks run.  The caller never finds an empty ticker   *)
(* list (entrypoint.run sets it first).                                    *)
(***************************************************************************)
EXTENDS WsClient

VARIABLES tasks,    \* the keys of _tasks (and of _clients)
          mgr,      \* not initialised, initialised, or shut down
          caller,   \* where the calling coroutine is suspended
          target,   \* the stream stop_stream works on, "none" otherwise
          toStop    \* streams stop_all has still to stop

managerVars == <<tasks, mgr, caller, target, toStop>>

vars == <<clientVars, managerVars>>

NoStream == "none"

ASSUME StreamsAssumption == NoStream \notin Streams

ManagerTypeOK ==
    /\ tasks \subseteq Streams
    /\ mgr \in {"fresh", "up", "closing", "down"}
    /\ caller \in {"idle", "unsubscribe", "close", "await", "awaitAgain"}
    /\ target \in Streams \cup {NoStream}
    /\ toStop \subseteq Streams

TypeOK == ClientTypeOK /\ ManagerTypeOK

Init == /\ ClientInit
        /\ tasks = {}
        /\ mgr = "fresh"
        /\ caller = "idle"
        /\ target = NoStream
        /\ toStop = {}

------------------------------------------------------------------------------
\* initialize() succeeds, or the health server's port is taken; after that
\* failure, as after stop_all(), the aiohttp application is frozen and a later
\* initialize() raises.
Initialize == /\ mgr = "fresh"
              /\ mgr' \in {"up", "down"}
              /\ UNCHANGED <<clientVars, tasks, caller, target, toStop>>

\* start_stream() of a stream that is not in _tasks; otherwise it only logs.
StartStream(s) ==
    /\ caller = "idle" /\ mgr = "up"
    /\ s \notin tasks
    /\ tasks' = tasks \cup {s}
    /\ client' = [client EXCEPT ![s] = NewClient]
    /\ UNCHANGED <<gauge, leaked, ready, subscribed, mgr, caller, target, toStop>>

\* stop_stream() after client.stop(): a task that is still alive is cancelled
\* and awaited.
CancelTask(s, c) ==
    /\ caller' = "await"
    /\ client' = [client EXCEPT ![s] = [c EXCEPT !.cancel = c.pc # "done"]]

\* stop_stream() up to its first suspension: client.stop() and, if there is an
\* open connection, its unsubscribe messages (none if the shared set of
\* subscribed tickers is empty).
BeginStop(s) ==
    LET c == [client[s] EXCEPT !.running = FALSE, !.stop = TRUE] IN
    /\ target' = s
    /\ \/ /\ c.ws = "open" /\ subscribed
          /\ caller' = "unsubscribe"
          /\ client' = [client EXCEPT ![s] = c]
          /\ UNCHANGED gauge
       \/ /\ c.ws = "open" /\ ~subscribed
          /\ caller' = "close"
          /\ client' = [client EXCEPT ![s] = Closed(c, "closedOK")]
          /\ UNCHANGED gauge
       \/ /\ c.ws # "open"
          /\ gauge' = [gauge EXCEPT ![s] = FALSE]
          /\ CancelTask(s, c)
    /\ UNCHANGED <<leaked, ready, subscribed, tasks>>

StopStream(s) ==
    /\ caller = "idle" /\ mgr = "up"
    /\ s \in tasks
    /\ BeginStop(s)
    /\ UNCHANGED <<mgr, toStop>>

\* The unsubscribe messages are out (or failed, which is swallowed):
\* mark_unsubscribed() empties the shared set, and the handle, which the task
\* may have replaced meanwhile, is closed.
Unsubscribed ==
    LET c == client[target] IN
    /\ caller = "unsubscribe"
    /\ caller' = "close"
    /\ subscribed' = FALSE
    /\ client' = [client EXCEPT ![target] =
                    IF c.ws = "open" THEN Closed(c, "closedOK") ELSE c]
    /\ UNCHANGED <<gauge, leaked, ready, tasks, mgr, target, toStop>>

\* The closing handshake is over: the end of client.stop().
CloseReturns ==
    /\ caller = "close"
    /\ gauge' = [gauge EXCEPT ![target] = FALSE]
    /\ CancelTask(target, client[target])
    /\ UNCHANGED <<leaked, ready, subscribed, tasks, mgr, target, toStop>>

\* wait_for(task, timeout=10) gives up once, which cancels the task again; it
\* still returns only when the task has ended.
WaitTimesOut ==
    /\ caller = "await" /\ client[target].pc # "done"
    /\ caller' = "awaitAgain"
    /\ client' = [client EXCEPT ![target].cancel = TRUE]
    /\ UNCHANGED <<gauge, leaked, ready, subscribed, tasks, mgr, target, toStop>>

\* Mutant: stop_stream does not wait for the task.
TaskNotAwaited ==
    /\ caller \in {"await", "awaitAgain"}
    /\ caller' = "idle"
    /\ target' = NoStream
    /\ tasks' = tasks \ {target}
    /\ UNCHANGED <<clientVars, mgr, toStop>>

\* The task has ended: its entries are removed and stop_stream() returns.
TaskEnded ==
    /\ caller \in {"await", "awaitAgain"} /\ client[target].pc = "done"
    /\ caller' = "idle"
    /\ target' = NoStream
    /\ tasks' = tasks \ {target}
    /\ UNCHANGED <<clientVars, mgr, toStop>>

\* stop_all(): the streams found in _tasks are stopped one by one ...
StopAll ==
    /\ caller = "idle" /\ mgr = "up"
    /\ mgr' = "closing"
    /\ toStop' = tasks
    /\ UNCHANGED <<clientVars, tasks, caller, target>>

StopNext(s) ==
    /\ caller = "idle" /\ mgr = "closing"
    /\ s \in toStop
    /\ toStop' = toStop \ {s}
    /\ BeginStop(s)
    /\ UNCHANGED mgr

\* ... and the producer and the health server are shut down.
ShutDown ==
    /\ caller = "idle" /\ mgr = "closing" /\ toStop = {}
    /\ mgr' = "down"
    /\ UNCHANGED <<clientVars, tasks, caller, target, toStop>>

CallerStep == \/ Unsubscribed \/ CloseReturns \/ WaitTimesOut \/ TaskEnded
              \/ \E s \in Streams : StopNext(s)
              \/ ShutDown

CallerCalls == \/ Initialize \/ StopAll
               \/ \E s \in Streams : StartStream(s) \/ StopStream(s)

Next == \/ CallerCalls \/ CallerStep
        \/ \E s \in Streams : /\ ClientStep(s) \/ PeerStep(s)
                              /\ UNCHANGED managerVars

Spec == Init /\ [][Next]_vars

\* The event loop resumes every coroutine whose wait is over.  All of the
\* client's waits end: connecting and authenticating have timeouts, the rate
\* limiter and the back-off are finite sleeps, and a connection in use brings
\* a message (the peer acknowledges each subscription) or is closed (pings
\* have a timeout).  Nothing obliges the caller to call a method.
TaskProgress(s) == (ClientStep(s) \/ StopSeen(s)) /\ UNCHANGED managerVars

Fairness == /\ WF_vars(CallerStep)
            /\ \A s \in Streams : WF_vars(TaskProgress(s))

FairSpec == Spec /\ Fairness

------------------------------------------------------------------------------
\* A stream that is not in _tasks has no running task: stop_stream never
\* forgets a client that is still alive, so a later start_stream never makes
\* two clients of one stream.
NoOrphanTask == \A s \in Streams : s \notin tasks => ~Live(s)

\* "Sauberes Schliessen": whatever the moment of the stop (connecting, back-off
\* after a refused key, a first cancellation lost in wait_for, ...), once
\* stop_stream has returned the client's handle is not an open connection.
HandleClosedAfterStop ==
    \A s \in Streams : s \notin tasks => client[s].ws # "open"

\* A client that listens has sent every subscription on the connection it
\* listens to, also after any number of reconnections.
ListeningIsSubscribed ==
    \A s \in Streams : client[s].pc = "listening" /\ client[s].ws = "open"
                          => client[s].subs = 1 .. NumBatches

Listens(s) == client[s].pc = "listening"
Works(s) == Listens(s) /\ client[s].running

\* A client that listens is not reported ready only after the end of another
\* client, and only until that one listens too: nothing that a client goes
\* through itself, and no start of another one, takes the readiness away.
ReadyUnlessOtherEnded ==
    \A s \in Streams : Listens(s) /\ ~ready =>
        \E t \in Streams \ {s} : client[t].pc # "none" /\ ~Listens(t)

\* And the marks of its tickers are missing, while nobody stops it, only after
\* the stop of another client, until that one is at work again.
MarkedUnlessOtherStopped ==
    \A s \in Streams : Works(s) /\ ~subscribed =>
        \E t \in Streams \ {s} : client[t].pc # "none" /\ ~Works(t)

\* After stop_all no task is left and no handle is open, for any number of
\* streams and whatever each of them was doing.
DownMeansStopped ==
    mgr = "down" => \A s \in Streams : ~Live(s) /\ client[s].ws # "open"

\* A stop (of one stream or of all) comes to its end.
StopCompletes == (caller # "idle" \/ mgr = "closing")
                    ~> (caller = "idle" /\ mgr # "closing")

\* The abstract specification, seen in the manager's state: a stream is off
\* when stop_stream has forgotten it, whatever its task does, and holds a
\* connection as long as its handle is open.
Lifecycle == INSTANCE StreamLifecycle WITH
    status   <- [s \in Streams |-> IF s \notin tasks THEN "off"
                                   ELSE IF target = s THEN "stopping"
                                   ELSE "active"],
    attached <- [s \in Streams |-> client[s].ws = "open"],
    service  <- IF mgr = "down" THEN "closed" ELSE "open"

\* The manager over its clients does what StreamLifecycle allows ...
KeepsLifecycle == Lifecycle!SafeSpec

\* ... and what it promises: every stop gives the connection back and ends.
ImplementsLifecycle == Lifecycle!Spec

\* "Bei Verbindungsabbruch: Automatische Reconnection", for a client that was
\* not told to end: the next connection attempt always comes.
Reconnects ==
    \A s \in Streams :
        (client[s].pc = "listening" /\ client[s].running
            /\ client[s].ws \in {"closedOK", "closedErr"})
            ~> (client[s].pc = "connecting" \/ client[s].stop)

------------------------------------------------------------------------------
\* What the repository says of the program and the code does not keep: TLC
\* refutes each of these (README, "Disagreements").

\* "Bei Verbindungsabbruch: Automatische Reconnection", without the proviso.
AlwaysReconnects ==
    \A s \in Streams :
        (client[s].pc = "listening" /\ client[s].ws \in {"closedOK", "closedErr"})
            ~> (client[s].pc = "connecting" \/ client[s].stop)

\* start_stream refuses a stream in _tasks because it "is already running!",
\* and is_second_stream_active says the same of it.
TasksAreRunning ==
    caller = "idle" /\ mgr = "up" => \A s \in tasks : client[s].pc # "done"

\* "WebSocket-Verbindungszustand (1=connected, 0=disconnected)".
GaugeTellsConnection ==
    \A s \in Streams : client[s].pc = "backoff" => ~gauge[s]

\* "Ist der Service bereit Traffic zu empfangen?": not while every stream
\* waits for its next connection attempt.
ReadyMeansConnected ==
    ready => \E s \in Streams : client[s].pc # "backoff"

\* The same, the other way round: the end of the other stream's client must not
\* say "not ready" for one that listens, nor take its "Anzahl aktuell abonnierter
\* Ticker" to zero.
ReadyWhileStreaming == \A s \in Streams : Works(s) => ready
SubscribedWhileStreaming == \A s \in Streams : Works(s) => subscribed

\* "Raeumt alle Ressourcen auf": no connection outlives the manager.
NoLeakedConnection ==
    mgr = "down" => \A s \in Streams : ~leaked[s]

\* on_authenticated "wird nach erfolgreicher Authentifizierung aufgerufen":
\* subscriptions go to a peer that has accepted the key.
AuthenticatedBeforeSubscribe ==
    \A s \in Streams : client[s].h.state = "SUBSCRIBING" /\ client[s].ws = "open"
                          => client[s].authed
==============================================================================
