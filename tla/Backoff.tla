------------------------------- MODULE Backoff -------------------------------
(***************************************************************************)
(* The arithmetic and the state changes of ReconnectHandler                *)
(* (backend/websocket_producer/reconnect_handler.py) as operators on a     *)
(* record, so that the handler's own state machine (ReconnectHandler) and  *)
(* the client that drives it (WsClient) share one definition of each       *)
(* method.  Jitter only stretches a sleep whose length no property reads,  *)
(* and the statistics counter _total_reconnects is left out.               *)
(***************************************************************************)
EXTENDS Integers

CONSTANTS InitialDelay,  \* ReconnectConfig.initial_delay
          MaxDelay,      \* ReconnectConfig.max_delay
          Multiplier,    \* ReconnectConfig.multiplier
          MaxRetries,    \* ReconnectConfig.max_retries, 0 for "unbounded"
          RetryCap       \* bound of the model: the retry counter saturates here

ASSUME BackoffAssumption ==
    /\ InitialDelay \in Nat \ {0}
    /\ MaxDelay \in Nat /\ InitialDelay <= MaxDelay
    /\ Multiplier \in Nat \ {0}
    /\ MaxRetries \in Nat
    /\ RetryCap \in Nat /\ MaxRetries <= RetryCap

ConnectionState ==
    {"DISCONNECTED", "CONNECTING", "CONNECTED", "AUTHENTICATING",
     "AUTHENTICATED", "SUBSCRIBING", "STREAMING", "RECONNECTING", "FAILED"}

Handler == [state : ConnectionState,
            delay : InitialDelay .. MaxDelay,
            retry : 0 .. RetryCap]

NewHandler == [state |-> "DISCONNECTED", delay |-> InitialDelay, retry |-> 0]

Capped(n, bound) == IF n <= bound THEN n ELSE bound

WithState(h, st) == [h EXCEPT !.state = st]

\* on_connected also notes the time of the connection, see OnStreaming.
OnConnected(h) == WithState(h, "CONNECTED")

\* _check_reset_counter runs here, and only here: stable tells whether at
\* least reset_after_success seconds have gone by since on_connected.
OnStreaming(h, stable) ==
    IF stable
    THEN [h EXCEPT !.state = "STREAMING", !.delay = InitialDelay, !.retry = 0]
    ELSE [h EXCEPT !.state = "STREAMING"]

\* Mutant: a disconnection resets the delay and forgets the counter.
OnDisconnectedResetsDelay(h) == [h EXCEPT !.state = "RECONNECTING",
                                          !.delay = InitialDelay]

OnDisconnected(h) == WithState(h, "RECONNECTING")

\* wait_before_retry, before its sleep ...
GivesUp(h) == 0 < MaxRetries /\ MaxRetries <= h.retry

\* ... and after it.
AfterWait(h) == [h EXCEPT !.delay = Capped(h.delay * Multiplier, MaxDelay),
                          !.retry = Capped(h.retry + 1, RetryCap),
                          !.state = "CONNECTING"]

\* Mutant: the delay survives a reset.
ResetKeepsDelay(h) == [h EXCEPT !.retry = 0, !.state = "DISCONNECTED"]

Reset(h) == [h EXCEPT !.delay = InitialDelay, !.retry = 0,
                      !.state = "DISCONNECTED"]
==============================================================================
