--------------------------- MODULE ReconnectHandler --------------------------
(***************************************************************************)
(* The reconnect handler on its own: its methods are called in any order   *)
(* (as its unit tests do), a call of wait_before_retry spans a sleep, and  *)
(* time goes by between the calls.                                         *)
(***************************************************************************)
EXTENDS Backoff

VARIABLES h,         \* the handler's fields
          sleeping,  \* wait_before_retry is suspended in asyncio.sleep
          uptime     \* time since on_connected, against reset_after_success

handlerVars == <<h, sleeping, uptime>>

HandlerTypeOK ==
    /\ h \in Handler
    /\ sleeping \in BOOLEAN
    /\ uptime \in {"never connected", "too short", "stable"}

HandlerInit == h = NewHandler /\ sleeping = FALSE /\ uptime = "never connected"

Idle == ~sleeping /\ UNCHANGED <<sleeping, uptime>>

\* The state setter, used by the client for the states without a method.
SetState == Idle /\ \E st \in {"CONNECTING", "AUTHENTICATING", "SUBSCRIBING"} :
                        h' = WithState(h, st)
Connected == /\ ~sleeping /\ UNCHANGED sleeping
             /\ h' = OnConnected(h)
             /\ uptime' = "too short"
Authenticated == Idle /\ h' = WithState(h, "AUTHENTICATED")
Streaming == Idle /\ h' = OnStreaming(h, uptime = "stable")
Disconnected == Idle /\ h' = OnDisconnected(h)
ResetHandler == Idle /\ h' = Reset(h)

WaitBegins == /\ ~sleeping
              /\ ~GivesUp(h)
              /\ sleeping' = TRUE
              /\ UNCHANGED <<h, uptime>>

WaitRefused == Idle /\ GivesUp(h) /\ h' = WithState(h, "FAILED")

WaitEnds == /\ sleeping /\ sleeping' = FALSE
            /\ h' = AfterWait(h)
            /\ UNCHANGED uptime

\* The waiting task is cancelled.
WaitCancelled == /\ sleeping /\ sleeping' = FALSE
                 /\ UNCHANGED <<h, uptime>>

TimePasses == /\ uptime = "too short"
              /\ uptime' = "stable"
              /\ UNCHANGED <<h, sleeping>>

HandlerNext == \/ SetState \/ Connected \/ Authenticated \/ Streaming
               \/ Disconnected \/ ResetHandler
               \/ WaitBegins \/ WaitRefused \/ WaitEnds \/ WaitCancelled
               \/ TimePasses

HandlerSpec == HandlerInit /\ [][HandlerNext]_handlerVars

------------------------------------------------------------------------------
\* The powers of the multiplier (the arithmetic of the proof system has no ^).
Power[n \in Nat] == IF n = 0 THEN 1 ELSE Multiplier * Power[n - 1]

\* Reference definition of the documented back-off: the n-th retry waits
\* initial_delay * multiplier^n, "bis max_delay".
Ladder(n) == Capped(InitialDelay * Power[n], MaxDelay)

\* The saturation of the model's counter goes unseen: a limit keeps the counter
\* off it, or the delay has met its cap there.
CapUnseen == 0 < MaxRetries \/ Ladder(RetryCap + 1) = Ladder(RetryCap)

\* The incrementally updated delay is at every moment the closed form of the
\* retry counter: no sequence of waits, give-ups and resets makes the two drift
\* apart (wait_before_retry, reset and _check_reset_counter all write both).
DelayMatchesRetries == h.delay = Ladder(h.retry)

\* With a retry limit, the handler never counts past it and FAILED is reported
\* only once the limit is used up (wait_before_retry's early return).
RetryLimit == /\ 0 < MaxRetries => h.retry <= MaxRetries
              /\ h.state = "FAILED" => h.retry = MaxRetries

\* The delay drops only by a full reset to the first rung; every other step
\* keeps or raises it.
DelayNeverShrinks ==
    [][ h'.delay >= h.delay \/ (h'.delay = InitialDelay /\ h'.retry = 0) ]_handlerVars

\* The class comment's step 6, "Bei Erfolg: Counter zuruecksetzen nach
\* reset_after_success": when a stream that has been up for that long is
\* disconnected, the back-off starts over.
StableStreamRestartsBackoff ==
    [][ h.state = "STREAMING" /\ uptime = "stable" /\ Disconnected
            => h'.delay = InitialDelay /\ h'.retry = 0 ]_handlerVars
==============================================================================
