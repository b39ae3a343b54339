---------------------------- MODULE SlidingWindow ----------------------------
(***************************************************************************)
(* SlidingWindowRateLimiter (backend/websocket_producer/rate_limiter.py):  *)
(* callers queue for an asyncio.Lock, the one inside drops the expired     *)
(* timestamps, sleeps when the window is full, and appends a timestamp.    *)
(*                                                                         *)
(* Time is a natural number of ticks.  The deque is kept as the suffix of  *)
(* the log of all grants that starts at head: append extends the log,      *)
(* popleft advances head, so the log stays available to the properties.    *)
(***************************************************************************)
EXTENDS Integers, Sequences

CONSTANTS Callers,      \* coroutines that share the limiter
          MaxRequests,  \* max_requests
          Window,       \* window_seconds, in ticks
          Margin,       \* the 0.01 s added to the sleep, in ticks
          Horizon,      \* bound of the model: the clock stops here
          Nobody        \* not a caller: the lock is free

ASSUME SlidingWindowAssumption ==
    /\ MaxRequests \in Nat \ {0}
    /\ Window \in Nat
    /\ Margin \in Nat \ {0}
    /\ Horizon \in Nat
    /\ Nobody \notin Callers

VARIABLES now,      \* time.monotonic()
          log,      \* the times of all grants, oldest first
          head,     \* log[head] is _timestamps[0]
          holder,   \* the caller asleep inside the lock, or Nobody
          wakeAt,   \* when its sleep is over
          queued    \* callers suspended in "async with self._lock"

limiterVars == <<now, log, head, holder, wakeAt, queued>>

LimiterTypeOK ==
    /\ now \in 0 .. Horizon
    /\ log \in Seq(0 .. Horizon)
    /\ head \in 1 .. Len(log) + 1
    /\ holder \in Callers \cup {Nobody}
    /\ wakeAt \in Nat
    /\ queued \subseteq Callers

LimiterInit ==
    /\ now = 0
    /\ log = <<>>
    /\ head = 1
    /\ holder = Nobody
    /\ wakeAt = 0
    /\ queued = {}

Expired(i) == now - log[i] > Window

\* "while ... popleft()" stops at k: everything before k has expired and k,
\* if there is one, has not.
PurgeStopsAt(k) == /\ \A i \in head .. k - 1 : Expired(i)
                   /\ k <= Len(log) => ~Expired(k)

Call(c) == /\ c # holder /\ c \notin queued
           /\ queued' = queued \cup {c}
           /\ UNCHANGED <<now, log, head, holder, wakeAt>>

\* The lock is free and c gets it; the window has room.
EnterAndGrant(c) ==
    /\ c \in queued /\ holder = Nobody
    /\ \E k \in head .. Len(log) + 1 :
           /\ PurgeStopsAt(k)
           /\ Len(log) + 1 - k < MaxRequests
           /\ head' = k
    /\ log' = Append(log, now)
    /\ queued' = queued \ {c}
    /\ UNCHANGED <<now, holder, wakeAt>>

\* Mutant: the sleep lacks its margin.
EnterAndSleepShort(c) ==
    /\ c \in queued /\ holder = Nobody
    /\ \E k \in head .. Len(log) + 1 :
           /\ PurgeStopsAt(k) /\ Len(log) + 1 - k >= MaxRequests
           /\ head' = k /\ wakeAt' = now + (Window - (now - log[k]))
    /\ holder' = c /\ queued' = queued \ {c}
    /\ UNCHANGED <<now, log>>

\* The lock is free and c gets it; the window is full, so c sleeps inside the
\* lock until the oldest timestamp has expired.
EnterAndSleep(c) ==
    /\ c \in queued /\ holder = Nobody
    /\ \E k \in head .. Len(log) + 1 :
           /\ PurgeStopsAt(k)
           /\ Len(log) + 1 - k >= MaxRequests
           /\ head' = k
           /\ wakeAt' = now + (Window - (now - log[k]) + Margin)
    /\ holder' = c
    /\ queued' = queued \ {c}
    /\ UNCHANGED <<now, log>>

\* asyncio.sleep returns at or after its deadline; the deque is not purged
\* again before the append.
WakeAndGrant(c) ==
    /\ holder = c /\ wakeAt <= now
    /\ log' = Append(log, now)
    /\ holder' = Nobody
    /\ UNCHANGED <<now, head, wakeAt, queued>>

\* The caller's task is cancelled while it waits for the lock or sleeps in it:
\* the lock is released and nothing is appended.
CancelCaller(c) ==
    /\ \/ c \in queued /\ queued' = queued \ {c} /\ UNCHANGED holder
       \/ holder = c /\ holder' = Nobody /\ UNCHANGED queued
    /\ UNCHANGED <<now, log, head, wakeAt>>

Tick == /\ now < Horizon
        /\ now' = now + 1
        /\ UNCHANGED <<log, head, holder, wakeAt, queued>>

LimiterNext == \/ \E c \in Callers : \/ Call(c)
                                     \/ EnterAndGrant(c)
                                     \/ EnterAndSleep(c)
                                     \/ WakeAndGrant(c)
                                     \/ CancelCaller(c)
               \/ Tick

LimiterSpec == LimiterInit /\ [][LimiterNext]_limiterVars

------------------------------------------------------------------------------
\* "Begrenzt die Anzahl der Requests pro Zeitfenster": any MaxRequests + 1
\* consecutive grants span more than the window, although the deque is not
\* purged after the sleep and may hold one timestamp more than max_requests.
WindowLimit ==
    \A i, j \in DOMAIN log : j = i + MaxRequests => log[j] - log[i] > Window

\* The deque holds at most one timestamp more than the limit, and then the
\* oldest one is out of the window: without the second fact the next caller
\* would wait for the wrong timestamp and the limit would break.
DequeBounded ==
    LET size == Len(log) + 1 - head IN
    /\ size <= MaxRequests + 1
    /\ size = MaxRequests + 1 => Expired(head)
==============================================================================
