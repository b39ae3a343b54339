------------------------- MODULE ClientParts_proofs --------------------------
(***************************************************************************)
(* Three parts of the WebSocket client that know nothing of each other:    *)
(* the reconnect handler (any delays, multiplier and limit), the ticker    *)
(* manager (any list, table of spellings and limit of the peer) and the    *)
(* rate limiter (any limit, window and callers).                           *)
(*                                                                         *)
(* The closed form of the delay multiplies by itself and set_tickers is    *)
(* two loops, so both are recursive functions; what such a function is at  *)
(* n + 1 is not its definition but a theorem, as a function that satisfies *)
(* the equations has to be shown to exist.  NatIsLeast is induction over   *)
(* sets of numbers, from the well-foundedness of <; RecursionExists rests  *)
(* on it, and on that the equations of each definition.                    *)
(***************************************************************************)
EXTENDS ReconnectHandler, SlidingWindow, TickerManager, FiniteSetTheorems,
        SequenceTheorems, WellFoundedInduction, TLAPS

------------------------------------------------------------------------------
\* The methods of the reconnect handler keep its type.

\* A product with a factor of at least one does not fall below the other factor.
LEMMA ProductNotBelow ==
    ASSUME NEW a \in Nat, NEW k \in Nat
    PROVE  a * (k + 1) \in Nat /\ a <= a * (k + 1)
<1>1. a * (k + 1) = a * k + a
  OBVIOUS
<1>2. a * k \in Nat
  OBVIOUS
<1> QED
  BY <1>1, <1>2

\* AfterWait keeps the delay between its bounds: the product with a multiplier
\* of at least one does not fall below the delay.
LEMMA AfterWaitType ==
    ASSUME NEW r \in Handler
    PROVE  AfterWait(r) \in Handler
<1>1. r.delay \in Nat /\ InitialDelay <= r.delay /\ r.retry \in 0 .. RetryCap
  BY BackoffAssumption DEF Handler
<1>2. r.delay * Multiplier \in Nat /\ r.delay <= r.delay * Multiplier
  <2>1. PICK k \in Nat : Multiplier = k + 1
    BY BackoffAssumption
  <2> QED
    BY <1>1, <2>1, ProductNotBelow
<1>3. Capped(r.delay * Multiplier, MaxDelay) \in InitialDelay .. MaxDelay
  BY <1>1, <1>2, BackoffAssumption DEF Capped
<1>4. Capped(r.retry + 1, RetryCap) \in 0 .. RetryCap
  BY <1>1, BackoffAssumption DEF Capped
<1> QED
  BY <1>3, <1>4 DEF AfterWait, Handler, ConnectionState

\* The other methods keep the type of the handler as well.
LEMMA HandlerMethodTypes ==
    ASSUME NEW r \in Handler
    PROVE  /\ \A st \in ConnectionState : WithState(r, st) \in Handler
           /\ OnConnected(r) \in Handler
           /\ OnDisconnected(r) \in Handler
           /\ \A stable \in BOOLEAN : OnStreaming(r, stable) \in Handler
<1>1. InitialDelay \in InitialDelay .. MaxDelay /\ 0 \in 0 .. RetryCap
  BY BackoffAssumption
<1>2. \A st \in ConnectionState : WithState(r, st) \in Handler
  BY DEF WithState, Handler
<1>3. \A stable \in BOOLEAN : OnStreaming(r, stable) \in Handler
  BY <1>1 DEF OnStreaming, Handler, ConnectionState
<1> QED
  BY <1>2, <1>3 DEF OnConnected, OnDisconnected, ConnectionState

\* The state setter changes the state only.
LEMMA WithStateFields ==
    ASSUME NEW r \in Handler, NEW st \in ConnectionState
    PROVE  /\ WithState(r, st) \in Handler
           /\ WithState(r, st).state = st
           /\ WithState(r, st).delay = r.delay
           /\ WithState(r, st).retry = r.retry
<1>1. WithState(r, st) \in Handler
  BY HandlerMethodTypes
<1> QED
  BY <1>1 DEF WithState, Handler

\* A new handler is on the first rung.
LEMMA NewHandlerType == NewHandler \in Handler
BY BackoffAssumption DEF NewHandler, Handler, ConnectionState

\* reset() takes it back there.
LEMMA ResetType ==
    ASSUME NEW r \in Handler
    PROVE  Reset(r) \in Handler
<1>1. InitialDelay \in InitialDelay .. MaxDelay /\ 0 \in 0 .. RetryCap
  BY BackoffAssumption
<1> QED
  BY <1>1 DEF Reset, Handler, ConnectionState

------------------------------------------------------------------------------
\* The invariant.

\* A wait that has begun was not refused, and nothing touches the counter while
\* it lasts: that is what RetryLimit needs at its end.
HandlerInv ==
    /\ HandlerTypeOK
    /\ 0 < MaxRetries => h.retry <= MaxRetries
    /\ h.state = "FAILED" => GivesUp(h)
    /\ sleeping => ~GivesUp(h)

\* Facts of the constants that the record-typed leaves cannot spare time for.
LEMMA LimitBounds == 0 <= MaxRetries /\ 0 <= InitialDelay
BY BackoffAssumption

LEMMA InitHandlerInv == HandlerInit => HandlerInv
<1> SUFFICES ASSUME HandlerInit PROVE HandlerInv
  OBVIOUS
<1>1. HandlerTypeOK
  BY NewHandlerType DEF HandlerInit, HandlerTypeOK
<1>2. h.retry = 0 /\ h.state = "DISCONNECTED" /\ sleeping = FALSE
  BY DEF HandlerInit, NewHandler
<1> QED
  BY <1>1, <1>2, BackoffAssumption DEF HandlerInv

\* The methods that leave the retry counter alone, FAILED aside.
LEMMA CounterKept ==
    ASSUME HandlerInv, NEW g \in Handler, h' = g, ~sleeping, UNCHANGED sleeping,
           uptime' \in {"never connected", "too short", "stable"},
           g.retry = h.retry, g.state # "FAILED"
    PROVE  HandlerInv'
BY DEF HandlerInv, HandlerTypeOK, GivesUp

\* The methods that reset it.
LEMMA CounterReset ==
    ASSUME HandlerInv, NEW g \in Handler, h' = g, ~sleeping, UNCHANGED sleeping,
           uptime' \in {"never connected", "too short", "stable"},
           g.retry = 0, g.state # "FAILED"
    PROVE  HandlerInv'
<1>1. MaxRetries \in Nat /\ h'.retry = 0 /\ h'.state # "FAILED"
  BY BackoffAssumption
<1>2. HandlerTypeOK'
  BY DEF HandlerInv, HandlerTypeOK
<1>3. ~sleeping'
  OBVIOUS
<1>4. 0 < MaxRetries => h'.retry <= MaxRetries
  BY <1>1, LimitBounds
<1> QED
  BY <1>1, <1>2, <1>3, <1>4 DEF HandlerInv

\* Every step keeps the invariant.
LEMMA HandlerInvInductive == HandlerInv /\ [HandlerNext]_handlerVars => HandlerInv'
<1> SUFFICES ASSUME HandlerInv, [HandlerNext]_handlerVars PROVE HandlerInv'
  OBVIOUS
<1>1. h \in Handler /\ uptime \in {"never connected", "too short", "stable"}
  BY DEF HandlerInv, HandlerTypeOK
<1>2. CASE SetState
  <2>1. PICK st \in {"CONNECTING", "AUTHENTICATING", "SUBSCRIBING"} :
          h' = WithState(h, st)
    BY <1>2 DEF SetState
  <2>2. WithState(h, st) \in Handler /\ WithState(h, st).retry = h.retry
        /\ WithState(h, st).state # "FAILED"
    <3>1. st \in ConnectionState /\ st # "FAILED"
      BY DEF ConnectionState
    <3> QED
      BY <1>1, <3>1, WithStateFields
  <2> QED
    BY <1>1, <1>2, <2>1, <2>2, CounterKept DEF SetState, Idle
<1>3. CASE Connected
  <2>1. OnConnected(h) \in Handler /\ OnConnected(h).retry = h.retry
        /\ OnConnected(h).state # "FAILED"
    BY <1>1, WithStateFields DEF OnConnected, ConnectionState
  <2> QED
    BY <1>3, <2>1, CounterKept DEF Connected
<1>4. CASE Authenticated
  <2> DEFINE g == WithState(h, "AUTHENTICATED")
  <2>1. g \in Handler /\ g.retry = h.retry /\ g.state # "FAILED"
    BY <1>1, WithStateFields DEF ConnectionState
  <2> QED
    BY <1>1, <1>4, <2>1, CounterKept DEF Authenticated, Idle
<1>5. CASE Streaming
  <2> DEFINE g == OnStreaming(h, uptime = "stable")
  <2>1. g \in Handler
    BY <1>1, HandlerMethodTypes
  <2>2. g.state = "STREAMING" /\ (g.retry = h.retry \/ g.retry = 0)
    BY <1>1 DEF OnStreaming, Handler
  <2>3. ~sleeping /\ sleeping' = sleeping /\ uptime' = uptime /\ h' = g
    BY <1>5 DEF Streaming, Idle
  <2>4. CASE g.retry = h.retry
    BY <1>1, <2>1, <2>2, <2>3, <2>4, CounterKept
  <2>5. CASE g.retry = 0
    BY <1>1, <2>1, <2>2, <2>3, <2>5, CounterReset
  <2> QED
    BY <2>2, <2>4, <2>5
<1>6. CASE Disconnected
  <2>1. OnDisconnected(h) \in Handler /\ OnDisconnected(h).retry = h.retry
        /\ OnDisconnected(h).state # "FAILED"
    BY <1>1, WithStateFields DEF OnDisconnected, ConnectionState
  <2> QED
    BY <1>1, <1>6, <2>1, CounterKept DEF Disconnected, Idle
<1>7. CASE ResetHandler
  <2>1. Reset(h) \in Handler /\ Reset(h).retry = 0
        /\ Reset(h).state # "FAILED"
    BY <1>1, ResetType DEF Reset, Handler
  <2> QED
    BY <1>1, <1>7, <2>1, CounterReset DEF ResetHandler, Idle
<1>8. CASE WaitBegins
  BY <1>8 DEF WaitBegins, HandlerInv, HandlerTypeOK, GivesUp
<1>9. CASE WaitRefused
  <2> DEFINE g == WithState(h, "FAILED")
  <2>1. g \in Handler /\ g.retry = h.retry
    BY <1>1, WithStateFields DEF ConnectionState
  <2>2. GivesUp(h) /\ h' = g /\ ~sleeping /\ UNCHANGED <<sleeping, uptime>>
    BY <1>9 DEF WaitRefused, Idle
  <2> QED
    BY <2>1, <2>2 DEF HandlerInv, HandlerTypeOK, GivesUp
<1>10. CASE WaitEnds
  <2>1. AfterWait(h) \in Handler /\ AfterWait(h).state = "CONNECTING"
        /\ AfterWait(h).retry = Capped(h.retry + 1, RetryCap)
    BY <1>1, AfterWaitType DEF AfterWait, Handler
  <2>2. 0 < MaxRetries => Capped(h.retry + 1, RetryCap) <= MaxRetries
    <3>1. h.retry \in Nat /\ MaxRetries \in Nat /\ RetryCap \in Nat
      <4>1. MaxRetries \in Nat /\ RetryCap \in Nat
        BY BackoffAssumption
      <4>2. h.retry \in 0 .. RetryCap
        BY <1>1 DEF Handler
      <4> QED
        BY <4>1, <4>2
    <3>2. ~GivesUp(h)
      BY <1>10 DEF HandlerInv, WaitEnds
    <3>3. 0 < MaxRetries => h.retry < MaxRetries
      BY <3>1, <3>2 DEF GivesUp
    <3> QED
      BY <3>1, <3>3 DEF Capped
  <2> QED
    BY <1>1, <1>10, <2>1, <2>2 DEF WaitEnds, HandlerInv, HandlerTypeOK
<1>11. CASE WaitCancelled
  BY <1>11 DEF WaitCancelled, HandlerInv, HandlerTypeOK, GivesUp
<1>12. CASE TimePasses
  BY <1>12 DEF TimePasses, HandlerInv, HandlerTypeOK, GivesUp
<1>13. CASE UNCHANGED handlerVars
  BY <1>13 DEF handlerVars, HandlerInv, HandlerTypeOK, GivesUp
<1> QED
  BY <1>2, <1>3, <1>4, <1>5, <1>6, <1>7, <1>8, <1>9, <1>10, <1>11, <1>12, <1>13
  DEF HandlerNext

LEMMA SpecHandlerInv == HandlerSpec => []HandlerInv
BY InitHandlerInv, HandlerInvInductive, PTL DEF HandlerSpec

\* Types, for any order of the handler's calls.
THEOREM HandlerTypeCorrect == HandlerSpec => []HandlerTypeOK
<1>1. HandlerInv => HandlerTypeOK
  BY DEF HandlerInv
<1> QED
  BY <1>1, SpecHandlerInv, PTL

\* The handler never retries more often than its limit, and FAILED says that
\* the limit is used up.
THEOREM RetryLimitHolds == HandlerSpec => []RetryLimit
<1>1. HandlerInv => RetryLimit
  <2> SUFFICES ASSUME HandlerInv PROVE RetryLimit
    OBVIOUS
  <2>1. h.retry \in Nat /\ MaxRetries \in Nat
    <3>1. MaxRetries \in Nat /\ RetryCap \in Nat
      BY BackoffAssumption
    <3>2. h.retry \in 0 .. RetryCap
      <4>1. h \in Handler
        BY DEF HandlerInv, HandlerTypeOK
      <4> QED
        BY <4>1 DEF Handler
    <3> QED
      BY <3>1, <3>2
  <2> QED
    BY <2>1 DEF HandlerInv, RetryLimit, GivesUp
<1> QED
  BY <1>1, SpecHandlerInv, PTL

\* The delay drops only by a reset to the first rung.
THEOREM DelayNeverShrinksHolds == HandlerSpec => DelayNeverShrinks
<1> DEFINE A == h'.delay >= h.delay \/ (h'.delay = InitialDelay /\ h'.retry = 0)
<1>1. HandlerInv /\ [HandlerNext]_handlerVars => [A]_handlerVars
  <2> SUFFICES ASSUME HandlerInv, HandlerNext PROVE A
    BY DEF handlerVars
  <2>1. h \in Handler /\ h.delay \in Nat /\ h.delay <= MaxDelay
    <3>1. h \in Handler
      BY DEF HandlerInv, HandlerTypeOK
    <3>2. h.delay \in InitialDelay .. MaxDelay
      BY <3>1 DEF Handler
    <3>3. InitialDelay \in Nat /\ MaxDelay \in Nat
      BY BackoffAssumption
    <3> QED
      BY <3>1, <3>2, <3>3
  <2>2. CASE h'.delay = h.delay
    BY <2>1, <2>2
  <2>3. CASE Streaming \/ ResetHandler
    <3>1. \/ h' = OnStreaming(h, uptime = "stable")
          \/ h' = Reset(h)
      BY <2>3 DEF Streaming, ResetHandler
    <3>2. h'.delay = h.delay \/ (h'.delay = InitialDelay /\ h'.retry = 0)
      BY <2>1, <3>1 DEF OnStreaming, Reset, Handler
    <3> QED
      BY <2>2, <3>2
  <2>4. CASE WaitEnds
    <3>1. h'.delay = Capped(h.delay * Multiplier, MaxDelay)
      BY <2>1, <2>4 DEF WaitEnds, AfterWait, Handler
    <3>2. PICK k \in Nat : Multiplier = k + 1
      BY BackoffAssumption
    <3>3. h.delay * Multiplier \in Nat /\ h.delay <= h.delay * Multiplier
      BY <2>1, <3>2, ProductNotBelow
    <3> QED
      BY <2>1, <3>1, <3>3, BackoffAssumption DEF Capped
  <2> QED
    BY <2>1, <2>2, <2>3, <2>4
    DEF HandlerNext, SetState, Connected, Authenticated, Disconnected, WaitBegins,
        WaitRefused, WaitCancelled, TimePasses, Idle, WithState, OnConnected,
        OnDisconnected, Handler
<1> QED
  BY <1>1, SpecHandlerInv, PTL DEF HandlerSpec, DelayNeverShrinks

------------------------------------------------------------------------------
\* The natural numbers, as a set: induction without an operator parameter.
LEMMA NatIsLeast ==
    ASSUME NEW S, 0 \in S, \A n \in Nat : n \in S => n + 1 \in S
    PROVE  Nat \subseteq S
<1> DEFINE less == {p \in Nat \X Nat : p[1] < p[2]}
           T == Nat \ S
<1>1. IsWellFoundedOn(less, Nat)
  BY NatLessThanWellFounded DEF OpToRel
<1> SUFFICES ASSUME T # {}
             PROVE  FALSE
  OBVIOUS
<1>2. PICK m \in T : \A k \in T : <<k, m>> \notin less
  <2>1. T \subseteq Nat
    OBVIOUS
  <2> HIDE DEF less, T
  <2> QED
    BY <1>1, <2>1, WFMin
<1>3. m \in Nat /\ m # 0
  OBVIOUS
<1>4. m - 1 \in Nat /\ <<m - 1, m>> \in less
  BY <1>3
<1>5. m - 1 \in S
  BY <1>2, <1>4
<1> QED
  BY <1>3, <1>4, <1>5

\* A function by recursion: its first value and the steps to the next ones.
Steps(step, S) == step \in [Nat -> [S -> S]]
ByRecursion(f, S, a, step) == /\ f \in [Nat -> S]
                              /\ f[0] = a
                              /\ \A n \in Nat : f[n + 1] = step[n][f[n]]

LEMMA RecursionExists ==
    ASSUME NEW S, NEW a \in S, NEW step, Steps(step, S)
    PROVE  \E f : ByRecursion(f, S, a, step)
<1> DEFINE Upto(e, n) == /\ e[0] = a
                         /\ \A i \in Nat : i < n => e[i + 1] = step[i][e[i]]
           E == {n \in Nat : \E e \in [Nat -> S] : Upto(e, n)}
           U == {k \in Nat : \A m, n \in Nat : \A g, e \in [Nat -> S] :
                    k <= m /\ k <= n /\ Upto(g, m) /\ Upto(e, n) => g[k] = e[k]}
           f == [n \in Nat |-> (CHOOSE e \in [Nat -> S] : Upto(e, n))[n]]
<1>0. \A n \in Nat, x \in S : step[n][x] \in S
  BY DEF Steps
<1>1. Nat \subseteq E
  <2>1. 0 \in E
    <3>1. Upto([n \in Nat |-> a], 0)
      OBVIOUS
    <3> QED
      BY <3>1
  <2>2. ASSUME NEW n \in Nat, n \in E
        PROVE  n + 1 \in E
    <3>1. PICK e \in [Nat -> S] : Upto(e, n)
      BY <2>2
    <3> DEFINE g == [e EXCEPT ![n + 1] = step[n][e[n]]]
    <3>2. g \in [Nat -> S]
      BY <1>0
    <3>3. g[0] = a
      BY <3>1
    <3>4. ASSUME NEW i \in Nat, i < n + 1
          PROVE  g[i + 1] = step[i][g[i]]
      <4>1. i <= n /\ i # n + 1 /\ i + 1 \in Nat
        BY <3>4
      <4>2. g[i] = e[i]
        BY <4>1
      <4>3. CASE i = n
        BY <4>2, <4>3
      <4>4. CASE i < n
        <5>1. g[i + 1] = e[i + 1]
          BY <4>1, <4>4
        <5> QED
          BY <3>1, <4>2, <4>4, <5>1
      <4> QED
        BY <4>1, <4>3, <4>4
    <3>5. Upto(g, n + 1)
      BY <3>3, <3>4
    <3> HIDE DEF g, Upto
    <3> QED
      BY <3>2, <3>5
  <2> HIDE DEF E
  <2> QED
    BY <2>1, <2>2, NatIsLeast
<1>2. Nat \subseteq U
  <2>1. 0 \in U
    OBVIOUS
  <2>2. ASSUME NEW k \in Nat, k \in U
        PROVE  k + 1 \in U
    <3>1. ASSUME NEW m \in Nat, NEW n \in Nat,
                 NEW g \in [Nat -> S], NEW e \in [Nat -> S],
                 k + 1 <= m, k + 1 <= n, Upto(g, m), Upto(e, n)
          PROVE  g[k + 1] = e[k + 1]
      <4>1. k < m /\ k < n /\ k <= m /\ k <= n
        BY <3>1
      <4>2. g[k] = e[k]
        <5> HIDE DEF Upto
        <5> QED
          BY <2>2, <3>1, <4>1
      <4> QED
        BY <3>1, <4>1, <4>2
    <3>2. k + 1 \in Nat
      OBVIOUS
    <3> HIDE DEF Upto
    <3> QED
      BY <3>1, <3>2
  <2> HIDE DEF U
  <2> QED
    BY <2>1, <2>2, NatIsLeast
<1>3. ASSUME NEW n \in Nat
      PROVE  \E e \in [Nat -> S] : Upto(e, n) /\ f[n] = e[n]
  <2> DEFINE e == CHOOSE e \in [Nat -> S] : Upto(e, n)
  <2>1. e \in [Nat -> S] /\ Upto(e, n)
    <3>1. \E x \in [Nat -> S] : Upto(x, n)
      BY <1>1
    <3> HIDE DEF Upto
    <3> QED
      BY <3>1
  <2>2. f[n] = e[n]
    OBVIOUS
  <2> HIDE DEF e, f, Upto
  <2> QED
    BY <2>1, <2>2
<1>4. f \in [Nat -> S]
  <2>1. \A n \in Nat : f[n] \in S
    <3> HIDE DEF f, Upto
    <3> QED
      BY <1>3
  <2> QED
    BY <2>1
<1>5. f[0] = a
  <2> HIDE DEF f
  <2> QED
    BY <1>3
<1>6. ASSUME NEW n \in Nat
      PROVE  f[n + 1] = step[n][f[n]]
  <2>0. n + 1 \in Nat
    OBVIOUS
  <2> HIDE DEF f
  <2>1. PICK g \in [Nat -> S] : Upto(g, n) /\ f[n] = g[n]
    BY <1>3
  <2>2. PICK e \in [Nat -> S] : Upto(e, n + 1) /\ f[n + 1] = e[n + 1]
    BY <1>3, <2>0
  <2>3. g[n] = e[n]
    <3>1. n \in U
      <4> HIDE DEF U
      <4> QED
        BY <1>2
    <3>2. n <= n /\ n <= n + 1
      OBVIOUS
    <3> HIDE DEF Upto
    <3> QED
      BY <2>0, <2>1, <2>2, <3>1, <3>2
  <2>4. e[n + 1] = step[n][e[n]]
    BY <2>2
  <2> QED
    BY <2>1, <2>2, <2>3, <2>4
<1> HIDE DEF f
<1>7. ByRecursion(f, S, a, step)
  BY <1>4, <1>5, <1>6 DEF ByRecursion
<1> QED
  BY <1>7

\* The two equations of the recursive definition.
LEMMA PowerEquations == /\ Power \in [Nat -> Nat]
                  /\ Power[0] = 1
                  /\ \A n \in Nat : Power[n + 1] = Multiplier * Power[n]
<1> DEFINE step == [n \in Nat |-> [x \in Nat |-> Multiplier * x]]
           Def(f) == [n \in Nat |-> IF n = 0 THEN 1 ELSE Multiplier * f[n - 1]]
<1>1. step \in [Nat -> [Nat -> Nat]] /\ 1 \in Nat
  BY BackoffAssumption
<1>2. PICK f \in [Nat -> Nat] : f[0] = 1 /\ \A n \in Nat : f[n + 1] = step[n][f[n]]
  <2>1. Steps(step, Nat)
    BY <1>1 DEF Steps
  <2> HIDE DEF step, Def
  <2>2. \E f : ByRecursion(f, Nat, 1, step)
    BY <1>1, <2>1, RecursionExists, Zenon
  <2> QED
    BY <2>2 DEF ByRecursion
<1>3. f = Def(f)
  <2>1. ASSUME NEW n \in Nat, n # 0
        PROVE  f[n] = Multiplier * f[n - 1]
    <3>1. n - 1 \in Nat /\ (n - 1) + 1 = n
      BY <2>1
    <3>2. f[(n - 1) + 1] = step[n - 1][f[n - 1]]
      BY <1>2, <3>1
    <3> QED
      BY <3>1, <3>2
  <2> QED
    BY <1>2, <2>1
<1>4. Power = Def(Power)
  <2>1. Power = CHOOSE g : g = Def(g)
    BY DEF Power
  <2> HIDE DEF Def
  <2> QED
    BY <1>3, <2>1
<1>5. Power[0] = 1 /\ \A n \in Nat : Power[n + 1] = Multiplier * Power[n]
  BY <1>4
<1>6. Power \in [Nat -> Nat]
  <2> DEFINE S == {n \in Nat : Power[n] \in Nat}
  <2>1. 0 \in S
    BY <1>5
  <2>2. \A n \in Nat : n \in S => n + 1 \in S
    BY <1>5, BackoffAssumption
  <2>3. Nat \subseteq S
    <3> HIDE DEF S
    <3> QED
      BY <2>1, <2>2, NatIsLeast
  <2>4. Power = [n \in Nat |-> Power[n]]
    BY <1>4
  <2> QED
    BY <2>3, <2>4
<1> QED
  BY <1>5, <1>6

\* A rung, raised and capped again, is the next one: below the cap the product
\* is the same, above it both are the cap.
LEMMA LadderStep ==
    ASSUME NEW n \in Nat
    PROVE  Capped(Ladder(n) * Multiplier, MaxDelay) = Ladder(n + 1)
<1> DEFINE x == InitialDelay * Power[n]
<1>1. InitialDelay \in Nat /\ MaxDelay \in Nat /\ Multiplier \in Nat
  BY BackoffAssumption
<1>2. Power[n] \in Nat /\ Power[n + 1] = Multiplier * Power[n]
  BY PowerEquations
<1>3. x \in Nat
  BY <1>1, <1>2
<1>4. InitialDelay * Power[n + 1] = x * Multiplier
  BY <1>1, <1>2
<1>5. PICK k \in Nat : Multiplier = k + 1
  BY BackoffAssumption
<1>6. x <= x * Multiplier /\ x * Multiplier \in Nat
  BY <1>3, <1>5, ProductNotBelow
<1>7. MaxDelay <= MaxDelay * Multiplier /\ MaxDelay * Multiplier \in Nat
  BY <1>1, <1>5, ProductNotBelow
<1>8. Ladder(n) = Capped(x, MaxDelay)
      /\ Ladder(n + 1) = Capped(x * Multiplier, MaxDelay)
  BY <1>4 DEF Ladder
<1> HIDE DEF x
<1>9. CASE x <= MaxDelay
  BY <1>8, <1>9 DEF Capped
<1>10. CASE ~(x <= MaxDelay)
  <2>1. Ladder(n) = MaxDelay
    BY <1>8, <1>10 DEF Capped
  <2>2. Capped(MaxDelay * Multiplier, MaxDelay) = MaxDelay
    BY <1>1, <1>7 DEF Capped
  <2>3. ~(x * Multiplier <= MaxDelay)
    BY <1>1, <1>3, <1>6, <1>10
  <2>4. Ladder(n + 1) = MaxDelay
    BY <1>8, <2>3 DEF Capped
  <2> QED
    BY <2>1, <2>2, <2>4
<1> QED
  BY <1>9, <1>10

\* The first rung is the initial delay.
LEMMA FirstRung == Ladder(0) = InitialDelay
<1>1. InitialDelay * 1 = InitialDelay /\ InitialDelay <= MaxDelay
  BY BackoffAssumption
<1> QED
  BY <1>1, PowerEquations DEF Ladder, Capped

LEMMA InitDelay == HandlerInit => DelayMatchesRetries
<1> SUFFICES ASSUME HandlerInit PROVE DelayMatchesRetries
  OBVIOUS
<1>1. h = NewHandler
  BY DEF HandlerInit
<1>2. NewHandler.delay = InitialDelay /\ NewHandler.retry = 0
  BY DEF NewHandler
<1> QED
  BY <1>1, <1>2, FirstRung DEF DelayMatchesRetries

\* The end of a wait climbs one rung, unless the model's counter saturates.
LEMMA WaitClimbs ==
    ASSUME CapUnseen, HandlerInv, DelayMatchesRetries, WaitEnds
    PROVE  DelayMatchesRetries'
<1>1. h \in Handler
  BY DEF HandlerInv, HandlerTypeOK
<1>2. /\ h'.delay = Capped(Ladder(h.retry) * Multiplier, MaxDelay)
      /\ h'.retry = Capped(h.retry + 1, RetryCap)
  BY <1>1 DEF WaitEnds, AfterWait, Handler, DelayMatchesRetries
<1>3. h.retry \in Nat /\ h.retry <= RetryCap /\ RetryCap \in Nat
      /\ MaxRetries \in Nat /\ MaxRetries <= RetryCap
  <2>1. h.retry \in 0 .. RetryCap
    BY <1>1 DEF Handler
  <2> QED
    BY <2>1, BackoffAssumption
<1>4. h'.delay = Ladder(h.retry + 1)
  BY <1>2, <1>3, LadderStep
<1>5. CASE h.retry < RetryCap
  <2>1. h'.retry = h.retry + 1
    BY <1>2, <1>3, <1>5 DEF Capped
  <2> QED
    BY <1>4, <2>1 DEF DelayMatchesRetries
<1>6. CASE h.retry = RetryCap
  <2>1. ~(0 < MaxRetries)
    <3>1. ~GivesUp(h)
      BY DEF HandlerInv, WaitEnds
    <3> QED
      BY <1>3, <1>6, <3>1 DEF GivesUp
  <2>2. h'.retry = RetryCap
    BY <1>2, <1>3, <1>6 DEF Capped
  <2>3. Ladder(RetryCap + 1) = Ladder(RetryCap)
    BY <2>1 DEF CapUnseen
  <2> QED
    BY <1>4, <1>6, <2>2, <2>3 DEF DelayMatchesRetries
<1> QED
  BY <1>3, <1>5, <1>6

\* The delay is the closed form of the counter, whatever is called and cancelled
\* in whatever order.
THEOREM DelayMatchesRetriesHolds ==
    ASSUME CapUnseen
    PROVE  HandlerSpec => []DelayMatchesRetries
<1>1. HandlerInv /\ DelayMatchesRetries /\ [HandlerNext]_handlerVars => DelayMatchesRetries'
  <2> SUFFICES ASSUME HandlerInv, DelayMatchesRetries, [HandlerNext]_handlerVars
               PROVE  DelayMatchesRetries'
    OBVIOUS
  <2>1. h \in Handler
    BY DEF HandlerInv, HandlerTypeOK
  <2>2. CASE h'.delay = h.delay /\ h'.retry = h.retry
    BY <2>2 DEF DelayMatchesRetries
  <2>3. CASE h'.delay = InitialDelay /\ h'.retry = 0
    BY <2>3, FirstRung DEF DelayMatchesRetries
  <2>4. CASE Streaming \/ ResetHandler
    <3>1. h' = OnStreaming(h, uptime = "stable") \/ h' = Reset(h)
      BY <2>4 DEF Streaming, ResetHandler
    <3>2. \/ h'.delay = h.delay /\ h'.retry = h.retry
          \/ h'.delay = InitialDelay /\ h'.retry = 0
      BY <2>1, <3>1 DEF OnStreaming, Reset, Handler
    <3> QED
      BY <2>2, <2>3, <3>2
  <2>5. CASE WaitEnds
    BY <2>5, WaitClimbs
  <2> QED
    BY <2>1, <2>2, <2>4, <2>5
    DEF handlerVars, HandlerNext, SetState, Connected, Authenticated, Disconnected, WaitBegins,
        WaitRefused, WaitCancelled, TimePasses, Idle, WithState, OnConnected,
        OnDisconnected, Handler
<1> QED
  BY <1>1, InitDelay, InitHandlerInv, HandlerInvInductive, PTL DEF HandlerSpec

------------------------------------------------------------------------------
\* The ticker manager.

\* A function on 0 .. N that satisfies the equation of a loop: what the
\* recursive definition of the loop chooses satisfies it too.
LEMMA LoopExists ==
    ASSUME NEW S, NEW a \in S, NEW step, Steps(step, S), NEW N \in Nat
    PROVE  \E g \in [0 .. N -> S] :
               g = [n \in 0 .. N |-> IF n = 0 THEN a ELSE step[n - 1][g[n - 1]]]
<1>1. PICK f : ByRecursion(f, S, a, step)
  BY RecursionExists
<1> DEFINE g == [n \in 0 .. N |-> f[n]]
<1>2. g \in [0 .. N -> S]
  BY <1>1 DEF ByRecursion
<1>3. ASSUME NEW n \in 0 .. N
      PROVE  g[n] = IF n = 0 THEN a ELSE step[n - 1][g[n - 1]]
  <2>1. CASE n = 0
    BY <1>1, <2>1 DEF ByRecursion
  <2>2. CASE n # 0
    <3>1. n - 1 \in Nat /\ n - 1 \in 0 .. N /\ (n - 1) + 1 = n
      BY <2>2
    <3>2. f[(n - 1) + 1] = step[n - 1][f[n - 1]]
      BY <1>1, <3>1 DEF ByRecursion
    <3> QED
      BY <2>2, <3>1, <3>2
  <2> QED
    BY <2>1, <2>2
<1>4. g = [n \in 0 .. N |-> IF n = 0 THEN a ELSE step[n - 1][g[n - 1]]]
  BY <1>3
<1> HIDE DEF g
<1> QED
  BY <1>2, <1>4

\* The first loop of set_tickers, pass by pass.
LEMMA ValidLoop ==
    ASSUME NEW list, Len(list) \in Nat
    PROVE  \E v \in [0 .. Len(list) -> Seq(Symbols)] :
             /\ v[0] = <<>>
             /\ \A n \in 1 .. Len(list) :
                  v[n] = IF Cleaned[list[n]] \in Symbols
                         THEN Append(v[n - 1], Cleaned[list[n]])
                         ELSE v[n - 1]
             /\ Valid(list) = v[Len(list)]
<1> DEFINE S == Seq(Symbols)
           N == Len(list)
           Pass(n, x) == IF Cleaned[list[n]] \in Symbols
                         THEN Append(x, Cleaned[list[n]]) ELSE x
           Def(g) == [n \in 0 .. N |-> IF n = 0 THEN <<>> ELSE Pass(n, g[n - 1])]
           step == [m \in Nat |-> [x \in S |-> Pass(m + 1, x)]]
           v == CHOOSE g : g = Def(g)
<1>1. Valid(list) = v[N]
  BY DEF Valid
<1>2. Steps(step, S) /\ <<>> \in S
  <2>1. \A m \in Nat : \A x \in S : Pass(m + 1, x) \in S
    OBVIOUS
  <2> HIDE DEF Pass, S
  <2>2. step \in [Nat -> [S -> S]]
    BY <2>1
  <2> QED
    BY <2>2 DEF Steps, S
<1>3. PICK g \in [0 .. N -> S] :
        g = [n \in 0 .. N |-> IF n = 0 THEN <<>> ELSE step[n - 1][g[n - 1]]]
  <2> HIDE DEF S, step, N
  <2> QED
    BY <1>2, LoopExists DEF N
<1>4. ASSUME NEW n \in 0 .. N
      PROVE  g[n] = IF n = 0 THEN <<>> ELSE Pass(n, g[n - 1])
  <2> HIDE DEF S, Pass
  <2>1. CASE n = 0
    BY <1>3, <2>1
  <2>2. CASE n # 0
    <3>1. n - 1 \in Nat /\ n - 1 \in 0 .. N /\ (n - 1) + 1 = n
      BY <2>2
    <3>2. g[n] = step[n - 1][g[n - 1]] /\ g[n - 1] \in S
      BY <1>3, <2>2, <3>1
    <3> QED
      BY <2>2, <3>1, <3>2
  <2> QED
    BY <2>1, <2>2
<1>5. g = Def(g)
  <2> HIDE DEF S, Pass, N
  <2> QED
    BY <1>3, <1>4
<1>6. v = Def(v)
  <2> HIDE DEF Def
  <2> QED
    BY <1>5
<1>7. v[0] = <<>> /\ \A n \in 1 .. N : v[n] = Pass(n, v[n - 1])
  <2> HIDE DEF Pass, v
  <2> QED
    BY <1>6
<1> HIDE DEF v
<1>8. \A n \in 0 .. N : v[n] \in S
  <2> DEFINE T == {n \in Nat : n <= N => v[n] \in S}
  <2>1. 0 \in T
    BY <1>2, <1>7
  <2>2. ASSUME NEW n \in Nat, n \in T
        PROVE  n + 1 \in T
    <3>1. CASE n + 1 <= N
      <4>1. n + 1 \in 1 .. N /\ (n + 1) - 1 = n /\ n <= N
        BY <3>1
      <4>2. v[n] \in S
        BY <2>2, <4>1
      <4>3. v[n + 1] = Pass(n + 1, v[n])
        <5> HIDE DEF Pass
        <5> QED
          BY <1>7, <4>1
      <4>4. Pass(n + 1, v[n]) \in S
        BY <4>2
      <4> HIDE DEF Pass
      <4> QED
        BY <4>3, <4>4
    <3> QED
      BY <3>1
  <2>3. Nat \subseteq T
    <3> HIDE DEF T
    <3> QED
      BY <2>1, <2>2, NatIsLeast
  <2> HIDE DEF S
  <2> QED
    BY <2>3
<1>9. v \in [0 .. N -> S]
  <2> HIDE DEF S, Pass
  <2> QED
    BY <1>6, <1>8
<1> QED
  BY <1>1, <1>7, <1>9

\* The second loop, pass by pass.
LEMMA UniqueLoop ==
    ASSUME NEW list \in Seq(Symbols)
    PROVE  \E v \in [0 .. Len(list) -> Seq(Symbols)] :
             /\ v[0] = <<>>
             /\ \A n \in 1 .. Len(list) :
                  v[n] = IF list[n] \in Range(v[n - 1]) THEN v[n - 1]
                         ELSE Append(v[n - 1], list[n])
             /\ WithoutDuplicates(list) = v[Len(list)]
<1> DEFINE S == Seq(Symbols)
           N == Len(list)
           Pass(n, x) == IF list[n] \in Range(x) THEN x
                         ELSE Append(x, list[n])
           Def(g) == [n \in 0 .. N |-> IF n = 0 THEN <<>> ELSE Pass(n, g[n - 1])]
           step == [m \in Nat |-> [x \in S |-> IF m + 1 \in 1 .. N
                                               THEN Pass(m + 1, x) ELSE x]]
           v == CHOOSE g : g = Def(g)
<1>1. WithoutDuplicates(list) = v[N]
  BY DEF WithoutDuplicates
<1>2. Steps(step, S) /\ <<>> \in S
  <2>1. \A m \in 1 .. N : \A x \in S : Pass(m, x) \in S
    OBVIOUS
  <2> HIDE DEF Pass, S, N
  <2>2. step \in [Nat -> [S -> S]]
    BY <2>1
  <2> QED
    BY <2>2 DEF Steps, S
<1>3. PICK g \in [0 .. N -> S] :
        g = [n \in 0 .. N |-> IF n = 0 THEN <<>> ELSE step[n - 1][g[n - 1]]]
  <2> HIDE DEF S, step, N
  <2> QED
    BY <1>2, LoopExists DEF N
<1>4. ASSUME NEW n \in 0 .. N
      PROVE  g[n] = IF n = 0 THEN <<>> ELSE Pass(n, g[n - 1])
  <2> HIDE DEF S, Pass
  <2>1. CASE n = 0
    BY <1>3, <2>1
  <2>2. CASE n # 0
    <3>1. n - 1 \in Nat /\ n - 1 \in 0 .. N /\ (n - 1) + 1 = n /\ n \in 1 .. N
      BY <2>2
    <3>2. g[n] = step[n - 1][g[n - 1]] /\ g[n - 1] \in S
      BY <1>3, <2>2, <3>1
    <3> QED
      BY <2>2, <3>1, <3>2
  <2> QED
    BY <2>1, <2>2
<1>5. g = Def(g)
  <2> HIDE DEF S, Pass, N
  <2> QED
    BY <1>3, <1>4
<1>6. v = Def(v)
  <2> HIDE DEF Def
  <2> QED
    BY <1>5
<1>7. v[0] = <<>> /\ \A n \in 1 .. N : v[n] = Pass(n, v[n - 1])
  <2> HIDE DEF Pass, v
  <2> QED
    BY <1>6
<1> HIDE DEF v
<1>8. \A n \in 0 .. N : v[n] \in S
  <2> DEFINE T == {n \in Nat : n <= N => v[n] \in S}
  <2>1. 0 \in T
    BY <1>2, <1>7
  <2>2. ASSUME NEW n \in Nat, n \in T
        PROVE  n + 1 \in T
    <3>1. CASE n + 1 <= N
      <4>1. n + 1 \in 1 .. N /\ (n + 1) - 1 = n /\ n <= N
        BY <3>1
      <4>2. v[n] \in S
        BY <2>2, <4>1
      <4>3. v[n + 1] = Pass(n + 1, v[n])
        <5> HIDE DEF Pass
        <5> QED
          BY <1>7, <4>1
      <4>4. Pass(n + 1, v[n]) \in S
        BY <4>1, <4>2
      <4> HIDE DEF Pass
      <4> QED
        BY <4>3, <4>4
    <3> QED
      BY <3>1
  <2>3. Nat \subseteq T
    <3> HIDE DEF T
    <3> QED
      BY <2>1, <2>2, NatIsLeast
  <2> HIDE DEF S
  <2> QED
    BY <2>3
<1>9. v \in [0 .. N -> S]
  <2> HIDE DEF S, Pass
  <2> QED
    BY <1>6, <1>8
<1> QED
  BY <1>1, <1>7, <1>9

\* Within the first n of s, t is mentioned, and u not until then.
Ahead(s, n, t, u) == \E i \in 1 .. n : s[i] = t /\ \A j \in 1 .. i : s[j] # u

\* The first loop keeps what is known, and no symbol overtakes another one.
LEMMA ValidKeepsOrder ==
    ASSUME NEW list, Len(list) \in Nat
    PROVE  LET s == [i \in 1 .. Len(list) |-> Cleaned[list[i]]]
               v == Valid(list)
           IN  /\ v \in Seq(Symbols)
               /\ Range(v) = {s[i] : i \in 1 .. Len(list)} \cap Symbols
               /\ \A t, u \in Symbols :
                     Ahead(v, Len(v), t, u) => Ahead(s, Len(list), t, u)
<1> DEFINE S == Symbols
           N == Len(list)
           s == [i \in 1 .. N |-> Cleaned[list[i]]]
<1>1. PICK v \in [0 .. N -> Seq(S)] :
        /\ v[0] = <<>>
        /\ \A n \in 1 .. N : v[n] = IF Cleaned[list[n]] \in S
                                    THEN Append(v[n - 1], Cleaned[list[n]])
                                    ELSE v[n - 1]
        /\ Valid(list) = v[N]
  BY ValidLoop
<1> HIDE DEF S
<1> DEFINE Names(n) == Range(v[n]) = {s[i] : i \in 1 .. n} \cap S
           Order(n) == \A t, u \in S :
                          Ahead(v[n], Len(v[n]), t, u) => Ahead(s, n, t, u)
           T == {n \in Nat : n <= N => Names(n) /\ Order(n)}
<1>2. 0 \in T
  <2>1. Len(v[0]) = 0 /\ DOMAIN v[0] = {}
    BY <1>1
  <2>2. Range(v[0]) = {}
    BY <2>1 DEF Range
  <2>3. Order(0)
    BY <2>1 DEF Ahead
  <2> QED
    BY <2>2, <2>3
<1>3. ASSUME NEW n \in Nat, n \in T
      PROVE  n + 1 \in T
  <2> SUFFICES ASSUME n + 1 <= N
               PROVE  Names(n + 1) /\ Order(n + 1)
    <3> HIDE DEF Names, Order, N
    <3> QED
      OBVIOUS
  <2> DEFINE e == Cleaned[list[n + 1]]
             w == v[n]
  <2>1. n + 1 \in 1 .. N /\ n \in 0 .. N /\ (n + 1) - 1 = n /\ n <= N
    OBVIOUS
  <2>2. w \in Seq(S) /\ Len(w) \in Nat /\ DOMAIN w = 1 .. Len(w)
    BY <1>1, <2>1
  <2>3. v[n + 1] = IF e \in S THEN Append(w, e) ELSE w
    BY <1>1, <2>1
  <2>4. Names(n) /\ Order(n)
    BY <1>3, <2>1
  <2>5. s[n + 1] = e
    BY <2>1
  <2> HIDE DEF e, w, s
  <2>6. ASSUME NEW t, NEW u, Ahead(s, n, t, u)
        PROVE  Ahead(s, n + 1, t, u)
    BY <2>6 DEF Ahead
  <2>7. CASE e \notin S
    <3>1. v[n + 1] = w
      BY <2>3, <2>7
    <3>2. {s[i] : i \in 1 .. n + 1} \cap S = {s[i] : i \in 1 .. n} \cap S
      <4>1. \A i \in 1 .. n + 1 : i \in 1 .. n \/ i = n + 1
        OBVIOUS
      <4>2. 1 .. n \subseteq 1 .. n + 1
        OBVIOUS
      <4> QED
        BY <2>5, <2>7, <4>1, <4>2
    <3>3. Names(n + 1)
      BY <2>4, <3>1, <3>2 DEF w
    <3>4. Order(n + 1)
      BY <2>4, <2>6, <3>1 DEF w
    <3> QED
      BY <3>3, <3>4
  <2>8. CASE e \in S
    <3> DEFINE x == Append(w, e)
    <3>1. /\ v[n + 1] = x /\ Len(x) = Len(w) + 1 /\ DOMAIN x = 1 .. Len(x)
          /\ \A i \in 1 .. Len(w) : x[i] = w[i]
          /\ x[Len(w) + 1] = e
      BY <2>2, <2>3, <2>8, AppendProperties
    <3> HIDE DEF x
    <3>2. Range(x) = Range(w) \cup {e}
      <4>1. Range(x) = {x[i] : i \in 1 .. Len(w) + 1}
        BY <3>1 DEF Range
      <4>2. Range(w) = {w[i] : i \in 1 .. Len(w)}
        BY <2>2 DEF Range
      <4>3. \A i \in 1 .. Len(w) + 1 : i \in 1 .. Len(w) \/ i = Len(w) + 1
        BY <2>2
      <4>4. Len(w) + 1 \in 1 .. Len(w) + 1 /\ 1 .. Len(w) \subseteq 1 .. Len(w) + 1
        BY <2>2
      <4> QED
        BY <3>1, <4>1, <4>2, <4>3, <4>4
    <3>3. {s[i] : i \in 1 .. n + 1} = {s[i] : i \in 1 .. n} \cup {e}
      <4>1. \A i \in 1 .. n + 1 : i \in 1 .. n \/ i = n + 1
        OBVIOUS
      <4>2. 1 .. n \subseteq 1 .. n + 1 /\ n + 1 \in 1 .. n + 1
        OBVIOUS
      <4> QED
        BY <2>5, <4>1, <4>2
    <3>4. Names(n + 1)
      BY <2>4, <2>8, <3>1, <3>2, <3>3 DEF w
    <3>5. ASSUME NEW t \in S, NEW u \in S, Ahead(x, Len(x), t, u)
          PROVE  Ahead(s, n + 1, t, u)
      <4>1. PICK i \in 1 .. Len(w) + 1 : x[i] = t /\ \A j \in 1 .. i : x[j] # u
        BY <3>1, <3>5 DEF Ahead
      <4>2. CASE i \in 1 .. Len(w)
        <5>1. w[i] = t /\ \A j \in 1 .. i : w[j] # u
          BY <2>2, <3>1, <4>1, <4>2
        <5>2. Ahead(w, Len(w), t, u)
          BY <4>2, <5>1 DEF Ahead
        <5>3. Ahead(s, n, t, u)
          BY <2>4, <5>2 DEF w
        <5> QED
          BY <2>6, <5>3
      <4>3. CASE i = Len(w) + 1
        <5>1. t = e /\ t # u
          BY <2>2, <3>1, <4>1, <4>3
        <5>2. \A j \in 1 .. Len(w) : w[j] # u
          BY <2>2, <3>1, <4>1, <4>3
        <5>3. u \notin Range(w)
          BY <2>2, <5>2 DEF Range
        <5>4. \A j \in 1 .. n : s[j] # u
          BY <2>4, <5>3 DEF w
        <5>5. \A j \in 1 .. n + 1 : s[j] # u
          <6>1. \A j \in 1 .. n + 1 : j \in 1 .. n \/ j = n + 1
            OBVIOUS
          <6> QED
            BY <2>5, <5>1, <5>4, <6>1
        <5>6. n + 1 \in 1 .. n + 1
          OBVIOUS
        <5> QED
          BY <2>5, <5>1, <5>5, <5>6 DEF Ahead
      <4> QED
        BY <2>2, <4>2, <4>3
    <3>6. Order(n + 1)
      BY <3>1, <3>5
    <3> QED
      BY <3>4, <3>6
  <2> QED
    BY <2>7, <2>8
<1>4. Nat \subseteq T
  <2> HIDE DEF T
  <2> QED
    BY <1>2, <1>3, NatIsLeast
<1>5. Names(N) /\ Order(N)
  <2>1. N \in T /\ N <= N
    <3> HIDE DEF T
    <3> QED
      BY <1>4
  <2> HIDE DEF Names, Order
  <2> QED
    BY <2>1
<1>6. v[N] \in Seq(S)
  BY <1>1
<1> QED
  BY <1>1, <1>5, <1>6 DEF S

\* The second loop keeps every symbol, and the order of first mentions.
LEMMA UniqueKeepsOrder ==
    ASSUME NEW list \in Seq(Symbols)
    PROVE  LET u == WithoutDuplicates(list)
           IN  /\ u \in Seq(Symbols)
               /\ Range(u) = Range(list)
               /\ \A i, j \in 1 .. Len(u) :
                     i < j => Ahead(list, Len(list), u[i], u[j])
<1> DEFINE S == Symbols
           N == Len(list)
<1>0. N \in Nat /\ DOMAIN list = 1 .. N
  OBVIOUS
<1>1. PICK v \in [0 .. N -> Seq(S)] :
        /\ v[0] = <<>>
        /\ \A n \in 1 .. N : v[n] = IF list[n] \in Range(v[n - 1])
                                    THEN v[n - 1] ELSE Append(v[n - 1], list[n])
        /\ WithoutDuplicates(list) = v[N]
  BY UniqueLoop
<1>2. \A n \in 1 .. N : list[n] \in S
  OBVIOUS
<1> HIDE DEF S
<1> DEFINE Names(n) == Range(v[n]) = {list[i] : i \in 1 .. n}
           Order(n) == \A i, j \in 1 .. Len(v[n]) :
                          i < j => Ahead(list, n, v[n][i], v[n][j])
           T == {n \in Nat : n <= N => Names(n) /\ Order(n)}
<1>3. 0 \in T
  <2>1. Len(v[0]) = 0 /\ DOMAIN v[0] = {}
    BY <1>1
  <2>2. Range(v[0]) = {}
    BY <2>1 DEF Range
  <2>3. Order(0)
    BY <2>1
  <2> QED
    BY <2>2, <2>3
<1>4. ASSUME NEW n \in Nat, n \in T
      PROVE  n + 1 \in T
  <2> SUFFICES ASSUME n + 1 <= N
               PROVE  Names(n + 1) /\ Order(n + 1)
    <3> HIDE DEF Names, Order, N
    <3> QED
      OBVIOUS
  <2> DEFINE e == list[n + 1]
             w == v[n]
  <2>1. n + 1 \in 1 .. N /\ n \in 0 .. N /\ (n + 1) - 1 = n /\ n <= N
    BY <1>0
  <2>2. w \in Seq(S) /\ Len(w) \in Nat /\ DOMAIN w = 1 .. Len(w) /\ e \in S
    BY <1>1, <1>2, <2>1
  <2>3. v[n + 1] = IF e \in Range(w) THEN w ELSE Append(w, e)
    BY <1>1, <2>1
  <2>4. Names(n) /\ Order(n)
    BY <1>4, <2>1
  <2> HIDE DEF w
  <2>5. Range(w) = {list[i] : i \in 1 .. n}
    BY <2>4 DEF w
  <2>6. {list[i] : i \in 1 .. n + 1} = {list[i] : i \in 1 .. n} \cup {e}
    <3>1. \A i \in 1 .. n + 1 : i \in 1 .. n \/ i = n + 1
      OBVIOUS
    <3>2. 1 .. n \subseteq 1 .. n + 1 /\ n + 1 \in 1 .. n + 1
      OBVIOUS
    <3> HIDE DEF N
    <3> QED
      BY <3>1, <3>2
  <2> HIDE DEF e, N
  <2>7. ASSUME NEW t, NEW u, Ahead(list, n, t, u)
        PROVE  Ahead(list, n + 1, t, u)
    BY <2>7 DEF Ahead
  <2>8. CASE e \in Range(w)
    <3>1. v[n + 1] = w
      BY <2>3, <2>8
    <3>2. Names(n + 1)
      BY <2>5, <2>6, <2>8, <3>1
    <3>3. Order(n + 1)
      BY <2>4, <2>7, <3>1 DEF w
    <3> QED
      BY <3>2, <3>3
  <2>9. CASE e \notin Range(w)
    <3> DEFINE x == Append(w, e)
    <3>1. /\ v[n + 1] = x /\ Len(x) = Len(w) + 1 /\ DOMAIN x = 1 .. Len(x)
          /\ \A i \in 1 .. Len(w) : x[i] = w[i]
          /\ x[Len(w) + 1] = e
      BY <2>2, <2>3, <2>9, AppendProperties
    <3> HIDE DEF x
    <3>2. Range(x) = Range(w) \cup {e}
      <4>1. Range(x) = {x[i] : i \in 1 .. Len(w) + 1}
        BY <3>1 DEF Range
      <4>2. Range(w) = {w[i] : i \in 1 .. Len(w)}
        BY <2>2 DEF Range
      <4>3. \A i \in 1 .. Len(w) + 1 : i \in 1 .. Len(w) \/ i = Len(w) + 1
        BY <2>2
      <4>4. Len(w) + 1 \in 1 .. Len(w) + 1 /\ 1 .. Len(w) \subseteq 1 .. Len(w) + 1
        BY <2>2
      <4> QED
        BY <3>1, <4>1, <4>2, <4>3, <4>4
    <3>3. Names(n + 1)
      BY <2>5, <2>6, <3>1, <3>2
    <3>4. ASSUME NEW i \in 1 .. Len(x), NEW j \in 1 .. Len(x), i < j
          PROVE  Ahead(list, n + 1, x[i], x[j])
      <4>1. i \in 1 .. Len(w) /\ x[i] = w[i]
        BY <2>2, <3>1, <3>4
      <4>2. CASE j \in 1 .. Len(w)
        <5>1. Ahead(list, n, w[i], w[j]) /\ x[j] = w[j]
          BY <2>4, <3>1, <3>4, <4>1, <4>2 DEF w
        <5> QED
          BY <2>7, <4>1, <5>1
      <4>3. CASE j = Len(w) + 1
        <5>1. x[j] = e
          BY <3>1, <4>3
        <5>2. w[i] \in Range(w)
          BY <2>2, <4>1 DEF Range
        <5>3. PICK k \in 1 .. n : list[k] = w[i]
          BY <2>5, <5>2
        <5>4. \A m \in 1 .. k : list[m] # e
          <6>1. \A m \in 1 .. k : m \in 1 .. n
            OBVIOUS
          <6> QED
            BY <2>5, <2>9, <6>1
        <5>5. Ahead(list, n, w[i], e)
          BY <5>3, <5>4 DEF Ahead
        <5> QED
          BY <2>7, <4>1, <5>1, <5>5
      <4> QED
        BY <2>2, <3>1, <4>2, <4>3
    <3>5. Order(n + 1)
      BY <3>1, <3>4
    <3> QED
      BY <3>3, <3>5
  <2> QED
    BY <2>8, <2>9
<1>5. Nat \subseteq T
  <2> HIDE DEF T
  <2> QED
    BY <1>3, <1>4, NatIsLeast
<1>6. Names(N) /\ Order(N)
  <2>1. N \in T /\ N <= N
    <3> HIDE DEF T
    <3> QED
      BY <1>0, <1>5
  <2> HIDE DEF Names, Order
  <2> QED
    BY <2>1
<1>7. v[N] \in Seq(S)
  BY <1>0, <1>1
<1>8. Range(list) = {list[i] : i \in 1 .. N}
  BY <1>0 DEF Range
<1> QED
  BY <1>1, <1>6, <1>7, <1>8 DEF S

\* A symbol that is asked for has a first mention.
LEMMA FirstMentionIs ==
    ASSUME NEW list, Len(list) \in Nat, DOMAIN list = 1 .. Len(list),
           NEW k \in 1 .. Len(list)
    PROVE  LET t == Cleaned[list[k]]
               i == FirstMention(list, t)
           IN  /\ i \in 1 .. Len(list)
               /\ Cleaned[list[i]] = t
               /\ \A j \in 1 .. i - 1 : Cleaned[list[j]] # t
<1> DEFINE t == Cleaned[list[k]]
           First(i) == /\ Cleaned[list[i]] = t
                       /\ \A j \in 1 .. i - 1 : Cleaned[list[j]] # t
           i == FirstMention(list, t)
<1>1. \E m \in DOMAIN list : First(m)
  <2> SUFFICES ASSUME \A m \in 1 .. Len(list) : ~First(m)
               PROVE  FALSE
    OBVIOUS
  <2> DEFINE T == {n \in Nat : \A j \in 1 .. n : j \in 1 .. Len(list) =>
                                                 Cleaned[list[j]] # t}
  <2>1. 0 \in T
    OBVIOUS
  <2>2. ASSUME NEW n \in Nat, n \in T
        PROVE  n + 1 \in T
    <3>1. n + 1 \in 1 .. Len(list) => Cleaned[list[n + 1]] # t
      <4> SUFFICES ASSUME n + 1 \in 1 .. Len(list), Cleaned[list[n + 1]] = t
                   PROVE  FALSE
        OBVIOUS
      <4>1. \A j \in 1 .. n : j \in 1 .. Len(list)
        OBVIOUS
      <4>2. \A j \in 1 .. n : Cleaned[list[j]] # t
        BY <2>2, <4>1
      <4>3. (n + 1) - 1 = n
        OBVIOUS
      <4>4. First(n + 1)
        BY <4>2, <4>3
      <4> HIDE DEF First
      <4> QED
        BY <4>4
    <3>2. \A j \in 1 .. n + 1 : j \in 1 .. n \/ j = n + 1
      OBVIOUS
    <3> QED
      BY <2>2, <3>1, <3>2
  <2>3. k \in T
    <3> HIDE DEF T
    <3> QED
      BY <2>1, <2>2, NatIsLeast
  <2> QED
    BY <2>3
<1>2. i = CHOOSE m \in DOMAIN list : First(m)
  BY DEF FirstMention
<1>3. i \in DOMAIN list /\ First(i)
  <2> HIDE DEF First, i
  <2> QED
    BY <1>1, <1>2
<1> QED
  BY <1>3

\* What is ahead is mentioned first.
LEMMA AheadIsFirst ==
    ASSUME NEW list, Len(list) \in Nat, DOMAIN list = 1 .. Len(list),
           NEW t, NEW u,
           u \in {Cleaned[list[i]] : i \in 1 .. Len(list)},
           Ahead([i \in 1 .. Len(list) |-> Cleaned[list[i]]], Len(list), t, u)
    PROVE  FirstMention(list, t) < FirstMention(list, u)
<1> DEFINE N == Len(list)
           p == FirstMention(list, t)
           q == FirstMention(list, u)
<1>1. PICK i \in 1 .. N : Cleaned[list[i]] = t /\ \A j \in 1 .. i : Cleaned[list[j]] # u
  <2> DEFINE s == [i \in 1 .. N |-> Cleaned[list[i]]]
  <2>1. PICK i \in 1 .. N : s[i] = t /\ \A j \in 1 .. i : s[j] # u
    BY DEF Ahead
  <2>2. \A j \in 1 .. i : j \in 1 .. N
    OBVIOUS
  <2> QED
    BY <2>1, <2>2
<1>2. PICK k \in 1 .. N : Cleaned[list[k]] = u
  OBVIOUS
<1>3. /\ p \in 1 .. N
      /\ \A j \in 1 .. p - 1 : Cleaned[list[j]] # t
  BY <1>1, FirstMentionIs
<1>4. q \in 1 .. N /\ Cleaned[list[q]] = u
  BY <1>2, FirstMentionIs
<1> HIDE DEF p, q, N
<1>5. p <= i
  BY <1>1, <1>3
<1>6. i < q
  BY <1>1, <1>4
<1> QED
  BY <1>3, <1>4, <1>5, <1>6 DEF p, q

\* Both loops, one after the other.
LEMMA ListSetKeepsFirstMentions ==
    ASSUME NEW list \in Seq(Raw)
    PROVE  LET a == WithoutDuplicates(Valid(list))
           IN  /\ a \in Seq(Symbols)
               /\ Range(a) = {Cleaned[list[i]] : i \in DOMAIN list}
                                        \cap Symbols
               /\ \A i, j \in DOMAIN a :
                     i < j => FirstMention(list, a[i])
                                < FirstMention(list, a[j])
<1> DEFINE N == Len(list)
           s == [i \in 1 .. N |-> Cleaned[list[i]]]
           v == Valid(list)
           a == WithoutDuplicates(v)
           S == Symbols
<1>1. N \in Nat /\ DOMAIN list = 1 .. N
  OBVIOUS
<1>2. /\ v \in Seq(S)
      /\ Range(v) = {s[i] : i \in 1 .. N} \cap S
      /\ \A t, u \in S : Ahead(v, Len(v), t, u) => Ahead(s, N, t, u)
  BY <1>1, ValidKeepsOrder
<1>3. /\ a \in Seq(S)
      /\ Range(a) = Range(v)
      /\ \A i, j \in 1 .. Len(a) : i < j => Ahead(v, Len(v), a[i], a[j])
  BY <1>2, UniqueKeepsOrder
<1>4. {s[i] : i \in 1 .. N} = {Cleaned[list[i]] : i \in DOMAIN list}
  BY <1>1
<1> HIDE DEF a, v, S
<1>5. DOMAIN a = 1 .. Len(a) /\ \A i \in 1 .. Len(a) : a[i] \in S
  BY <1>3
<1>6. ASSUME NEW i \in DOMAIN a, NEW j \in DOMAIN a, i < j
      PROVE  FirstMention(list, a[i]) < FirstMention(list, a[j])
  <2>1. Ahead(s, N, a[i], a[j])
    BY <1>2, <1>3, <1>5, <1>6
  <2>2. a[j] \in Range(a)
    BY DEF Range
  <2>3. a[j] \in {Cleaned[list[m]] : m \in 1 .. N}
    BY <1>1, <1>2, <1>3, <1>4, <2>2
  <2> QED
    BY <1>1, <2>1, <2>3, AheadIsFirst
<1>7. Range(a) = {Cleaned[list[i]] : i \in DOMAIN list} \cap S
  BY <1>2, <1>3, <1>4
<1>8. \A i, j \in DOMAIN a :
        i < j => FirstMention(list, a[i]) < FirstMention(list, a[j])
  BY <1>6
<1>9. a \in Seq(S)
  BY <1>3
<1> QED
  BY <1>7, <1>8, <1>9 DEF a, v, S

------------------------------------------------------------------------------
\* The batches.

\* Where the i-th batch of N symbols ends.
Cut(N, i) == IF i * Limit < N THEN i * Limit ELSE N

LEMMA ProductsOrdered ==
    ASSUME NEW i \in Nat, NEW q \in Nat, NEW L \in Nat, i * L < q * L
    PROVE  i < q
OBVIOUS

LEMMA Quotient ==
    ASSUME NEW a \in Nat, NEW L \in Nat \ {0}
    PROVE  (a \div L) \in Nat /\ L * (a \div L) <= a /\ a < L * (a \div L) + L
OBVIOUS

\* The last batch ends at the end, the others end full and before it.
LEMMA CutEnds ==
    ASSUME NEW N \in Nat
    PROVE  /\ NumBatches(N) \in Nat
           /\ N <= NumBatches(N) * Limit
           /\ \A i \in 1 .. NumBatches(N) :
                 /\ (i - 1) * Limit \in Nat /\ (i - 1) * Limit < N
                 /\ i * Limit = (i - 1) * Limit + Limit
<1> DEFINE L == Limit
           q == NumBatches(N)
<1>1. L \in Nat \ {0}
  BY TickerManagerAssumption
<1>2. N + L - 1 \in Nat
  BY <1>1
<1>3. q = (N + L - 1) \div L
  BY DEF NumBatches
<1>4. q \in Nat /\ L * q <= N + L - 1 /\ N + L - 1 < L * q + L
  BY <1>1, <1>2, <1>3, Quotient
<1> HIDE DEF q
<1>5. L * q = q * L /\ L * q \in Nat
  BY <1>1, <1>4
<1>6. N <= q * L
  BY <1>1, <1>4, <1>5
<1>7. ASSUME NEW i \in 1 .. q
      PROVE  (i - 1) * L \in Nat /\ (i - 1) * L < N /\ i * L = (i - 1) * L + L
  <2>1. i - 1 \in Nat /\ q - i \in Nat
    BY <1>4
  <2>2. (i - 1) * L \in Nat /\ (q - i) * L \in Nat
    BY <1>1, <2>1
  <2>3. i * L = (i - 1) * L + L
    BY <1>1
  <2>4. q * L = i * L + (q - i) * L
    BY <1>1, <1>4
  <2>5. i * L <= q * L
    BY <1>1, <1>5, <2>2, <2>3, <2>4
  <2> QED
    BY <1>1, <1>4, <1>5, <2>2, <2>3, <2>5
<1> QED
  BY <1>4, <1>6, <1>7 DEF q

LEMMA CutSteps ==
    ASSUME NEW N \in Nat
    PROVE  /\ Cut(N, 0) = 0
           /\ Cut(N, NumBatches(N)) = N
           /\ \A i \in 1 .. NumBatches(N) :
                 /\ Cut(N, i - 1) = (i - 1) * Limit
                 /\ Cut(N, i - 1) \in Nat
                 /\ Cut(N, i) \in Cut(N, i - 1) + 1 .. N
                 /\ Cut(N, i) - Cut(N, i - 1) <= Limit
<1> DEFINE L == Limit
           q == NumBatches(N)
<1>1. L \in Nat \ {0}
  BY TickerManagerAssumption
<1>2. /\ q \in Nat /\ N <= q * L
      /\ \A i \in 1 .. q : /\ (i - 1) * L \in Nat /\ (i - 1) * L < N
                           /\ i * L = (i - 1) * L + L
  BY CutEnds
<1> HIDE DEF q
<1>3. Cut(N, 0) = 0
  BY <1>1 DEF Cut
<1>4. Cut(N, q) = N
  <2>1. q * L \in Nat
    BY <1>1, <1>2
  <2> QED
    BY <1>2, <2>1 DEF Cut
<1>5. ASSUME NEW i \in 1 .. q
      PROVE  /\ Cut(N, i - 1) = (i - 1) * L /\ Cut(N, i - 1) \in Nat
             /\ Cut(N, i) \in Cut(N, i - 1) + 1 .. N
             /\ Cut(N, i) - Cut(N, i - 1) <= L
  <2> DEFINE a == (i - 1) * L
             b == i * L
  <2>1. a \in Nat /\ a < N /\ b = a + L
    BY <1>2
  <2> HIDE DEF a, b
  <2>2. Cut(N, i - 1) = a
    BY <2>1 DEF Cut, a
  <2>3. Cut(N, i) = IF b < N THEN b ELSE N
    BY DEF Cut, b
  <2>4. (IF b < N THEN b ELSE N) \in a + 1 .. N /\ (IF b < N THEN b ELSE N) - a <= L
    BY <1>1, <2>1
  <2> QED
    BY <2>1, <2>2, <2>3, <2>4 DEF a
<1> QED
  BY <1>3, <1>4, <1>5 DEF q

\* One batch.
BatchOf(S, list, i, b) ==
    /\ b = SubSeq(list, Cut(Len(list), i - 1) + 1, Cut(Len(list), i))
    /\ b \in Seq(S)
    /\ Len(b) \in 1 .. Limit
    /\ Len(b) = Cut(Len(list), i) - Cut(Len(list), i - 1)
    /\ \A k \in 1 .. Len(b) : b[k] = list[Cut(Len(list), i - 1) + k]

LEMMA BatchIs ==
    ASSUME NEW S, NEW list \in Seq(S),
           NEW i \in 1 .. NumBatches(Len(list))
    PROVE  BatchOf(S, list, i, Batches(list)[i])
<1> DEFINE N == Len(list)
           m == Cut(N, i - 1) + 1
           n == Cut(N, i)
           b == Batches(list)[i]
<1>1. N \in Nat /\ DOMAIN list = 1 .. N /\ \A k \in 1 .. N : list[k] \in S
  OBVIOUS
<1>2. /\ Cut(N, i - 1) = (i - 1) * Limit /\ Cut(N, i - 1) \in Nat
      /\ n \in m .. N /\ n - Cut(N, i - 1) <= Limit
  BY <1>1, CutSteps
<1>3. b = SubSeq(list, m, n)
  <2>1. b = SubSeq(list, (i - 1) * Limit + 1,
                   IF i * Limit < Len(list) THEN i * Limit ELSE Len(list))
    BY DEF Batches
  <2> QED
    BY <1>2, <2>1 DEF Cut
<1>4. Limit \in Nat
  BY TickerManagerAssumption
<1>5. m \in Int /\ n \in Int /\ m <= n /\ m >= 1 /\ n <= N
  BY <1>1, <1>2
<1> HIDE DEF b
<1>6. \A k \in m .. n : list[k] \in S
  BY <1>1, <1>2, <1>5
<1>7. /\ SubSeq(list, m, n) \in Seq(S)
      /\ Len(SubSeq(list, m, n)) = IF m <= n THEN n - m + 1 ELSE 0
      /\ \A k \in 1 .. n - m + 1 : SubSeq(list, m, n)[k] = list[m + k - 1]
  <2> HIDE DEF m, n
  <2> QED
    BY <1>5, <1>6, SubSeqProperties
<1>8. Len(b) = n - Cut(N, i - 1) /\ n - m + 1 = n - Cut(N, i - 1)
  <2> HIDE DEF n
  <2> QED
    BY <1>2, <1>3, <1>5, <1>7
<1>9. Len(b) \in 1 .. Limit
  BY <1>2, <1>4, <1>5, <1>8
<1>10. ASSUME NEW k \in 1 .. Len(b)
       PROVE  b[k] = list[Cut(N, i - 1) + k]
  <2>1. m + k - 1 = Cut(N, i - 1) + k
    BY <1>2
  <2> HIDE DEF n
  <2>2. k \in 1 .. n - m + 1
    BY <1>8
  <2> HIDE DEF m
  <2> QED
    BY <1>3, <1>7, <2>1, <2>2
<1> QED
  BY <1>3, <1>7, <1>8, <1>9, <1>10 DEF b, BatchOf

\* All of them.
LEMMA BatchesType ==
    ASSUME NEW S, NEW list \in Seq(S)
    PROVE  /\ Batches(list) \in Seq(Seq(S))
           /\ Len(Batches(list)) = NumBatches(Len(list))
           /\ NumBatches(Len(list)) \in Nat
<1> DEFINE q == NumBatches(Len(list))
           B == Batches(list)
<1>1. q \in Nat
  BY CutEnds
<1>2. \A i \in 1 .. q : B[i] \in Seq(S)
  BY BatchIs DEF BatchOf
<1>3. B \in [1 .. q -> Seq(S)]
  <2>1. B = [i \in 1 .. q |-> B[i]]
    BY DEF Batches
  <2> HIDE DEF B
  <2> QED
    BY <1>2, <2>1
<1> HIDE DEF q, B
<1>4. B \in Seq(Seq(S)) /\ Len(B) = q
  BY <1>1, <1>3
<1> QED
  BY <1>1, <1>4 DEF q, B

\* No symbol is lost between the batches, and none comes in.
LEMMA BatchesCover ==
    ASSUME NEW S, NEW list \in Seq(S)
    PROVE  UNION {Range(b) : b \in Range(Batches(list))}
              = Range(list)
<1> DEFINE N == Len(list)
           q == NumBatches(N)
           B == Batches(list)
           R == Range(list)
<1>1. N \in Nat /\ DOMAIN list = 1 .. N
  OBVIOUS
<1>2. R = {list[k] : k \in 1 .. N} /\ list \in Seq(R)
  BY <1>1 DEF Range
<1>3. q \in Nat /\ B \in Seq(Seq(R)) /\ Len(B) = q
  BY <1>2, BatchesType
<1>4. DOMAIN B = 1 .. q
  <2> HIDE DEF B, q
  <2> QED
    BY <1>3
<1>5. ASSUME NEW b \in Range(B)
      PROVE  Range(b) \subseteq R
  <2>1. b \in Seq(R)
    <3> HIDE DEF B, R, q
    <3> QED
      BY <1>3 DEF Range
  <2> HIDE DEF R
  <2> QED
    BY <2>1 DEF Range
<1>6. ASSUME NEW k \in 1 .. N
      PROVE  \E b \in Range(B) : list[k] \in Range(b)
  <2> DEFINE L == Limit
             j == (k - 1) \div L
             i == j + 1
  <2>1. L \in Nat \ {0} /\ k - 1 \in Nat
    BY TickerManagerAssumption
  <2>2. j \in Nat /\ L * j <= k - 1 /\ k - 1 < L * j + L
    BY <2>1, Quotient
  <2> HIDE DEF j
  <2>3. L * j = j * L /\ j * L \in Nat /\ j * L < N
    BY <1>1, <2>1, <2>2
  <2>4. N <= q * L
    BY <1>1, CutEnds
  <2>5. j < q
    <3>1. q * L \in Nat
      <4> HIDE DEF q
      <4> QED
        BY <1>3, <2>1
    <3>2. j * L < q * L
      <4> HIDE DEF q
      <4> QED
        BY <1>1, <2>3, <2>4, <3>1
    <3> HIDE DEF q
    <3> QED
      BY <1>3, <2>1, <2>2, <3>2, ProductsOrdered
  <2>6. i \in 1 .. q /\ i - 1 = j
    <3> HIDE DEF q
    <3> QED
      BY <1>3, <2>2, <2>5
  <2>7. Cut(N, i - 1) = j * L /\ Cut(N, i) \in Nat
    BY <1>1, <2>6, CutSteps
  <2>8. i * L = j * L + L
    BY <2>1, <2>2
  <2>9. k <= Cut(N, i)
    BY <1>1, <2>1, <2>2, <2>3, <2>8 DEF Cut
  <2>10. k - j * L \in 1 .. Cut(N, i) - Cut(N, i - 1)
    BY <2>2, <2>3, <2>7, <2>9
  <2> HIDE DEF i
  <2> DEFINE b == B[i]
  <2>11. /\ Len(b) = Cut(N, i) - Cut(N, i - 1)
         /\ b \in Seq(R)
         /\ \A n \in 1 .. Len(b) : b[n] = list[Cut(N, i - 1) + n]
    <3>1. list \in Seq(R) /\ i \in 1 .. NumBatches(Len(list))
      BY <1>2, <2>6
    <3> HIDE DEF R
    <3>2. BatchOf(R, list, i, Batches(list)[i])
      BY <3>1, BatchIs
    <3> QED
      BY <3>2 DEF BatchOf
  <2>12. b \in Range(B)
    BY <1>4, <2>6 DEF Range
  <2> HIDE DEF b, R
  <2>13. DOMAIN b = 1 .. Len(b)
    BY <2>11
  <2>14. b[k - j * L] = list[k]
    <3>1. Cut(N, i - 1) + (k - j * L) = k
      BY <2>3, <2>7
    <3> QED
      BY <2>10, <2>11, <3>1
  <2>15. list[k] \in Range(b)
    BY <2>10, <2>11, <2>13, <2>14 DEF Range
  <2> QED
    BY <2>12, <2>15
<1> HIDE DEF B
<1>7. R \subseteq UNION {Range(b) : b \in Range(B)}
  BY <1>2, <1>6
<1>8. UNION {Range(b) : b \in Range(B)} \subseteq R
  <2> HIDE DEF R
  <2> QED
    BY <1>5
<1> QED
  BY <1>7, <1>8 DEF B

\* One after the other, the batches are the list.
LEMMA BatchesFlatten ==
    ASSUME NEW S, NEW list \in Seq(S)
    PROVE  FlattenSeq(Batches(list)) = list
<1> DEFINE N == Len(list)
           q == NumBatches(N)
           B == Batches(list)
           Def(f) == [i \in 1 .. q |-> IF i = 1 THEN B[i] ELSE f[i - 1] \o B[i]]
           g == [i \in 1 .. q |-> SubSeq(list, 1, Cut(N, i))]
           f == CHOOSE x : x = Def(x)
<1>1. N \in Nat /\ q \in Nat /\ B \in Seq(Seq(S)) /\ Len(B) = q
  BY BatchesType
<1>2. CASE q = 0
  <2>1. N = 0
    BY <1>1, <1>2, CutSteps
  <2>2. list = <<>>
    BY <2>1
  <2>3. B = <<>>
    <3> HIDE DEF B, q
    <3> QED
      BY <1>1, <1>2
  <2> HIDE DEF q, B
  <2>4. FlattenSeq(B) = B
    BY <1>1, <1>2 DEF FlattenSeq
  <2> QED
    BY <2>2, <2>3, <2>4 DEF B
<1>3. CASE q # 0
  <2>1. FlattenSeq(B) = f[q]
    <3> HIDE DEF B, q
    <3> QED
      BY <1>1, <1>3 DEF FlattenSeq
  <2>2. ASSUME NEW i \in 1 .. q
        PROVE  g[i] = IF i = 1 THEN B[i] ELSE g[i - 1] \o B[i]
    <3>1. /\ Cut(N, i - 1) \in Nat
          /\ Cut(N, i) \in Cut(N, i - 1) + 1 .. N
      BY <1>1, CutSteps
    <3>2. B[i] = SubSeq(list, Cut(N, i - 1) + 1, Cut(N, i))
      BY BatchIs DEF BatchOf
    <3> HIDE DEF B, q
    <3>3. g[i] = SubSeq(list, 1, Cut(N, i))
      OBVIOUS
    <3> HIDE DEF g
    <3>4. CASE i = 1
      <4>1. Cut(N, i - 1) = 0
        BY <1>1, <3>4, CutSteps
      <4>2. Cut(N, i - 1) + 1 = 1
        BY <4>1
      <4>3. B[i] = SubSeq(list, 1, Cut(N, i))
        BY <3>2, <4>2, Zenon
      <4> QED
        BY <3>3, <3>4, <4>3
    <3>5. CASE i # 1
      <4>0. i - 1 \in 1 .. q
        BY <1>1, <3>5
      <4>1. g[i - 1] = SubSeq(list, 1, Cut(N, i - 1))
        BY <4>0 DEF g
      <4>2. Cut(N, i - 1) \in 1 - 1 .. N /\ 1 \in 1 .. N + 1
            /\ Cut(N, i) \in Cut(N, i - 1) .. N
        BY <1>1, <3>1
      <4>3. SubSeq(list, 1, Cut(N, i - 1))
              \o SubSeq(list, Cut(N, i - 1) + 1, Cut(N, i)) = SubSeq(list, 1, Cut(N, i))
        BY <4>2, ConcatAdjacentSubSeq
      <4> QED
        BY <3>2, <3>3, <3>5, <4>1, <4>3
    <3> QED
      BY <3>4, <3>5
  <2> HIDE DEF B, q
  <2>3. g = Def(g)
    <3>1. g = [i \in 1 .. q |-> g[i]]
      OBVIOUS
    <3> HIDE DEF g
    <3> QED
      BY <2>2, <3>1
  <2> HIDE DEF g
  <2>4. f = Def(f)
    <3> HIDE DEF Def
    <3> QED
      BY <2>3
  <2> HIDE DEF f
  <2>5. \A i \in 1 .. q : f[i] = IF i = 1 THEN B[i] ELSE f[i - 1] \o B[i]
    BY <2>4
  <2> DEFINE T == {n \in Nat : n + 1 <= q => f[n + 1] = g[n + 1]}
  <2>6. 0 \in T
    BY <1>1, <2>2, <2>5
  <2>7. ASSUME NEW n \in Nat, n \in T
        PROVE  n + 1 \in T
    <3>1. CASE (n + 1) + 1 <= q
      <4>1. (n + 1) + 1 \in 1 .. q /\ ((n + 1) + 1) - 1 = n + 1
            /\ (n + 1) + 1 # 1 /\ n + 1 <= q
        BY <1>1, <3>1
      <4>2. f[n + 1] = g[n + 1]
        BY <2>7, <4>1
      <4>3. f[(n + 1) + 1] = f[n + 1] \o B[(n + 1) + 1]
        BY <2>5, <4>1
      <4>4. g[(n + 1) + 1] = g[n + 1] \o B[(n + 1) + 1]
        BY <2>2, <4>1
      <4>5. f[(n + 1) + 1] = g[(n + 1) + 1] /\ n + 1 \in Nat
        BY <4>2, <4>3, <4>4
      <4> QED
        BY <4>5
    <3> QED
      BY <3>1
  <2>8. q - 1 \in Nat /\ (q - 1) + 1 = q
    BY <1>1, <1>3
  <2>9. f[q] = g[q]
    <3>1. q - 1 \in T
      <4> HIDE DEF T
      <4> QED
        BY <2>6, <2>7, <2>8, NatIsLeast
    <3> QED
      BY <2>8, <3>1
  <2>10. g[q] = list
    <3>1. q \in 1 .. q
      BY <1>1, <1>3
    <3>2. Cut(N, q) = N
      BY <1>1, CutSteps DEF q
    <3>3. g[q] = SubSeq(list, 1, N)
      BY <3>1, <3>2 DEF g
    <3> QED
      BY <3>3, SubSeqFull
  <2> QED
    BY <2>1, <2>9, <2>10 DEF B
<1> QED
  BY <1>2, <1>3

\* A finite set put in some order is a sequence of its elements, all of them.
LEMMA SetInSomeOrder ==
    ASSUME NEW S, IsFiniteSet(S)
    PROVE  /\ SetToSeq(S) \in Seq(S)
           /\ Range(SetToSeq(S)) = S
<1> DEFINE n == Cardinality(S)
           f == SetToSeq(S)
<1>1. n \in Nat /\ ExistsBijection(1 .. n, S)
  BY FS_CardinalityType
<1>2. PICK g : g \in [1 .. n -> S] /\ IsInjective(g)
  BY <1>1 DEF ExistsBijection, Bijection, Injection
<1>3. f = CHOOSE x \in [1 .. n -> S] : IsInjective(x)
  BY DEF SetToSeq
<1> HIDE DEF f, n
<1>4. f \in [1 .. n -> S] /\ IsInjective(f)
  BY <1>2, <1>3
<1>5. f \in Seq(S) /\ DOMAIN f = 1 .. n
  BY <1>1, <1>4
<1>6. Range(f) \subseteq S
  BY <1>4 DEF Range
<1>7. Range(f) = S
  <2> DEFINE R == Range(f)
  <2>1. f \in [1 .. n -> R]
    BY <1>4 DEF Range
  <2>2. \A a, b \in 1 .. n : f[a] = f[b] => a = b
    BY <1>4, <1>5 DEF IsInjective
  <2>3. \A t \in R : \E k \in 1 .. n : f[k] = t
    BY <1>5 DEF Range
  <2> HIDE DEF R
  <2>4. f \in Bijection(1 .. n, R)
    BY <2>1, <2>2, <2>3 DEF Bijection, Injection, Surjection, IsInjective
  <2>5. ExistsBijection(1 .. n, R)
    BY <2>4 DEF ExistsBijection
  <2>6. Cardinality(R) = n
    BY <1>1, <2>5, FS_CountingElements
  <2>7. Cardinality(R) = Cardinality(S) => S = R
    BY <1>6, FS_Subset DEF R
  <2> QED
    BY <2>6, <2>7 DEF R, n
<1> QED
  BY <1>5, <1>7 DEF f

\* There are as many symbols as the loader lists.
LEMMA SymbolsFinite ==
    IsFiniteSet(Symbols)
<1> DEFINE n == Len(Known)
           S == Symbols
<1>1. n \in Nat /\ DOMAIN Known = 1 .. n
  BY TickerManagerAssumption
<1>2. \A i, j \in 1 .. n : Known[i] = Known[j] => i = j
  BY <1>1, TickerManagerAssumption
<1>3. Known \in [1 .. n -> S]
  <2>1. Known \in Seq(S)
    BY TickerManagerAssumption DEF Symbols
  <2> HIDE DEF S
  <2> QED
    BY <2>1
<1>4. \A t \in S : \E i \in 1 .. n : Known[i] = t
  BY <1>1 DEF Symbols, Range
<1> HIDE DEF n, S
<1>5. Known \in Bijection(1 .. n, S)
  BY <1>1, <1>2, <1>3, <1>4 DEF Bijection, Injection, Surjection, IsInjective
<1>6. ExistsBijection(1 .. n, S)
  BY <1>5 DEF ExistsBijection
<1>7. IsFiniteSet(S)
  BY <1>1, <1>6, FS_NatBijection
<1> QED
  BY <1>7 DEF S

\* The batches of the marked set name every symbol of it.
LEMMA UnsubscribeNamesAll ==
    ASSUME NEW M \in SUBSET Symbols
    PROVE  UNION {Range(b) :
                    b \in Range(Batches(SetToSeq(M)))} = M
<1>1. IsFiniteSet(M)
  BY SymbolsFinite, FS_Subset
<1>2. SetToSeq(M) \in Seq(M) /\ Range(SetToSeq(M)) = M
  BY <1>1, SetInSomeOrder
<1> QED
  BY <1>2, BatchesCover

\* While a subscription is under way, what has been sent and what is still to
\* be sent are the batches of the list that is active; the peer streams symbols
\* of that list only.
TickerInv == /\ TypeOK
             /\ todo # <<>> => /\ received \o todo = Batches(active)
                               /\ peer \subseteq Range(active)
             /\ UnsubscribeCovers

\* Where the elements of a concatenation come from.
LEMMA ConcatElements ==
    ASSUME NEW S, NEW r \in Seq(S), NEW t \in Seq(S)
    PROVE  /\ r \o t \in Seq(S) /\ Len(r \o t) = Len(r) + Len(t)
           /\ \A i \in 1 .. Len(r) : (r \o t)[i] = r[i]
           /\ \A i \in Len(r) + 1 .. Len(r) + Len(t) : (r \o t)[i] = t[i - Len(r)]
OBVIOUS

\* A message sent moves from the one sequence to the other.
LEMMA BatchMoves ==
    ASSUME NEW S, NEW r \in Seq(S), NEW t \in Seq(S), t # <<>>
    PROVE  /\ Head(t) \in S /\ Tail(t) \in Seq(S) /\ Append(r, Head(t)) \in Seq(S)
           /\ Append(r, Head(t)) \o Tail(t) = r \o t
           /\ Head(t) \in Range(r \o t)
<1> DEFINE e == Head(t)
           u == Tail(t)
           x == Append(r, e)
<1>1. /\ e \in S /\ e = t[1] /\ u \in Seq(S) /\ Len(u) = Len(t) - 1
      /\ \A i \in 1 .. Len(u) : u[i] = t[i + 1]
  BY HeadTailProperties
<1> HIDE DEF e, u
<1>2. /\ x \in Seq(S) /\ Len(x) = Len(r) + 1
      /\ \A i \in 1 .. Len(r) : x[i] = r[i]
      /\ x[Len(r) + 1] = e
  BY <1>1, AppendProperties
<1> HIDE DEF x
<1>3. Len(r) \in Nat /\ Len(t) \in Nat /\ Len(t) >= 1
  OBVIOUS
<1>4. /\ r \o t \in Seq(S) /\ Len(r \o t) = Len(r) + Len(t)
      /\ \A i \in 1 .. Len(r) : (r \o t)[i] = r[i]
      /\ \A i \in Len(r) + 1 .. Len(r) + Len(t) : (r \o t)[i] = t[i - Len(r)]
  BY ConcatElements
<1>5. /\ x \o u \in Seq(S) /\ Len(x \o u) = Len(x) + Len(u)
      /\ \A i \in 1 .. Len(x) : (x \o u)[i] = x[i]
      /\ \A i \in Len(x) + 1 .. Len(x) + Len(u) : (x \o u)[i] = u[i - Len(x)]
  BY <1>1, <1>2, ConcatElements
<1> DEFINE p == r \o t
           q == x \o u
<1> HIDE DEF p, q
<1>6. Len(q) = Len(p)
  BY <1>1, <1>2, <1>3, <1>4, <1>5 DEF p, q
<1>7. \A i \in 1 .. Len(p) : q[i] = p[i]
  <2> SUFFICES ASSUME NEW i \in 1 .. Len(r) + Len(t)
               PROVE  (x \o u)[i] = (r \o t)[i]
    BY <1>4 DEF p, q
  <2>1. CASE i \in 1 .. Len(r)
    BY <1>2, <1>3, <1>4, <1>5, <2>1
  <2>2. CASE i = Len(r) + 1
    <3>1. (x \o u)[i] = e
      BY <1>2, <1>3, <1>5, <2>2
    <3>2. i - Len(r) = 1 /\ i \in Len(r) + 1 .. Len(r) + Len(t)
      BY <1>3, <2>2
    <3>3. (r \o t)[i] = t[1]
      BY <1>4, <3>2
    <3> QED
      BY <1>1, <3>1, <3>3
  <2>3. CASE i \in Len(r) + 2 .. Len(r) + Len(t)
    <3>1. i \in Len(x) + 1 .. Len(x) + Len(u) /\ i - Len(x) \in 1 .. Len(u)
          /\ (i - Len(x)) + 1 = i - Len(r) /\ i \in Len(r) + 1 .. Len(r) + Len(t)
      BY <1>1, <1>2, <1>3, <2>3
    <3>2. (x \o u)[i] = u[i - Len(x)] /\ u[i - Len(x)] = t[(i - Len(x)) + 1]
      BY <1>1, <1>5, <3>1
    <3>3. (r \o t)[i] = t[i - Len(r)]
      BY <1>4, <3>1
    <3> QED
      BY <3>1, <3>2, <3>3
  <2>4. i \in 1 .. Len(r) \/ i = Len(r) + 1 \/ i \in Len(r) + 2 .. Len(r) + Len(t)
    BY <1>3
  <2> QED
    BY <2>1, <2>2, <2>3, <2>4
<1>8. p \in Seq(S) /\ q \in Seq(S)
  BY <1>4, <1>5 DEF p, q
<1>9. q = p
  BY <1>6, <1>7, <1>8, SeqEqual
<1>10. e \in Range(p)
  <2>1. Len(r) + 1 \in DOMAIN p
    BY <1>3, <1>4, <1>8 DEF p
  <2>2. p[Len(r) + 1] = e
    <3>1. Len(r) + 1 \in Len(r) + 1 .. Len(r) + Len(t) /\ (Len(r) + 1) - Len(r) = 1
      BY <1>3
    <3> QED
      BY <1>1, <1>4, <3>1 DEF p
  <2> QED
    BY <2>1, <2>2 DEF Range
<1> QED
  BY <1>1, <1>2, <1>9, <1>10 DEF e, u, x, p, q

------------------------------------------------------------------------------
\* The steps of the ticker manager.

LEMMA TickersInit ==
    ASSUME Init
    PROVE  TickerInv
BY DEF Init, TickerInv, TypeOK, UnsubscribeCovers

LEMMA SetTickersStep ==
    ASSUME TickerInv,
           NEW list \in SeqOf(Raw, MaxList), SetTickers(list)
    PROVE  TickerInv'
<1>1. list \in Seq(Raw)
  <2>1. PICK m \in 0 .. MaxList : list \in [1 .. m -> Raw]
    BY DEF SeqOf
  <2>2. m \in Nat
    BY TickerManagerAssumption
  <2> QED
    BY <2>1, <2>2
<1>2. WithoutDuplicates(Valid(list)) \in Seq(Symbols)
  BY <1>1, ListSetKeepsFirstMentions
<1>3. /\ active' = WithoutDuplicates(Valid(list))
      /\ asked' = list /\ todo = <<>>
      /\ UNCHANGED <<subscribed, todo, peer, received>>
  BY DEF SetTickers
<1>4. TypeOK'
  BY <1>1, <1>2, <1>3 DEF TickerInv, TypeOK
<1> QED
  BY <1>3, <1>4 DEF TickerInv, UnsubscribeCovers

LEMMA SetLoaderListStep ==
    ASSUME TickerInv, NEW list \in Seq(Symbols), SetLoaderList(list)
    PROVE  TickerInv'
<1>1. /\ active' = list /\ asked' = <<>> /\ todo = <<>>
      /\ UNCHANGED <<subscribed, todo, peer, received>>
  BY DEF SetLoaderList
<1>2. TypeOK'
  BY <1>1 DEF TickerInv, TypeOK
<1> QED
  BY <1>1, <1>2 DEF TickerInv, UnsubscribeCovers

LEMMA BeginSubscribeStep ==
    ASSUME TickerInv, BeginSubscribe
    PROVE  TickerInv'
<1>1. /\ peer = {} /\ todo' = Batches(active)
      /\ received' = <<>> /\ asked' = <<>>
      /\ UNCHANGED <<active, subscribed, peer>>
  BY DEF BeginSubscribe
<1>2. active \in Seq(Symbols)
  BY DEF TickerInv, TypeOK
<1>3. Batches(active) \in Seq(Seq(Symbols))
  BY <1>2, BatchesType
<1>4. TypeOK'
  BY <1>1, <1>3 DEF TickerInv, TypeOK
<1>5. <<>> \o Batches(active) = Batches(active)
  BY <1>3, ConcatEmptySeq
<1> QED
  BY <1>1, <1>4, <1>5 DEF TickerInv, UnsubscribeCovers

\* What the message just sent adds to the peer, and to what has been received.
LEMMA SendBatchMoves ==
    ASSUME TickerInv, SendBatch
    PROVE  /\ todo' \in Seq(Seq(Symbols))
           /\ received' \in Seq(Seq(Symbols))
           /\ received' \o todo' = Batches(active)
           /\ peer' \subseteq Range(active)
<1>1. /\ todo # <<>> /\ peer' = peer \cup Range(Head(todo))
      /\ received' = Append(received, Head(todo)) /\ todo' = Tail(todo)
  BY DEF SendBatch
<1>2. /\ active \in Seq(Symbols)
      /\ todo \in Seq(Seq(Symbols)) /\ received \in Seq(Seq(Symbols))
      /\ received \o todo = Batches(active)
      /\ peer \subseteq Range(active)
  BY <1>1 DEF TickerInv, TypeOK
<1> DEFINE S == Seq(Symbols)
<1>3. /\ Tail(todo) \in Seq(S) /\ Append(received, Head(todo)) \in Seq(S)
      /\ Append(received, Head(todo)) \o Tail(todo) = received \o todo
      /\ Head(todo) \in Range(received \o todo)
  <2> HIDE DEF S
  <2>1. todo \in Seq(S) /\ received \in Seq(S) /\ todo # <<>>
    BY <1>1, <1>2 DEF S
  <2> QED
    BY <2>1, BatchMoves
<1>4. Range(Head(todo)) \subseteq Range(active)
  <2>1. UNION {Range(b) : b \in Range(Batches(active))}
          = Range(active)
    BY <1>2, BatchesCover
  <2>2. Head(todo) \in Range(Batches(active))
    BY <1>2, <1>3
  <2> QED
    BY <2>1, <2>2
<1> QED
  BY <1>1, <1>2, <1>3, <1>4

LEMMA SendBatchStep ==
    ASSUME TickerInv, SendBatch
    PROVE  TickerInv'
<1>1. /\ todo' \in Seq(Seq(Symbols)) /\ received' \in Seq(Seq(Symbols))
      /\ received' \o todo' = Batches(active)
      /\ peer' \subseteq Range(active)
  BY SendBatchMoves
<1>2. /\ \/ todo' # <<>> /\ UNCHANGED subscribed
         \/ todo' = <<>> /\ subscribed' = subscribed \cup Range(active)
      /\ asked' = <<>> /\ UNCHANGED active
  BY DEF SendBatch
<1>3. /\ active \in Seq(Symbols) /\ subscribed \subseteq Symbols
  BY DEF TickerInv, TypeOK
<1>4. Range(active) \subseteq Symbols
  BY <1>3 DEF Range
<1>5. asked' \in Seq(Raw)
  BY <1>2
<1>6. TypeOK'
  BY <1>1, <1>2, <1>3, <1>4, <1>5 DEF TypeOK
<1>7. UnsubscribeCovers'
  BY <1>1, <1>2 DEF UnsubscribeCovers
<1> QED
  BY <1>1, <1>2, <1>6, <1>7 DEF TickerInv

LEMMA ConnectionLostStep ==
    ASSUME TickerInv, ConnectionLost
    PROVE  TickerInv'
BY DEF TickerInv, ConnectionLost, TypeOK, UnsubscribeCovers

LEMMA UnsubscribeStep ==
    ASSUME TickerInv, Unsubscribe
    PROVE  TickerInv'
<1>1. subscribed \in SUBSET Symbols /\ peer \subseteq Symbols
  BY DEF TickerInv, TypeOK
<1>2. UNION {Range(b) :
               b \in Range(Batches(SetToSeq(subscribed)))}
        = subscribed
  BY <1>1, UnsubscribeNamesAll
<1>3. /\ peer' = peer \ subscribed /\ subscribed' = {} /\ asked' = <<>>
      /\ UNCHANGED <<active, todo, received>>
  BY <1>2 DEF Unsubscribe
<1>4. TypeOK'
  BY <1>1, <1>3 DEF TickerInv, TypeOK
<1>5. todo = <<>> => peer \subseteq subscribed
  BY DEF TickerInv, UnsubscribeCovers
<1>6. UnsubscribeCovers'
  BY <1>3, <1>5 DEF UnsubscribeCovers
<1> QED
  BY <1>3, <1>4, <1>6 DEF TickerInv

LEMMA TickersNext ==
    ASSUME TickerInv, [Next]_vars
    PROVE  TickerInv'
<1>1. CASE \E list \in SeqOf(Raw, MaxList) : SetTickers(list)
  BY <1>1, SetTickersStep
<1>2. CASE SetAllSp500 \/ SetTop10
  <2>1. Known \in Seq(Symbols) /\ Top10 \in Seq(Symbols)
    BY TickerManagerAssumption DEF Symbols
  <2> QED
    BY <1>2, <2>1, SetLoaderListStep DEF SetAllSp500, SetTop10
<1>3. CASE BeginSubscribe
  BY <1>3, BeginSubscribeStep
<1>4. CASE SendBatch
  BY <1>4, SendBatchStep
<1>5. CASE ConnectionLost
  BY <1>5, ConnectionLostStep
<1>6. CASE Unsubscribe
  BY <1>6, UnsubscribeStep
<1>7. CASE UNCHANGED vars
  BY <1>7 DEF vars, TickerInv, TypeOK, UnsubscribeCovers
<1> QED
  BY <1>1, <1>2, <1>3, <1>4, <1>5, <1>6, <1>7 DEF Next

LEMMA TickerInvHolds == Spec => []TickerInv
<1>1. Init => TickerInv
  BY TickersInit
<1>2. TickerInv /\ [Next]_vars => TickerInv'
  BY TickersNext
<1> QED
  BY <1>1, <1>2, PTL DEF Spec

\* The lists are lists of known symbols, whatever a caller hands in.
THEOREM TickersTypeCorrect == Spec => []TypeOK
<1>1. TickerInv => TypeOK
  BY DEF TickerInv
<1> QED
  BY <1>1, TickerInvHolds, PTL

\* Between two subscriptions, what stop() would unsubscribe covers everything
\* the peer streams (_unsubscribe and _subscribe, any list and any limit).
THEOREM UnsubscribeCoversHolds == Spec => []UnsubscribeCovers
<1>1. TickerInv => UnsubscribeCovers
  BY DEF TickerInv
<1> QED
  BY <1>1, TickerInvHolds, PTL

\* The batches of get_subscription_batches are the active list, cut but not
\* changed, and each is within the limit of the peer.
THEOREM EveryTickerSentOnceHolds == Spec => EveryTickerSentOnce
<1> DEFINE Sent == todo # <<>> /\ todo' = <<>> /\ received' # <<>> =>
                     /\ FlattenSeq(received') = active
                     /\ \A i \in DOMAIN received' : Len(received'[i]) \in 1 .. Limit
<1>1. ASSUME TickerInv, Next
      PROVE  Sent
  <2> SUFFICES ASSUME todo # <<>>, todo' = <<>>, received' # <<>>
               PROVE  /\ FlattenSeq(received') = active
                      /\ \A i \in DOMAIN received' : Len(received'[i]) \in 1 .. Limit
    OBVIOUS
  <2>1. SendBatch
    BY <1>1 DEF Next, SetTickers, SetAllSp500, SetTop10, SetLoaderList,
                BeginSubscribe, ConnectionLost, Unsubscribe
  <2>2. /\ received' \in Seq(Seq(Symbols))
        /\ received' \o <<>> = Batches(active)
    BY <1>1, <2>1, SendBatchMoves
  <2>3. received' = Batches(active)
    BY <2>2, ConcatEmptySeq
  <2>4. active \in Seq(Symbols)
    BY <1>1 DEF TickerInv, TypeOK
  <2>5. FlattenSeq(received') = active
    BY <2>3, <2>4, BatchesFlatten
  <2>6. ASSUME NEW i \in DOMAIN received'
        PROVE  Len(received'[i]) \in 1 .. Limit
    <3>1. i \in 1 .. NumBatches(Len(active))
      BY <2>3, <2>6 DEF Batches
    <3>2. BatchOf(Symbols, active, i, Batches(active)[i])
      BY <2>4, <3>1, BatchIs
    <3> QED
      BY <2>3, <3>2 DEF BatchOf
  <2> QED
    BY <2>5, <2>6
<1>2. TickerInv /\ [Next]_vars => [Sent]_vars
  BY <1>1
<1>3. Spec => [][Next]_vars
  BY DEF Spec
<1>4. [][Sent]_vars => EveryTickerSentOnce
  BY DEF EveryTickerSentOnce
<1> QED
  BY <1>2, <1>3, <1>4, TickerInvHolds, PTL

\* set_tickers keeps the known symbols, once each and in the order of their
\* first mention, for any list of the bound and any table of spellings.
THEOREM SetTickersKeepsFirstMentionsHolds == Spec => SetTickersKeepsFirstMentions
<1> DEFINE Kept == asked' # <<>> =>
              /\ Range(active') = {Cleaned[asked'[i]] : i \in DOMAIN asked'}
                                             \cap Symbols
              /\ \A i, j \in DOMAIN active' :
                    i < j => FirstMention(asked', active'[i])
                                < FirstMention(asked', active'[j])
<1>1. ASSUME Next
      PROVE  Kept
  <2> SUFFICES ASSUME asked' # <<>>
               PROVE  Kept
    OBVIOUS
  <2>1. PICK list \in SeqOf(Raw, MaxList) : SetTickers(list)
    BY <1>1 DEF Next, SetAllSp500, SetTop10, SetLoaderList,
                BeginSubscribe, SendBatch, ConnectionLost, Unsubscribe
  <2>2. list \in Seq(Raw)
    <3>1. PICK m \in 0 .. MaxList : list \in [1 .. m -> Raw]
      BY DEF SeqOf
    <3>2. m \in Nat
      BY TickerManagerAssumption
    <3> QED
      BY <3>1, <3>2
  <2>3. asked' = list /\ active' = WithoutDuplicates(Valid(list))
    BY <2>1 DEF SetTickers
  <2> QED
    BY <2>2, <2>3, ListSetKeepsFirstMentions
<1>2. [Next]_vars => [Kept]_vars
  BY <1>1
<1>3. Spec => [][Next]_vars
  BY DEF Spec
<1>4. [][Kept]_vars => SetTickersKeepsFirstMentions
  BY DEF SetTickersKeepsFirstMentions
<1> QED
  BY <1>2, <1>3, <1>4, PTL

------------------------------------------------------------------------------
\* The rate limiter.

\* Grants are logged in time order.
LogSorted == /\ \A i \in DOMAIN log : log[i] <= now
             /\ \A i, j \in DOMAIN log : i <= j => log[i] <= log[j]

\* A timestamp that was dropped from the deque has left the window.
DroppedAreExpired == \A i \in 1 .. head - 1 : Expired(i)

\* Whoever sleeps inside the lock does so because the deque is exactly full,
\* and wakes up only when its oldest timestamp has left the window.
SleeperWaitsForOldest ==
    holder # Nobody => /\ Len(log) + 1 - head = MaxRequests
                       /\ wakeAt > log[head] + Window

LimiterInv ==
    /\ LimiterTypeOK
    /\ LogSorted
    /\ DroppedAreExpired
    /\ DequeBounded
    /\ SleeperWaitsForOldest
    /\ WindowLimit

\* An entry of a sequence is one of its elements.
LEMMA LoggedTime ==
  ASSUME NEW S, NEW q \in Seq(S), NEW k \in 1 .. Len(q)
  PROVE  k \in DOMAIN q /\ q[k] \in S
OBVIOUS

LEMMA InitLimiterInv == LimiterInit => LimiterInv
  BY SlidingWindowAssumption
     DEF LimiterInit, LimiterInv, LimiterTypeOK, LogSorted, DroppedAreExpired, DequeBounded,
         SleeperWaitsForOldest, WindowLimit

\* A grant respects the limit if the timestamp MaxRequests places before it
\* has left the window.
LEMMA AppendKeepsWindowLimit ==
  ASSUME LimiterTypeOK, WindowLimit,
         log' = Append(log, now),
         Len(log) + 1 > MaxRequests => Expired(Len(log) + 1 - MaxRequests)
  PROVE  WindowLimit'
<1> USE SlidingWindowAssumption DEF LimiterTypeOK
<1>1. /\ \A i \in DOMAIN log : log'[i] = log[i]
      /\ log'[Len(log) + 1] = now
      /\ DOMAIN log' = 1 .. Len(log) + 1 /\ DOMAIN log = 1 .. Len(log)
  OBVIOUS
<1> SUFFICES ASSUME NEW i \in DOMAIN log', NEW j \in DOMAIN log',
                    j = i + MaxRequests
             PROVE  log'[j] - log'[i] > Window
  BY DEF WindowLimit
<1>2. i \in DOMAIN log
  BY <1>1
<1>3. CASE j \in DOMAIN log
  <2>1. log[j] - log[i] > Window
    BY <1>2, <1>3 DEF WindowLimit
  <2> QED
    BY <2>1, <1>1, <1>2, <1>3
<1>4. CASE j = Len(log) + 1
  <2>1. i = Len(log) + 1 - MaxRequests /\ Len(log) + 1 > MaxRequests
    BY <1>2, <1>4
  <2>2. now - log[i] > Window
    BY <2>1 DEF Expired
  <2> QED
    BY <2>2, <1>1, <1>2, <1>4
<1> QED
  BY <1>1, <1>3, <1>4

\* A grant into a window with room: the timestamp MaxRequests places before
\* the new one is among the purged.
LEMMA EnterAndGrantKeeps ==
  ASSUME LimiterInv, NEW c \in Callers, EnterAndGrant(c)
  PROVE  LimiterInv'
<1> USE SlidingWindowAssumption DEF LimiterInv, LimiterTypeOK, LogSorted, Expired
<1>1. PICK k \in head .. Len(log) + 1 :
          /\ PurgeStopsAt(k) /\ Len(log) + 1 - k < MaxRequests /\ head' = k
  BY DEF EnterAndGrant
<1>2. /\ log' = Append(log, now) /\ now' = now
      /\ holder' = holder /\ holder = Nobody
      /\ wakeAt' = wakeAt /\ queued' = queued \ {c}
  BY DEF EnterAndGrant
<1>3. /\ Len(log') = Len(log) + 1
      /\ \A i \in DOMAIN log : log'[i] = log[i]
      /\ log'[Len(log) + 1] = now
      /\ DOMAIN log' = 1 .. Len(log) + 1 /\ DOMAIN log = 1 .. Len(log)
  BY <1>2
<1>4. LimiterTypeOK'
  BY <1>1, <1>2, <1>3
<1>5. LogSorted'
  BY <1>2, <1>3
<1>6. DroppedAreExpired'
  BY <1>1, <1>2, <1>3 DEF DroppedAreExpired, PurgeStopsAt
<1>7. DequeBounded'
  BY <1>1, <1>3 DEF DequeBounded
<1>8. SleeperWaitsForOldest'
  BY <1>2 DEF SleeperWaitsForOldest
<1>9. WindowLimit'
  <2>1. ASSUME Len(log) + 1 > MaxRequests
        PROVE  Expired(Len(log) + 1 - MaxRequests)
    <3>1. /\ Len(log) + 1 - MaxRequests \in 1 .. head' - 1
          /\ Len(log) + 1 - MaxRequests \in DOMAIN log
      BY <2>1, <1>1
    <3> QED
      BY <3>1, <1>6, <1>2, <1>3 DEF DroppedAreExpired
  <2> QED
    BY <2>1, <1>2, AppendKeepsWindowLimit
<1> QED
  BY <1>4, <1>5, <1>6, <1>7, <1>8, <1>9

\* Going to sleep: an overfull deque has an expired front, so the purge leaves
\* exactly MaxRequests timestamps and the sleep is for the right one.
LEMMA EnterAndSleepKeeps ==
  ASSUME LimiterInv, NEW c \in Callers, EnterAndSleep(c)
  PROVE  LimiterInv'
<1> USE SlidingWindowAssumption DEF LimiterInv, LimiterTypeOK, LogSorted, Expired
<1>1. PICK k \in head .. Len(log) + 1 :
          /\ PurgeStopsAt(k) /\ Len(log) + 1 - k >= MaxRequests /\ head' = k
          /\ wakeAt' = now + (Window - (now - log[k]) + Margin)
  BY DEF EnterAndSleep
<1>2. /\ log' = log /\ now' = now /\ holder' = c /\ queued' = queued \ {c}
  BY DEF EnterAndSleep
<1>3. Len(log) + 1 - k = MaxRequests
  <2>1. k <= Len(log) /\ ~Expired(k)
    BY <1>1 DEF PurgeStopsAt
  <2>0. /\ Len(log) \in Nat /\ head \in Nat /\ MaxRequests \in Nat
        /\ k \in Nat /\ head <= k /\ Len(log) + 1 - k >= MaxRequests
    BY <1>1
  <2>2. CASE Len(log) + 1 - head <= MaxRequests
    BY ONLY <2>0, <2>2
  <2>3. CASE Len(log) + 1 - head = MaxRequests + 1
    <3>1. k # head
      BY <2>1, <2>3 DEF DequeBounded
    <3> QED
      BY ONLY <3>1, <2>3, <2>0
  <2>4. /\ Len(log) + 1 - head \in Int
        /\ Len(log) + 1 - head <= MaxRequests + 1
    BY DEF DequeBounded
  <2> QED
    BY ONLY <2>0, <2>2, <2>3, <2>4
<1>4. k \in DOMAIN log /\ log[k] \in 0 .. Horizon
  <2>1. log \in Seq(0 .. Horizon) /\ Len(log) \in Nat
    OBVIOUS
  <2>2. /\ head \in Nat /\ 1 <= head /\ k \in head .. Len(log) + 1
        /\ MaxRequests \in Nat \ {0}
    BY <1>1
  <2>3. k \in 1 .. Len(log)
    BY ONLY <2>1, <2>2, <1>3
  <2> QED
    BY ONLY <2>1, <2>3, LoggedTime
<1>5. wakeAt' \in Nat /\ wakeAt' > log[k] + Window
  <2>1. now \in Nat /\ log[k] \in Nat /\ Window \in Nat /\ Margin \in Nat \ {0}
    BY <1>4
  <2> QED
    BY ONLY <2>1, <1>1
<1>6. head' \in 1 .. Len(log) + 1
  BY <1>1
<1>7. LimiterTypeOK'
  BY <1>2, <1>5, <1>6
<1>8. DroppedAreExpired'
  BY <1>1, <1>2 DEF DroppedAreExpired, PurgeStopsAt
<1>9. DequeBounded' /\ SleeperWaitsForOldest'
  <2>1. Len(log') + 1 - head' = MaxRequests /\ log'[head'] = log[k]
    BY <1>1, <1>2, <1>3
  <2>2. DequeBounded'
    BY <2>1 DEF DequeBounded
  <2>3. SleeperWaitsForOldest'
    BY <2>1, <1>5 DEF SleeperWaitsForOldest
  <2> QED
    BY <2>2, <2>3
<1> QED
  BY <1>2, <1>7, <1>8, <1>9 DEF WindowLimit

\* Waking up: the oldest timestamp, MaxRequests places before the new one, has
\* left the window, whether or not it is purged again.
LEMMA WakeAndGrantKeeps ==
  ASSUME LimiterInv, NEW c \in Callers, WakeAndGrant(c)
  PROVE  LimiterInv'
<1> USE SlidingWindowAssumption DEF LimiterInv, LimiterTypeOK, LogSorted, Expired
<1>1. /\ log' = Append(log, now) /\ now' = now /\ head' = head
      /\ holder = c /\ holder' = Nobody /\ wakeAt <= now
      /\ wakeAt' = wakeAt /\ queued' = queued
  BY DEF WakeAndGrant
<1>2. /\ Len(log') = Len(log) + 1
      /\ \A i \in DOMAIN log : log'[i] = log[i]
      /\ log'[Len(log) + 1] = now
      /\ DOMAIN log' = 1 .. Len(log) + 1 /\ DOMAIN log = 1 .. Len(log)
  BY <1>1
<1>3. /\ Len(log) + 1 - head = MaxRequests
      /\ head \in DOMAIN log /\ now - log[head] > Window
  BY <1>1 DEF SleeperWaitsForOldest
<1>4. LimiterTypeOK'
  BY <1>1, <1>2
<1>5. LogSorted'
  BY <1>1, <1>2
<1>6. DroppedAreExpired'
  BY <1>1, <1>2, <1>3 DEF DroppedAreExpired
<1>7. DequeBounded' /\ SleeperWaitsForOldest'
  BY <1>1, <1>2, <1>3 DEF DequeBounded, SleeperWaitsForOldest
<1>8. WindowLimit'
  <2>1. head = Len(log) + 1 - MaxRequests /\ Expired(head)
    BY <1>3
  <2> QED
    BY <2>1, <1>1, AppendKeepsWindowLimit
<1> QED
  BY <1>4, <1>5, <1>6, <1>7, <1>8

LEMMA LimiterInvInductive == LimiterInv /\ [LimiterNext]_limiterVars => LimiterInv'
<1> SUFFICES ASSUME LimiterInv, [LimiterNext]_limiterVars PROVE LimiterInv'
  OBVIOUS
<1> USE SlidingWindowAssumption
<1>1. ASSUME NEW c \in Callers, Call(c) PROVE LimiterInv'
  BY <1>1 DEF Call, LimiterInv, LimiterTypeOK, LogSorted, DroppedAreExpired, DequeBounded,
              SleeperWaitsForOldest, WindowLimit, Expired
<1>2. ASSUME NEW c \in Callers, EnterAndGrant(c) PROVE LimiterInv'
  BY <1>2, EnterAndGrantKeeps
<1>3. ASSUME NEW c \in Callers, EnterAndSleep(c) PROVE LimiterInv'
  BY <1>3, EnterAndSleepKeeps
<1>4. ASSUME NEW c \in Callers, WakeAndGrant(c) PROVE LimiterInv'
  BY <1>4, WakeAndGrantKeeps
<1>5. ASSUME NEW c \in Callers, CancelCaller(c) PROVE LimiterInv'
  BY <1>5 DEF CancelCaller, LimiterInv, LimiterTypeOK, LogSorted, DroppedAreExpired,
              DequeBounded, SleeperWaitsForOldest, WindowLimit, Expired
<1>6. ASSUME Tick PROVE LimiterInv'
  BY <1>6 DEF Tick, LimiterInv, LimiterTypeOK, LogSorted, DroppedAreExpired, DequeBounded,
              SleeperWaitsForOldest, WindowLimit, Expired
<1>7. CASE UNCHANGED limiterVars
  BY <1>7 DEF limiterVars, LimiterInv, LimiterTypeOK, LogSorted, DroppedAreExpired, DequeBounded,
              SleeperWaitsForOldest, WindowLimit, Expired
<1> QED
  BY <1>1, <1>2, <1>3, <1>4, <1>5, <1>6, <1>7 DEF LimiterNext

\* The limiter's fields keep their types.
THEOREM SlidingWindowTypeCorrect == LimiterSpec => []LimiterTypeOK
<1>1. LimiterInv => LimiterTypeOK
  BY DEF LimiterInv
<1> QED
  BY <1>1, InitLimiterInv, LimiterInvInductive, PTL DEF LimiterSpec

\* The purge comes before a sleep and the append after it: the deque may hold
\* one timestamp above the limit, but then its oldest one has expired.
THEOREM DequeBoundedHolds == LimiterSpec => []DequeBounded
<1>1. LimiterInv => DequeBounded
  BY DEF LimiterInv
<1> QED
  BY <1>1, InitLimiterInv, LimiterInvInductive, PTL DEF LimiterSpec

\* rate_limiter.py's promise: never more than max_requests grants in any
\* window, whatever the callers, the cancellations and the lengths of the
\* sleeps.
THEOREM SlidingWindowLimitHolds == LimiterSpec => []WindowLimit
<1>1. LimiterInv => WindowLimit
  BY DEF LimiterInv
<1> QED
  BY <1>1, InitLimiterInv, LimiterInvInductive, PTL DEF LimiterSpec
==============================================================================
