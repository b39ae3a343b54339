------------------------ MODULE StreamJobManager_proofs -----------------------
(***************************************************************************)
(* Proofs about StreamJobManager: however many threads call the manager,   *)
(* and whatever the attributes they read outside the lock have become      *)
(* meanwhile, no job is left in a transition; and as long as their calls   *)
(* do not overlap, RUNNING is said of living threads only.                 *)
(***************************************************************************)
EXTENDS MCStreamJobManager, TLAPS

CallRecord == [at : StartSteps \cup StopSteps \cup {"idle", "next"},
               job : Jobs, rest : Seq(Jobs)]

\* stop_all goes on only with a job that is left.
RestInv == \A c \in Callers : At(c, "next") => call[c].rest # <<>>

IInv == TypeOK /\ RestInv /\ TransitionHasOwner

Starts(c, j) == call[c].job = j /\ call[c].at \in StartSteps
Stops(c, j) == call[c].job = j /\ call[c].at \in StopSteps

LEMMA JobsOfOrder ==
    /\ Order[1] \in Jobs
    /\ Head(Order) \in Jobs
    /\ Tail(Order) \in Seq(Jobs)
BY JobsAssumption DEF Jobs

LEMMA InitInv == Init => IInv
<1> SUFFICES ASSUME Init
             PROVE  IInv
  OBVIOUS
<1>1. Idle \in CallRecord
  BY JobsOfOrder DEF Idle, CallRecord
<1>2. TypeOK
  BY <1>1, JobsOfOrder DEF Init, TypeOK, CallRecord, JobState, Threads, NoThread
<1>3. RestInv /\ TransitionHasOwner
  BY DEF Init, Idle, RestInv, At, TransitionHasOwner
<1> QED
  BY <1>2, <1>3 DEF IInv

\* A step of caller c keeps an owner for every transition if c owns the ones
\* that are new and gives up none that stays.
LEMMA OwnerFrame ==
    ASSUME TransitionHasOwner, NEW c \in Callers,
           \A d \in Callers \ {c} : call'[d] = call[d],
           \A j \in Jobs : state'[j] = "STARTING" =>
               Starts(c, j)' \/ (state[j] = "STARTING" /\ ~Starts(c, j)),
           \A j \in Jobs : state'[j] = "STOPPING" =>
               Stops(c, j)' \/ (state[j] = "STOPPING" /\ ~Stops(c, j))
    PROVE  TransitionHasOwner'
<1> SUFFICES ASSUME NEW j \in Jobs
             PROVE  /\ state'[j] = "STARTING" =>
                          \E d \in Callers : Starts(d, j)'
                    /\ state'[j] = "STOPPING" =>
                          \E d \in Callers : Stops(d, j)'
  BY DEF TransitionHasOwner, Starts, Stops
<1>1. ASSUME state'[j] = "STARTING"
      PROVE  \E d \in Callers : Starts(d, j)'
  <2>1. CASE Starts(c, j)'
    BY <2>1
  <2>2. CASE state[j] = "STARTING" /\ ~Starts(c, j)
    <3>1. PICK d \in Callers : Starts(d, j)
      BY <2>2 DEF TransitionHasOwner, Starts
    <3>2. Starts(d, j)'
      BY <2>2, <3>1 DEF Starts
    <3> QED
      BY <3>2
  <2> QED
    BY <1>1, <2>1, <2>2
<1>2. ASSUME state'[j] = "STOPPING"
      PROVE  \E d \in Callers : Stops(d, j)'
  <2>1. CASE Stops(c, j)'
    BY <2>1
  <2>2. CASE state[j] = "STOPPING" /\ ~Stops(c, j)
    <3>1. PICK d \in Callers : Stops(d, j)
      BY <2>2 DEF TransitionHasOwner, Stops
    <3>2. Stops(d, j)'
      BY <2>2, <3>1 DEF Stops
    <3> QED
      BY <3>2
  <2> QED
    BY <1>2, <2>1, <2>2
<1> QED
  BY <1>1, <1>2

\* A caller that moves on inside its method keeps its transition.
LEMMA MovesOn ==
    ASSUME IInv, NEW c \in Callers,
           NEW step \in StartSteps \cup StopSteps,
           step \in StartSteps <=> call[c].at \in StartSteps,
           step \in StopSteps <=> call[c].at \in StopSteps,
           Goto(c, step), UNCHANGED state
    PROVE  /\ call' \in [Callers -> CallRecord]
           /\ RestInv' /\ TransitionHasOwner'
<1>1. call \in [Callers -> CallRecord] /\ state \in [Jobs -> JobState]
  BY DEF IInv, TypeOK, CallRecord
<1>2. /\ \A d \in Callers \ {c} : call'[d] = call[d]
      /\ call'[c].at = step /\ call'[c].job = call[c].job
      /\ call'[c].rest = call[c].rest
      /\ call' \in [Callers -> CallRecord]
  BY <1>1 DEF Goto, CallRecord
<1>3. RestInv'
  BY <1>2 DEF IInv, RestInv, At, StartSteps, StopSteps
<1>4. TransitionHasOwner'
  BY <1>2, OwnerFrame DEF IInv, Starts, Stops
<1> QED
  BY <1>2, <1>3, <1>4

\* A caller that leaves its method leaves no transition behind.
LEMMA Leaves ==
    ASSUME IInv, NEW c \in Callers, Return(c),
           NEW st \in JobState \ {"STARTING", "STOPPING"},
           SetState(call[c].job, st)
    PROVE  /\ call' \in [Callers -> CallRecord]
           /\ state' \in [Jobs -> JobState]
           /\ RestInv' /\ TransitionHasOwner'
<1>1. call \in [Callers -> CallRecord] /\ state \in [Jobs -> JobState]
  BY DEF IInv, TypeOK, CallRecord
<1>2. call[c].job \in Jobs
  BY <1>1 DEF CallRecord
<1>3. /\ state' \in [Jobs -> JobState]
      /\ state'[call[c].job] = st
      /\ \A j \in Jobs \ {call[c].job} : state'[j] = state[j]
  BY <1>1, <1>2 DEF SetState
<1>4. /\ \A d \in Callers \ {c} : call'[d] = call[d]
      /\ call'[c].rest = call[c].rest
      /\ call'[c].at = "next" => call[c].rest # <<>>
      /\ call' \in [Callers -> CallRecord]
  BY <1>1 DEF Return, Goto, CallRecord
<1>5. RestInv'
  BY <1>4 DEF IInv, RestInv, At
<1>6. TransitionHasOwner'
  <2>1. \A j \in Jobs : state'[j] = "STARTING" =>
            state[j] = "STARTING" /\ ~Starts(c, j)
    BY <1>3 DEF Starts
  <2>2. \A j \in Jobs : state'[j] = "STOPPING" =>
            state[j] = "STOPPING" /\ ~Stops(c, j)
    BY <1>3 DEF Stops
  <2> QED
    BY <1>4, <2>1, <2>2, OwnerFrame DEF IInv
<1> QED
  BY <1>3, <1>4, <1>5, <1>6

\* A caller outside every method that begins a stop owns it from then on.
LEMMA BeginStopInv ==
    ASSUME IInv, NEW c \in Callers, At(c, "idle") \/ At(c, "next"),
           NEW j \in Jobs, NEW rest \in Seq(Jobs), BeginStop(c, j, rest)
    PROVE  IInv'
<1>1. call \in [Callers -> CallRecord] /\ state \in [Jobs -> JobState]
  BY DEF IInv, TypeOK, CallRecord
<1>2. /\ \A d \in Callers \ {c} : call'[d] = call[d]
      /\ call'[c].job = j /\ call'[c].rest = rest
      /\ call'[c].at = IF state[j] = "RUNNING" THEN "testJob"
                       ELSE IF rest = <<>> THEN "idle" ELSE "next"
      /\ call' \in [Callers -> CallRecord]
  BY <1>1 DEF BeginStop, CallRecord, StopSteps
<1>3. /\ state' \in [Jobs -> JobState]
      /\ \A i \in Jobs : \/ state'[i] = state[i]
                         \/ i = j /\ state[i] = "RUNNING" /\ state'[i] = "STOPPING"
  BY <1>1 DEF BeginStop, SetState, JobState
<1>4. UNCHANGED <<job, thread, threads, active>>
  BY DEF BeginStop
<1>5. TypeOK'
  BY <1>2, <1>3, <1>4 DEF IInv, TypeOK, CallRecord
<1>6. RestInv'
  BY <1>2 DEF IInv, RestInv, At
<1>7. ~(call[c].at \in StartSteps) /\ ~(call[c].at \in StopSteps)
  BY DEF At, StartSteps, StopSteps
<1>8. TransitionHasOwner'
  <2>1. \A i \in Jobs : state'[i] = "STARTING" =>
            state[i] = "STARTING" /\ ~Starts(c, i)
    BY <1>3, <1>7 DEF Starts
  <2>2. \A i \in Jobs : state'[i] = "STOPPING" =>
            Stops(c, i)' \/ (state[i] = "STOPPING" /\ ~Stops(c, i))
    BY <1>2, <1>3, <1>7 DEF Stops, StopSteps
  <2> QED
    BY <1>2, <2>1, <2>2, OwnerFrame DEF IInv
<1> QED
  BY <1>5, <1>6, <1>8 DEF IInv

LEMMA StepInv == IInv /\ [Next]_vars => IInv'
<1> SUFFICES ASSUME IInv, [Next]_vars
             PROVE  IInv'
  OBVIOUS
<1> DEFINE ThreadSet == [job : Jobs, is : {"unborn", "new", "alive", "dead"}]
<1>t. /\ state \in [Jobs -> JobState]
      /\ job \in [Jobs -> BOOLEAN]
      /\ thread \in [Jobs -> Threads \cup {NoThread}]
      /\ threads \in [Threads -> ThreadSet]
      /\ call \in [Callers -> CallRecord]
      /\ active \in Int
  BY DEF IInv, TypeOK, CallRecord
<1>c. \A c \in Callers : call[c].job \in Jobs /\ call[c].rest \in Seq(Jobs)
  BY <1>t DEF CallRecord
<1>1. ASSUME NEW c \in Callers, NEW j \in Jobs, StartCall(c, j)
      PROVE  IInv'
  <2>1. /\ At(c, "idle") /\ SetState(j, "STARTING")
        /\ call' = [call EXCEPT ![c].at = "create", ![c].job = j]
        /\ UNCHANGED <<job, thread, threads, active>>
    BY <1>1 DEF StartCall
  <2>2. /\ \A d \in Callers \ {c} : call'[d] = call[d]
        /\ call'[c].at = "create" /\ call'[c].job = j
        /\ call'[c].rest = call[c].rest
    BY <1>t, <2>1 DEF CallRecord
  <2>3. call' \in [Callers -> CallRecord]
    <3>1. call'[c] = [at |-> "create", job |-> j, rest |-> call[c].rest]
      BY <1>t, <2>1 DEF CallRecord
    <3>2. call'[c] \in CallRecord
      BY <1>c, <3>1 DEF CallRecord, StartSteps
    <3>3. call' = [call EXCEPT ![c] = call'[c]]
      BY <1>t, <2>1
    <3> QED
      BY <1>t, <3>2, <3>3
  <2>4. /\ state' \in [Jobs -> JobState]
        /\ state'[j] = "STARTING"
        /\ \A i \in Jobs \ {j} : state'[i] = state[i]
    BY <1>t, <2>1 DEF SetState, JobState
  <2>5. TypeOK'
    BY <1>t, <2>1, <2>3, <2>4 DEF TypeOK, CallRecord
  <2>6. RestInv'
    BY <2>2 DEF IInv, RestInv, At
  <2>7. ~(call[c].at \in StartSteps) /\ ~(call[c].at \in StopSteps)
    BY <2>1 DEF At, StartSteps, StopSteps
  <2>8. \A i \in Jobs : state'[i] = "STARTING" =>
            Starts(c, i)' \/ (state[i] = "STARTING" /\ ~Starts(c, i))
    BY <2>2, <2>4, <2>7 DEF Starts, StartSteps
  <2>9. \A i \in Jobs : state'[i] = "STOPPING" =>
            state[i] = "STOPPING" /\ ~Stops(c, i)
    BY <2>4, <2>7 DEF Stops
  <2> QED
    BY <2>2, <2>5, <2>6, <2>8, <2>9, OwnerFrame DEF IInv
<1>f. ASSUME NEW c \in Callers, Fail(c)
      PROVE  /\ call' \in [Callers -> CallRecord]
             /\ state' \in [Jobs -> JobState]
             /\ RestInv' /\ TransitionHasOwner'
  <2>1. Return(c) /\ SetState(call[c].job, "ERROR")
    BY <1>f DEF Fail
  <2>2. "ERROR" \in JobState \ {"STARTING", "STOPPING"}
    BY DEF JobState
  <2> QED
    BY <2>1, <2>2, Leaves
<1>2. ASSUME NEW c \in Callers, CreateJob(c)
      PROVE  IInv'
  <2>1. call[c].at = "create" /\ UNCHANGED <<thread, threads, active>>
    BY <1>2 DEF CreateJob, At
  <2>2. CASE /\ job' = [job EXCEPT ![call[c].job] = TRUE]
             /\ Goto(c, "assign") /\ UNCHANGED state
    <3>1. call' \in [Callers -> CallRecord] /\ RestInv' /\ TransitionHasOwner'
      BY <2>1, <2>2, MovesOn DEF StartSteps, StopSteps
    <3>2. job' \in [Jobs -> BOOLEAN]
      BY <1>t, <2>2
    <3> QED
      BY <1>t, <2>1, <2>2, <3>1, <3>2 DEF IInv, TypeOK, CallRecord
  <2>3. CASE Fail(c) /\ UNCHANGED job
    BY <1>f, <1>t, <2>1, <2>3 DEF IInv, TypeOK, CallRecord
  <2> QED
    BY <1>2, <2>2, <2>3 DEF CreateJob
<1>3. ASSUME NEW c \in Callers, AssignThread(c)
      PROVE  IInv'
  <2>1. PICK t \in Threads :
           /\ threads' = [threads EXCEPT ![t] = [job |-> call[c].job, is |-> "new"]]
           /\ thread' = [thread EXCEPT ![call[c].job] = t]
    BY <1>3 DEF AssignThread
  <2>2. /\ call[c].at = "assign" /\ Goto(c, "launch")
        /\ UNCHANGED <<state, job, active>>
    BY <1>3 DEF AssignThread, At
  <2>3. call' \in [Callers -> CallRecord] /\ RestInv' /\ TransitionHasOwner'
    BY <2>2, MovesOn DEF StartSteps, StopSteps
  <2>4. threads' \in [Threads -> ThreadSet]
    BY <1>t, <1>c, <2>1
  <2>5. thread' \in [Jobs -> Threads \cup {NoThread}]
    BY <1>t, <2>1
  <2> QED
    BY <1>t, <2>2, <2>3, <2>4, <2>5 DEF IInv, TypeOK, CallRecord
<1>4. ASSUME NEW c \in Callers, LaunchThread(c)
      PROVE  IInv'
  <2> DEFINE t == thread[call[c].job]
             new == t # NoThread /\ threads[t].is = "new"
  <2>1. /\ call[c].at = "launch"
        /\ UNCHANGED <<job, thread, active>>
    BY <1>4 DEF LaunchThread, At
  <2>2. CASE /\ new
             /\ threads' = [threads EXCEPT ![t].is = "alive"]
             /\ Goto(c, "sleep")
             /\ UNCHANGED state
    <3>1. call' \in [Callers -> CallRecord] /\ RestInv' /\ TransitionHasOwner'
      BY <2>1, <2>2, MovesOn DEF StartSteps, StopSteps
    <3>2. t \in Threads
      BY <1>t, <1>c, <2>2
    <3>3. threads' \in [Threads -> ThreadSet]
      <4> HIDE DEF t
      <4> QED
        BY <1>t, <2>2, <3>2
    <3> QED
      BY <1>t, <2>1, <2>2, <3>1, <3>3 DEF IInv, TypeOK, CallRecord
  <2>3. CASE Fail(c) /\ UNCHANGED threads
    BY <1>f, <1>t, <2>1, <2>3 DEF IInv, TypeOK, CallRecord
  <2> QED
    BY <1>4, <2>2, <2>3 DEF LaunchThread
<1>5. ASSUME NEW c \in Callers, SleepEnds(c)
      PROVE  IInv'
  <2>1. /\ Return(c) /\ UNCHANGED <<job, thread, threads, active>>
        /\ call[c].at = "sleep"
    BY <1>5 DEF SleepEnds, At
  <2>2. "RUNNING" \in JobState \ {"STARTING", "STOPPING"}
        /\ "ERROR" \in JobState \ {"STARTING", "STOPPING"}
    BY DEF JobState
  <2>3. \/ SetState(call[c].job, "RUNNING")
        \/ SetState(call[c].job, "ERROR")
    BY <1>5, <1>t, <1>c DEF SleepEnds, SetState
  <2>4. /\ call' \in [Callers -> CallRecord]
        /\ state' \in [Jobs -> JobState]
        /\ RestInv' /\ TransitionHasOwner'
    BY <2>1, <2>2, <2>3, Leaves
  <2> QED
    BY <1>t, <2>1, <2>4 DEF IInv, TypeOK, CallRecord
<1>6. ASSUME NEW c \in Callers, NEW j \in Jobs, StopCall(c, j)
      PROVE  IInv'
  <2>1. <<>> \in Seq(Jobs)
    OBVIOUS
  <2> QED
    BY <1>6, <2>1, BeginStopInv DEF StopCall
<1>7. ASSUME NEW c \in Callers, StopAllCall(c)
      PROVE  IInv'
  BY <1>7, JobsOfOrder, BeginStopInv DEF StopAllCall
<1>8. ASSUME NEW c \in Callers, StopAllNext(c)
      PROVE  IInv'
  <2>1. call[c].rest \in Seq(Jobs) /\ call[c].rest # <<>>
    BY <1>8, <1>c DEF StopAllNext, IInv, RestInv
  <2>2. Head(call[c].rest) \in Jobs /\ Tail(call[c].rest) \in Seq(Jobs)
    BY <2>1
  <2> QED
    BY <1>8, <2>2, BeginStopInv DEF StopAllNext
<1>9. ASSUME NEW c \in Callers, TestJob(c)
      PROVE  IInv'
  <2>1. /\ call[c].at = "testJob"
        /\ Goto(c, "stopJob") \/ Goto(c, "testThread")
        /\ UNCHANGED <<state, job, thread, threads, active>>
    BY <1>9 DEF TestJob, At
  <2>2. call' \in [Callers -> CallRecord] /\ RestInv' /\ TransitionHasOwner'
    BY <2>1, MovesOn DEF StartSteps, StopSteps
  <2> QED
    BY <1>t, <2>1, <2>2 DEF IInv, TypeOK, CallRecord
<1>10. ASSUME NEW c \in Callers, StopJob(c)
       PROVE  IInv'
  <2>1. call[c].at = "stopJob" /\ UNCHANGED <<job, thread, threads>>
    BY <1>10 DEF StopJob, At
  <2>2. CASE active' = active - 1 /\ Goto(c, "testThread") /\ UNCHANGED state
    <3>1. call' \in [Callers -> CallRecord] /\ RestInv' /\ TransitionHasOwner'
      BY <2>1, <2>2, MovesOn DEF StartSteps, StopSteps
    <3>2. active' \in Int
      BY <1>t, <2>2
    <3> QED
      BY <1>t, <2>1, <2>2, <3>1, <3>2 DEF IInv, TypeOK, CallRecord
  <2>3. CASE Fail(c) /\ UNCHANGED active
    BY <1>f, <1>t, <2>1, <2>3 DEF IInv, TypeOK, CallRecord
  <2> QED
    BY <1>10, <2>2, <2>3 DEF StopJob
<1>11. ASSUME NEW c \in Callers, TestThread(c)
       PROVE  IInv'
  <2>1. /\ call[c].at = "testThread"
        /\ Goto(c, "testAlive") \/ Goto(c, "clear")
        /\ UNCHANGED <<state, job, thread, threads, active>>
    BY <1>11 DEF TestThread, At
  <2>2. call' \in [Callers -> CallRecord] /\ RestInv' /\ TransitionHasOwner'
    BY <2>1, MovesOn DEF StartSteps, StopSteps
  <2> QED
    BY <1>t, <2>1, <2>2 DEF IInv, TypeOK, CallRecord
<1>a. ASSUME NEW c \in Callers, TestAlive(c)
      PROVE  IInv'
  <2>1. call[c].at = "testAlive" /\ UNCHANGED <<job, thread, threads, active>>
    BY <1>a DEF TestAlive, At
  <2>2. CASE (Goto(c, "join") \/ Goto(c, "clear")) /\ UNCHANGED state
    <3>1. call' \in [Callers -> CallRecord] /\ RestInv' /\ TransitionHasOwner'
      BY <2>1, <2>2, MovesOn DEF StartSteps, StopSteps
    <3> QED
      BY <1>t, <2>1, <2>2, <3>1 DEF IInv, TypeOK, CallRecord
  <2>3. CASE Fail(c)
    BY <1>f, <1>t, <2>1, <2>3 DEF IInv, TypeOK, CallRecord
  <2> QED
    BY <1>a, <2>2, <2>3 DEF TestAlive
<1>12. ASSUME NEW c \in Callers, JoinReturns(c)
       PROVE  IInv'
  <2>1. call[c].at = "join" /\ UNCHANGED <<job, thread, threads, active>>
    BY <1>12 DEF JoinReturns, At
  <2>2. CASE Goto(c, "clear") /\ UNCHANGED state
    <3>1. call' \in [Callers -> CallRecord] /\ RestInv' /\ TransitionHasOwner'
      BY <2>1, <2>2, MovesOn DEF StartSteps, StopSteps
    <3> QED
      BY <1>t, <2>1, <2>2, <3>1 DEF IInv, TypeOK, CallRecord
  <2>3. CASE Fail(c)
    BY <1>f, <1>t, <2>1, <2>3 DEF IInv, TypeOK, CallRecord
  <2> QED
    BY <1>12, <2>2, <2>3 DEF JoinReturns
<1>13. ASSUME NEW c \in Callers, Clear(c)
       PROVE  IInv'
  <2>1. /\ Return(c) /\ SetState(call[c].job, "STOPPED")
        /\ job' = [job EXCEPT ![call[c].job] = FALSE]
        /\ thread' = [thread EXCEPT ![call[c].job] = NoThread]
        /\ UNCHANGED <<threads, active>>
    BY <1>13 DEF Clear
  <2>2. "STOPPED" \in JobState \ {"STARTING", "STOPPING"}
    BY DEF JobState
  <2>3. /\ call' \in [Callers -> CallRecord]
        /\ state' \in [Jobs -> JobState]
        /\ RestInv' /\ TransitionHasOwner'
    BY <2>1, <2>2, Leaves
  <2>4. /\ job' \in [Jobs -> BOOLEAN]
        /\ thread' \in [Jobs -> Threads \cup {NoThread}]
    BY <1>t, <2>1
  <2> QED
    BY <1>t, <2>1, <2>3, <2>4 DEF IInv, TypeOK, CallRecord
<1>14. ASSUME NEW t \in Threads, ThreadCrashes(t)
       PROVE  IInv'
  <2>1. /\ threads' = [threads EXCEPT ![t].is = "dead"]
        /\ state' = [state EXCEPT ![threads[t].job] = "ERROR"]
        /\ UNCHANGED <<job, thread, call, active>>
    BY <1>14 DEF ThreadCrashes, SetState
  <2>2. /\ threads' \in [Threads -> ThreadSet]
        /\ state' \in [Jobs -> JobState]
        /\ \A j \in Jobs : state'[j] \in {state[j], "ERROR"}
    BY <1>t, <2>1 DEF JobState
  <2>3. TypeOK'
    BY <1>t, <2>1, <2>2 DEF TypeOK, CallRecord
  <2>4. RestInv'
    BY <2>1 DEF IInv, RestInv, At
  <2>5. TransitionHasOwner'
    BY <2>1, <2>2 DEF IInv, TransitionHasOwner
  <2> QED
    BY <2>3, <2>4, <2>5 DEF IInv
<1>15. CASE UNCHANGED vars
  BY <1>15 DEF vars, IInv, TypeOK, RestInv, At, TransitionHasOwner
<1> QED
  BY <1>1, <1>2, <1>3, <1>4, <1>5, <1>6, <1>7, <1>8, <1>9, <1>10, <1>11, <1>12, <1>a,
     <1>13, <1>14, <1>15 DEF Next, CallerCalls, CallerStep

LEMMA InvHolds == Spec => []IInv
BY InitInv, StepInv, PTL DEF Spec

\* States, jobs, threads and calls keep their types.
THEOREM StreamJobManagerTypeCorrect == Spec => []TypeOK
BY InvHolds, PTL DEF IInv

\* For any number of callers, jobs and threads: whoever put a job into STARTING
\* or STOPPING is still at work on it, so nothing blocks later calls for good.
THEOREM TransitionHasOwnerHolds == Spec => []TransitionHasOwner
BY InvHolds, PTL DEF IInv

------------------------------------------------------------------------------
\* Calls that take turns.

\* An attribute names a thread that was created for its own job.
ThreadOfJob ==
    \A j \in Jobs : thread[j] # NoThread => /\ threads[thread[j]].job = j
                                           /\ threads[thread[j]].is # "unborn"

\* A caller inside start() finds the job as it left it, but for an error: its
\* own thread or an older one of the job may have crashed.
StartHolds(c) ==
    call[c].at \in StartSteps =>
        /\ state[call[c].job] \in {"STARTING", "ERROR"}
        /\ At(c, "sleep") => \/ state[call[c].job] = "ERROR"
                             \/ Alive(thread[call[c].job])

InTurn == /\ ~Overlap
          /\ \A c \in Callers : StartHolds(c)
          /\ RunningMeansAlive

TurnInv == IInv /\ ThreadOfJob /\ (~overlapped => InTurn)

LEMMA Types ==
    ASSUME IInv
    PROVE  /\ state \in [Jobs -> JobState]
           /\ thread \in [Jobs -> Threads \cup {NoThread}]
           /\ threads \in [Threads -> [job : Jobs,
                                      is : {"unborn", "new", "alive", "dead"}]]
           /\ call \in [Callers -> CallRecord]
           /\ \A c \in Callers : call[c].job \in Jobs
           /\ NoThread \notin Threads
BY DEF IInv, TypeOK, CallRecord, Threads, NoThread

\* While one caller is busy before or after its step, no other is in start().
LEMMA OthersAreIdle ==
    ASSUME ~Overlap, ~Overlap', NEW c \in Callers, Busy(c) \/ Busy(c)',
           \A d \in Callers \ {c} : call'[d] = call[d]
    PROVE  \A d \in Callers \ {c} : call'[d].at = "idle"
BY DEF Overlap, Busy, At

\* So a step of c has to see to its own start and to the jobs that are RUNNING.
LEMMA StepInTurn ==
    ASSUME ~Overlap, ~Overlap', NEW c \in Callers, Busy(c) \/ Busy(c)',
           \A d \in Callers \ {c} : call'[d] = call[d],
           StartHolds(c)', RunningMeansAlive'
    PROVE  InTurn'
<1>1. \A d \in Callers \ {c} : call'[d].at = "idle"
  BY OthersAreIdle
<1>2. \A d \in Callers : StartHolds(d)'
  BY <1>1 DEF StartHolds, StartSteps
<1> QED
  BY <1>2 DEF InTurn

\* Steps that touch no thread and make no job RUNNING.
LEMMA QuietStep ==
    ASSUME RunningMeansAlive, UNCHANGED <<thread, threads>>,
           \A j \in Jobs : state'[j] = "RUNNING" => state[j] = "RUNNING"
    PROVE  RunningMeansAlive'
BY DEF RunningMeansAlive, Alive

LEMMA GotoMoves ==
    ASSUME IInv, NEW c \in Callers, NEW step, Goto(c, step)
    PROVE  /\ \A d \in Callers \ {c} : call'[d] = call[d]
           /\ call'[c].at = step /\ call'[c].job = call[c].job
BY Types DEF Goto, CallRecord

\* Leaving a method, for a state that is not RUNNING or for one that is.
LEMMA LeaveInTurn ==
    ASSUME IInv, ~Overlap, ~Overlap', NEW c \in Callers, Busy(c), Return(c),
           RunningMeansAlive'
    PROVE  InTurn'
<1>1. /\ \A d \in Callers \ {c} : call'[d] = call[d]
      /\ call'[c].at \in {"idle", "next"}
  BY GotoMoves DEF Return
<1>2. StartHolds(c)'
  BY <1>1 DEF StartHolds, StartSteps
<1> QED
  BY <1>1, <1>2, StepInTurn

LEMMA FailInTurn ==
    ASSUME IInv, InTurn, ~Overlap', NEW c \in Callers, Busy(c), Fail(c),
           UNCHANGED <<thread, threads>>
    PROVE  InTurn'
<1>1. \A j \in Jobs : state'[j] = "RUNNING" => state[j] = "RUNNING"
  BY Types DEF Fail, SetState
<1>2. RunningMeansAlive'
  BY <1>1, QuietStep DEF InTurn
<1> QED
  BY <1>2, LeaveInTurn DEF InTurn, Fail

\* stop() moves on, outside of every start.
LEMMA StopMovesInTurn ==
    ASSUME IInv, InTurn, ~Overlap', NEW c \in Callers, Busy(c),
           NEW step \in StopSteps, Goto(c, step),
           UNCHANGED <<state, thread, threads>>
    PROVE  InTurn'
<1>1. /\ \A d \in Callers \ {c} : call'[d] = call[d]
      /\ call'[c].at = step
  BY GotoMoves
<1>2. StartHolds(c)'
  BY <1>1 DEF StartHolds, StartSteps, StopSteps
<1>3. RunningMeansAlive'
  BY QuietStep DEF InTurn
<1> QED
  BY <1>1, <1>2, <1>3, StepInTurn DEF InTurn

\* A stop that begins, or finds nothing to stop.
LEMMA BeginStopInTurn ==
    ASSUME IInv, InTurn, ~Overlap', NEW c \in Callers, NEW j \in Jobs, NEW rest,
           At(c, "idle") \/ At(c, "next"), BeginStop(c, j, rest)
    PROVE  InTurn'
<1>1. /\ \A d \in Callers \ {c} : call'[d] = call[d]
      /\ call'[c].at \in {"testJob", "idle", "next"}
      /\ state[j] = "RUNNING" => call'[c].at = "testJob"
      /\ state[j] # "RUNNING" => UNCHANGED state
      /\ UNCHANGED <<thread, threads>>
  BY Types DEF BeginStop
<1>2. \A i \in Jobs : state'[i] = "RUNNING" => state[i] = "RUNNING"
  BY Types DEF BeginStop, SetState
<1>3. RunningMeansAlive'
  BY <1>1, <1>2, QuietStep DEF InTurn
<1>4. StartHolds(c)'
  BY <1>1 DEF StartHolds, StartSteps
<1>5. CASE Busy(c)'
  BY <1>1, <1>3, <1>4, <1>5, StepInTurn DEF InTurn
<1>6. CASE ~Busy(c)'
  <2>1. UNCHANGED <<state, thread, threads>>
    BY <1>1, <1>6 DEF Busy, At
  <2>2. \A d \in Callers : StartHolds(d)'
    BY <1>1, <1>4, <2>1 DEF InTurn, StartHolds, At, Alive
  <2> QED
    BY <1>3, <2>2 DEF InTurn
<1> QED
  BY <1>5, <1>6

\* Whatever the others do, an attribute keeps to the threads of its job.
LEMMA ThreadOfJobKept == TypeOK /\ ThreadOfJob /\ [Next]_vars => ThreadOfJob'
<1> SUFFICES ASSUME TypeOK, ThreadOfJob, [Next]_vars
             PROVE  ThreadOfJob'
  OBVIOUS
<1>t. /\ thread \in [Jobs -> Threads \cup {NoThread}]
      /\ threads \in [Threads -> [job : Jobs,
                                 is : {"unborn", "new", "alive", "dead"}]]
      /\ \A c \in Callers : call[c].job \in Jobs
      /\ NoThread \notin Threads
  BY DEF TypeOK, Threads, NoThread
<1>1. ASSUME UNCHANGED <<thread, threads>>
      PROVE  ThreadOfJob'
  BY <1>1 DEF ThreadOfJob
<1>2. ASSUME NEW c \in Callers, AssignThread(c)
      PROVE  ThreadOfJob'
  <2>1. PICK t \in Threads :
           /\ threads[t].is = "unborn"
           /\ threads' = [threads EXCEPT ![t] = [job |-> call[c].job, is |-> "new"]]
           /\ thread' = [thread EXCEPT ![call[c].job] = t]
    BY <1>2 DEF AssignThread
  <2>2. ASSUME NEW j \in Jobs, thread'[j] # NoThread
        PROVE  threads'[thread'[j]].job = j /\ threads'[thread'[j]].is # "unborn"
    <3>1. CASE j = call[c].job
      BY <1>t, <2>1, <3>1
    <3>2. CASE j # call[c].job
      <4>1. thread'[j] = thread[j] /\ thread[j] \in Threads /\ thread[j] # t
        BY <1>t, <2>1, <2>2, <3>2 DEF ThreadOfJob
      <4> QED
        BY <1>t, <2>1, <2>2, <4>1 DEF ThreadOfJob
    <3> QED
      BY <3>1, <3>2
  <2> QED
    BY <2>2 DEF ThreadOfJob
<1>3. ASSUME NEW t \in Threads, NEW is \in {"alive", "dead"},
             threads' = [threads EXCEPT ![t].is = is], UNCHANGED thread
      PROVE  ThreadOfJob'
  <2>1. \A u \in Threads : /\ threads'[u].job = threads[u].job
                           /\ threads'[u].is \in {threads[u].is, is}
    BY <1>t, <1>3
  <2> QED
    BY <1>t, <1>3, <2>1 DEF ThreadOfJob
<1>4. ASSUME NEW c \in Callers, LaunchThread(c)
      PROVE  ThreadOfJob'
  <2>1. UNCHANGED thread
    BY <1>4 DEF LaunchThread
  <2>2. CASE UNCHANGED threads
    BY <1>1, <2>1, <2>2
  <2>3. CASE ~UNCHANGED threads
    <3>1. /\ thread[call[c].job] # NoThread
          /\ threads' = [threads EXCEPT ![thread[call[c].job]].is = "alive"]
      BY <1>4, <2>3 DEF LaunchThread
    <3>2. thread[call[c].job] \in Threads
      BY <1>t, <3>1
    <3> QED
      BY <1>3, <2>1, <3>1, <3>2
  <2> QED
    BY <2>2, <2>3
<1>5. ASSUME NEW c \in Callers, Clear(c)
      PROVE  ThreadOfJob'
  BY <1>t, <1>5 DEF Clear, ThreadOfJob
<1>6. ASSUME NEW t \in Threads, ThreadCrashes(t)
      PROVE  ThreadOfJob'
  BY <1>3, <1>6 DEF ThreadCrashes
<1>7. ASSUME NEW c \in Callers,
             \/ \E j \in Jobs : StartCall(c, j) \/ StopCall(c, j)
             \/ StopAllCall(c) \/ CreateJob(c) \/ SleepEnds(c) \/ StopAllNext(c)
             \/ TestJob(c) \/ StopJob(c) \/ TestThread(c) \/ TestAlive(c)
             \/ JoinReturns(c)
      PROVE  UNCHANGED <<thread, threads>>
  BY <1>7 DEF StartCall, StopCall, BeginStop, StopAllCall, CreateJob, SleepEnds,
     StopAllNext, TestJob, StopJob, TestThread, TestAlive, JoinReturns
<1>8. CASE UNCHANGED vars
  BY <1>1, <1>8 DEF vars
<1> QED
  BY <1>1, <1>2, <1>4, <1>5, <1>6, <1>7, <1>8 DEF Next, CallerCalls, CallerStep

\* A start of a job that is not RUNNING, up to the thread that is created.
LEMMA StartsInTurn ==
    ASSUME TurnInv, InTurn, ~Overlap', NEW c \in Callers,
           \/ \E j \in Jobs : StartCall(c, j)
           \/ CreateJob(c) \/ AssignThread(c)
    PROVE  InTurn'
<1> USE DEF TurnInv
<1>1. CASE \E j \in Jobs : StartCall(c, j)
  <2>1. PICK j \in Jobs : StartCall(c, j)
    BY <1>1
  <2>2. /\ call' = [call EXCEPT ![c].at = "create", ![c].job = j]
        /\ state' = [state EXCEPT ![j] = "STARTING"]
        /\ UNCHANGED <<thread, threads>>
    BY <2>1 DEF StartCall, SetState
  <2>3. /\ \A d \in Callers \ {c} : call'[d] = call[d]
        /\ call'[c].at = "create" /\ call'[c].job = j
    BY <2>2, Types DEF CallRecord
  <2>4. /\ state'[j] = "STARTING"
        /\ \A i \in Jobs \ {j} : state'[i] = state[i]
    BY <2>2, Types
  <2>5. StartHolds(c)' /\ Busy(c)'
    BY <2>3, <2>4 DEF StartHolds, At, Busy
  <2>6. RunningMeansAlive'
    BY <2>2, <2>4, QuietStep DEF InTurn
  <2> QED
    BY <2>3, <2>5, <2>6, StepInTurn DEF InTurn
<1>2. CASE CreateJob(c)
  <2>0. At(c, "create") /\ UNCHANGED <<thread, threads>>
    BY <1>2 DEF CreateJob
  <2>f. CASE Fail(c)
    BY <2>0, <2>f, FailInTurn DEF Busy, At
  <2>1. CASE Goto(c, "assign") /\ UNCHANGED state
    <3>2. /\ \A d \in Callers \ {c} : call'[d] = call[d]
          /\ call'[c].at = "assign" /\ call'[c].job = call[c].job
      BY <2>1, GotoMoves
    <3>3. StartHolds(c)' /\ Busy(c)'
      BY <2>0, <2>1, <3>2 DEF InTurn, StartHolds, StartSteps, At, Busy
    <3>4. RunningMeansAlive'
      BY <2>0, <2>1, QuietStep DEF InTurn
    <3> QED
      BY <3>2, <3>3, <3>4, StepInTurn DEF InTurn
  <2> QED
    BY <1>2, <2>f, <2>1 DEF CreateJob
<1>3. CASE AssignThread(c)
  <2>1. At(c, "assign") /\ Goto(c, "launch") /\ UNCHANGED state
    BY <1>3 DEF AssignThread
  <2>2. /\ \A d \in Callers \ {c} : call'[d] = call[d]
        /\ call'[c].at = "launch" /\ call'[c].job = call[c].job
    BY <2>1, GotoMoves
  <2>3. PICK t \in Threads :
           /\ threads[t].is = "unborn"
           /\ threads' = [threads EXCEPT ![t] = [job |-> call[c].job, is |-> "new"]]
           /\ thread' = [thread EXCEPT ![call[c].job] = t]
    BY <1>3 DEF AssignThread
  <2>4. StartHolds(c)' /\ Busy(c)'
    BY <2>1, <2>2 DEF InTurn, StartHolds, StartSteps, At, Busy
  <2>5. state[call[c].job] # "RUNNING"
    BY <2>1 DEF InTurn, StartHolds, StartSteps, At
  <2>6. ASSUME NEW j \in Jobs, state'[j] = "RUNNING"
        PROVE  Alive(thread[j])'
    <3>1. Alive(thread[j]) /\ j # call[c].job
      BY <2>1, <2>5, <2>6 DEF InTurn, RunningMeansAlive
    <3>2. thread'[j] = thread[j] /\ thread[j] \in Threads /\ thread[j] # t
      BY <2>3, <3>1, Types DEF Alive
    <3> QED
      BY <2>3, <3>1, <3>2, Types DEF Alive
  <2>7. RunningMeansAlive'
    BY <2>6 DEF RunningMeansAlive
  <2> QED
    BY <2>2, <2>4, <2>7, StepInTurn DEF InTurn
<1> QED
  BY <1>1, <1>2, <1>3

\* The thread that start() launches is the one it watches while it sleeps.
LEMMA LaunchInTurn ==
    ASSUME TurnInv, InTurn, ~Overlap', NEW c \in Callers, LaunchThread(c)
    PROVE  InTurn'
<1> USE DEF TurnInv
<1> DEFINE t == thread[call[c].job]
<1>1. At(c, "launch") /\ UNCHANGED thread
  BY DEF LaunchThread
<1>2. CASE Fail(c) /\ UNCHANGED threads
  BY <1>1, <1>2, FailInTurn DEF Busy, At
<1>3. CASE /\ t # NoThread
           /\ threads' = [threads EXCEPT ![t].is = "alive"]
           /\ Goto(c, "sleep") /\ UNCHANGED state
  <2>1. /\ \A d \in Callers \ {c} : call'[d] = call[d]
        /\ call'[c].at = "sleep" /\ call'[c].job = call[c].job
    BY <1>3, GotoMoves
  <2>2. t \in Threads
    BY <1>3, Types
  <2>3. \A u \in Threads : Alive(u) => Alive(u)'
    <3> HIDE DEF t
    <3> QED
      BY <1>3, <2>2, Types DEF Alive
  <2>4. threads'[t].is = "alive"
    <3> HIDE DEF t
    <3> QED
      BY <1>3, <2>2, Types
  <2>5. StartHolds(c)' /\ Busy(c)'
    BY <1>1, <1>3, <2>1, <2>4 DEF InTurn, StartHolds, StartSteps, At, Busy, Alive
  <2>6. RunningMeansAlive'
    <3>1. ASSUME NEW j \in Jobs, state[j] = "RUNNING"
          PROVE  Alive(thread[j])'
      <4>1. Alive(thread[j])
        BY <3>1 DEF InTurn, RunningMeansAlive
      <4>2. thread[j] \in Threads
        BY <4>1, Types DEF Alive
      <4> QED
        BY <1>1, <2>3, <4>1, <4>2 DEF Alive
    <3> QED
      BY <1>3, <3>1 DEF RunningMeansAlive
  <2> QED
    BY <2>1, <2>5, <2>6, StepInTurn DEF InTurn
<1> QED
  BY <1>2, <1>3 DEF LaunchThread

\* When it wakes up, no error means that the thread is alive.
LEMMA SleepEndsInTurn ==
    ASSUME TurnInv, InTurn, ~Overlap', NEW c \in Callers, SleepEnds(c)
    PROVE  InTurn'
<1> USE DEF TurnInv
<1>1. At(c, "sleep") /\ Return(c) /\ UNCHANGED <<thread, threads>>
  BY DEF SleepEnds
<1>2. state[call[c].job] = "ERROR" \/ Alive(thread[call[c].job])
  BY <1>1 DEF InTurn, StartHolds, StartSteps, At
<1>3. RunningMeansAlive'
  <2>1. CASE state[call[c].job] = "ERROR"
    BY <1>1, <2>1, QuietStep DEF SleepEnds, InTurn
  <2>2. CASE state[call[c].job] # "ERROR"
    <3>1. \A j \in Jobs \ {call[c].job} : state'[j] = state[j]
      BY <2>2, Types DEF SleepEnds, SetState
    <3> QED
      BY <1>1, <1>2, <2>2, <3>1 DEF InTurn, RunningMeansAlive, Alive
  <2> QED
    BY <2>1, <2>2
<1> QED
  BY <1>1, <1>3, LeaveInTurn DEF InTurn, Busy, At

\* The end of stop().
LEMMA ClearInTurn ==
    ASSUME TurnInv, InTurn, ~Overlap', NEW c \in Callers, Clear(c)
    PROVE  InTurn'
<1> USE DEF TurnInv
<1>1. /\ At(c, "clear") /\ Return(c) /\ UNCHANGED threads
      /\ state' = [state EXCEPT ![call[c].job] = "STOPPED"]
      /\ thread' = [thread EXCEPT ![call[c].job] = NoThread]
  BY DEF Clear, SetState
<1>2. RunningMeansAlive'
  BY <1>1, Types DEF InTurn, RunningMeansAlive, Alive
<1> QED
  BY <1>1, <1>2, LeaveInTurn DEF InTurn, Busy, At

\* A thread that crashes takes its job out of RUNNING, and out of no other's.
LEMMA CrashInTurn ==
    ASSUME TurnInv, InTurn, NEW t \in Threads, ThreadCrashes(t)
    PROVE  InTurn'
<1> USE DEF TurnInv
<1>1. /\ threads' = [threads EXCEPT ![t].is = "dead"]
      /\ state' = [state EXCEPT ![threads[t].job] = "ERROR"]
      /\ UNCHANGED <<thread, call>>
  BY DEF ThreadCrashes, SetState
<1>2. threads[t].job \in Jobs
  BY Types
<1>3. /\ state'[threads[t].job] = "ERROR"
      /\ \A j \in Jobs : state'[j] \in {state[j], "ERROR"}
  BY <1>1, <1>2, Types
<1>4. ASSUME NEW j \in Jobs, Alive(thread[j])
      PROVE  state'[j] = "ERROR" \/ Alive(thread[j])'
  <2>1. thread[j] \in Threads /\ threads[thread[j]].job = j
    BY <1>4, Types DEF Alive, ThreadOfJob
  <2>2. CASE thread[j] = t
    BY <1>3, <2>1, <2>2
  <2>3. CASE thread[j] # t
    BY <1>1, <1>4, <2>1, <2>3, Types DEF Alive
  <2> QED
    BY <2>2, <2>3
<1>5. RunningMeansAlive'
  BY <1>3, <1>4 DEF InTurn, RunningMeansAlive
<1>6. ASSUME NEW c \in Callers
      PROVE  StartHolds(c)'
  <2>1. StartHolds(c) /\ call[c].job \in Jobs
    BY Types DEF InTurn
  <2> QED
    BY <1>1, <1>3, <1>4, <2>1 DEF StartHolds, At
<1>7. ~Overlap'
  BY <1>1 DEF InTurn, Overlap, Busy, At
<1> QED
  BY <1>5, <1>6, <1>7 DEF InTurn

\* Every step, of a caller that takes its turn or of a thread.
LEMMA NextInTurn ==
    ASSUME TurnInv, InTurn, ~Overlap', [Next]_vars
    PROVE  InTurn'
<1>i. IInv
  BY DEF TurnInv
<1>1. ASSUME NEW c \in Callers,
             \/ \E j \in Jobs : StopCall(c, j)
             \/ StopAllCall(c)
      PROVE  InTurn'
  BY <1>1, <1>i, JobsOfOrder, BeginStopInTurn DEF StopCall, StopAllCall
<1>2. ASSUME NEW c \in Callers, StopAllNext(c)
      PROVE  InTurn'
  <2>1. call[c].rest \in Seq(Jobs) /\ call[c].rest # <<>>
    BY <1>2, <1>i DEF StopAllNext, IInv, RestInv, TypeOK
  <2>2. Head(call[c].rest) \in Jobs
    BY <2>1
  <2> QED
    BY <1>2, <1>i, <2>2, BeginStopInTurn DEF StopAllNext
<1>3. ASSUME NEW c \in Callers, TestJob(c) \/ TestThread(c)
      PROVE  InTurn'
  <2>1. /\ Busy(c) /\ UNCHANGED <<state, thread, threads>>
        /\ \E step \in StopSteps : Goto(c, step)
    BY <1>3 DEF TestJob, TestThread, Busy, At, StopSteps
  <2> QED
    BY <1>i, <2>1, StopMovesInTurn
<1>4. ASSUME NEW c \in Callers, StopJob(c) \/ TestAlive(c) \/ JoinReturns(c)
      PROVE  InTurn'
  <2>1. /\ Busy(c) /\ UNCHANGED <<thread, threads>>
        /\ \/ UNCHANGED state /\ \E step \in StopSteps : Goto(c, step)
           \/ Fail(c)
    BY <1>4 DEF StopJob, TestAlive, JoinReturns, Busy, At, StopSteps
  <2> QED
    BY <1>i, <2>1, StopMovesInTurn, FailInTurn
<1>5. CASE UNCHANGED vars
  BY <1>5 DEF vars, InTurn, Overlap, Busy, StartHolds, At, Alive, RunningMeansAlive
<1> QED
  BY <1>1, <1>2, <1>3, <1>4, <1>5, StartsInTurn, LaunchInTurn, SleepEndsInTurn,
     ClearInTurn, CrashInTurn DEF Next, CallerCalls, CallerStep

LEMMA InitTurnInv == MCInit => TurnInv
<1> SUFFICES ASSUME MCInit PROVE TurnInv
  OBVIOUS
<1>1. IInv
  BY InitInv DEF MCInit
<1>2. ThreadOfJob /\ InTurn
  BY DEF MCInit, Init, Idle, ThreadOfJob, InTurn, Overlap, Busy, At, StartHolds,
     StartSteps, RunningMeansAlive
<1> QED
  BY <1>1, <1>2 DEF TurnInv

LEMMA StepTurnInv == TurnInv /\ [MCNext]_<<vars, overlapped>> => TurnInv'
<1> SUFFICES ASSUME TurnInv, [MCNext]_<<vars, overlapped>>
             PROVE  TurnInv'
  OBVIOUS
<1>1. [Next]_vars
  BY DEF MCNext
<1>2. IInv'
  BY <1>1, StepInv DEF TurnInv
<1>3. ThreadOfJob'
  BY <1>1, ThreadOfJobKept DEF TurnInv, IInv
<1>4. ASSUME ~overlapped'
      PROVE  InTurn'
  <2>1. CASE MCNext
    <3>1. overlapped' = (overlapped \/ Overlap')
      BY <2>1 DEF MCNext
    <3>2. ~overlapped /\ ~Overlap'
      BY <1>4, <3>1, Zenon
    <3>3. InTurn
      BY <3>2 DEF TurnInv
    <3> QED
      BY <1>1, <3>2, <3>3, NextInTurn
  <2>2. CASE UNCHANGED <<vars, overlapped>>
    <3>1. InTurn
      BY <1>4, <2>2 DEF TurnInv
    <3> QED
      BY <2>2, <3>1 DEF vars, InTurn, Overlap, Busy, StartHolds, At, Alive,
         RunningMeansAlive
  <2> QED
    BY <2>1, <2>2
<1> QED
  BY <1>2, <1>3, <1>4 DEF TurnInv

\* For any number of callers, jobs and threads: as long as no two calls have
\* overlapped, a job that is said to be RUNNING has the thread that the last
\* start() launched for it, and that thread is alive.
THEOREM RunningMeansAliveInTurnHolds == MCSpec => []RunningMeansAliveInTurn
<1>1. TurnInv => RunningMeansAliveInTurn
  BY DEF TurnInv, InTurn, RunningMeansAliveInTurn
<1> QED
  BY InitTurnInv, StepTurnInv, <1>1, PTL DEF MCSpec
==============================================================================
