--------------------------- MODULE StreamJobManager ---------------------------
(***************************************************************************)
(* StreamJobManager (backend/spark_streaming/stream_job_manager.py):       *)
(* start, stop and stop_all are called by several threads, and each job    *)
(* runs in a thread of its own.  The lock guards the state only; the job   *)
(* and thread attributes are read and written outside of it, one access at *)
(* a time.  The methods for the second and the minute job are the same     *)
(* code over different attributes, here indexed by the job.                *)
(*                                                                         *)
(* SecondStreamJob.start() registers signal handlers, which Python refuses *)
(* outside the main thread, before it builds its pipeline: a manager's     *)
(* thread ends with an exception as soon as the Spark session is there.    *)
(***************************************************************************)
EXTENDS Integers, Sequences, FiniteSets

CONSTANTS Callers,   \* threads that call the manager
          Order,     \* the jobs in the order of stop_all
          MaxStarts  \* bound of the model: threads created in all

Jobs == {Order[i] : i \in DOMAIN Order}

ASSUME JobsAssumption == /\ Order \in Seq(Jobs) /\ Order # <<>>
                         /\ MaxStarts \in Nat

Threads == 1 .. MaxStarts
NoThread == 0

VARIABLES state,    \* _second_state, _minute_state
          job,      \* _second_job, _minute_job: an object or None
          thread,   \* _second_thread, _minute_thread
          threads,  \* the threads created so far and the job each one runs
          call,     \* per caller: what it is doing
          active    \* ACTIVE_STREAMS

vars == <<state, job, thread, threads, call, active>>

JobState == {"STOPPED", "STARTING", "RUNNING", "STOPPING", "ERROR"}

StartSteps == {"create", "assign", "launch", "sleep"}
StopSteps == {"testJob", "stopJob", "testThread", "testAlive", "join", "clear"}

\* rest: the jobs stop_all has still to stop.
Idle == [at |-> "idle", job |-> Order[1], rest |-> <<>>]

TypeOK == /\ state \in [Jobs -> JobState]
          /\ job \in [Jobs -> BOOLEAN]
          /\ thread \in [Jobs -> Threads \cup {NoThread}]
          /\ threads \in [Threads -> [job : Jobs,
                                      is : {"unborn", "new", "alive", "dead"}]]
          /\ call \in [Callers -> [at : StartSteps \cup StopSteps \cup
                                          {"idle", "next"},
                                   job : Jobs, rest : Seq(Jobs)]]
          /\ active \in Int

Init == /\ state = [j \in Jobs |-> "STOPPED"]
        /\ job = [j \in Jobs |-> FALSE]
        /\ thread = [j \in Jobs |-> NoThread]
        /\ threads = [t \in Threads |-> [job |-> Order[1], is |-> "unborn"]]
        /\ call = [c \in Callers |-> Idle]
        /\ active = 0

Alive(t) == t # NoThread /\ threads[t].is = "alive"

At(c, step) == call[c].at = step
Goto(c, step) == call' = [call EXCEPT ![c].at = step]

\* A method for job j is over; stop_all goes on with its next job.
Return(c) == Goto(c, IF call[c].rest = <<>> THEN "idle" ELSE "next")
SetState(j, st) == state' = [state EXCEPT ![j] = st]

\* "except Exception" of start and stop.
Fail(c) == SetState(call[c].job, "ERROR") /\ Return(c)

------------------------------------------------------------------------------
\* The bound: every start under way will find a thread left.
MayStart == Cardinality({c \in Callers : call[c].at \in {"create", "assign"}})
               < Cardinality({t \in Threads : threads[t].is = "unborn"})

\* start_second_job / start_minute_job; a refused call changes nothing.
StartCall(c, j) ==
    /\ At(c, "idle") /\ MayStart
    /\ state[j] \notin {"RUNNING", "STARTING"}
    /\ SetState(j, "STARTING")
    /\ call' = [call EXCEPT ![c].at = "create", ![c].job = j]
    /\ UNCHANGED <<job, thread, threads, active>>

\* The constructor of the job, which may raise.
CreateJob(c) ==
    /\ At(c, "create")
    /\ \/ /\ job' = [job EXCEPT ![call[c].job] = TRUE]
          /\ Goto(c, "assign")
          /\ UNCHANGED state
       \/ /\ Fail(c)
          /\ UNCHANGED job
    /\ UNCHANGED <<thread, threads, active>>

AssignThread(c) ==
    /\ At(c, "assign") /\ Goto(c, "launch")
    /\ \E t \in Threads :
         /\ threads[t].is = "unborn"
         /\ \A u \in 1 .. t - 1 : threads[u].is # "unborn"
         /\ threads' = [threads EXCEPT ![t] = [job |-> call[c].job, is |-> "new"]]
         /\ thread' = [thread EXCEPT ![call[c].job] = t]
    /\ UNCHANGED <<state, job, active>>

\* The attribute is read again for start(): by now another caller may have
\* cleared it, or replaced it and started the new thread itself; and the system
\* may refuse one more thread.
LaunchThread(c) ==
    LET t == thread[call[c].job] IN
    /\ At(c, "launch")
    /\ \/ /\ t # NoThread /\ threads[t].is = "new"
          /\ threads' = [threads EXCEPT ![t].is = "alive"]
          /\ Goto(c, "sleep")
          /\ UNCHANGED state
       \/ /\ Fail(c)
          /\ UNCHANGED threads
    /\ UNCHANGED <<job, thread, active>>

\* Mutant: no look at the state.
SleepEndsBlindly(c) ==
    /\ At(c, "sleep") /\ Return(c)
    /\ SetState(call[c].job, "RUNNING")
    /\ UNCHANGED <<job, thread, threads, active>>

\* After three seconds an error of the thread is looked for.
SleepEnds(c) ==
    /\ At(c, "sleep") /\ Return(c)
    /\ IF state[call[c].job] # "ERROR" THEN SetState(call[c].job, "RUNNING")
       ELSE UNCHANGED state
    /\ UNCHANGED <<job, thread, threads, active>>

------------------------------------------------------------------------------
\* stop_second_job / stop_minute_job up to the first access outside the lock;
\* a job that is not RUNNING is left alone.
BeginStop(c, j, rest) ==
    /\ call' = [call EXCEPT ![c] =
                  [at |-> IF state[j] = "RUNNING" THEN "testJob"
                          ELSE IF rest = <<>> THEN "idle" ELSE "next",
                   job |-> j, rest |-> rest]]
    /\ IF state[j] = "RUNNING" THEN SetState(j, "STOPPING") ELSE UNCHANGED state
    /\ UNCHANGED <<job, thread, threads, active>>

StopCall(c, j) == At(c, "idle") /\ BeginStop(c, j, <<>>)

\* stop_all; SparkSessionFactory.stop() at its end closes a session no query
\* runs in.
StopAllCall(c) == At(c, "idle") /\ BeginStop(c, Head(Order), Tail(Order))
StopAllNext(c) == /\ At(c, "next")
                  /\ BeginStop(c, Head(call[c].rest), Tail(call[c].rest))

\* "if self._second_job: self._second_job.stop()" reads the attribute twice.
TestJob(c) ==
    /\ At(c, "testJob")
    /\ Goto(c, IF job[call[c].job] THEN "stopJob" ELSE "testThread")
    /\ UNCHANGED <<state, job, thread, threads, active>>

\* SecondStreamJob.stop(): there is no query to stop; the gauge goes down.
StopJob(c) ==
    /\ At(c, "stopJob")
    /\ \/ /\ job[call[c].job]
          /\ active' = active - 1
          /\ Goto(c, "testThread")
          /\ UNCHANGED state
       \/ /\ ~job[call[c].job]
          /\ Fail(c)
          /\ UNCHANGED active
    /\ UNCHANGED <<job, thread, threads>>

\* "if self._second_thread and self._second_thread.is_alive():
\* self._second_thread.join(timeout=30)" reads the attribute three times.
TestThread(c) ==
    /\ At(c, "testThread")
    /\ Goto(c, IF thread[call[c].job] # NoThread THEN "testAlive" ELSE "clear")
    /\ UNCHANGED <<state, job, thread, threads, active>>

TestAlive(c) ==
    LET t == thread[call[c].job] IN
    /\ At(c, "testAlive")
    /\ \/ /\ t # NoThread
          /\ Goto(c, IF Alive(t) THEN "join" ELSE "clear")
          /\ UNCHANGED state
       \/ t = NoThread /\ Fail(c)
    /\ UNCHANGED <<job, thread, threads, active>>

\* join refuses a thread that was not started yet.
Joinable(t) == t # NoThread /\ threads[t].is # "new"

\* Mutant: a thread that outlives the timeout makes stop() return False.
JoinGivesUp(c) ==
    LET t == thread[call[c].job] IN
    /\ At(c, "join")
    /\ \/ Joinable(t) /\ ~Alive(t) /\ Goto(c, "clear") /\ UNCHANGED state
       \/ Alive(t) /\ Return(c) /\ UNCHANGED state
       \/ ~Joinable(t) /\ Fail(c)
    /\ UNCHANGED <<job, thread, threads, active>>

\* The thread has ended or the timeout is over.
JoinReturns(c) ==
    /\ At(c, "join")
    /\ \/ /\ Joinable(thread[call[c].job])
          /\ Goto(c, "clear")
          /\ UNCHANGED state
       \/ /\ ~Joinable(thread[call[c].job])
          /\ Fail(c)
    /\ UNCHANGED <<job, thread, threads, active>>

\* Mutant: the attributes are cleared, the state is not.
ClearAttributes(c) ==
    /\ At(c, "clear") /\ Return(c)
    /\ job' = [job EXCEPT ![call[c].job] = FALSE]
    /\ thread' = [thread EXCEPT ![call[c].job] = NoThread]
    /\ UNCHANGED <<state, threads, active>>

Clear(c) ==
    /\ At(c, "clear") /\ Return(c)
    /\ SetState(call[c].job, "STOPPED")
    /\ job' = [job EXCEPT ![call[c].job] = FALSE]
    /\ thread' = [thread EXCEPT ![call[c].job] = NoThread]
    /\ UNCHANGED <<threads, active>>

------------------------------------------------------------------------------

\* _run_second_job / _run_minute_job: start() raises in the thread.
ThreadCrashes(t) ==
    /\ threads[t].is = "alive"
    /\ threads' = [threads EXCEPT ![t].is = "dead"]
    /\ SetState(threads[t].job, "ERROR")
    /\ UNCHANGED <<job, thread, call, active>>

CallerStep(c) ==
    \/ CreateJob(c) \/ AssignThread(c) \/ LaunchThread(c) \/ SleepEnds(c)
    \/ StopAllNext(c) \/ TestJob(c) \/ StopJob(c) \/ TestThread(c)
    \/ TestAlive(c) \/ JoinReturns(c) \/ Clear(c)

CallerCalls(c) == \/ \E j \in Jobs : StartCall(c, j) \/ StopCall(c, j)
                  \/ StopAllCall(c)

Next == \/ \E c \in Callers : CallerCalls(c) \/ CallerStep(c)
        \/ \E t \in Threads : ThreadCrashes(t)

Spec == Init /\ [][Next]_vars

\* Every caller's thread is scheduled; no wait of a caller is unbounded.
Fairness == \A c \in Callers : WF_vars(CallerStep(c))

FairSpec == Spec /\ Fairness

------------------------------------------------------------------------------
\* A job is STARTING or STOPPING only while some caller is at work on it, with
\* any number of callers: start() refuses a job that is STARTING and stop() one
\* that is not RUNNING, so a state left behind would block it for good.
TransitionHasOwner ==
    \A j \in Jobs :
        /\ state[j] = "STARTING" =>
              \E c \in Callers : call[c].job = j /\ call[c].at \in StartSteps
        /\ state[j] = "STOPPING" =>
              \E c \in Callers : call[c].job = j /\ call[c].at \in StopSteps

\* And the transition comes to its end.
TransitionEnds ==
    \A j \in Jobs : state[j] \in {"STARTING", "STOPPING"}
                       ~> state[j] \notin {"STARTING", "STOPPING"}

\* RUNNING is never said of a job whose thread has ended.  Two calls at once can
\* break this (one stops and starts the job while the other sleeps), callers that
\* take turns cannot: see MCStreamJobManager.
RunningMeansAlive ==
    \A j \in Jobs : state[j] = "RUNNING" => Alive(thread[j])

------------------------------------------------------------------------------
\* What the repository says of the program and the code does not keep: TLC
\* refutes each of these (README, "Disagreements").

\* "Jobs laufen in separaten Threads": a job that runs does so until it is
\* stopped.
RunsUntilStopped ==
    [][ \A j \in Jobs : state[j] = "RUNNING" =>
                            state'[j] \in {"RUNNING", "STOPPING"} ]_vars

\* ACTIVE_STREAMS, "Anzahl aktiver Streaming-Jobs", counts something.
GaugeCountsJobs == 0 <= active
==============================================================================
