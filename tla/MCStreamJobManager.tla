-------------------------- MODULE MCStreamJobManager --------------------------
(* Both jobs under two callers.  The run remembers whether calls of the two   *)
(* have ever overlapped: one of the properties is kept only under callers     *)
(* that take turns, the others under any.                                     *)
EXTENDS StreamJobManager

VARIABLE overlapped

MCOrder == <<"second", "minute">>

Busy(c) == ~At(c, "idle")
Overlap == \E c, d \in Callers : c # d /\ Busy(c) /\ Busy(d)

MCInit == Init /\ overlapped = FALSE
MCNext == Next /\ overlapped' = (overlapped \/ Overlap')
MCSpec == MCInit /\ [][MCNext]_<<vars, overlapped>> /\ Fairness

\* What health_check takes for granted of a healthy job: as long as start, stop
\* and stop_all are called one after the other, from whatever thread, RUNNING is
\* never said of a job whose thread has ended, whenever an old thread, the new
\* one or a join that timed out comes in between.
RunningMeansAliveInTurn == ~overlapped => RunningMeansAlive
==============================================================================
