------------------------ MODULE SchedulerRefinement ------------------------
(***************************************************************************)
(* The scheduler implements ThreadSystem.  The environment of the running  *)
(* thread is in the registers, that of every other one in its state buffer *)
(* (slot 5), and the values of the parameters are in the vector they name; *)
(* while the scheduler runs, all are in the buffers.                       *)
(***************************************************************************)
EXTENDS Scheduler

StatusOf(s) == CASE s = "nonexistent" -> "unborn"
                 [] s = "created" -> "new"
                 [] s \in Waiting -> "waiting"
                 [] s \in Gone -> "gone"
                 [] OTHER -> s

\* The environment that registers stand for.
Environment(r) == [context |-> r.context, parameters |-> vectors[r.parameters]]

System == INSTANCE ThreadSystem WITH
    Nobody  <- None,
    status  <- [t \in Threads |-> StatusOf(state[t])],
    env     <- [t \in Threads |-> Environment(
                    IF phase = "run" /\ t = current THEN regs ELSE buffer[t])],
    running <- IF phase = "run" THEN current ELSE None

\* Each thread keeps its environment across preemption, waiting and wakeups,
\* and a thread that is gone never runs again: the scheduler implements
\* ThreadSystem.
ImplementsThreadSystem == System!Spec
=============================================================================
