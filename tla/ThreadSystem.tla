---------------------------- MODULE ThreadSystem ----------------------------
(***************************************************************************)
(* What the scheduler promises to the threads of a program, without saying *)
(* how: every thread has a dynamic environment of its own (dynamic-winds,  *)
(* the stack of delimiters, ports, handlers and parameters), which nobody  *)
(* but the thread changes; at most one thread runs; a thread that is gone  *)
(* stays gone; a thread that waits runs again only after it was woken, and *)
(* a ready thread goes on with the environment it left.                    *)
(***************************************************************************)
CONSTANTS
    Threads,
    Primordial,
    Contexts,       \* what a thread can be inside: extent, handlers, delimiters
    NewHandlers,    \* the handlers a thread starts with
    NoDelimiters,   \* the delimiters it starts with
    ParameterValues, \* what its parameters can hold
    Nobody          \* not a thread

VARIABLES
    status,         \* "unborn", "new", "ready", "running", "waiting" or "gone"
    env,            \* the environment of each thread
    running         \* the thread whose code runs, or Nobody

vars == <<status, env, running>>

\* The dynamic environment of a thread.
Environments == [context : Contexts, parameters : ParameterValues]

\* What a new thread has of its maker's: the extent and the values of the
\* parameters; it is inside no handler and no delimiter.
Inherited(e) ==
    [context    |-> [e.context EXCEPT !.handlers = NewHandlers,
                                      !.delimiters = NoDelimiters],
     parameters |-> e.parameters]

Init ==
    /\ status = [t \in Threads |-> IF t = Primordial THEN "running" ELSE "unborn"]
    /\ \E e \in Environments : env = [t \in Threads |-> e]
    /\ running = Primordial

\* status after the waiting threads of W were woken
Woken(W) == [t \in Threads |-> IF t \in W THEN "ready" ELSE status[t]]

WaitingThreads == { t \in Threads : status[t] = "waiting" }

\* The running thread changes its own environment, or does nothing visible.
Compute ==
    /\ running # Nobody
    /\ \E e \in Environments : env' = [env EXCEPT ![running] = e]
    /\ UNCHANGED <<status, running>>

\* The running thread makes a thread.
Create(t) ==
    /\ running # Nobody
    /\ status[t] = "unborn"
    /\ status' = [status EXCEPT ![t] = "new"]
    /\ env' = [env EXCEPT ![t] = Inherited(env[running])]
    /\ UNCHANGED running

Start(t) ==
    /\ running # Nobody
    /\ status[t] = "new"
    /\ status' = [status EXCEPT ![t] = "ready"]
    /\ UNCHANGED <<env, running>>

\* Waiting threads are woken: by the running thread, or by an event.
Wake ==
    /\ \E W \in SUBSET WaitingThreads : status' = Woken(W)
    /\ UNCHANGED <<env, running>>

\* The running thread ends another one, which may wake others.
Kill(t) ==
    /\ running \notin {Nobody, t}
    /\ t # Primordial
    /\ status[t] \notin {"unborn", "gone"}
    /\ \E W \in SUBSET WaitingThreads : status' = [Woken(W) EXCEPT ![t] = "gone"]
    /\ UNCHANGED <<env, running>>

\* The running thread gives up the processor: it stays ready or waits.
Suspend ==
    /\ running # Nobody
    /\ \E s \in {"ready", "waiting"} : status' = [status EXCEPT ![running] = s]
    /\ running' = Nobody
    /\ UNCHANGED env

\* The running thread ends, which may wake others.
Leave ==
    /\ running \notin {Nobody, Primordial}
    /\ \E W \in SUBSET WaitingThreads :
          status' = [Woken(W) EXCEPT ![running] = "gone"]
    /\ running' = Nobody
    /\ UNCHANGED env

\* A ready thread goes on.
Dispatch(t) ==
    /\ running = Nobody
    /\ status[t] = "ready"
    /\ status' = [status EXCEPT ![t] = "running"]
    /\ running' = t
    /\ UNCHANGED env

Next ==
    \/ Compute \/ Wake \/ Suspend \/ Leave
    \/ \E t \in Threads : Create(t) \/ Start(t) \/ Kill(t) \/ Dispatch(t)

Spec == Init /\ [][Next]_vars
=============================================================================
