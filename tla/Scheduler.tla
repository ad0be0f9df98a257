----------------------------- MODULE Scheduler -----------------------------
(***************************************************************************)
(* The cooperative scheduler of the runtime system (scheduler.scm, over    *)
(* the thread, mutex and event structures of library.scm).                 *)
(*                                                                         *)
(* One operating-system thread executes at most one Scheme thread at a     *)
(* time.  Scheme code runs in phase "run"; the scheduler itself is         *)
(* compiled with (disable-interrupts), so an operation of a thread is one  *)
(* action, and the passes of ##sys#schedule are the phases                 *)
(*                                                                         *)
(*     "timeouts" -> ("sleep" ->) "io" -> "fetch" -> "run"                 *)
(*                                                                         *)
(* between which only the clock, the file descriptors and the signals of   *)
(* the process may change.  "halted" is the runtime's "deadlock" panic.    *)
(*                                                                         *)
(* Abstractions: timeout-list, which the code keeps sorted by deadline, is *)
(* the set of its <<deadline, thread>> entries; the threads registered in  *)
(* an fd-list entry, a recipients list or a waiters list are sets; threads *)
(* unblocked by one pass enter the ready queue in any order.               *)
(***************************************************************************)
EXTENDS Integers, Sequences, FiniteSets

CONSTANTS
    Threads,        \* thread structures, living or yet to be made
    Primordial,     \* ##sys#primordial-thread
    Fds,            \* file descriptors threads wait for
    Mutexes,        \* mutex structures
    CVars,          \* condition-variable structures
    Contexts,       \* what a thread is inside: dynamic-winds and ports (extent),
                    \* ##sys#current-exception-handler (handlers), dc-stack (delimiters)
    NewHandlers,    \* the handler list of a new thread
    NoDelimiters,   \* '()
    ParameterValues, \* contents of a parameter vector
    Delays,         \* relative timeouts threads ask for
    MaxTime,        \* bound on the clock
    AbortOnThreadExceptions, \* C_abort_on_thread_exceptions
    None            \* #f

Directions == {"input", "output", "all"}

\* What ##sys#make-thread saves for a new thread of the registers of its maker:
\* it has handlers of its own and is inside no delimiter.
NewContext(c) == [c EXCEPT !.handlers = NewHandlers, !.delimiters = NoDelimiters]

\* The registers name the parameter vector: it belongs to the thread it was made for.
Registers == [context : Contexts, parameters : Threads]

ASSUME PrimordialAssumption == Primordial \in Threads
ASSUME TimeAssumption == Delays \subseteq Nat /\ MaxTime \in Nat
ASSUME FiniteAssumption == IsFiniteSet(Threads)
ASSUME ContextsAssumption ==
    /\ Contexts # {} /\ \A c \in Contexts : NewContext(c) \in Contexts
    /\ ParameterValues # {}
ASSUME AbortAssumption == AbortOnThreadExceptions \in BOOLEAN
\* A block object tells what kind of thing the thread waits for.
ASSUME KindsAssumption ==
    /\ Threads \cap (Mutexes \cup CVars) = {}
    /\ Mutexes \cap CVars = {}
    /\ (Fds \X Directions) \cap (Threads \cup Mutexes \cup CVars) = {}
    /\ None \notin Threads \cup Mutexes \cup CVars \cup (Fds \X Directions) \cup Nat

VARIABLES
    state,          \* slot 3 of each thread
    timeout,        \* slot 4: deadline the thread waits for, or None
    buffer,         \* slot 5: the registers saved for the thread
    owned,          \* slot 8: mutexes the thread owns
    blockObj,       \* slot 11: what the thread waits for, or None
    recipients,     \* slot 12: threads that joined the thread
    byTimeout,      \* slot 13: unblocked by timeout?
    mutex,          \* owner, waiters and abandoned slots of each mutex
    cvarWaiters,    \* waiting threads of each condition variable
    readyQueue,     \* ready-queue-head .. ready-queue-tail
    timeoutList,    \* entries of timeout-list
    fdList,         \* threads registered for each descriptor in fd-list
    current,        \* ##sys#current-thread
    regs,           \* dynamic-winds, ports, handlers, dc-stack, parameter vector
    vectors,        \* the contents of the parameter vectors
    phase,          \* where the process is
    eintr,          \* local variable of ##sys#schedule
    now             \* current_process_milliseconds

threadVars == <<state, timeout, blockObj, byTimeout>>
queueVars  == <<readyQueue, timeoutList, fdList>>
syncVars   == <<owned, recipients, mutex, cvarWaiters>>
schedVars  == <<current, regs, vectors, phase, eintr, buffer>>
vars == <<threadVars, queueVars, syncVars, schedVars, now>>

ThreadStates == {"nonexistent", "created", "ready", "running", "blocked",
                 "sleeping", "terminated", "dead"}
Gone    == {"terminated", "dead"}
Waiting == {"blocked", "sleeping"}
IoObjs    == Fds \X Directions
BlockObjs == Threads \cup Mutexes \cup CVars \cup IoObjs
Phases == {"run", "timeouts", "sleep", "io", "fetch", "halted"}

Init ==
    /\ state = [t \in Threads |-> IF t = Primordial THEN "running"
                                                    ELSE "nonexistent"]
    /\ timeout = [t \in Threads |-> None]
    /\ blockObj = [t \in Threads |-> None]
    /\ byTimeout = [t \in Threads |-> FALSE]
    /\ \E c \in Contexts :
         buffer = [t \in Threads |-> [context |-> NewContext(c), parameters |-> t]]
    /\ regs = buffer[Primordial]
    /\ \E v \in ParameterValues : vectors = [t \in Threads |-> v]
    /\ owned = [t \in Threads |-> {}]
    /\ recipients = [t \in Threads |-> {}]
    /\ mutex = [m \in Mutexes |->
                  [owner |-> None, waiters |-> {}, abandoned |-> FALSE]]
    /\ cvarWaiters = [c \in CVars |-> {}]
    /\ readyQueue = <<>>
    /\ timeoutList = {}
    /\ fdList = [f \in Fds |-> {}]
    /\ current = Primordial
    /\ phase = "run"
    /\ eintr = FALSE
    /\ now = 1

-----------------------------------------------------------------------------
(***************************************************************************)
(* Helpers shared by the operations.                                       *)
(***************************************************************************)

\* f with every member of S mapped to v
With(f, S, v) == [x \in DOMAIN f |-> IF x \in S THEN v ELSE f[x]]

\* The orders in which the threads of W can be appended to the ready queue.
Orders(W) == { q \in [1..Cardinality(W) -> W] :
                 \A i, j \in DOMAIN q : q[i] = q[j] => i = j }

\* ##sys#remove-from-timeout-list drops the first entry of a thread, the one
\* with its earliest deadline.
RemoveFromTimeoutList(W) ==
    { e \in timeoutList : e[2] \in W =>
        \E f \in timeoutList : f[2] = e[2] /\ f[1] < e[1] }

\* ##sys#clear-i/o-state-for-thread! finds the entry through the block object.
ClearIoState(W) ==
    [f \in Fds |-> fdList[f] \ { t \in W : \E d \in Directions :
                                              blockObj[t] = <<f, d>> }]

FdListEmpty(fl) == \A f \in Fds : fl[f] = {}

\* Mutant of BasicUnblock: the block object is left in slot 11.
BasicUnblockKeepsObject(W) ==
    /\ state' = With(state, W, "ready")
    /\ timeout' = With(timeout, W, None)
    /\ \E q \in Orders(W) : readyQueue' = readyQueue \o q
    /\ UNCHANGED blockObj

\* ##sys#thread-basic-unblock! of every thread of W.
BasicUnblock(W) ==
    /\ state' = With(state, W, "ready")
    /\ blockObj' = With(blockObj, W, None)
    /\ timeout' = With(timeout, W, None)
    /\ \E q \in Orders(W) : readyQueue' = readyQueue \o q

\* Mutant of ThreadUnblock: the thread stays registered in fd-list.
ThreadUnblockKeepsIo(S) ==
    LET W == { t \in S : state[t] \in Waiting }
    IN  /\ timeoutList' = RemoveFromTimeoutList(W)
        /\ BasicUnblock(W)
        /\ UNCHANGED fdList

\* Mutant of ThreadUnblock: the state of the thread is not looked at.
ThreadUnblockAlways(S) ==
    /\ timeoutList' = RemoveFromTimeoutList(S)
    /\ fdList' = ClearIoState(S)
    /\ BasicUnblock(S)

\* ##sys#thread-unblock!, which ignores threads that do not wait.
ThreadUnblock(S) ==
    LET W == { t \in S : state[t] \in Waiting }
    IN  /\ timeoutList' = RemoveFromTimeoutList(W)
        /\ fdList' = ClearIoState(W)
        /\ BasicUnblock(W)

\* ##sys#force-primordial.
ForcePrimordial ==
    /\ byTimeout' = [byTimeout EXCEPT ![Primordial] = FALSE]
    /\ ThreadUnblock({Primordial})

\* Entry of ##sys#schedule: the registers go to the thread's buffer.
EnterScheduler ==
    /\ phase' = "timeouts"
    /\ eintr' = FALSE
    /\ buffer' = [buffer EXCEPT ![current] = regs]
    /\ UNCHANGED <<current, regs, vectors, now>>

\* Mutant of Block: an entry is listed also when there is no deadline.
BlockAlwaysListed(st, obj, tm) ==
    /\ state' = [state EXCEPT ![current] = st]
    /\ byTimeout' = [byTimeout EXCEPT ![current] = FALSE]
    /\ blockObj' = [blockObj EXCEPT ![current] = obj]
    /\ timeout' = [timeout EXCEPT ![current] = tm]
    /\ timeoutList' = timeoutList \cup {<<tm, current>>}
    /\ UNCHANGED readyQueue
    /\ EnterScheduler

\* The current thread waits for obj, until the deadline tm if there is one.
Block(st, obj, tm) ==
    /\ state' = [state EXCEPT ![current] = st]
    /\ byTimeout' = [byTimeout EXCEPT ![current] = FALSE]
    /\ blockObj' = [blockObj EXCEPT ![current] = obj]
    /\ timeout' = [timeout EXCEPT ![current] = tm]
    /\ timeoutList' = IF tm = None THEN timeoutList
                                   ELSE timeoutList \cup {<<tm, current>>}
    /\ UNCHANGED readyQueue
    /\ EnterScheduler

\* Deadlines a blocking operation may be given: none, or a moment to come.
Deadlines == { now + d : d \in { e \in Delays : now + e <= MaxTime } }

-----------------------------------------------------------------------------
(***************************************************************************)
(* Operations of the current thread (phase "run").                         *)
(***************************************************************************)

\* A thread enters or leaves dynamic extents, handlers or delimiters, or gives
\* its parameters values.
SetContext ==
    /\ phase = "run"
    /\ \E c \in Contexts : regs' = [regs EXCEPT !.context = c]
    /\ \E v \in ParameterValues :
          vectors' = [vectors EXCEPT ![regs.parameters] = v]
    /\ UNCHANGED <<threadVars, queueVars, syncVars, current, phase, eintr,
                   buffer, now>>

\* Mutant of Yield: the thread is put at the front of the queue.
YieldToFront ==
    /\ phase = "run"
    /\ state' = [state EXCEPT ![current] = "ready"]
    /\ byTimeout' = [byTimeout EXCEPT ![current] = FALSE]
    /\ readyQueue' = <<current>> \o readyQueue
    /\ UNCHANGED <<timeout, blockObj, timeoutList, fdList, syncVars>>
    /\ EnterScheduler

\* The timer interrupt (##sys#interrupt-hook 255) or ##sys#thread-yield!.
Yield ==
    /\ phase = "run"
    /\ state' = [state EXCEPT ![current] = "ready"]
    /\ byTimeout' = [byTimeout EXCEPT ![current] = FALSE]
    /\ readyQueue' = Append(readyQueue, current)
    /\ UNCHANGED <<timeout, blockObj, timeoutList, fdList, syncVars>>
    /\ EnterScheduler

\* ##sys#thread-sleep!, also the sleep procedure (sleep-hook).
Sleep(tm) ==
    /\ phase = "run"
    /\ Block("blocked", None, tm)
    /\ UNCHANGED <<fdList, syncVars>>

\* A port or socket operation that would block: thread-block-for-timeout!
\* when the port has a timeout, thread-block-for-i/o!, then a yield.
BlockForIo(fd, dir, tm) ==
    /\ phase = "run"
    /\ Block("blocked", <<fd, dir>>, tm)
    /\ fdList' = [fdList EXCEPT ![fd] = @ \cup {current}]
    /\ UNCHANGED syncVars

\* Mutant of Join: whether the thread has ended already is not asked.
JoinUnchecked(t, tm) ==
    /\ phase = "run"
    /\ state[t] # "nonexistent"
    /\ Block("blocked", t, tm)
    /\ recipients' = [recipients EXCEPT ![t] = @ \cup {current}]
    /\ UNCHANGED <<fdList, owned, mutex, cvarWaiters>>

\* ##sys#thread-block-for-termination!, with a timeout or without.
Join(t, tm) ==
    /\ phase = "run"
    /\ state[t] \notin Gone \cup {"nonexistent"}
    /\ Block("blocked", t, tm)
    /\ recipients' = [recipients EXCEPT ![t] = @ \cup {current}]
    /\ UNCHANGED <<fdList, owned, mutex, cvarWaiters>>

\* Mutant of MakeThread: the parameter vector is not copied.
MakeThreadShared(t) ==
    /\ phase = "run"
    /\ state[t] = "nonexistent"
    /\ state' = [state EXCEPT ![t] = "created"]
    /\ buffer' = [buffer EXCEPT ![t] = [context |-> NewContext(regs.context),
                                       parameters |-> regs.parameters]]
    /\ UNCHANGED <<timeout, blockObj, byTimeout, queueVars, syncVars, current,
                   regs, vectors, phase, eintr, now>>

\* ##sys#make-thread: the new thread is in the dynamic-winds and has the ports
\* of its maker, a copy of its parameter vector, and no delimiters or handlers of it.
MakeThread(t) ==
    /\ phase = "run"
    /\ state[t] = "nonexistent"
    /\ state' = [state EXCEPT ![t] = "created"]
    /\ vectors' = [vectors EXCEPT ![t] = vectors[regs.parameters]]
    /\ buffer' = [buffer EXCEPT ![t] = [context |-> NewContext(regs.context),
                                       parameters |-> t]]
    /\ UNCHANGED <<timeout, blockObj, byTimeout, queueVars, syncVars, current,
                   regs, phase, eintr, now>>

\* A created thread is started: ##sys#add-to-ready-queue.
StartThread(t) ==
    /\ phase = "run"
    /\ state[t] = "created"
    /\ state' = [state EXCEPT ![t] = "ready"]
    /\ readyQueue' = Append(readyQueue, t)
    /\ UNCHANGED <<timeout, blockObj, byTimeout, timeoutList, fdList, syncVars,
                   schedVars, now>>

\* A thread takes a mutex nobody owns.
MutexLock(m) ==
    /\ phase = "run"
    /\ mutex[m].owner = None
    /\ mutex' = [mutex EXCEPT ![m] =
                   [owner |-> current, waiters |-> @.waiters, abandoned |-> FALSE]]
    /\ owned' = [owned EXCEPT ![current] = @ \cup {m}]
    /\ UNCHANGED <<threadVars, queueVars, recipients, cvarWaiters, schedVars, now>>

\* A thread waits for a mutex that is owned.
MutexWait(m) ==
    /\ phase = "run"
    /\ mutex[m].owner # None
    /\ Block("sleeping", m, None)
    /\ mutex' = [mutex EXCEPT ![m].waiters = @ \cup {current}]
    /\ UNCHANGED <<fdList, owned, recipients, cvarWaiters>>

\* The owner releases a mutex: to one of the threads waiting for it, if any.
MutexUnlock(m) ==
    LET waiting == { w \in mutex[m].waiters :
                       state[w] \in Waiting /\ blockObj[w] = m }
    IN  /\ phase = "run"
        /\ mutex[m].owner = current
        /\ \/ /\ waiting = {}
              /\ mutex' = [mutex EXCEPT ![m] =
                    [owner |-> None, waiters |-> {}, abandoned |-> @.abandoned]]
              /\ owned' = [owned EXCEPT ![current] = @ \ {m}]
              /\ UNCHANGED <<state, timeout, blockObj, queueVars>>
           \/ \E w \in waiting :
                 /\ mutex' = [mutex EXCEPT ![m] =
                       [owner |-> w, waiters |-> waiting \ {w},
                        abandoned |-> @.abandoned]]
                 /\ owned' = [t \in Threads |->
                                 IF t = w THEN owned[t] \cup {m}
                                 ELSE owned[t] \ {m}]
                 /\ ThreadUnblock({w})
        /\ UNCHANGED <<byTimeout, recipients, cvarWaiters, schedVars, now>>

\* A thread waits for a condition variable, or wakes one of its waiters.
CVarWait(c) ==
    /\ phase = "run"
    /\ Block("sleeping", c, None)
    /\ cvarWaiters' = [cvarWaiters EXCEPT ![c] = @ \cup {current}]
    /\ UNCHANGED <<fdList, owned, recipients, mutex>>

CVarSignal(c) ==
    /\ phase = "run"
    /\ \E w \in cvarWaiters[c] :
          /\ cvarWaiters' = [cvarWaiters EXCEPT ![c] = @ \ {w}]
          /\ ThreadUnblock({w})
    /\ UNCHANGED <<byTimeout, owned, recipients, mutex, schedVars, now>>

-----------------------------------------------------------------------------
\* Mutant of AbandonMutexes: the mutexes keep their owner.
AbandonMutexesOwned(t) ==
    /\ mutex' = [m \in Mutexes |-> IF m \in owned[t]
                                   THEN [mutex[m] EXCEPT !.waiters = {}] ELSE mutex[m]]
    /\ owned' = [owned EXCEPT ![t] = {}]

\* ##sys#abandon-mutexes: the mutexes of the thread become free, and the list
\* of the thread (slot 8) empty.
AbandonMutexes(t) ==
    /\ mutex' = With(mutex, owned[t],
                     [owner |-> None, waiters |-> {}, abandoned |-> TRUE])
    /\ owned' = [owned EXCEPT ![t] = {}]

(***************************************************************************)
(* The end of a thread: ##sys#thread-kill!, entered with the threads of    *)
(* "forced" just unblocked by its caller.  It abandons the mutexes of the  *)
(* thread, takes the thread off every list, and unblocks the threads that  *)
(* joined it (their entries in timeout-list stay behind).                  *)
(***************************************************************************)
ThreadKill(t, s, forced) ==
    LET waiters   == UNION { mutex[m].waiters : m \in owned[t] }
        unblocked == { w \in waiters : state[w] \in Waiting } \ forced
        cleared   == forced \cup unblocked     \* by ##sys#thread-unblock!
        joined    == { r \in recipients[t] \ (cleared \cup {t}) : blockObj[r] = t }
        obj       == IF t \in cleared THEN None ELSE blockObj[t]
    IN  /\ state' = [With(state, cleared \cup joined, "ready") EXCEPT ![t] = s]
        /\ timeout' = With(timeout, cleared \cup joined \cup {t}, None)
        /\ blockObj' = With(blockObj, cleared \cup joined \cup {t}, None)
        /\ timeoutList' = RemoveFromTimeoutList(cleared \cup {t})
        /\ fdList' = ClearIoState(cleared \cup {t})
        /\ \E p \in Orders(forced), q \in Orders(unblocked), r \in Orders(joined) :
              readyQueue' = readyQueue \o p \o q \o r
        /\ AbandonMutexes(t)
        /\ cvarWaiters' = [c \in CVars |-> IF c = obj THEN cvarWaiters[c] \ {t}
                                           ELSE cvarWaiters[c]]
        /\ recipients' = [x \in Threads |-> IF x = t THEN {}
                                            ELSE IF x = obj THEN recipients[x] \ {t}
                                            ELSE recipients[x]]
        /\ UNCHANGED byTimeout

\* The current thread returns from its thunk (the primordial thread exits).
Finish ==
    /\ phase = "run"
    /\ current # Primordial
    /\ ThreadKill(current, "dead", {})
    /\ EnterScheduler

\* The current thread terminates another one.
Terminate(t) ==
    /\ phase = "run"
    /\ t \notin {Primordial, current}
    /\ state[t] \notin Gone \cup {"nonexistent"}
    /\ ThreadKill(t, "terminated", {})
    /\ UNCHANGED <<schedVars, now>>

\* ##sys#default-exception-handler: an exception nobody handles ends the
\* thread; with -:ea it is also signalled in the primordial thread.
UncaughtException ==
    /\ phase = "run"
    /\ current # Primordial
    /\ ThreadKill(current, "terminated",
                  { t \in {Primordial} : AbortOnThreadExceptions
                                         /\ state[t] \in Waiting })
    /\ EnterScheduler

-----------------------------------------------------------------------------
(***************************************************************************)
(* The passes of ##sys#schedule.                                           *)
(***************************************************************************)

\* Mutant of Valid: "why do we check this?"
ValidAlways(e) == TRUE

\* An entry counts only while the thread still waits for its deadline.
Valid(e) == e[1] = timeout[e[2]]

\* Unblock threads waiting for timeout; the rest of the list starts at the
\* first entry that is still waited for.
UnblockTimeouts ==
    LET expired == { e \in timeoutList : Valid(e) /\ e[1] <= now }
        pending == { e \in timeoutList : Valid(e) /\ e[1] > now }
        W       == { e[2] : e \in expired }
    IN  /\ phase = "timeouts"
        /\ byTimeout' = With(byTimeout, W, TRUE)
        /\ fdList' = ClearIoState(W)
        /\ BasicUnblock(W)
        /\ timeoutList' = { e \in timeoutList : \E f \in pending : f[1] <= e[1] }
        /\ phase' = IF readyQueue' = <<>> /\ FdListEmpty(fdList') /\ pending # {}
                    THEN "sleep" ELSE "io"
        /\ UNCHANGED <<syncVars, current, regs, vectors, eintr, buffer, now>>

\* Nothing is ready and nothing waits for I/O: C_msleep until the first
\* deadline, or until a signal arrives.
MSleep ==
    /\ phase = "sleep"
    /\ \E e \in timeoutList : e[1] <= now
    /\ phase' = "io"
    /\ eintr' = FALSE
    /\ UNCHANGED <<threadVars, queueVars, syncVars, current, regs, vectors, buffer, now>>

MSleepSignalled ==
    /\ phase = "sleep"
    /\ phase' = "io"
    /\ eintr' = TRUE
    /\ UNCHANGED <<threadVars, queueVars, syncVars, current, regs, vectors, buffer, now>>

\* The sleep was interrupted: let the primordial thread handle the signal.
SleepInterrupted ==
    /\ phase = "io"
    /\ eintr
    /\ buffer' = [buffer EXCEPT ![current] = regs]
    /\ ForcePrimordial
    /\ phase' = "fetch"
    /\ UNCHANGED <<syncVars, current, regs, vectors, eintr, now>>

NoIo ==
    /\ phase = "io"
    /\ ~eintr
    /\ FdListEmpty(fdList)
    /\ phase' = "fetch"
    /\ UNCHANGED <<threadVars, queueVars, syncVars, current, regs, vectors, eintr, buffer,
                   now>>

Polling == phase = "io" /\ ~eintr /\ ~FdListEmpty(fdList)

\* create-fdset: the events asked for a descriptor; poll() may report an
\* error as both events although none was asked for.
Asked(fd) == { ev \in {"in", "out"} : \E t \in fdList[fd], d \in Directions :
                 /\ blockObj[t] = <<fd, d>>
                 /\ d \in (IF ev = "in" THEN {"input", "all"} ELSE {"output", "all"}) }

PollResults == { r \in [Fds -> SUBSET {"in", "out"}] :
                   /\ \E fd \in Fds : r[fd] # {}
                   /\ \A fd \in Fds :
                        \/ r[fd] \subseteq Asked(fd)
                        \/ (r[fd] = {"in", "out"} /\ fdList[fd] # {}) }

\* fdset-test
FdsetTest(r, dir) == CASE dir = "input"  -> "in" \in r
                       [] dir = "output" -> "out" \in r
                       [] dir = "all"    -> r # {}

\* poll() reports descriptors: ##sys#unblock-threads-for-i/o runs through the
\* fd-list entries of the ready ones.
PollReady ==
    /\ Polling
    /\ \E r \in PollResults :
         LET seen(fd) == { t \in fdList[fd] : r[fd] # {} }
             wake(fd) == { t \in seen(fd) : /\ ~byTimeout[t]
                                           /\ blockObj[t] \in IoObjs =>
                                                FdsetTest(r[fd], blockObj[t][2]) }
             W == UNION { wake(fd) : fd \in Fds }
         IN  /\ fdList' = [fd \in Fds |->
                             fdList[fd] \ (wake(fd) \cup
                                { t \in seen(fd) : byTimeout[t] })]
             /\ timeoutList' = RemoveFromTimeoutList({ t \in W : timeout[t] # None })
             /\ BasicUnblock(W)
    /\ phase' = "fetch"
    /\ UNCHANGED <<byTimeout, syncVars, current, regs, vectors, eintr, buffer, now>>

\* poll() reports nothing: at once if some thread is ready, else when the
\* first deadline has come.
PollTimeout ==
    /\ Polling
    /\ readyQueue # <<>> \/ \E e \in timeoutList : e[1] <= now
    /\ phase' = "fetch"
    /\ UNCHANGED <<threadVars, queueVars, syncVars, current, regs, vectors, eintr, buffer,
                   now>>

\* poll() returns -1, for a signal.
PollInterrupted ==
    /\ Polling
    /\ ForcePrimordial
    /\ phase' = "fetch"
    /\ UNCHANGED <<syncVars, current, regs, vectors, eintr, buffer, now>>

\* Fetch and activate the next ready thread.
Switch ==
    /\ phase = "fetch"
    /\ readyQueue # <<>>
    /\ state[Head(readyQueue)] = "ready"
    /\ readyQueue' = Tail(readyQueue)
    /\ current' = Head(readyQueue)
    /\ state' = [state EXCEPT ![Head(readyQueue)] = "running"]
    /\ regs' = buffer[Head(readyQueue)]
    /\ phase' = "run"
    /\ UNCHANGED <<timeout, blockObj, byTimeout, timeoutList, fdList, syncVars,
                   vectors, eintr, buffer, now>>

\* An entry whose thread was killed meanwhile is passed over.
SkipThread ==
    /\ phase = "fetch"
    /\ readyQueue # <<>>
    /\ state[Head(readyQueue)] # "ready"
    /\ readyQueue' = Tail(readyQueue)
    /\ UNCHANGED <<threadVars, timeoutList, fdList, syncVars, schedVars, now>>

\* Mutant of NothingReady: threads waiting for a deadline are forgotten.
NothingReadyNoTimeouts ==
    /\ phase = "fetch"
    /\ readyQueue = <<>>
    /\ phase' = IF FdListEmpty(fdList) THEN "halted" ELSE "timeouts"
    /\ UNCHANGED <<threadVars, queueVars, syncVars, current, regs, vectors, eintr, buffer,
                   now>>

\* No thread is ready: another round, or the "deadlock" panic.
NothingReady ==
    /\ phase = "fetch"
    /\ readyQueue = <<>>
    /\ phase' = IF timeoutList = {} /\ FdListEmpty(fdList)
                THEN "halted" ELSE "timeouts"
    /\ UNCHANGED <<threadVars, queueVars, syncVars, current, regs, vectors, eintr, buffer,
                   now>>

\* Time passes, up to the bound.
Tick ==
    /\ now < MaxTime
    /\ phase # "halted"
    /\ now' = now + 1
    /\ UNCHANGED <<threadVars, queueVars, syncVars, schedVars>>

-----------------------------------------------------------------------------
BlockingCall ==
    \/ \E tm \in Deadlines : Sleep(tm)
    \/ \E fd \in Fds, dir \in Directions, tm \in Deadlines \cup {None} :
          BlockForIo(fd, dir, tm)
    \/ \E t \in Threads, tm \in Deadlines \cup {None} : Join(t, tm)
    \/ \E m \in Mutexes : MutexWait(m)
    \/ \E c \in CVars : CVarWait(c)

OtherCall ==
    \/ SetContext
    \/ \E t \in Threads : MakeThread(t) \/ StartThread(t) \/ Terminate(t)
    \/ \E m \in Mutexes : MutexLock(m) \/ MutexUnlock(m)
    \/ \E c \in CVars : CVarSignal(c)
    \/ Finish
    \/ UncaughtException

SchedulerPass ==
    \/ UnblockTimeouts \/ MSleep \/ MSleepSignalled \/ SleepInterrupted \/ NoIo
    \/ PollReady \/ PollTimeout \/ PollInterrupted \/ Switch \/ SkipThread \/ NothingReady

Next == Yield \/ BlockingCall \/ OtherCall \/ SchedulerPass \/ Tick

Spec == Init /\ [][Next]_vars

\* The process is scheduled and its clock runs; a sleep or a poll ends when its
\* time has come (nothing makes a descriptor ready or a signal arrive); the
\* timer interrupt ends every slice of a thread.
Fairness ==
    /\ WF_vars(UnblockTimeouts \/ SleepInterrupted \/ NoIo \/ Switch \/ SkipThread
               \/ NothingReady)
    /\ WF_vars(MSleep)
    /\ WF_vars(PollTimeout)
    /\ WF_vars(Yield)
    /\ WF_vars(Tick)

FairSpec == Spec /\ Fairness
-----------------------------------------------------------------------------
(***************************************************************************)
(* Properties.                                                             *)
(***************************************************************************)

\* Type correctness: the slots hold what the comments of make-thread say.
TypeOK ==
    /\ state \in [Threads -> ThreadStates]
    /\ timeout \in [Threads -> Nat \cup {None}]
    /\ buffer \in [Threads -> Registers]
    /\ owned \in [Threads -> SUBSET Mutexes]
    /\ blockObj \in [Threads -> BlockObjs \cup {None}]
    /\ recipients \in [Threads -> SUBSET Threads]
    /\ byTimeout \in [Threads -> BOOLEAN]
    /\ mutex \in [Mutexes -> [owner : Threads \cup {None},
                              waiters : SUBSET Threads, abandoned : BOOLEAN]]
    /\ cvarWaiters \in [CVars -> SUBSET Threads]
    /\ readyQueue \in Seq(Threads)
    /\ timeoutList \subseteq Nat \X Threads
    /\ fdList \in [Fds -> SUBSET Threads]
    /\ current \in Threads
    /\ regs \in Registers
    /\ vectors \in [Threads -> ParameterValues]
    /\ phase \in Phases
    /\ eintr \in BOOLEAN
    /\ now \in Nat

\* No thread is lost: a waiting thread waits for something, and everything it
\* waits for knows it: its deadline is in timeout-list, it is registered for
\* its descriptor, it is a recipient of a thread that still lives, a waiter of
\* a mutex somebody living owns, or a waiter of its condition variable.
WaitsForSomething(t) == timeout[t] # None \/ blockObj[t] # None
DeadlineListed(t) == timeout[t] # None => <<timeout[t], t>> \in timeoutList
IoRegistered(t) ==
    \A fd \in Fds, d \in Directions : blockObj[t] = <<fd, d>> => t \in fdList[fd]
JoinRegistered(t) ==
    \A x \in Threads : blockObj[t] = x => t \in recipients[x] /\ state[x] \notin Gone
MutexRegistered(t) ==
    \A m \in Mutexes : blockObj[t] = m =>
        t \in mutex[m].waiters /\ mutex[m].owner # None
CVarRegistered(t) ==
    \A c \in CVars : blockObj[t] = c => t \in cvarWaiters[c]
NoThreadLost ==
    \A t \in Threads :
        /\ state[t] \in Waiting => WaitsForSomething(t)
        /\ DeadlineListed(t)
        /\ IoRegistered(t)
        /\ JoinRegistered(t)
        /\ MutexRegistered(t)
        /\ CVarRegistered(t)

\* Only waiting threads wait: a thread that is ready, running, new or gone has
\* no deadline and no block object left over from an earlier wait.
OnlyWaitingWait ==
    \A t \in Threads :
        state[t] \notin Waiting => timeout[t] = None /\ blockObj[t] = None

\* What create-fdset and unblock-threads-for-i/o rely on ("this should never
\* be false, because otherwise the thread is not supposed to be on fd-list"):
\* a thread in fd-list waits for just that descriptor, and was not unblocked
\* by a timeout.
FdListSound ==
    \A fd \in Fds : \A t \in fdList[fd] :
        /\ \E d \in Directions : blockObj[t] = <<fd, d>>
        /\ ~byTimeout[t]

\* The ready queue holds every ready thread exactly once, and besides them only
\* threads that were killed after they entered it.
ReadyQueueSound ==
    /\ \A i, j \in DOMAIN readyQueue : readyQueue[i] = readyQueue[j] => i = j
    /\ \A i \in DOMAIN readyQueue : state[readyQueue[i]] \in Gone \cup {"ready"}
    /\ \A t \in Threads : state[t] = "ready" =>
          \E i \in DOMAIN readyQueue : readyQueue[i] = t

\* While Scheme code runs, exactly the current thread is running; inside the
\* scheduler no thread is.
OneRunning ==
    \A t \in Threads : state[t] = "running" <=> phase = "run" /\ t = current

\* The owner slot of a mutex and the owned slot of the thread agree, and a
\* mutex never has an owner that is gone (abandon-mutexes).
MutexOwnersAgree ==
    /\ \A m \in Mutexes, t \in Threads : mutex[m].owner = t <=> m \in owned[t]
    /\ \A t \in Threads : state[t] \in Gone => owned[t] = {}

\* The process idles no longer than until the first deadline a thread waits for,
\* whatever entries of threads unblocked earlier are still in timeout-list.
Idle == readyQueue = <<>> /\ timeoutList # {} /\ (phase = "sleep" \/ Polling)
IdleUntilDeadline ==
    Idle => \E t \in Threads :
              /\ timeout[t] # None
              /\ \A e \in timeoutList : timeout[t] <= e[1]
              /\ \A u \in Threads : timeout[u] # None => timeout[t] <= timeout[u]

\* The "deadlock" panic comes only when nothing can ever happen: no thread is
\* ready, and none waits for a time or a descriptor.
PanicIsDeadlock ==
    phase = "halted" =>
        \A t \in Threads : /\ state[t] \notin {"ready", "running"}
                           /\ timeout[t] = None
                           /\ blockObj[t] \notin IoObjs

\* Every ready thread gets to run (or is killed): the ready queue is fair.
ReadyThreadRuns ==
    \A t \in Threads : state[t] = "ready" ~> state[t] # "ready"

\* Every thread that waits with a deadline is woken sooner or later, whatever
\* the other threads wait for.
DeadlineWakes ==
    \A t \in Threads : (state[t] \in Waiting /\ timeout[t] # None)
                          ~> state[t] \notin Waiting

\* No thread is told that its deadline passed before it did.
NoEarlyTimeout ==
    [][\A t \in Threads : byTimeout'[t] /\ ~byTimeout[t] =>
            timeout[t] # None /\ timeout[t] <= now]_vars

\* The flag of a thread unblocked by timeout stays until the thread runs: it
\* tells the thread why it was woken (tcp.scm raises the timeout error by it).
TimeoutFlagKept ==
    [][\A t \in Threads : byTimeout[t] /\ state[t] = "ready" => byTimeout'[t]]_vars

\* The process idles no longer than until the first deadline, and it gives up
\* only when nothing can ever happen.
IdlesRightly == IdleUntilDeadline /\ PanicIsDeadlock

\* No thread waits forever: a ready one gets to run, one with a deadline wakes.
ThreadsProceed == ReadyThreadRuns /\ DeadlineWakes
=============================================================================
