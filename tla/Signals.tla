------------------------------ MODULE Signals ------------------------------
(***************************************************************************)
(* Signals and timer interrupts: from the asynchronous handler of runtime.c *)
(* through the queue of pending interrupts and ##sys#interrupt-hook to the *)
(* event queues that make-signal-handler fills (library.scm).              *)
(*                                                                         *)
(* Compiled Scheme code checks the stack limit where a procedure begins; a *)
(* check that fails enters C_reclaim, which hands a pending interrupt to   *)
(* the hook or else collects garbage.  C_raise_interrupt makes the next    *)
(* check fail by faking the limit ("faked").  pc is "check" where such a   *)
(* check comes next; the other values of pc are the places inside C code   *)
(* and procedure bodies between two accesses to the queue.  A process      *)
(* signal may arrive at every one of them if use.async, only at checks     *)
(* otherwise.                                                              *)
(*                                                                         *)
(* What a thread is doing on top of its own code is a sequence of frames,  *)
(* innermost last.  The collections of the nursery that find nothing       *)
(* pending change nothing here and are stuttering steps.                   *)
(***************************************************************************)
EXTENDS Integers, Sequences, FiniteSets

CONSTANTS
    Threads,        \* threads of the program
    Primordial,     \* the primordial thread
    Sigs,           \* signals
    Timer,          \* C_TIMER_INTERRUPT_NUMBER
    Uses,           \* the ways a program uses signals
    MaxPending,     \* MAX_PENDING_INTERRUPTS
    None            \* #f

Reasons == Sigs \cup {Timer}

\* A use of signals.
UseTypeOK(u) ==
    /\ u.queued \subseteq Sigs      \* signals given to make-signal-handler
    /\ u.breaks \subseteq Sigs      \* those handled by ##sys#user-interrupt-hook
    /\ u.queued \cap u.breaks = {}
    /\ u.waiters \subseteq Threads  \* threads that wait for the next event
    /\ u.async \in BOOLEAN          \* may a signal arrive inside a C function?
    /\ u.maxRaised \in Nat          \* bound on how often each signal is sent

ASSUME PrimordialAssumption == Primordial \in Threads
ASSUME ReasonsAssumption == Timer \notin Sigs
ASSUME BoundsAssumption == MaxPending \in Nat \ {0}
ASSUME UsesAssumption == \A u \in Uses : UseTypeOK(u)

VARIABLES
    use,            \* the use this program makes of signals
    slots,          \* pending_interrupts
    count,          \* pending_interrupts_count
    handling,       \* handling_interrupts
    faked,          \* is C_stack_limit = stack_bottom?
    enabled,        \* C_interrupts_enabled
    pc,             \* where the process is between two accesses to the queue
    reg,            \* the value of pending_interrupts_count last loaded
    current,        \* ##sys#current-thread
    frames,         \* what each thread does on top of its own code
    events,         \* slots 1 and 2 of the event queue
    waiter,         \* slot 3 of the event queue: the suspended thread
    raised,         \* how often each signal was sent
    struck,         \* ghost: the places where a signal was accepted
    owed            \* ghost: how often each signal was accepted and its
                    \* handler has not yet run

Queued  == use.queued
Breaks  == use.breaks

queueVars == <<slots, count, handling, faked, enabled>>
eventVars == <<events, waiter>>
arrivals  == <<raised, struck>>
vars == <<use, queueVars, pc, reg, current, frames, eventVars, arrivals, owed>>

Places == {"check", "raise", "append", "limit", "handle", "handleRead",
           "next", "pop", "popRead", "last", "nap"}

\* "pop": at the head of the loop of the interrupt hook; "handler": about to
\* call the handler of a signal; "head", "suspend" and "sleep": in
\* ##sys#wait-for-next-event; "break": about to signal a user interrupt.
FrameKinds == {"pop", "handler", "head", "suspend", "sleep", "break"}
Frame(kind) == [kind |-> kind, sig |-> None]
HandlerOf(s) == [kind |-> "handler", sig |-> s]

Init ==
    /\ use \in Uses
    /\ slots = [i \in 0..MaxPending-1 |-> None]
    /\ count = 0
    /\ handling = FALSE
    /\ faked = FALSE
    /\ enabled = TRUE
    /\ pc = "check"
    /\ reg = 0
    /\ current = Primordial
    /\ frames = [t \in Threads |-> <<>>]
    /\ events = <<>>
    /\ waiter = None
    /\ raised = [s \in Sigs |-> 0]
    /\ struck = {}
    /\ owed = [s \in Sigs |-> 0]

-----------------------------------------------------------------------------
Pending == { slots[i] : i \in 0..count-1 }

InUserCode(t) == frames[t] = <<>>
Doing(t, kind) == frames[t] # <<>> /\ frames[t][Len(frames[t])].kind = kind
Below(t) == SubSeq(frames[t], 1, Len(frames[t]) - 1)

Push(t, f)    == frames' = [frames EXCEPT ![t] = Append(@, f)]
Replace(t, s) == frames' = [frames EXCEPT ![t] = Below(t) \o s]
Return(t)     == Replace(t, <<>>)

\* A procedure of the current thread begins and its stack check succeeds.
Runs(kind) == pc = "check" /\ ~faked /\ Doing(current, kind)

\* C_raise_interrupt: nothing is pending and no hook is taking interrupts.
First == count = 0 /\ ~handling

\* Mutant of Room: nothing is queued while the hook takes interrupts.
RoomLockedOut(r) == ~handling /\ count < MaxPending /\ r \notin Pending

\* C_raise_interrupt: the queue has room, and r is not in it.
Room(r) == count < MaxPending /\ r \notin Pending

\* A sleep() that was interrupted returns to ##sys#dispatch-interrupt.
Woken(f) ==
    IF pc = "check" /\ Doing(current, "sleep")
    THEN [f EXCEPT ![current] = Below(current) \o <<Frame("head"), Frame("pop")>>]
    ELSE f

\* The system sends s: global_signal_handler calls C_raise_interrupt, with
\* every other signal blocked, and interrupts a sleep().
Deliver(s) ==
    /\ s \in Queued \cup Breaks
    /\ use.async \/ pc = "check"
    /\ raised[s] < use.maxRaised
    /\ raised' = [raised EXCEPT ![s] = @ + 1]
    /\ IF enabled /\ (First \/ Room(s))
       THEN /\ slots' = [slots EXCEPT ![count] = s]
            /\ count' = count + 1
            /\ faked' = (faked \/ First)
            /\ owed' = [owed EXCEPT ![s] = @ + 1]
            /\ struck' = struck \cup {pc}
       ELSE UNCHANGED <<slots, count, faked, owed, struck>>
    /\ frames' = Woken(frames)
    /\ UNCHANGED <<use, handling, enabled, pc, reg, current, eventVars>>

\* C_enable_interrupts and C_disable_interrupts, for embedding programs.
SetEnabled ==
    /\ pc = "check" /\ ~faked
    /\ InUserCode(current)
    /\ enabled' = ~enabled
    /\ UNCHANGED <<use, slots, count, handling, faked, pc, reg, current, frames,
                   eventVars, arrivals, owed>>

-----------------------------------------------------------------------------
(***************************************************************************)
(* The timer: user code counts down where a procedure begins, before the   *)
(* stack check, and raises its interrupt when the quantum is over.  Here   *)
(* C_raise_interrupt is interrupted code: it tests, then writes.           *)
(***************************************************************************)
TimerExpires ==
    /\ pc = "check"
    /\ InUserCode(current)
    /\ enabled
    /\ \/ First /\ pc' = "raise"
       \/ ~First /\ Room(Timer) /\ pc' = "append"
    /\ reg' = count
    /\ UNCHANGED <<use, queueVars, current, frames, eventVars, arrivals, owed>>

RaiseTimer ==
    /\ pc \in {"raise", "append"}
    /\ slots' = [slots EXCEPT ![reg] = Timer]
    /\ count' = reg + 1
    /\ faked' = (faked \/ pc = "raise")
    /\ pc' = "check"
    /\ UNCHANGED <<use, handling, enabled, reg, current, frames, eventVars,
                   arrivals, owed>>

-----------------------------------------------------------------------------
(***************************************************************************)
(* C_reclaim and handle_interrupt.                                         *)
(***************************************************************************)

\* A stack check fails, because the limit is faked or the nursery is full.
Reclaim ==
    /\ pc = "check"
    /\ ~Doing(current, "sleep")
    /\ count > 0 /\ enabled
    /\ pc' = "limit"
    /\ UNCHANGED <<use, queueVars, reg, current, frames, eventVars,
                   arrivals, owed>>

\* A check that fails although there is nothing to hand to the hook collects
\* the nursery and calls the procedure again: it changes nothing here.
CollectAgain ==
    /\ pc = "check" /\ faked
    /\ ~Doing(current, "sleep")
    /\ ~(count > 0 /\ enabled)
    /\ UNCHANGED vars

\* Mutant of RestoreLimit: the limit stays faked.
RestoreLimitNot ==
    /\ pc = "limit"
    /\ reg' = count
    /\ pc' = "handle"
    /\ UNCHANGED <<use, queueVars, current, frames, eventVars, arrivals, owed>>

\* handle_interrupt restores the limit and loads the count ...
RestoreLimit ==
    /\ pc = "limit"
    /\ faked' = FALSE
    /\ reg' = count
    /\ pc' = "handle"
    /\ UNCHANGED <<use, slots, count, handling, enabled, current, frames,
                   eventVars, arrivals, owed>>

\* ... stores it decremented, here or in C_i_pending_interrupt ...
Decrement ==
    /\ \/ pc = "handle" /\ pc' = "handleRead"
       \/ pc = "pop" /\ pc' = "popRead"
    /\ count' = reg - 1
    /\ reg' = reg - 1
    /\ UNCHANGED <<use, slots, handling, faked, enabled, current, frames,
                   eventVars, arrivals, owed>>

\* Mutant of CallHook: a thread interrupted by the timer forgets what it did.
CallHookUnsaved ==
    /\ pc = "handleRead"
    /\ pc' = "check"
    /\ \/ /\ slots[reg] = Timer
          /\ frames' = [frames EXCEPT ![current] = <<Frame("pop")>>]
          /\ current' \in Threads
       \/ /\ slots[reg] # Timer
          /\ Push(current, HandlerOf(slots[reg]))
          /\ UNCHANGED current
    /\ UNCHANGED <<use, queueVars, reg, eventVars, arrivals, owed>>

\* ... and reads the reason.  The hook of the scheduler makes a thread that
\* was interrupted by the timer continue with the loop of the hook when it
\* runs again, and schedules; any thread may run next.
CallHook ==
    /\ pc = "handleRead"
    /\ pc' = "check"
    /\ \/ /\ slots[reg] = Timer
          /\ Push(current, Frame("pop"))
          /\ current' \in Threads
       \/ /\ slots[reg] # Timer
          /\ Push(current, HandlerOf(slots[reg]))
          /\ UNCHANGED current
    /\ UNCHANGED <<use, queueVars, reg, eventVars, arrivals, owed>>

-----------------------------------------------------------------------------
(***************************************************************************)
(* The loop of ##sys#interrupt-hook, also entered by                       *)
(* ##sys#dispatch-interrupt after an interrupted system call.              *)
(***************************************************************************)
EnterPop ==
    /\ Runs("pop")
    /\ pc' = "next"
    /\ UNCHANGED <<use, queueVars, reg, current, frames, eventVars,
                   arrivals, owed>>

\* C_i_pending_interrupt tests the count.
TestPending ==
    /\ pc = "next"
    /\ reg' = count
    /\ \/ /\ count > 0
          /\ handling' = TRUE
          /\ pc' = "pop"
       \/ /\ count = 0
          /\ pc' = "last"
          /\ UNCHANGED handling
    /\ UNCHANGED <<use, slots, count, faked, enabled, current, frames,
                   eventVars, arrivals, owed>>

\* The timer has no handler in ##sys#signal-vector.
TakePending ==
    /\ pc = "popRead"
    /\ pc' = "check"
    /\ IF slots[reg] = Timer THEN UNCHANGED frames
                             ELSE Replace(current, <<HandlerOf(slots[reg])>>)
    /\ UNCHANGED <<use, queueVars, reg, current, eventVars, arrivals, owed>>

\* Nothing is pending: the hook gives control back to what it interrupted.
NonePending ==
    /\ pc = "last"
    /\ handling' = FALSE
    /\ Return(current)
    /\ pc' = "check"
    /\ UNCHANGED <<use, slots, count, faked, enabled, reg, current,
                   eventVars, arrivals, owed>>

-----------------------------------------------------------------------------
(***************************************************************************)
(* The handlers.                                                           *)
(***************************************************************************)
Handled == frames[current][Len(frames[current])].sig

\* Mutant of Handle: the event queue forgets to reset its slot 3.
HandleKeepsWaiter ==
    /\ Runs("handler")
    /\ Handled \in Queued
    /\ events' = Append(events, Handled)
    /\ owed' = [owed EXCEPT ![Handled] = @ - 1]
    /\ Replace(current, <<Frame("pop")>>)
    /\ UNCHANGED <<use, queueVars, pc, reg, current, waiter, arrivals>>

\* ##sys#add-event-to-queue!, the handler installed by make-signal-handler;
\* ##sys#resume-thread-on-event does nothing.
Handle ==
    /\ Runs("handler")
    /\ Handled \in Queued
    /\ events' = Append(events, Handled)
    /\ waiter' = None
    /\ owed' = [owed EXCEPT ![Handled] = @ - 1]
    /\ Replace(current, <<Frame("pop")>>)
    /\ UNCHANGED <<use, queueVars, pc, reg, current, arrivals>>

\* ##sys#user-interrupt-hook in the primordial thread signals a condition,
\* whose handler (that of the interpreter's loop) continues with its own code.
BreakPrimordial ==
    /\ Runs("handler")
    /\ Handled \in Breaks
    /\ current = Primordial
    /\ owed' = [owed EXCEPT ![Handled] = @ - 1]
    /\ frames' = [frames EXCEPT ![Primordial] = <<>>]
    /\ UNCHANGED <<use, queueVars, pc, reg, current, eventVars, arrivals>>

\* In another thread it replaces what the primordial thread will do next.
BreakOther ==
    /\ Runs("handler")
    /\ Handled \in Breaks
    /\ current # Primordial
    /\ owed' = [owed EXCEPT ![Handled] = @ - 1]
    /\ frames' = [frames EXCEPT ![Primordial] = <<Frame("break")>>,
                                ![current] = Below(current) \o <<Frame("pop")>>]
    /\ UNCHANGED <<use, queueVars, pc, reg, current, eventVars, arrivals>>

Break ==
    /\ Runs("break")
    /\ frames' = [frames EXCEPT ![current] = <<>>]
    /\ UNCHANGED <<use, queueVars, pc, reg, current, eventVars, arrivals, owed>>

-----------------------------------------------------------------------------
(***************************************************************************)
(* The procedure returned by make-signal-handler.                          *)
(***************************************************************************)

\* With an argument of #f: ##sys#get-next-event.
GetNextEvent ==
    /\ pc = "check" /\ ~faked /\ InUserCode(current)
    /\ waiter = None
    /\ events # <<>>
    /\ events' = Tail(events)
    /\ UNCHANGED <<use, queueVars, pc, reg, current, frames, waiter, arrivals,
                   owed>>

\* With an argument of #t: ##sys#wait-for-next-event, an error when another
\* thread is suspended.
WaitForNextEvent ==
    /\ pc = "check" /\ ~faked /\ InUserCode(current)
    /\ current \in use.waiters
    /\ waiter = None
    /\ Push(current, Frame("head"))
    /\ UNCHANGED <<use, queueVars, pc, reg, current, eventVars, arrivals, owed>>

LookForEvent ==
    /\ Runs("head")
    /\ \/ /\ events = <<>>
          /\ waiter' = current
          /\ Replace(current, <<Frame("suspend")>>)
          /\ UNCHANGED events
       \/ /\ events # <<>>
          /\ events' = Tail(events)
          /\ Return(current)
          /\ UNCHANGED waiter
    /\ UNCHANGED <<use, queueVars, pc, reg, current, arrivals, owed>>

\* ##sys#suspend-thread-on-event calls ##sys#sleep-until-interrupt ...
Suspend ==
    /\ Runs("suspend")
    /\ pc' = "nap"
    /\ UNCHANGED <<use, queueVars, reg, current, frames, eventVars,
                   arrivals, owed>>

\* ... which calls sleep(100).
Sleep ==
    /\ pc = "nap"
    /\ Replace(current, <<Frame("sleep")>>)
    /\ pc' = "check"
    /\ UNCHANGED <<use, queueVars, reg, current, eventVars, arrivals, owed>>

\* The hundred seconds are over.
SleepEnds ==
    /\ pc = "check"
    /\ Doing(current, "sleep")
    /\ frames' = [frames EXCEPT ![current] =
                     Below(current) \o <<Frame("head"), Frame("pop")>>]
    /\ UNCHANGED <<use, queueVars, pc, reg, current, eventVars, arrivals, owed>>

-----------------------------------------------------------------------------
Handlers == Handle \/ BreakPrimordial \/ BreakOther \/ Break
HookLoop == EnterPop \/ TestPending \/ TakePending \/ NonePending
Waiting  == LookForEvent \/ Suspend \/ Sleep \/ SleepEnds
UserCode == TimerExpires \/ SetEnabled \/ GetNextEvent \/ WaitForNextEvent

Next ==
    \/ \E s \in Sigs : Deliver(s)
    \/ UserCode
    \/ RaiseTimer \/ Reclaim \/ CollectAgain \/ RestoreLimit \/ Decrement \/ CallHook
    \/ HookLoop
    \/ Handlers
    \/ Waiting

Spec == Init /\ [][Next]_vars

\* A program that goes on calls procedures: it counts its quantum down, it
\* fills the nursery again and again, and it gets on with what it has begun.
\* The scheduler gives every thread its turn.
Fairness ==
    /\ WF_vars(TimerExpires) /\ WF_vars(RaiseTimer)
    /\ SF_vars(Reclaim) /\ WF_vars(RestoreLimit)
    /\ WF_vars(Decrement) /\ WF_vars(CallHook)
    /\ \A t \in Threads : SF_vars(CallHook /\ current # t /\ current' = t)
    /\ WF_vars(HookLoop) /\ WF_vars(Handlers)
    /\ WF_vars(Waiting)

FairSpec == Spec /\ Fairness

-----------------------------------------------------------------------------
(***************************************************************************)
(* Properties.                                                             *)
(***************************************************************************)

\* Every variable has its type.
TypeOK ==
    /\ use \in Uses
    /\ slots \in [0..MaxPending-1 -> Reasons \cup {None}]
    /\ count \in 0..MaxPending
    /\ handling \in BOOLEAN /\ faked \in BOOLEAN /\ enabled \in BOOLEAN
    /\ pc \in Places
    /\ reg \in 0..MaxPending
    /\ current \in Threads
    /\ \A t \in Threads : \A i \in DOMAIN frames[t] :
          frames[t][i] \in [kind : FrameKinds, sig : Sigs \cup {None}]
    /\ events \in Seq(Sigs)
    /\ waiter \in Threads \cup {None}
    /\ raised \in [Sigs -> 0..use.maxRaised]
    /\ struck \subseteq Places
    /\ owed \in [Sigs -> Int]

HandlersToRun(s) ==
    UNION { { <<t, i>> : i \in { j \in DOMAIN frames[t] :
                                   frames[t][j] = HandlerOf(s) } } : t \in Threads }

\* The places where signal s waits for its handler.
WaitingFor(s) ==
    Cardinality(HandlersToRun(s)) + (IF s \in Pending THEN 1 ELSE 0)

\* A signal that C_raise_interrupt accepted is queued or in the hands of the
\* hook until its handler runs ...
AcceptedKept == pc = "check" => \A s \in Sigs : owed[s] <= WaitingFor(s)

\* Where C code has loaded the count, or has stored it and not read the slot yet:
\* a signal that is accepted there is overwritten, or overwrites.
HalfWay == {"raise", "append", "handle", "handleRead", "pop", "popRead"}
Orderly == struck \cap HalfWay = {}

\* ... wherever else signals arrive, if no user interrupt escapes from a handler:
\* interrupts that nest, threads that are switched in the middle of a hook and
\* the loop of the hook lose none.
NoSignalLost == Orderly /\ Breaks = {} => AcceptedKept

\* No handler runs twice for a signal, and C_raise_interrupt never queues a
\* reason that is queued already.
NoSignalTwice ==
    Orderly /\ pc = "check" =>
        /\ \A s \in Sigs : WaitingFor(s) <= owed[s]
        /\ Cardinality(Pending) = count

\* A stack limit that was faked finds an interrupt to handle at the next
\* check.  Nothing but handle_interrupt restores it: without one every check
\* fails, and the process collects garbage for ever.  So it is when a signal is
\* accepted between the call of C_i_pending_interrupt and its test of the count.
LimitFindsInterrupt ==
    pc = "check" /\ faked /\ "next" \notin struck => count > 0 /\ enabled

\* Wherever a signal arrives, the queue holds, and handle_interrupt and
\* C_i_pending_interrupt read, reasons that were raised only; so events and
\* handlers are of signals that were sent.
Raised(r) == r = Timer \/ (r \in Sigs /\ raised[r] > 0)
ReasonsAreRaised ==
    /\ \A r \in Pending : Raised(r)
    /\ pc \in {"handleRead", "popRead"} => Raised(slots[reg])
    /\ \A t \in Threads : \A i \in DOMAIN frames[t] :
          frames[t][i].kind = "handler" => Raised(frames[t][i].sig)
    /\ \A i \in DOMAIN events : Raised(events[i])

\* A thread is registered as suspended only while it waits and no event has
\* come for it; another thread may otherwise never wait.
WaiterWaits ==
    waiter # None =>
        /\ events = <<>>
        /\ \E i \in DOMAIN frames[waiter] :
              frames[waiter][i].kind \in {"head", "suspend", "sleep"}

\* A process sleeps in wait-for-next-event only as long as no signal it
\* handles has arrived.
SleepsUntilSignal ==
    Doing(current, "sleep") => events = <<>> /\ count = 0

\* An accepted signal has its handler called, whatever the threads do.
SignalHandled(s) == owed[s] > 0 ~> owed[s] = 0
EverySignalHandled == <>[]enabled => \A s \in Sigs : SignalHandled(s)

\* That is so in a program whose threads do not wait for events.
SignalsHandled ==
    <>[]enabled /\ [](Orderly /\ "next" \notin struck /\ Breaks = {} /\ use.waiters = {})
        => \A s \in Sigs : SignalHandled(s)

\* A thread that keeps computing, and never waits, is interrupted by its timer,
\* also after a user interrupt left the hook for good in the middle of its loop.
PreemptionContinues ==
    <>[]enabled /\ []("next" \notin struck /\ use.waiters = {}) =>
        \A t \in Threads : (current = t /\ InUserCode(t)) ~>
                               (pc = "handleRead" /\ slots[reg] = Timer)

\* An accepted signal has its handler called once.
SignalsOnce == NoSignalLost /\ NoSignalTwice

\* The queue and the stack limit agree: a full stack that is faked has a reason.
InterruptsSound == TypeOK /\ LimitFindsInterrupt /\ ReasonsAreRaised

\* Signals are handled in the end, and the timer goes on interrupting.
InterruptsProceed == SignalsHandled /\ PreemptionContinues
=============================================================================
