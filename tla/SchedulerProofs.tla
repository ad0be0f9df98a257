-------------------------- MODULE SchedulerProofs --------------------------
(***************************************************************************)
(* Proofs about the scheduler, for every set of threads, descriptors,      *)
(* mutexes, condition variables and timeouts: its types and who waits for  *)
(* what; the ready queue, the owners of the mutexes, deadlines that are    *)
(* not early, when the process idles or gives up; and that it implements   *)
(* ThreadSystem.                                                           *)
(***************************************************************************)
EXTENDS SchedulerRefinement, TLAPS, FiniteSetTheorems, SequenceTheorems, WellFoundedInduction

USE DEF Gone, Waiting

(***************************************************************************)
(* Facts about the helpers.                                                *)
(***************************************************************************)

\* An order of W is a sequence that holds each thread of W exactly once.
LEMMA OrdersAreSequences ==
    ASSUME NEW W \in SUBSET Threads, NEW q \in Orders(W)
    PROVE  /\ q \in Seq(Threads)
           /\ Len(q) = Cardinality(W)
           /\ \A i \in 1..Len(q) : q[i] \in W
           /\ \A i, j \in 1..Len(q) : q[i] = q[j] => i = j
           /\ \A t \in W : \E i \in 1..Len(q) : q[i] = t
<1>1. IsFiniteSet(W)
  BY FiniteAssumption, FS_Subset
<1>2. Cardinality(W) \in Nat
  BY <1>1, FS_CardinalityType
<1> DEFINE n == Cardinality(W)
<1>3. q \in [1..n -> W] /\ \A i, j \in 1..n : q[i] = q[j] => i = j
  BY DEF Orders
<1>4. q \in Seq(Threads) /\ Len(q) = n
  BY <1>2, <1>3
<1>5. q \in Injection(1..n, W)
  BY <1>3 DEF Injection, IsInjective
<1>6. Cardinality(1..n) = n
  BY <1>2, FS_Interval
<1>7. q \in Surjection(1..n, W)
  <2> HIDE DEF n
  <2> QED  BY <1>1, <1>5, <1>6, FS_Injection DEF n
<1>8. \A t \in W : \E i \in 1..n : q[i] = t
  BY <1>7 DEF Surjection
<1> QED  BY <1>3, <1>4, <1>8

\* Waking threads keeps the slots and the queue well typed.
LEMMA BasicUnblockType ==
    ASSUME TypeOK, NEW W \in SUBSET Threads, BasicUnblock(W)
    PROVE  /\ state' \in [Threads -> ThreadStates]
           /\ timeout' \in [Threads -> Nat \cup {None}]
           /\ blockObj' \in [Threads -> BlockObjs \cup {None}]
           /\ readyQueue' \in Seq(Threads)
<1>1. PICK q \in Orders(W) : readyQueue' = readyQueue \o q
  BY DEF BasicUnblock
<1>2. readyQueue' \in Seq(Threads)
  BY <1>1, OrdersAreSequences, ConcatProperties DEF TypeOK
<1> QED  BY <1>2 DEF BasicUnblock, With, TypeOK, ThreadStates

\* ##sys#thread-unblock! keeps the types of what it changes.
LEMMA ThreadUnblockType ==
    ASSUME TypeOK, NEW S \in SUBSET Threads, ThreadUnblock(S)
    PROVE  /\ state' \in [Threads -> ThreadStates]
           /\ timeout' \in [Threads -> Nat \cup {None}]
           /\ blockObj' \in [Threads -> BlockObjs \cup {None}]
           /\ readyQueue' \in Seq(Threads)
           /\ timeoutList' \subseteq Nat \X Threads
           /\ fdList' \in [Fds -> SUBSET Threads]
<1> DEFINE W == { t \in S : state[t] \in Waiting }
<1>1. BasicUnblock(W) /\ W \in SUBSET Threads
  BY DEF ThreadUnblock
<1>2. timeoutList' \subseteq Nat \X Threads
  BY DEF ThreadUnblock, RemoveFromTimeoutList, TypeOK
<1>3. fdList' \in [Fds -> SUBSET Threads]
  BY DEF ThreadUnblock, ClearIoState, TypeOK
<1> QED  BY <1>1, <1>2, <1>3, BasicUnblockType

\* ##sys#thread-kill! keeps the types of what it changes.
LEMMA ThreadKillType ==
    ASSUME TypeOK, NEW t \in Threads, NEW s \in Gone, NEW forced \in SUBSET Threads,
           ThreadKill(t, s, forced)
    PROVE  /\ state' \in [Threads -> ThreadStates]
           /\ timeout' \in [Threads -> Nat \cup {None}]
           /\ blockObj' \in [Threads -> BlockObjs \cup {None}]
           /\ byTimeout' \in [Threads -> BOOLEAN]
           /\ readyQueue' \in Seq(Threads)
           /\ timeoutList' \subseteq Nat \X Threads
           /\ fdList' \in [Fds -> SUBSET Threads]
           /\ mutex' \in [Mutexes -> [owner : Threads \cup {None},
                             waiters : SUBSET Threads, abandoned : BOOLEAN]]
           /\ owned' \in [Threads -> SUBSET Mutexes]
           /\ cvarWaiters' \in [CVars -> SUBSET Threads]
           /\ recipients' \in [Threads -> SUBSET Threads]
<1> DEFINE waiters   == UNION { mutex[m].waiters : m \in owned[t] }
           unblocked == { w \in waiters : state[w] \in Waiting } \ forced
           cleared   == forced \cup unblocked
           joined    == { r \in recipients[t] \ (cleared \cup {t}) : blockObj[r] = t }
<1>1. unblocked \in SUBSET Threads /\ joined \in SUBSET Threads
  BY DEF TypeOK
<1>2. PICK p \in Orders(forced), q \in Orders(unblocked), r \in Orders(joined) :
          readyQueue' = readyQueue \o p \o q \o r
  BY DEF ThreadKill
<1>3. p \in Seq(Threads) /\ q \in Seq(Threads) /\ r \in Seq(Threads)
  BY <1>1, OrdersAreSequences
<1>4. readyQueue' \in Seq(Threads)
  BY <1>2, <1>3, ConcatProperties DEF TypeOK
<1>5. state' \in [Threads -> ThreadStates]
  BY DEF ThreadKill, With, TypeOK, ThreadStates
<1>6. timeout' \in [Threads -> Nat \cup {None}]
  BY DEF ThreadKill, With, TypeOK
<1>7. blockObj' \in [Threads -> BlockObjs \cup {None}]
  BY DEF ThreadKill, With, TypeOK
<1>8. timeoutList' \subseteq Nat \X Threads
  BY DEF ThreadKill, RemoveFromTimeoutList, TypeOK
<1>9. fdList' \in [Fds -> SUBSET Threads]
  BY DEF ThreadKill, ClearIoState, TypeOK
<1>10. mutex' \in [Mutexes -> [owner : Threads \cup {None},
                             waiters : SUBSET Threads, abandoned : BOOLEAN]]
  BY DEF ThreadKill, AbandonMutexes, With, TypeOK
<1>11. /\ owned' \in [Threads -> SUBSET Mutexes]
       /\ cvarWaiters' \in [CVars -> SUBSET Threads]
       /\ recipients' \in [Threads -> SUBSET Threads]
       /\ byTimeout' \in [Threads -> BOOLEAN]
  BY DEF ThreadKill, AbandonMutexes, TypeOK
<1> QED  BY <1>4, <1>5, <1>6, <1>7, <1>8, <1>9, <1>10, <1>11

\* A thread that blocks or sleeps keeps the types of what that changes.
LEMMA BlockType ==
    ASSUME TypeOK, NEW st \in ThreadStates, NEW obj \in BlockObjs \cup {None},
           NEW tm \in Nat \cup {None}, Block(st, obj, tm)
    PROVE  /\ state' \in [Threads -> ThreadStates]
           /\ timeout' \in [Threads -> Nat \cup {None}]
           /\ blockObj' \in [Threads -> BlockObjs \cup {None}]
           /\ byTimeout' \in [Threads -> BOOLEAN]
           /\ timeoutList' \subseteq Nat \X Threads
           /\ readyQueue' \in Seq(Threads)
           /\ current' \in Threads
           /\ regs' \in Registers /\ vectors' \in [Threads -> ParameterValues]
           /\ phase' \in Phases
           /\ eintr' \in BOOLEAN
           /\ buffer' \in [Threads -> Registers]
           /\ now' \in Nat
<1>1. /\ state' \in [Threads -> ThreadStates]
      /\ byTimeout' \in [Threads -> BOOLEAN]
      /\ blockObj' \in [Threads -> BlockObjs \cup {None}]
      /\ timeout' \in [Threads -> Nat \cup {None}]
  BY DEF TypeOK, Block
<1>2. timeoutList' \subseteq Nat \X Threads
  BY DEF TypeOK, Block
<1>3. readyQueue' \in Seq(Threads)
  BY DEF TypeOK, Block
<1>4. /\ current' \in Threads
      /\ regs' \in Registers /\ vectors' \in [Threads -> ParameterValues]
      /\ phase' \in Phases
      /\ eintr' \in BOOLEAN
      /\ buffer' \in [Threads -> Registers]
      /\ now' \in Nat
  BY DEF TypeOK, Block, EnterScheduler, Phases
<1> QED  BY <1>1, <1>2, <1>3, <1>4

\* Deadlines are points in time.
LEMMA DeadlinesType == TypeOK => Deadlines \subseteq Nat
<1> SUFFICES ASSUME TypeOK, NEW tm \in Deadlines PROVE tm \in Nat
  OBVIOUS
<1>1. PICK d \in Delays : tm = now + d
  BY DEF Deadlines
<1> QED  BY <1>1, TimeAssumption DEF TypeOK

-----------------------------------------------------------------------------
(***************************************************************************)
(* Type correctness.                                                       *)
(***************************************************************************)
LEMMA InitType == Init => TypeOK
<1> SUFFICES ASSUME Init PROVE TypeOK
  OBVIOUS
<1>1. mutex \in [Mutexes -> [owner : Threads \cup {None},
                            waiters : SUBSET Threads, abandoned : BOOLEAN]]
  BY DEF Init
<1>2. readyQueue \in Seq(Threads)
  BY EmptySeq DEF Init
<1>3. /\ state \in [Threads -> ThreadStates]
      /\ timeout \in [Threads -> Nat \cup {None}]
      /\ blockObj \in [Threads -> BlockObjs \cup {None}]
      /\ byTimeout \in [Threads -> BOOLEAN]
      /\ buffer \in [Threads -> Registers]
  BY ContextsAssumption DEF Init, ThreadStates, Registers
<1> QED  BY <1>1, <1>2, <1>3, PrimordialAssumption DEF Init, TypeOK, Phases

\* The operations by which the current thread stops running.
LEMMA BlockingCallType == TypeOK /\ BlockingCall => TypeOK'
<1> SUFFICES ASSUME TypeOK, BlockingCall PROVE TypeOK'
  OBVIOUS
<1> USE DeadlinesType
<1>1. CASE \E tm \in Deadlines : Sleep(tm)
  <2>1. PICK tm \in Deadlines : Sleep(tm)
    BY <1>1
  <2> QED  BY <2>1, BlockType DEF Sleep, TypeOK, syncVars, ThreadStates
<1>2. CASE \E fd \in Fds, dir \in Directions, tm \in Deadlines \cup {None} :
             BlockForIo(fd, dir, tm)
  <2>1. PICK fd \in Fds, dir \in Directions, tm \in Deadlines \cup {None} :
             BlockForIo(fd, dir, tm)
    BY <1>2
  <2>2. <<fd, dir>> \in BlockObjs
    BY DEF BlockObjs, IoObjs
  <2>3. fdList' \in [Fds -> SUBSET Threads]
    BY <2>1 DEF BlockForIo, TypeOK
  <2> QED  BY <2>1, <2>2, <2>3, BlockType
           DEF BlockForIo, TypeOK, syncVars, ThreadStates
<1>3. CASE \E t \in Threads, tm \in Deadlines \cup {None} : Join(t, tm)
  <2>1. PICK t \in Threads, tm \in Deadlines \cup {None} : Join(t, tm)
    BY <1>3
  <2>2. t \in BlockObjs
    BY DEF BlockObjs
  <2> QED  BY <2>1, <2>2, BlockType
           DEF Join, TypeOK, ThreadStates
<1>4. CASE \E m \in Mutexes : MutexWait(m)
  <2>1. PICK m \in Mutexes : MutexWait(m)
    BY <1>4
  <2>2. m \in BlockObjs
    BY DEF BlockObjs
  <2>3. mutex' \in [Mutexes -> [owner : Threads \cup {None},
                               waiters : SUBSET Threads, abandoned : BOOLEAN]]
    BY <2>1, ZenonT(90) DEF MutexWait, TypeOK
  <2> QED  BY <2>1, <2>2, <2>3, BlockType
           DEF MutexWait, TypeOK, ThreadStates
<1>5. CASE \E c \in CVars : CVarWait(c)
  <2>1. PICK c \in CVars : CVarWait(c)
    BY <1>5
  <2>2. c \in BlockObjs
    BY DEF BlockObjs
  <2> QED  BY <2>1, <2>2, BlockType
           DEF CVarWait, TypeOK, ThreadStates
<1> QED  BY <1>1, <1>2, <1>3, <1>4, <1>5 DEF BlockingCall

\* The other operations of the current thread.
LEMMA OtherCallType == TypeOK /\ OtherCall => TypeOK'
<1> SUFFICES ASSUME TypeOK, OtherCall PROVE TypeOK'
  OBVIOUS
<1>1. CASE SetContext
  <2>1. PICK c \in Contexts, v \in ParameterValues :
            /\ regs' = [regs EXCEPT !.context = c]
            /\ vectors' = [vectors EXCEPT ![regs.parameters] = v]
    BY <1>1 DEF SetContext
  <2>2. regs' \in Registers
    BY <2>1 DEF TypeOK, Registers
  <2>3. vectors' \in [Threads -> ParameterValues]
    BY <2>1 DEF TypeOK
  <2> QED  BY <1>1, <2>2, <2>3 DEF SetContext, TypeOK, threadVars, queueVars, syncVars
<1>2. ASSUME NEW t \in Threads, MakeThread(t) PROVE TypeOK'
  <2>1. vectors' \in [Threads -> ParameterValues] /\ buffer' \in [Threads -> Registers]
    BY <1>2, ContextsAssumption DEF MakeThread, TypeOK, Registers
  <2> QED  BY <1>2, <2>1 DEF MakeThread, TypeOK, queueVars, syncVars, ThreadStates
<1>3. ASSUME NEW t \in Threads, StartThread(t) PROVE TypeOK'
  <2>1. readyQueue' \in Seq(Threads)
    BY <1>3, AppendProperties DEF StartThread, TypeOK
  <2> QED  BY <1>3, <2>1 DEF StartThread, TypeOK, syncVars, schedVars, ThreadStates
<1>4. ASSUME NEW t \in Threads, Terminate(t) PROVE TypeOK'
  <2>1. ThreadKill(t, "terminated", {})
    BY <1>4 DEF Terminate
  <2> QED  BY <1>4, <2>1, ThreadKillType DEF Terminate, TypeOK, schedVars
<1>5. ASSUME NEW m \in Mutexes, MutexLock(m) PROVE TypeOK'
  <2>1. mutex' \in [Mutexes -> [owner : Threads \cup {None},
                               waiters : SUBSET Threads, abandoned : BOOLEAN]]
    BY <1>5 DEF MutexLock, TypeOK
  <2>2. owned' \in [Threads -> SUBSET Mutexes]
    BY <1>5 DEF MutexLock, TypeOK
  <2> QED  BY <1>5, <2>1, <2>2 DEF MutexLock, TypeOK, threadVars, queueVars, schedVars
<1>6. ASSUME NEW m \in Mutexes, MutexUnlock(m) PROVE TypeOK'
  <2> DEFINE waiting == { w \in mutex[m].waiters :
                            state[w] \in Waiting /\ blockObj[w] = m }
  <2>1. waiting \in SUBSET Threads
    BY DEF TypeOK
  <2>2. CASE /\ mutex' = [mutex EXCEPT ![m] =
                   [owner |-> None, waiters |-> {}, abandoned |-> @.abandoned]]
             /\ owned' = [owned EXCEPT ![current] = @ \ {m}]
             /\ UNCHANGED <<state, timeout, blockObj, queueVars>>
    <3>1. mutex' \in [Mutexes -> [owner : Threads \cup {None},
                               waiters : SUBSET Threads, abandoned : BOOLEAN]]
      BY <2>2 DEF TypeOK
    <3>2. owned' \in [Threads -> SUBSET Mutexes]
      BY <2>2 DEF TypeOK
    <3> QED  BY <1>6, <2>2, <3>1, <3>2 DEF MutexUnlock, TypeOK, queueVars, schedVars
  <2>3. ASSUME NEW w \in waiting,
               mutex' = [mutex EXCEPT ![m] =
                  [owner |-> w, waiters |-> waiting \ {w}, abandoned |-> @.abandoned]],
               owned' = [t \in Threads |-> IF t = w THEN owned[t] \cup {m}
                                          ELSE owned[t] \ {m}],
               ThreadUnblock({w})
        PROVE  TypeOK'
    <3>1. mutex' \in [Mutexes -> [owner : Threads \cup {None},
                               waiters : SUBSET Threads, abandoned : BOOLEAN]]
      BY <2>1, <2>3 DEF TypeOK
    <3>2. owned' \in [Threads -> SUBSET Mutexes]
      BY <2>3 DEF TypeOK
    <3>3. {w} \in SUBSET Threads
      BY <2>1
    <3> HIDE DEF waiting
    <3>4. /\ state' \in [Threads -> ThreadStates]
          /\ timeout' \in [Threads -> Nat \cup {None}]
          /\ blockObj' \in [Threads -> BlockObjs \cup {None}]
          /\ readyQueue' \in Seq(Threads)
          /\ timeoutList' \subseteq Nat \X Threads
          /\ fdList' \in [Fds -> SUBSET Threads]
      BY <2>3, <3>3, ThreadUnblockType
    <3>5. UNCHANGED <<byTimeout, recipients, cvarWaiters, schedVars, now>>
      BY <1>6 DEF MutexUnlock
    <3> QED  BY <3>1, <3>2, <3>4, <3>5 DEF TypeOK, schedVars
  <2> QED  BY <1>6, <2>2, <2>3 DEF MutexUnlock
<1>7. ASSUME NEW c \in CVars, CVarSignal(c) PROVE TypeOK'
  <2>1. PICK w \in cvarWaiters[c] :
             /\ cvarWaiters' = [cvarWaiters EXCEPT ![c] = @ \ {w}]
             /\ ThreadUnblock({w})
    BY <1>7 DEF CVarSignal
  <2>2. {w} \in SUBSET Threads
    BY DEF TypeOK
  <2>3. /\ state' \in [Threads -> ThreadStates]
        /\ timeout' \in [Threads -> Nat \cup {None}]
        /\ blockObj' \in [Threads -> BlockObjs \cup {None}]
        /\ readyQueue' \in Seq(Threads)
        /\ timeoutList' \subseteq Nat \X Threads
        /\ fdList' \in [Fds -> SUBSET Threads]
    BY <2>1, <2>2, ThreadUnblockType
  <2>4. cvarWaiters' \in [CVars -> SUBSET Threads]
    BY <2>1 DEF TypeOK
  <2>5. UNCHANGED <<byTimeout, owned, recipients, mutex, schedVars, now>>
    BY <1>7 DEF CVarSignal
  <2> QED  BY <2>3, <2>4, <2>5 DEF TypeOK, schedVars
<1>8. CASE Finish
  <2>1. ThreadKill(current, "dead", {}) /\ current \in Threads
    BY <1>8 DEF Finish, TypeOK
  <2>2. EnterScheduler /\ {} \in SUBSET Threads /\ "dead" \in Gone
    BY <1>8 DEF Finish
  <2> QED  BY <2>1, <2>2, ThreadKillType DEF EnterScheduler, TypeOK, Phases
<1>9. CASE UncaughtException
  <2> DEFINE forced == { t \in {Primordial} : AbortOnThreadExceptions
                                             /\ state[t] \in Waiting }
  <2>1. ThreadKill(current, "terminated", forced) /\ current \in Threads
    BY <1>9 DEF UncaughtException, TypeOK
  <2>2. forced \in SUBSET Threads
    BY PrimordialAssumption
  <2> HIDE DEF forced
  <2> QED  BY <1>9, <2>1, <2>2, ThreadKillType
           DEF UncaughtException, EnterScheduler, TypeOK, Phases
<1> QED  BY <1>1, <1>2, <1>3, <1>4, <1>5, <1>6, <1>7, <1>8, <1>9 DEF OtherCall

\* The passes of the scheduler.
LEMMA SchedulerPassType == TypeOK /\ SchedulerPass => TypeOK'
<1> SUFFICES ASSUME TypeOK, SchedulerPass PROVE TypeOK'
  OBVIOUS
<1>1. CASE UnblockTimeouts
  <2> DEFINE W == { e[2] : e \in { e \in timeoutList : Valid(e) /\ e[1] <= now } }
  <2>1. W \in SUBSET Threads
    BY DEF TypeOK
  <2>2. BasicUnblock(W)
    BY <1>1 DEF UnblockTimeouts
  <2>3. /\ byTimeout' \in [Threads -> BOOLEAN]
        /\ fdList' \in [Fds -> SUBSET Threads]
        /\ timeoutList' \subseteq Nat \X Threads
    BY <1>1 DEF UnblockTimeouts, With, ClearIoState, TypeOK
  <2> HIDE DEF W
  <2> QED  BY <1>1, <2>1, <2>2, <2>3, BasicUnblockType
           DEF UnblockTimeouts, TypeOK, syncVars, Phases
<1>2. CASE MSleep \/ MSleepSignalled
  BY <1>2 DEF MSleep, MSleepSignalled, TypeOK, threadVars, queueVars, syncVars, Phases
<1>3. CASE SleepInterrupted
  <2>1. /\ ThreadUnblock({Primordial})
        /\ byTimeout' \in [Threads -> BOOLEAN]
        /\ buffer' \in [Threads -> Registers]
    BY <1>3 DEF SleepInterrupted, ForcePrimordial, TypeOK
  <2> QED  BY <1>3, <2>1, PrimordialAssumption, ThreadUnblockType
           DEF SleepInterrupted, TypeOK, syncVars, Phases
<1>4. CASE NoIo \/ PollTimeout
  BY <1>4 DEF NoIo, PollTimeout, TypeOK, threadVars, queueVars, syncVars, Phases
<1>5. CASE PollReady
  <2>1. PICK r \in PollResults :
         LET seen(fd) == { t \in fdList[fd] : r[fd] # {} }
             wake(fd) == { t \in seen(fd) : /\ ~byTimeout[t]
                                           /\ blockObj[t] \in IoObjs =>
                                                FdsetTest(r[fd], blockObj[t][2]) }
             W == UNION { wake(fd) : fd \in Fds }
         IN  /\ fdList' = [fd \in Fds |->
                             fdList[fd] \ (wake(fd) \cup
                                { t \in seen(fd) : byTimeout[t] })]
             /\ timeoutList' = RemoveFromTimeoutList({ t \in W : timeout[t] # None })
             /\ BasicUnblock(W)
    BY <1>5 DEF PollReady
  <2> DEFINE seen(fd) == { t \in fdList[fd] : r[fd] # {} }
             wake(fd) == { t \in seen(fd) : /\ ~byTimeout[t]
                                           /\ blockObj[t] \in IoObjs =>
                                                FdsetTest(r[fd], blockObj[t][2]) }
             W == UNION { wake(fd) : fd \in Fds }
  <2>2. BasicUnblock(W)
    BY <2>1
  <2>3. W \in SUBSET Threads
    BY DEF TypeOK
  <2>4. fdList' \in [Fds -> SUBSET Threads]
    BY <2>1 DEF TypeOK
  <2>5. timeoutList' \subseteq Nat \X Threads
    BY <2>1 DEF RemoveFromTimeoutList, TypeOK
  <2> HIDE DEF W
  <2> QED  BY <1>5, <2>2, <2>3, <2>4, <2>5, BasicUnblockType
           DEF PollReady, TypeOK, syncVars, Phases
<1>6. CASE PollInterrupted
  <2>1. ThreadUnblock({Primordial}) /\ byTimeout' \in [Threads -> BOOLEAN]
    BY <1>6 DEF PollInterrupted, ForcePrimordial, TypeOK
  <2> QED  BY <1>6, <2>1, PrimordialAssumption, ThreadUnblockType
           DEF PollInterrupted, TypeOK, syncVars, Phases
<1>7. CASE Switch
  <2>1. Head(readyQueue) \in Threads /\ Tail(readyQueue) \in Seq(Threads)
    BY <1>7, HeadTailProperties DEF Switch, TypeOK
  <2> QED  BY <1>7, <2>1 DEF Switch, TypeOK, syncVars, ThreadStates, Phases
<1>8. CASE SkipThread
  <2>1. Tail(readyQueue) \in Seq(Threads)
    BY <1>8, HeadTailProperties DEF SkipThread, TypeOK
  <2> QED  BY <1>8, <2>1 DEF SkipThread, TypeOK, threadVars, syncVars, schedVars
<1>9. CASE NothingReady
  BY <1>9 DEF NothingReady, TypeOK, threadVars, queueVars, syncVars, Phases
<1> QED  BY <1>1, <1>2, <1>3, <1>4, <1>5, <1>6, <1>7, <1>8, <1>9 DEF SchedulerPass

\* Every step keeps the types.
LEMMA NextType == TypeOK /\ [Next]_vars => TypeOK'
<1> SUFFICES ASSUME TypeOK, [Next]_vars PROVE TypeOK'
  OBVIOUS
<1>1. CASE Yield
  <2>1. readyQueue' \in Seq(Threads)
    BY <1>1, AppendProperties DEF Yield, TypeOK
  <2> QED  BY <1>1, <2>1
           DEF Yield, EnterScheduler, TypeOK, syncVars, ThreadStates, Phases
<1>2. CASE Tick
  BY <1>2 DEF Tick, TypeOK, threadVars, queueVars, syncVars, schedVars
<1>3. CASE UNCHANGED vars
  BY <1>3 DEF vars, TypeOK, threadVars, queueVars, syncVars, schedVars
<1> QED  BY <1>1, <1>2, <1>3, BlockingCallType, OtherCallType, SchedulerPassType
         DEF Next

\* Type correctness of the scheduler's slots and lists.
THEOREM TypeCorrect == Spec => []TypeOK
BY InitType, NextType, PTL DEF Spec

-----------------------------------------------------------------------------
(***************************************************************************)
(* No thread is lost.  NoThreadLost is inductive together with the facts   *)
(* that only waiting threads wait, that the threads in fd-list wait for    *)
(* their descriptor, and that the current thread is the running one.       *)
(***************************************************************************)
WaitInv == OneRunning /\ OnlyWaitingWait /\ FdListSound /\ NoThreadLost

\* The kinds of block objects are different.
LEMMA Kinds ==
    /\ \A t \in Threads : t # None /\ t \notin Mutexes /\ t \notin CVars
    /\ \A m \in Mutexes : m # None /\ m \notin CVars /\ m \notin Threads
    /\ \A c \in CVars : c # None /\ c \notin Threads
    /\ \A fd \in Fds, d \in Directions :
          <<fd, d>> # None /\ <<fd, d>> \notin Threads \cup Mutexes \cup CVars
    /\ \A n \in Nat : n # None
BY KindsAssumption

\* The clauses of NoThreadLost about one thread.
Listed(t) == DeadlineListed(t) /\ IoRegistered(t) /\ JoinRegistered(t)
             /\ MutexRegistered(t) /\ CVarRegistered(t)

\* Nobody waits at the start.
LEMMA InitWait == Init => WaitInv
<1> SUFFICES ASSUME Init PROVE WaitInv
  OBVIOUS
<1>1. OneRunning
  BY PrimordialAssumption DEF Init, OneRunning
<1>2. OnlyWaitingWait
  BY DEF Init, OnlyWaitingWait
<1>3. FdListSound
  BY DEF Init, FdListSound
<1>4. ASSUME NEW t \in Threads PROVE Listed(t)
  <2>1. timeout[t] = None /\ blockObj[t] = None
    BY DEF Init
  <2> QED  BY <2>1, Kinds DEF Listed, DeadlineListed, IoRegistered, JoinRegistered,
                              MutexRegistered, CVarRegistered
<1>5. ASSUME NEW t \in Threads PROVE state[t] \notin Waiting
  BY DEF Init
<1> QED  BY <1>1, <1>2, <1>3, <1>4, <1>5 DEF WaitInv, NoThreadLost, Listed

\* A step that wakes the threads of W, takes them out of fd-list and keeps
\* everything the other threads rely on.
LEMMA WakeKeepsWait ==
    ASSUME TypeOK, WaitInv, NEW W \in SUBSET Threads, BasicUnblock(W),
           \A t \in W : state[t] \in Waiting,
           \A fd \in Fds : fdList'[fd] = fdList[fd] \ W,
           \A t \in Threads \ W : byTimeout'[t] => byTimeout[t],
           \A t \in Threads \ W : timeout[t] # None => <<timeout[t], t>> \in timeoutList',
           \A t \in Threads \ W : MutexRegistered(t) =>
               \A m \in Mutexes : blockObj[t] = m =>
                   t \in mutex'[m].waiters /\ mutex'[m].owner # None,
           \A t \in Threads \ W, c \in CVars :
               blockObj[t] = c /\ t \in cvarWaiters[c] => t \in cvarWaiters'[c],
           recipients' = recipients,
           (phase = "run" <=> phase' = "run"), current' = current
    PROVE  WaitInv'
<1>1. \A t \in Threads : 
        /\ state'[t] = IF t \in W THEN "ready" ELSE state[t]
        /\ timeout'[t] = IF t \in W THEN None ELSE timeout[t]
        /\ blockObj'[t] = IF t \in W THEN None ELSE blockObj[t]
  BY DEF BasicUnblock, With, TypeOK
<1>2. OneRunning'
  BY <1>1 DEF WaitInv, OneRunning
<1>3. OnlyWaitingWait'
  BY <1>1 DEF WaitInv, OnlyWaitingWait
<1>4. FdListSound'
  <2> SUFFICES ASSUME NEW fd \in Fds, NEW t \in fdList'[fd]
               PROVE  (\E d \in Directions : blockObj'[t] = <<fd, d>>) /\ ~byTimeout'[t]
    BY DEF FdListSound
  <2>1. t \in fdList[fd] /\ t \notin W /\ t \in Threads
    BY DEF TypeOK
  <2> QED  BY <1>1, <2>1 DEF WaitInv, FdListSound
<1>5. ASSUME NEW t \in Threads PROVE Listed(t)'
  <2>1. CASE t \in W
    BY <1>1, <2>1, Kinds
       DEF Listed, DeadlineListed, IoRegistered, JoinRegistered, MutexRegistered,
           CVarRegistered
  <2>2. CASE t \notin W
    <3>1. Listed(t)
      BY DEF WaitInv, NoThreadLost, Listed
    <3>2. DeadlineListed(t)'
      BY <1>1, <2>2 DEF DeadlineListed
    <3>3. IoRegistered(t)'
      BY <1>1, <2>2, <3>1 DEF Listed, IoRegistered
    <3>4. JoinRegistered(t)'
      BY <1>1, <2>2, <3>1 DEF Listed, JoinRegistered
    <3>5. MutexRegistered(t)' /\ CVarRegistered(t)'
      BY <1>1, <2>2, <3>1 DEF Listed, MutexRegistered, CVarRegistered
    <3> QED  BY <3>2, <3>3, <3>4, <3>5 DEF Listed
  <2> QED  BY <2>1, <2>2
<1>6. ASSUME NEW t \in Threads, state'[t] \in Waiting PROVE WaitsForSomething(t)'
  BY <1>1, <1>6 DEF WaitInv, NoThreadLost, WaitsForSomething
<1> QED  BY <1>2, <1>3, <1>4, <1>5, <1>6 DEF WaitInv, NoThreadLost, Listed

\* clear-i/o-state finds the threads of W wherever they are in fd-list.
LEMMA ClearIoStateIsExact ==
    ASSUME TypeOK, FdListSound, NEW W \in SUBSET Threads, NEW fd \in Fds
    PROVE  ClearIoState(W)[fd] = fdList[fd] \ W
BY DEF ClearIoState, FdListSound, TypeOK

\* Removing entries of the threads of W leaves the deadlines of the others.
LEMMA RemoveKeepsOthers ==
    ASSUME WaitInv, NEW W \in SUBSET Threads, NEW t \in Threads \ W, timeout[t] # None
    PROVE  <<timeout[t], t>> \in RemoveFromTimeoutList(W)
BY DEF WaitInv, NoThreadLost, DeadlineListed, RemoveFromTimeoutList

\* A step by which the current thread starts to wait for obj or until tm, and
\* is registered with what it waits for.
LEMMA BlockKeepsWait ==
    ASSUME TypeOK, WaitInv, phase = "run",
           NEW st \in Waiting, NEW obj \in BlockObjs \cup {None},
           NEW tm \in Nat \cup {None}, obj # None \/ tm # None,
           Block(st, obj, tm),
           \A fd \in Fds : fdList'[fd] = IF \E d \in Directions : obj = <<fd, d>>
                                        THEN fdList[fd] \cup {current} ELSE fdList[fd],
           \A t, x \in Threads : t \in recipients[x] => t \in recipients'[x],
           \A x \in Threads : obj = x =>
               current \in recipients'[x] /\ state[x] \notin Gone,
           \A m \in Mutexes : /\ mutex'[m].owner = mutex[m].owner
                              /\ \A t \in Threads : t \in mutex[m].waiters =>
                                                       t \in mutex'[m].waiters,
           \A m \in Mutexes : obj = m =>
               current \in mutex'[m].waiters /\ mutex[m].owner # None,
           \A c \in CVars, t \in Threads : t \in cvarWaiters[c] => t \in cvarWaiters'[c],
           \A c \in CVars : obj = c => current \in cvarWaiters'[c]
    PROVE  WaitInv'
<1>1. /\ \A t \in Threads :
            /\ state'[t] = IF t = current THEN st ELSE state[t]
            /\ timeout'[t] = IF t = current THEN tm ELSE timeout[t]
            /\ blockObj'[t] = IF t = current THEN obj ELSE blockObj[t]
            /\ byTimeout'[t] = IF t = current THEN FALSE ELSE byTimeout[t]
      /\ current \in Threads /\ current' = current /\ phase' = "timeouts"
  BY DEF Block, EnterScheduler, TypeOK
<1>2. timeoutList' = IF tm = None THEN timeoutList ELSE timeoutList \cup {<<tm, current>>}
  BY DEF Block
<1>3. state[current] = "running" /\ timeout[current] = None /\ blockObj[current] = None
  BY <1>1 DEF WaitInv, OneRunning, OnlyWaitingWait
<1>4. OneRunning'
  BY <1>1 DEF WaitInv, OneRunning
<1>5. OnlyWaitingWait'
  BY <1>1 DEF WaitInv, OnlyWaitingWait
<1>6. FdListSound'
  <2> SUFFICES ASSUME NEW fd \in Fds, NEW t \in fdList'[fd]
               PROVE  (\E d \in Directions : blockObj'[t] = <<fd, d>>) /\ ~byTimeout'[t]
    BY DEF FdListSound
  <2>1. CASE t \in fdList[fd]
    <3>1. t \in Threads
      BY <2>1 DEF TypeOK
    <3>2. (\E d \in Directions : blockObj[t] = <<fd, d>>) /\ ~byTimeout[t]
      BY <2>1 DEF WaitInv, FdListSound
    <3>3. t # current
      BY <1>3, <3>2, Kinds
    <3> QED  BY <1>1, <3>1, <3>2, <3>3
  <2>2. CASE t \notin fdList[fd]
    <3>1. fdList'[fd] = IF \E d \in Directions : obj = <<fd, d>>
                        THEN fdList[fd] \cup {current} ELSE fdList[fd]
      OBVIOUS
    <3>2. t = current /\ \E d \in Directions : obj = <<fd, d>>
      BY <2>2, <3>1
    <3> QED  BY <1>1, <3>2
  <2> QED  BY <2>1, <2>2
<1>7. ASSUME NEW t \in Threads PROVE Listed(t)'
  <2>1. Listed(t)
    BY DEF WaitInv, NoThreadLost, Listed
  <2>2. DeadlineListed(t)'
    BY <1>1, <1>2, <2>1 DEF Listed, DeadlineListed
  <2>3. IoRegistered(t)'
    <3> SUFFICES ASSUME NEW fd \in Fds, NEW d \in Directions, blockObj'[t] = <<fd, d>>
                 PROVE  t \in fdList'[fd]
      BY DEF IoRegistered
    <3>1. fdList'[fd] = IF \E e \in Directions : obj = <<fd, e>>
                        THEN fdList[fd] \cup {current} ELSE fdList[fd]
      OBVIOUS
    <3>2. CASE t = current
      BY <1>1, <3>1, <3>2, ZenonT(90)
    <3>3. CASE t # current
      BY <1>1, <2>1, <3>1, <3>3, ZenonT(90) DEF Listed, IoRegistered
    <3> QED  BY <3>2, <3>3
  <2>4. JoinRegistered(t)'
    BY <1>1, <2>1, ZenonT(90) DEF Listed, JoinRegistered
  <2>5. MutexRegistered(t)'
    BY <1>1, <2>1, ZenonT(90) DEF Listed, MutexRegistered
  <2>6. CVarRegistered(t)'
    <3> SUFFICES ASSUME NEW c \in CVars, blockObj'[t] = c
                 PROVE  t \in cvarWaiters'[c]
      BY DEF CVarRegistered
    <3>1. CASE t = current
      BY <1>1, <3>1
    <3>2. CASE t # current
      <4>1. t \in cvarWaiters[c]
        BY <1>1, <2>1, <3>2 DEF Listed, CVarRegistered
      <4> QED  BY <4>1
    <3> QED  BY <3>1, <3>2
  <2> QED  BY <2>2, <2>3, <2>4, <2>5, <2>6 DEF Listed
<1>8. ASSUME NEW t \in Threads, state'[t] \in Waiting PROVE WaitsForSomething(t)'
  BY <1>1, <1>8 DEF WaitInv, NoThreadLost, WaitsForSomething
<1> QED  BY <1>4, <1>5, <1>6, <1>7, <1>8 DEF WaitInv, NoThreadLost, Listed

\* The end of a thread: its joiners and the waiters of its mutexes are woken.
LEMMA ThreadKillKeepsWait ==
    ASSUME TypeOK, WaitInv, NEW k \in Threads, NEW s \in Gone, 
           NEW forced \in SUBSET Threads, \A t \in forced : state[t] \in Waiting,
           ThreadKill(k, s, forced),
           \/ k = current /\ phase = "run" /\ phase' = "timeouts"
           \/ k # current /\ phase' = phase,
           current' = current
    PROVE  WaitInv'
<1> DEFINE waiters   == UNION { mutex[m].waiters : m \in owned[k] }
           unblocked == { w \in waiters : state[w] \in Waiting } \ forced
           cleared   == forced \cup unblocked
           joined    == { r \in recipients[k] \ (cleared \cup {k}) : blockObj[r] = k }
           obj       == IF k \in cleared THEN None ELSE blockObj[k]
           W         == cleared \cup joined
<1>1. W \in SUBSET Threads /\ cleared \in SUBSET Threads
  <2>1. unblocked \in SUBSET Threads
    BY DEF TypeOK
  <2>2. joined \in SUBSET Threads
    BY DEF TypeOK
  <2> QED  BY <2>1, <2>2
<1>2. \A t \in W : state[t] \in Waiting
  <2>1. \A t \in cleared : state[t] \in Waiting
    OBVIOUS
  <2>2. \A t \in joined : blockObj[t] # None
    BY Kinds
  <2>3. \A t \in joined : state[t] \in Waiting
    BY <1>1, <2>2 DEF WaitInv, OnlyWaitingWait
  <2> QED  BY <2>1, <2>3
<1>3. \A t \in Threads :
        /\ state'[t] = IF t = k THEN s ELSE IF t \in W THEN "ready" ELSE state[t]
        /\ timeout'[t] = IF t \in W \cup {k} THEN None ELSE timeout[t]
        /\ blockObj'[t] = IF t \in W \cup {k} THEN None ELSE blockObj[t]
        /\ byTimeout'[t] = byTimeout[t]
  <2>1. /\ state' = [With(state, W, "ready") EXCEPT ![k] = s]
        /\ timeout' = With(timeout, W \cup {k}, None)
        /\ blockObj' = With(blockObj, W \cup {k}, None)
        /\ byTimeout' = byTimeout
    BY DEF ThreadKill
  <2> HIDE DEF W
  <2> QED  BY <2>1 DEF With, TypeOK
<1>4. \A t \in Threads \ (W \cup {k}) : 
         timeout[t] # None => <<timeout[t], t>> \in timeoutList'
  <2> SUFFICES ASSUME NEW t \in Threads \ (W \cup {k}), timeout[t] # None
               PROVE  <<timeout[t], t>> \in timeoutList'
    OBVIOUS
  <2>1. timeoutList' = RemoveFromTimeoutList(cleared \cup {k})
    BY DEF ThreadKill
  <2>2. t \in Threads \ (cleared \cup {k}) /\ cleared \cup {k} \in SUBSET Threads
    BY <1>1
  <2> QED  BY <2>1, <2>2, RemoveKeepsOthers
<1>5. \A fd \in Fds : fdList'[fd] = fdList[fd] \ (cleared \cup {k})
  <2>1. fdList' = ClearIoState(cleared \cup {k})
    BY DEF ThreadKill
  <2>2. cleared \cup {k} \in SUBSET Threads
    BY <1>1
  <2> HIDE DEF cleared
  <2> QED  BY <2>1, <2>2, ClearIoStateIsExact DEF WaitInv
<1>6. OneRunning'
  BY <1>2, <1>3 DEF WaitInv, OneRunning
<1>7. OnlyWaitingWait'
  BY <1>3 DEF WaitInv, OnlyWaitingWait
<1>8. FdListSound'
  <2> SUFFICES ASSUME NEW fd \in Fds, NEW t \in fdList'[fd]
               PROVE  (\E d \in Directions : blockObj'[t] = <<fd, d>>) /\ ~byTimeout'[t]
    BY DEF FdListSound
  <2>1. t \in fdList[fd] /\ t \in Threads /\ t \notin cleared /\ t # k
    BY <1>5 DEF TypeOK
  <2>2. (\E d \in Directions : blockObj[t] = <<fd, d>>) /\ ~byTimeout[t]
    BY <2>1 DEF WaitInv, FdListSound
  <2>3. t \notin joined
    BY <2>2, Kinds
  <2> HIDE DEF cleared, joined
  <2> QED  BY <1>3, <2>1, <2>2, <2>3
<1>9. ASSUME NEW t \in Threads PROVE Listed(t)'
  <2>1. CASE t \in W \cup {k}
    BY <1>3, <2>1, Kinds
       DEF Listed, DeadlineListed, IoRegistered, JoinRegistered, MutexRegistered,
           CVarRegistered
  <2>2. CASE t \notin W \cup {k}
    <3>1. Listed(t)
      BY DEF WaitInv, NoThreadLost, Listed
    <3>2. DeadlineListed(t)'
      BY <1>3, <1>4, <2>2 DEF DeadlineListed
    <3>3. IoRegistered(t)'
      BY <1>3, <1>5, <2>2, <3>1 DEF Listed, IoRegistered
    <3>4. JoinRegistered(t)'
      <4> SUFFICES ASSUME NEW x \in Threads, blockObj[t] = x
                   PROVE  t \in recipients'[x] /\ state'[x] \notin Gone
        BY <1>3, <2>2 DEF JoinRegistered
      <4>1. t \in recipients[x] /\ state[x] \notin Gone
        BY <3>1 DEF Listed, JoinRegistered
      <4>2. x # k
        BY <2>2, <4>1
      <4>3. recipients'[x] = IF x = obj THEN recipients[x] \ {k} ELSE recipients[x]
        BY <4>2 DEF ThreadKill
      <4> QED  BY <1>3, <2>2, <4>1, <4>2, <4>3
    <3>5. MutexRegistered(t)'
      <4> SUFFICES ASSUME NEW m \in Mutexes, blockObj[t] = m
                   PROVE  t \in mutex'[m].waiters /\ mutex'[m].owner # None
        BY <1>3, <2>2 DEF MutexRegistered
      <4>1. t \in mutex[m].waiters /\ mutex[m].owner # None
        BY <3>1 DEF Listed, MutexRegistered
      <4>2. state[t] \in Waiting
        BY Kinds DEF WaitInv, OnlyWaitingWait
      <4>3. m \notin owned[k]
        BY <2>2, <4>1, <4>2
      <4>4. mutex'[m] = mutex[m]
        BY <4>3 DEF ThreadKill, AbandonMutexes, With, TypeOK
      <4> QED  BY <4>1, <4>4
    <3>6. CVarRegistered(t)'
      <4> SUFFICES ASSUME NEW c \in CVars, blockObj[t] = c
                   PROVE  t \in cvarWaiters'[c]
        BY <1>3, <2>2 DEF CVarRegistered
      <4>1. t \in cvarWaiters[c]
        BY <3>1 DEF Listed, CVarRegistered
      <4>2. cvarWaiters'[c] = IF c = obj THEN cvarWaiters[c] \ {k} ELSE cvarWaiters[c]
        BY DEF ThreadKill
      <4> QED  BY <2>2, <4>1, <4>2
    <3> QED  BY <3>2, <3>3, <3>4, <3>5, <3>6 DEF Listed
  <2> QED  BY <2>1, <2>2
<1>10. ASSUME NEW t \in Threads, state'[t] \in Waiting PROVE WaitsForSomething(t)'
  BY <1>3, <1>10 DEF WaitInv, NoThreadLost, WaitsForSomething
<1> QED  BY <1>6, <1>7, <1>8, <1>9, <1>10 DEF WaitInv, NoThreadLost, Listed

\* Deadlines are moments, never None.
LEMMA DeadlineIsTime == ASSUME TypeOK, NEW tm \in Deadlines PROVE tm \in Nat /\ tm # None
BY DeadlinesType, Kinds

\* The calls that a thread may have to wait in keep the invariant.
LEMMA BlockingCallWait == TypeOK /\ WaitInv /\ BlockingCall => WaitInv'
<1> SUFFICES ASSUME TypeOK, WaitInv, BlockingCall PROVE WaitInv'
  OBVIOUS
<1>0. current \in Threads
  BY DEF TypeOK
<1>1. ASSUME NEW tm \in Deadlines, Sleep(tm) PROVE WaitInv'
  <2>1. tm \in Nat \cup {None} /\ tm # None
    BY DeadlineIsTime
  <2>2. \A fd \in Fds, d \in Directions : None # <<fd, d>>
    BY Kinds
  <2>3. /\ phase = "run" /\ Block("blocked", None, tm) 
        /\ UNCHANGED <<fdList, owned, recipients, mutex, cvarWaiters>>
    BY <1>1 DEF Sleep, syncVars
  <2> QED  BY <2>1, <2>2, <2>3, Kinds, BlockKeepsWait
<1>2. ASSUME NEW fd \in Fds, NEW dir \in Directions, NEW tm \in Deadlines \cup {None},
             BlockForIo(fd, dir, tm)
      PROVE  WaitInv'
  <2> DEFINE obj == <<fd, dir>>
  <2>1. tm \in Nat \cup {None} /\ obj \in BlockObjs \cup {None}
    BY DeadlineIsTime DEF BlockObjs, IoObjs
  <2>2. /\ phase = "run" /\ Block("blocked", obj, tm)
        /\ UNCHANGED <<owned, recipients, mutex, cvarWaiters>>
    BY <1>2 DEF BlockForIo, syncVars
  <2>3. \A g \in Fds : fdList'[g] = IF \E d \in Directions : obj = <<g, d>>
                                   THEN fdList[g] \cup {current} ELSE fdList[g]
    BY <1>2 DEF BlockForIo, TypeOK
  <2>4. /\ obj # None
        /\ \A x \in Threads : obj # x
        /\ \A m \in Mutexes : obj # m
        /\ \A c \in CVars : obj # c
    BY Kinds
  <2> HIDE DEF obj
  <2> QED  BY <2>1, <2>2, <2>3, <2>4, BlockKeepsWait
<1>3. ASSUME NEW x \in Threads, NEW tm \in Deadlines \cup {None}, Join(x, tm) PROVE WaitInv'
  <2>1. tm \in Nat \cup {None} /\ x \in BlockObjs \cup {None} /\ x # None
    BY DeadlineIsTime, Kinds DEF BlockObjs
  <2>2. /\ phase = "run" /\ Block("blocked", x, tm) /\ state[x] \notin Gone
        /\ UNCHANGED <<fdList, owned, mutex, cvarWaiters>>
    BY <1>3 DEF Join
  <2>3. /\ \A y \in Threads : recipients'[y] = IF y = x THEN recipients[y] \cup {current}
                                                    ELSE recipients[y]
    BY <1>3 DEF Join, TypeOK
  <2>4. /\ \A fd \in Fds, d \in Directions : x # <<fd, d>>
        /\ \A m \in Mutexes : x # m
        /\ \A c \in CVars : x # c
    BY Kinds
  <2> QED  BY <2>1, <2>2, <2>3, <2>4, BlockKeepsWait
<1>4. ASSUME NEW m \in Mutexes, MutexWait(m) PROVE WaitInv'
  <2>1. m \in BlockObjs \cup {None} /\ m # None
    BY Kinds DEF BlockObjs
  <2>2. /\ phase = "run" /\ Block("sleeping", m, None) /\ mutex[m].owner # None
        /\ UNCHANGED <<fdList, owned, recipients, cvarWaiters>>
    BY <1>4 DEF MutexWait
  <2>3. \A n \in Mutexes : /\ mutex'[n].owner = mutex[n].owner
                           /\ mutex'[n].waiters = IF n = m THEN mutex[n].waiters \cup {current}
                                                          ELSE mutex[n].waiters
    BY <1>4 DEF MutexWait, TypeOK
  <2>4. /\ \A fd \in Fds, d \in Directions : m # <<fd, d>>
        /\ \A x \in Threads : m # x
        /\ \A c \in CVars : m # c
    BY Kinds
  <2> QED  BY <2>1, <2>2, <2>3, <2>4, BlockKeepsWait
<1>5. ASSUME NEW c \in CVars, CVarWait(c) PROVE WaitInv'
  <2>1. c \in BlockObjs \cup {None} /\ c # None
    BY Kinds DEF BlockObjs
  <2>2. /\ phase = "run" /\ Block("sleeping", c, None)
        /\ UNCHANGED <<fdList, owned, recipients, mutex>>
    BY <1>5 DEF CVarWait
  <2>3. \A e \in CVars : cvarWaiters'[e] = IF e = c THEN cvarWaiters[e] \cup {current}
                                                   ELSE cvarWaiters[e]
    BY <1>5 DEF CVarWait, TypeOK
  <2>4. /\ \A fd \in Fds, d \in Directions : c # <<fd, d>>
        /\ \A x \in Threads : c # x
        /\ \A m \in Mutexes : c # m
    BY Kinds
  <2> QED  BY <2>1, <2>2, <2>3, <2>4, BlockKeepsWait
<1> QED  BY <1>1, <1>2, <1>3, <1>4, <1>5 DEF BlockingCall

\* ##sys#thread-unblock! inside a step that changes nothing the others wait for.
LEMMA ThreadUnblockKeepsWait ==
    ASSUME TypeOK, WaitInv, NEW S \in SUBSET Threads, ThreadUnblock(S),
           \A t \in Threads : byTimeout'[t] => byTimeout[t],
           \A t \in Threads : t \notin { w \in S : state[w] \in Waiting } =>
               \A m \in Mutexes : blockObj[t] = m =>
                   t \in mutex'[m].waiters /\ mutex'[m].owner # None,
           \A t \in Threads, c \in CVars :
               t \in cvarWaiters[c] => t \in cvarWaiters'[c] \/ t \in S,
           recipients' = recipients,
           (phase = "run" <=> phase' = "run"), current' = current
    PROVE  WaitInv'
<1> DEFINE W == { t \in S : state[t] \in Waiting }
<1>1. W \in SUBSET Threads /\ BasicUnblock(W) /\ fdList' = ClearIoState(W)
      /\ timeoutList' = RemoveFromTimeoutList(W) /\ \A t \in W : state[t] \in Waiting
  BY DEF ThreadUnblock
<1>2. \A t \in Threads : t \notin W => \A m \in Mutexes : blockObj[t] = m =>
          t \in mutex'[m].waiters /\ mutex'[m].owner # None
  OBVIOUS
<1>3. ASSUME NEW t \in Threads, t \notin W, t \in S PROVE blockObj[t] = None
  BY <1>3 DEF WaitInv, OnlyWaitingWait
<1> HIDE DEF W
<1>4. \A fd \in Fds : fdList'[fd] = fdList[fd] \ W
  BY <1>1, ClearIoStateIsExact DEF WaitInv
<1>5. \A t \in Threads \ W : timeout[t] # None => <<timeout[t], t>> \in timeoutList'
  BY <1>1, RemoveKeepsOthers
<1>6. \A t \in Threads \ W, c \in CVars :
         blockObj[t] = c /\ t \in cvarWaiters[c] => t \in cvarWaiters'[c]
  BY <1>3, Kinds
<1> QED  BY <1>1, <1>2, <1>4, <1>5, <1>6, WakeKeepsWait

\* So do its other calls,
LEMMA OtherCallWait == TypeOK /\ WaitInv /\ OtherCall => WaitInv'
<1> SUFFICES ASSUME TypeOK, WaitInv, OtherCall PROVE WaitInv'
  OBVIOUS
<1>0. current \in Threads
  BY DEF TypeOK
<1>1. CASE SetContext
  BY <1>1 DEF SetContext, threadVars, queueVars, syncVars, WaitInv, OneRunning,
     OnlyWaitingWait, FdListSound, NoThreadLost, WaitsForSomething, DeadlineListed,
     IoRegistered, JoinRegistered, MutexRegistered, CVarRegistered
<1>2. ASSUME NEW t \in Threads, NEW s \in {"created", "ready"},
             state[t] \in {"nonexistent", "created"}, state' = [state EXCEPT ![t] = s],
             UNCHANGED <<timeout, blockObj, byTimeout, timeoutList, fdList, syncVars,
                         current, phase>>
      PROVE  WaitInv'
  <2>1. \A u \in Threads : state'[u] = IF u = t THEN s ELSE state[u]
    BY <1>2 DEF TypeOK
  <2>2. OneRunning'
    BY <1>2, <2>1 DEF WaitInv, OneRunning
  <2>3. OnlyWaitingWait'
    BY <1>2, <2>1 DEF WaitInv, OnlyWaitingWait
  <2>4. FdListSound'
    BY <1>2 DEF WaitInv, FdListSound
  <2>5. NoThreadLost'
    BY <1>2, <2>1 DEF WaitInv, NoThreadLost, WaitsForSomething, DeadlineListed,
       IoRegistered, JoinRegistered, MutexRegistered, CVarRegistered, syncVars
  <2> QED  BY <2>2, <2>3, <2>4, <2>5 DEF WaitInv
<1>3. ASSUME NEW t \in Threads, MakeThread(t) \/ StartThread(t) PROVE WaitInv'
  BY <1>2, <1>3 DEF MakeThread, StartThread, queueVars, schedVars
<1>4. ASSUME NEW t \in Threads, Terminate(t) PROVE WaitInv'
  <2>1. /\ ThreadKill(t, "terminated", {}) /\ t # current
        /\ current' = current /\ phase' = phase
    BY <1>4 DEF Terminate, schedVars
  <2> QED  BY <2>1, ThreadKillKeepsWait
<1>5. ASSUME NEW m \in Mutexes, MutexLock(m) PROVE WaitInv'
  <2>1. \A n \in Mutexes : /\ mutex'[n].waiters = mutex[n].waiters
                           /\ mutex'[n].owner = IF n = m THEN current ELSE mutex[n].owner
    BY <1>5 DEF MutexLock, TypeOK
  <2>2. UNCHANGED <<threadVars, queueVars, recipients, cvarWaiters, schedVars>>
    BY <1>5 DEF MutexLock
  <2>3. OneRunning' /\ OnlyWaitingWait' /\ FdListSound'
    BY <2>2 DEF WaitInv, OneRunning, OnlyWaitingWait, FdListSound, threadVars,
       queueVars, schedVars
  <2>4. ASSUME NEW t \in Threads PROVE MutexRegistered(t)'
    BY <1>0, <2>1, <2>2, Kinds
       DEF WaitInv, NoThreadLost, MutexRegistered, threadVars
  <2>5. NoThreadLost'
    BY <2>2, <2>4 DEF WaitInv, NoThreadLost, WaitsForSomething, DeadlineListed,
       IoRegistered, JoinRegistered, CVarRegistered, threadVars, queueVars
  <2> QED  BY <2>3, <2>5 DEF WaitInv
<1>6. ASSUME NEW m \in Mutexes, MutexUnlock(m) PROVE WaitInv'
  <2> DEFINE waiting == { w \in mutex[m].waiters :
                            state[w] \in Waiting /\ blockObj[w] = m }
  <2>0. \A t \in Threads : blockObj[t] = m => t \in waiting
    BY Kinds DEF WaitInv, OnlyWaitingWait, NoThreadLost, MutexRegistered
  <2>1. CASE /\ waiting = {}
             /\ mutex' = [mutex EXCEPT ![m] =
                   [owner |-> None, waiters |-> {}, abandoned |-> @.abandoned]]
             /\ UNCHANGED <<state, timeout, blockObj, queueVars>>
    <3>1. UNCHANGED <<byTimeout, recipients, cvarWaiters, schedVars>>
      BY <1>6 DEF MutexUnlock
    <3>2. OneRunning' /\ OnlyWaitingWait' /\ FdListSound'
      BY <2>1, <3>1 DEF WaitInv, OneRunning, OnlyWaitingWait, FdListSound, queueVars,
         schedVars
    <3>3. ASSUME NEW t \in Threads PROVE MutexRegistered(t)'
      <4>1. blockObj[t] # m
        BY <2>0, <2>1
      <4>2. \A n \in Mutexes : n # m => mutex'[n] = mutex[n]
        BY <2>1 DEF TypeOK
      <4> QED  BY <2>1, <4>1, <4>2 DEF WaitInv, NoThreadLost, MutexRegistered
    <3>4. NoThreadLost'
      BY <2>1, <3>1, <3>3 DEF WaitInv, NoThreadLost, WaitsForSomething, DeadlineListed,
         IoRegistered, JoinRegistered, CVarRegistered, queueVars
    <3> QED  BY <3>2, <3>4 DEF WaitInv
  <2>2. ASSUME NEW w \in waiting,
               mutex' = [mutex EXCEPT ![m] =
                  [owner |-> w, waiters |-> waiting \ {w}, abandoned |-> @.abandoned]],
               ThreadUnblock({w})
        PROVE  WaitInv'
    <3>1. w \in Threads /\ state[w] \in Waiting
      BY DEF TypeOK
    <3>2. UNCHANGED <<byTimeout, recipients, cvarWaiters, current, phase>>
      BY <1>6 DEF MutexUnlock, schedVars
    <3>3. ASSUME NEW t \in Threads, t # w, NEW n \in Mutexes, blockObj[t] = n
          PROVE  t \in mutex'[n].waiters /\ mutex'[n].owner # None
      <4>1. CASE n = m
        <5>1. mutex'[m] = [owner |-> w, waiters |-> waiting \ {w},
                           abandoned |-> mutex[m].abandoned]
          BY <2>2 DEF TypeOK
        <5>2. t \in waiting
          BY <2>0, <3>3, <4>1
        <5> HIDE DEF waiting
        <5> QED  BY <3>1, <3>3, <4>1, <5>1, <5>2, Kinds
      <4>2. CASE n # m
        <5>1. mutex'[n] = mutex[n]
          BY <2>2, <4>2 DEF TypeOK
        <5> QED  BY <3>3, <5>1 DEF WaitInv, NoThreadLost, MutexRegistered
      <4> QED  BY <4>1, <4>2
    <3> HIDE DEF waiting
    <3> QED  BY <2>2, <3>1, <3>2, <3>3, ThreadUnblockKeepsWait
  <2> QED  BY <1>6, <2>1, <2>2 DEF MutexUnlock
<1>7. ASSUME NEW c \in CVars, CVarSignal(c) PROVE WaitInv'
  <2>1. PICK w \in cvarWaiters[c] :
             /\ cvarWaiters' = [cvarWaiters EXCEPT ![c] = @ \ {w}]
             /\ ThreadUnblock({w})
    BY <1>7 DEF CVarSignal
  <2>2. {w} \in SUBSET Threads
    BY DEF TypeOK
  <2>3. UNCHANGED <<byTimeout, recipients, mutex, current, phase>>
    BY <1>7 DEF CVarSignal, schedVars
  <2>4. \A t \in Threads, m \in Mutexes : blockObj[t] = m =>
            t \in mutex'[m].waiters /\ mutex'[m].owner # None
    BY <2>3 DEF WaitInv, NoThreadLost, MutexRegistered
  <2>5. \A t \in Threads, e \in CVars :
            t \in cvarWaiters[e] => t \in cvarWaiters'[e] \/ t \in {w}
    BY <2>1 DEF TypeOK
  <2> QED  BY <2>1, <2>2, <2>3, <2>4, <2>5, ThreadUnblockKeepsWait
<1>8. CASE Finish
  <2>1. /\ ThreadKill(current, "dead", {}) /\ phase = "run"
        /\ current' = current /\ phase' = "timeouts"
    BY <1>8 DEF Finish, EnterScheduler
  <2> QED  BY <1>0, <2>1, ThreadKillKeepsWait
<1>9. CASE UncaughtException
  <2> DEFINE forced == { t \in {Primordial} : AbortOnThreadExceptions
                                             /\ state[t] \in Waiting }
  <2>1. /\ ThreadKill(current, "terminated", forced) /\ phase = "run"
        /\ current' = current /\ phase' = "timeouts"
    BY <1>9 DEF UncaughtException, EnterScheduler
  <2>2. forced \in SUBSET Threads /\ \A t \in forced : state[t] \in Waiting
    BY PrimordialAssumption
  <2> HIDE DEF forced
  <2> QED  BY <1>0, <2>1, <2>2, ThreadKillKeepsWait
<1> QED  BY <1>1, <1>3, <1>4, <1>5, <1>6, <1>7, <1>8, <1>9 DEF OtherCall

\* the passes of ##sys#schedule,
LEMMA SchedulerPassWait == TypeOK /\ WaitInv /\ SchedulerPass => WaitInv'
<1> SUFFICES ASSUME TypeOK, WaitInv, SchedulerPass PROVE WaitInv'
  OBVIOUS
<1>1. ASSUME UNCHANGED <<threadVars, timeoutList, fdList, syncVars, current>>,
             phase = "run" <=> phase' = "run"
      PROVE  WaitInv'
  BY <1>1 DEF threadVars, syncVars, WaitInv, OneRunning, OnlyWaitingWait, FdListSound,
     NoThreadLost, WaitsForSomething, DeadlineListed, IoRegistered, JoinRegistered,
     MutexRegistered, CVarRegistered
<1>2. CASE UnblockTimeouts
  <2> DEFINE W == { e[2] : e \in { e \in timeoutList : Valid(e) /\ e[1] <= now } }
  <2>1. W \in SUBSET Threads
    BY DEF TypeOK
  <2>2. BasicUnblock(W) /\ fdList' = ClearIoState(W)
    BY <1>2 DEF UnblockTimeouts
  <2>3. \A t \in W : state[t] \in Waiting
    <3> SUFFICES ASSUME NEW e \in timeoutList, Valid(e) PROVE state[e[2]] \in Waiting
      OBVIOUS
    <3>1. e[2] \in Threads /\ timeout[e[2]] # None
      BY Kinds DEF Valid, TypeOK
    <3> QED  BY <3>1 DEF WaitInv, OnlyWaitingWait
  <2>4. \A t \in Threads \ W : byTimeout'[t] => byTimeout[t]
    BY <1>2 DEF UnblockTimeouts, With, TypeOK
  <2>5. \A t \in Threads \ W : timeout[t] # None => <<timeout[t], t>> \in timeoutList'
    <3> SUFFICES ASSUME NEW t \in Threads \ W, timeout[t] # None
                 PROVE  <<timeout[t], t>> \in timeoutList'
      OBVIOUS
    <3> DEFINE e == <<timeout[t], t>>
    <3>1. e \in timeoutList /\ Valid(e) /\ e[1] \in Nat
      BY DEF WaitInv, NoThreadLost, DeadlineListed, Valid, TypeOK
    <3>2. e[1] > now
      BY <3>1 DEF TypeOK
    <3>3. timeoutList' = { g \in timeoutList : \E f \in { h \in timeoutList :
                             Valid(h) /\ h[1] > now } : f[1] <= g[1] }
      BY <1>2 DEF UnblockTimeouts
    <3>4. e[1] <= e[1]
      BY <3>1
    <3> HIDE DEF e
    <3> QED  BY <3>1, <3>2, <3>3, <3>4 DEF e
  <2>6. /\ UNCHANGED <<recipients, mutex, cvarWaiters, current>>
        /\ phase # "run" /\ phase' # "run"
    BY <1>2 DEF UnblockTimeouts, syncVars
  <2>7. \A t \in Threads \ W : MutexRegistered(t) => \A m \in Mutexes : blockObj[t] = m =>
            t \in mutex'[m].waiters /\ mutex'[m].owner # None
    BY <2>6 DEF MutexRegistered
  <2> HIDE DEF W
  <2>8. \A fd \in Fds : fdList'[fd] = fdList[fd] \ W
    BY <2>1, <2>2, ClearIoStateIsExact DEF WaitInv
  <2> QED  BY <2>1, <2>2, <2>3, <2>4, <2>5, <2>6, <2>7, <2>8, WakeKeepsWait
<1>3. ASSUME ForcePrimordial, UNCHANGED <<syncVars, current>>,
             phase = "run" <=> phase' = "run"
      PROVE  WaitInv'
  <2>1. /\ ThreadUnblock({Primordial}) /\ {Primordial} \in SUBSET Threads
        /\ \A t \in Threads : byTimeout'[t] => byTimeout[t]
    BY <1>3, PrimordialAssumption DEF ForcePrimordial, TypeOK
  <2>2. \A t \in Threads, m \in Mutexes : blockObj[t] = m =>
            t \in mutex'[m].waiters /\ mutex'[m].owner # None
    BY <1>3 DEF WaitInv, NoThreadLost, MutexRegistered, syncVars
  <2> QED  BY <1>3, <2>1, <2>2, ThreadUnblockKeepsWait DEF syncVars
<1>4. CASE PollReady
  <2>1. PICK r \in PollResults :
         LET seen(fd) == { t \in fdList[fd] : r[fd] # {} }
             wake(fd) == { t \in seen(fd) : /\ ~byTimeout[t]
                                           /\ blockObj[t] \in IoObjs =>
                                                FdsetTest(r[fd], blockObj[t][2]) }
             W == UNION { wake(fd) : fd \in Fds }
         IN  /\ fdList' = [fd \in Fds |->
                             fdList[fd] \ (wake(fd) \cup
                                { t \in seen(fd) : byTimeout[t] })]
             /\ timeoutList' = RemoveFromTimeoutList({ t \in W : timeout[t] # None })
             /\ BasicUnblock(W)
    BY <1>4 DEF PollReady
  <2> DEFINE seen(fd) == { t \in fdList[fd] : r[fd] # {} }
             wake(fd) == { t \in seen(fd) : /\ ~byTimeout[t]
                                           /\ blockObj[t] \in IoObjs =>
                                                FdsetTest(r[fd], blockObj[t][2]) }
             W == UNION { wake(fd) : fd \in Fds }
  <2>2. W \in SUBSET Threads /\ BasicUnblock(W)
    BY <2>1 DEF TypeOK
  <2>3. \A fd \in Fds : wake(fd) \subseteq fdList[fd]
    OBVIOUS
  <2>4. \A t \in W : state[t] \in Waiting
    <3> SUFFICES ASSUME NEW fd \in Fds, NEW t \in fdList[fd] PROVE state[t] \in Waiting
      BY <2>3
    <3>1. t \in Threads /\ blockObj[t] # None
      <4>1. t \in Threads
        BY DEF TypeOK
      <4>2. \E d \in Directions : blockObj[t] = <<fd, d>>
        BY DEF WaitInv, FdListSound
      <4> QED  BY <4>1, <4>2, Kinds
    <3> QED  BY <3>1 DEF WaitInv, OnlyWaitingWait
  <2>5. \A fd, g \in Fds : \A t \in fdList[fd] : t \in fdList[g] => fd = g
    BY DEF WaitInv, FdListSound
  <2>6. \A fd \in Fds : \A t \in fdList[fd] : t \in W <=> t \in wake(fd)
    BY <2>3, <2>5
  <2>7. \A fd \in Fds : { t \in seen(fd) : byTimeout[t] } = {}
    BY DEF WaitInv, FdListSound
  <2>8. \A fd \in Fds : fdList'[fd] = fdList[fd] \ (wake(fd) \cup
                                                    { t \in seen(fd) : byTimeout[t] })
    BY <2>1
  <2>9. \A t \in Threads \ W : timeout[t] # None => <<timeout[t], t>> \in timeoutList'
    <3>1. timeoutList' = RemoveFromTimeoutList({ t \in W : timeout[t] # None })
      BY <2>1
    <3>2. { t \in W : timeout[t] # None } \in SUBSET Threads
      BY <2>2
    <3> HIDE DEF W
    <3> QED  BY <3>1, <3>2, RemoveKeepsOthers
  <2>10. /\ UNCHANGED <<byTimeout, recipients, mutex, cvarWaiters, current>>
         /\ phase # "run" /\ phase' # "run"
    BY <1>4 DEF PollReady, Polling, syncVars
  <2>11. \A t \in Threads \ W : MutexRegistered(t) => \A m \in Mutexes : blockObj[t] = m =>
            t \in mutex'[m].waiters /\ mutex'[m].owner # None
    BY <2>10 DEF MutexRegistered
  <2> HIDE DEF W, wake, seen
  <2>12. \A fd \in Fds : fdList'[fd] = fdList[fd] \ W
    BY <2>6, <2>7, <2>8
  <2> QED  BY <2>2, <2>4, <2>9, <2>10, <2>11, <2>12, WakeKeepsWait
<1>5. CASE Switch
  <2>1. Head(readyQueue) \in Threads
    BY <1>5, HeadTailProperties DEF Switch, TypeOK
  <2> DEFINE h == Head(readyQueue)
  <2>2. /\ current' = h /\ phase = "fetch" /\ phase' = "run" /\ state[h] = "ready"
        /\ state' = [state EXCEPT ![h] = "running"]
        /\ UNCHANGED <<timeout, blockObj, byTimeout, timeoutList, fdList, syncVars>>
    BY <1>5 DEF Switch
  <2> HIDE DEF h
  <2>3. \A t \in Threads : state'[t] = IF t = h THEN "running" ELSE state[t]
    BY <2>2 DEF TypeOK
  <2>4. OneRunning'
    BY <2>2, <2>3 DEF WaitInv, OneRunning
  <2>5. OnlyWaitingWait' /\ FdListSound'
    BY <2>2, <2>3 DEF WaitInv, OnlyWaitingWait, FdListSound
  <2>6. NoThreadLost'
    BY <2>2, <2>3 DEF WaitInv, NoThreadLost, WaitsForSomething, DeadlineListed,
       IoRegistered, JoinRegistered, MutexRegistered, CVarRegistered, syncVars
  <2> QED  BY <2>4, <2>5, <2>6 DEF WaitInv
<1>6. CASE MSleep \/ MSleepSignalled \/ NoIo \/ PollTimeout
  BY <1>1, <1>6 DEF MSleep, MSleepSignalled, NoIo, PollTimeout, Polling, queueVars
<1>7. CASE SkipThread \/ NothingReady
  BY <1>1, <1>7 DEF SkipThread, NothingReady, queueVars, schedVars
<1>8. CASE SleepInterrupted \/ PollInterrupted
  BY <1>3, <1>8 DEF SleepInterrupted, PollInterrupted, Polling
<1> QED  BY <1>2, <1>4, <1>5, <1>6, <1>7, <1>8 DEF SchedulerPass

\* and hence every step.
LEMMA NextWait == TypeOK /\ WaitInv /\ [Next]_vars => WaitInv'
<1> SUFFICES ASSUME TypeOK, WaitInv, [Next]_vars PROVE WaitInv'
  OBVIOUS
<1>1. CASE Yield
  <2>1. /\ phase = "run" /\ phase' = "timeouts" /\ current' = current
        /\ state' = [state EXCEPT ![current] = "ready"]
        /\ byTimeout' = [byTimeout EXCEPT ![current] = FALSE]
        /\ UNCHANGED <<timeout, blockObj, timeoutList, fdList, syncVars>>
    BY <1>1 DEF Yield, EnterScheduler
  <2>2. /\ \A t \in Threads :
              /\ state'[t] = IF t = current THEN "ready" ELSE state[t]
              /\ byTimeout'[t] => byTimeout[t]
        /\ state[current] = "running"
    BY <2>1 DEF TypeOK, WaitInv, OneRunning
  <2>3. OneRunning'
    BY <2>1, <2>2 DEF WaitInv, OneRunning
  <2>4. OnlyWaitingWait'
    BY <2>1, <2>2 DEF WaitInv, OnlyWaitingWait
  <2>5. FdListSound'
    BY <2>1, <2>2 DEF WaitInv, FdListSound, TypeOK
  <2>6. NoThreadLost'
    BY <2>1, <2>2 DEF WaitInv, NoThreadLost, WaitsForSomething, DeadlineListed,
       IoRegistered, JoinRegistered, MutexRegistered, CVarRegistered, syncVars
  <2> QED  BY <2>3, <2>4, <2>5, <2>6 DEF WaitInv
<1>2. CASE Tick \/ UNCHANGED vars
  BY <1>2 DEF Tick, vars, threadVars, queueVars, syncVars, schedVars, WaitInv, OneRunning,
     OnlyWaitingWait, FdListSound, NoThreadLost, WaitsForSomething, DeadlineListed,
     IoRegistered, JoinRegistered, MutexRegistered, CVarRegistered
<1> QED  BY <1>1, <1>2, BlockingCallWait, OtherCallWait, SchedulerPassWait DEF Next

\* The types and the invariant about waiting threads always hold.
LEMMA WaitInvariant == Spec => [](TypeOK /\ WaitInv)
<1>1. Init => TypeOK /\ WaitInv
  BY InitType, InitWait
<1>2. TypeOK /\ WaitInv /\ [Next]_vars => (TypeOK /\ WaitInv)'
  BY NextType, NextWait
<1> QED  BY <1>1, <1>2, PTL DEF Spec

\* No waiting thread is ever forgotten by what should wake it.
THEOREM NoThreadIsLost == Spec => []NoThreadLost
BY WaitInvariant, PTL DEF WaitInv

\* The threads in fd-list are those that wait for their descriptor.
THEOREM FdListIsSound == Spec => []FdListSound
BY WaitInvariant, PTL DEF WaitInv

\* A thread that does not wait carries nothing over from its last wait.
THEOREM WaitingIsExclusive == Spec => [](OnlyWaitingWait /\ OneRunning)
BY WaitInvariant, PTL DEF WaitInv

-----------------------------------------------------------------------------
(***************************************************************************)
(* Orders: q holds each thread of W exactly once.                          *)
(***************************************************************************)
IsOrder(q, W) ==
    /\ q \in Seq(Threads)
    /\ \A i \in 1..Len(q) : q[i] \in W
    /\ \A i, j \in 1..Len(q) : q[i] = q[j] => i = j
    /\ \A t \in W : \E i \in 1..Len(q) : q[i] = t

\* Concatenation, element by element.
LEMMA ConcatElements ==
    ASSUME NEW p \in Seq(Threads), NEW q \in Seq(Threads)
    PROVE  /\ p \o q \in Seq(Threads)
           /\ Len(p \o q) = Len(p) + Len(q)
           /\ \A i \in 1..Len(p) : (p \o q)[i] = p[i]
           /\ \A i \in 1..Len(q) : (p \o q)[Len(p) + i] = q[i]
           /\ \A i \in 1..Len(p \o q) : i \in 1..Len(p)
                 \/ (i - Len(p) \in 1..Len(q) /\ (p \o q)[i] = q[i - Len(p)])
<1>1. /\ p \o q \in Seq(Threads) /\ Len(p \o q) = Len(p) + Len(q)
      /\ \A i \in 1..Len(p) + Len(q) :
             (p \o q)[i] = IF i <= Len(p) THEN p[i] ELSE q[i - Len(p)]
  BY ConcatProperties
<1>2. Len(p) \in Nat /\ Len(q) \in Nat
  OBVIOUS
<1>3. \A i \in 1..Len(p) : (p \o q)[i] = p[i]
  BY <1>1, <1>2
<1>4. \A i \in 1..Len(q) : (p \o q)[Len(p) + i] = q[i]
  <2> SUFFICES ASSUME NEW i \in 1..Len(q) PROVE (p \o q)[Len(p) + i] = q[i]
    OBVIOUS
  <2>1. Len(p) + i \in 1..Len(p) + Len(q) /\ ~(Len(p) + i <= Len(p))
        /\ (Len(p) + i) - Len(p) = i
    BY <1>2
  <2> QED  BY <1>1, <2>1
<1> QED  BY <1>1, <1>2, <1>3, <1>4

\* The orders of two disjoint sets, one behind the other.
LEMMA OrdersConcat ==
    ASSUME NEW A, NEW B, A \cap B = {}, NEW p, NEW q, IsOrder(p, A), IsOrder(q, B)
    PROVE  IsOrder(p \o q, A \cup B)
<1> DEFINE c == p \o q
<1>0. /\ p \in Seq(Threads) /\ q \in Seq(Threads) /\ Len(p) \in Nat /\ Len(q) \in Nat
  BY DEF IsOrder
<1>1. /\ c \in Seq(Threads) /\ Len(c) = Len(p) + Len(q)
      /\ \A i \in 1..Len(p) : c[i] = p[i]
      /\ \A i \in 1..Len(q) : c[Len(p) + i] = q[i]
      /\ \A i \in 1..Len(c) : i \in 1..Len(p)
            \/ (i - Len(p) \in 1..Len(q) /\ c[i] = q[i - Len(p)])
  <2>1. /\ c \in Seq(Threads) /\ Len(c) = Len(p) + Len(q)
        /\ \A i \in 1..Len(p) : c[i] = p[i]
        /\ \A i \in 1..Len(q) : c[Len(p) + i] = q[i]
    BY <1>0, ConcatElements
  <2> HIDE DEF c
  <2>2. ASSUME NEW i \in 1..Len(c), i \notin 1..Len(p)
        PROVE  i - Len(p) \in 1..Len(q) /\ c[i] = q[i - Len(p)]
    <3>1. i - Len(p) \in 1..Len(q) /\ i = Len(p) + (i - Len(p))
      BY <1>0, <2>1, <2>2
    <3> QED  BY <2>1, <3>1
  <2> QED  BY <2>1, <2>2
<1> HIDE DEF c
<1>2. \A i \in 1..Len(c) : c[i] \in A \cup B
  BY <1>1, ZenonT(90) DEF IsOrder
<1>3. ASSUME NEW i \in 1..Len(c), NEW j \in 1..Len(c), c[i] = c[j] PROVE i = j
  <2>1. CASE i \in 1..Len(p) /\ j \in 1..Len(p)
    BY <1>1, <1>3, <2>1 DEF IsOrder
  <2>2. CASE i \notin 1..Len(p) /\ j \notin 1..Len(p)
    <3>1. /\ i - Len(p) \in 1..Len(q) /\ c[i] = q[i - Len(p)]
          /\ j - Len(p) \in 1..Len(q) /\ c[j] = q[j - Len(p)]
      BY <1>1, <2>2
    <3>2. i - Len(p) = j - Len(p)
      BY <1>3, <3>1 DEF IsOrder
    <3> QED  BY <1>0, <3>2
  <2>3. \A k \in 1..Len(c) : k \in 1..Len(p) => c[k] \in A
    BY <1>1 DEF IsOrder
  <2>4. \A k \in 1..Len(c) : k \notin 1..Len(p) => c[k] \in B
    <3> SUFFICES ASSUME NEW k \in 1..Len(c), k \notin 1..Len(p) PROVE c[k] \in B
      OBVIOUS
    <3>1. k - Len(p) \in 1..Len(q) /\ c[k] = q[k - Len(p)]
      BY <1>1
    <3> QED  BY <3>1 DEF IsOrder
  <2> QED  BY <1>3, <2>1, <2>2, <2>3, <2>4
<1>4. ASSUME NEW t \in A \cup B PROVE \E i \in 1..Len(c) : c[i] = t
  <2>1. CASE t \in A
    <3>1. PICK i \in 1..Len(p) : p[i] = t
      BY <2>1 DEF IsOrder
    <3>2. i \in 1..Len(c)
      BY <1>0, <1>1
    <3> QED  BY <1>1, <3>1, <3>2
  <2>2. CASE t \in B
    <3>1. PICK i \in 1..Len(q) : q[i] = t
      BY <2>2 DEF IsOrder
    <3>2. Len(p) + i \in 1..Len(c)
      BY <1>0, <1>1
    <3> QED  BY <1>1, <3>1, <3>2
  <2> QED  BY <2>1, <2>2
<1>5. IsOrder(c, A \cup B)
  BY <1>1, <1>2, <1>3, <1>4 DEF IsOrder
<1> QED  BY <1>5 DEF c

\* The empty sequence lists the empty set,
LEMMA EmptyOrder == IsOrder(<<>>, {}) /\ \A q \in Seq(Threads) : q \o <<>> = q
BY EmptySeq, ConcatEmptySeq DEF IsOrder

\* and a sequence of one thread lists that thread.
LEMMA OneOrder == ASSUME NEW t \in Threads PROVE IsOrder(<<t>>, {t})
BY DEF IsOrder
-----------------------------------------------------------------------------
(***************************************************************************)
(* What steps that wake threads do to states and queue.                    *)
(***************************************************************************)

\* A step wakes the threads of W, which were waiting.
Wakes(W) ==
    /\ W \in SUBSET Threads
    /\ \A t \in W : state[t] \in Waiting
    /\ \E q \in Seq(Threads) : IsOrder(q, W) /\ readyQueue' = readyQueue \o q

\* The orders that several threads may be woken in list them once.
LEMMA OrdersOrder ==
    ASSUME NEW W \in SUBSET Threads, NEW q \in Orders(W)
    PROVE  q \in Seq(Threads) /\ IsOrder(q, W)
BY OrdersAreSequences DEF IsOrder

\* ##sys#thread-basic-unblock! wakes exactly the waiting threads it is called for.
LEMMA UnblockWakes ==
    ASSUME TypeOK, NEW W \in SUBSET Threads, BasicUnblock(W), \A t \in W : state[t] \in Waiting
    PROVE  /\ Wakes(W)
           /\ \A t \in Threads : state'[t] = IF t \in W THEN "ready" ELSE state[t]
<1>1. PICK q \in Orders(W) : readyQueue' = readyQueue \o q
  BY DEF BasicUnblock
<1>2. q \in Seq(Threads) /\ IsOrder(q, W)
  BY OrdersOrder
<1>3. \A t \in Threads : state'[t] = IF t \in W THEN "ready" ELSE state[t]
  BY DEF BasicUnblock, With, TypeOK
<1> QED  BY <1>1, <1>2, <1>3 DEF Wakes

\* ##sys#thread-unblock! wakes those of its threads that wait.
LEMMA ThreadUnblockWakes ==
    ASSUME TypeOK, NEW S \in SUBSET Threads, ThreadUnblock(S)
    PROVE  \E W \in SUBSET Threads :
               /\ Wakes(W)
               /\ \A t \in Threads : state'[t] = IF t \in W THEN "ready" ELSE state[t]
<1> DEFINE W == { t \in S : state[t] \in Waiting }
<1>1. W \in SUBSET Threads /\ BasicUnblock(W) /\ \A t \in W : state[t] \in Waiting
  BY DEF ThreadUnblock
<1> HIDE DEF W
<1> QED  BY <1>1, UnblockWakes

\* The end of the thread k, which wakes those that waited for it.
LEMMA KillWakes ==
    ASSUME TypeOK, WaitInv, NEW k \in Threads, NEW s \in Gone,
           NEW forced \in SUBSET Threads, \A t \in forced : state[t] \in Waiting,
           ThreadKill(k, s, forced)
    PROVE  \E W \in SUBSET Threads :
               /\ Wakes(W)
               /\ \A t \in Threads : state'[t] = IF t = k THEN s
                                                 ELSE IF t \in W THEN "ready" ELSE state[t]
<1> DEFINE waiters   == UNION { mutex[m].waiters : m \in owned[k] }
           unblocked == { w \in waiters : state[w] \in Waiting } \ forced
           cleared   == forced \cup unblocked
           joined    == { r \in recipients[k] \ (cleared \cup {k}) : blockObj[r] = k }
           W         == cleared \cup joined
<1>1. unblocked \in SUBSET Threads /\ joined \in SUBSET Threads
  BY DEF TypeOK
<1>2. \A t \in W : state[t] \in Waiting
  <2>1. \A t \in cleared : state[t] \in Waiting
    OBVIOUS
  <2>2. \A t \in joined : blockObj[t] # None
    BY Kinds
  <2>3. \A t \in joined : state[t] \in Waiting
    BY <1>1, <2>2 DEF WaitInv, OnlyWaitingWait
  <2> QED  BY <2>1, <2>3
<1>3. PICK p \in Orders(forced), q \in Orders(unblocked), r \in Orders(joined) :
          readyQueue' = readyQueue \o p \o q \o r
  BY DEF ThreadKill
<1>4. forced \cap unblocked = {} /\ cleared \cap joined = {}
  OBVIOUS
<1>5. state' = [With(state, W, "ready") EXCEPT ![k] = s]
  BY DEF ThreadKill
<1> HIDE DEF unblocked, joined
<1>6. /\ IsOrder(p, forced) /\ IsOrder(q, unblocked) /\ IsOrder(r, joined)
      /\ p \in Seq(Threads) /\ q \in Seq(Threads) /\ r \in Seq(Threads)
  BY <1>1, <1>3, OrdersOrder
<1>7. IsOrder(p \o q, cleared)
  BY <1>4, <1>6, OrdersConcat
<1>8. IsOrder((p \o q) \o r, W)
  BY <1>4, <1>6, <1>7, OrdersConcat
<1>9. readyQueue' = readyQueue \o ((p \o q) \o r)
  <2>1. readyQueue \in Seq(Threads) /\ p \o q \in Seq(Threads)
    BY <1>6, ConcatProperties DEF TypeOK
  <2>4. \A a, b \in Seq(Threads) : (readyQueue \o a) \o b = readyQueue \o (a \o b)
    BY <2>1, ConcatAssociative, SMTT(60)
  <2>2. readyQueue \o p \o q = readyQueue \o (p \o q)
    BY <1>6, <2>4
  <2>3. (readyQueue \o (p \o q)) \o r = readyQueue \o ((p \o q) \o r)
    BY <1>6, <2>4, <2>1
  <2> QED  BY <1>3, <2>2, <2>3
<1>10. W \in SUBSET Threads /\ (p \o q) \o r \in Seq(Threads)
  BY <1>1, <1>8 DEF IsOrder
<1>11. Wakes(W)
  BY <1>2, <1>8, <1>9, <1>10 DEF Wakes
<1> HIDE DEF W
<1>12. \A t \in Threads : state'[t] = IF t = k THEN s
                                      ELSE IF t \in W THEN "ready" ELSE state[t]
  BY <1>5 DEF With, TypeOK
<1> QED  BY <1>10, <1>11, <1>12

-----------------------------------------------------------------------------
(***************************************************************************)
(* The ready queue.                                                        *)
(***************************************************************************)
Queueable == Gone \cup {"ready"}

\* A step that appends an order of W, whose threads were not in the queue and
\* become ready or gone, and makes no other thread ready.
LEMMA AppendKeepsQueue ==
    ASSUME TypeOK, ReadyQueueSound, NEW W \in SUBSET Threads, NEW q \in Seq(Threads),
           IsOrder(q, W), readyQueue' = readyQueue \o q,
           \A t \in W : state[t] \notin Queueable /\ state'[t] \in Queueable,
           \A t \in Threads \ W :
               \/ state'[t] = state[t] \/ state'[t] \in Gone
               \/ state[t] \notin Queueable /\ state'[t] # "ready"
    PROVE  ReadyQueueSound'
<1> DEFINE rq == readyQueue
<1>0. rq \in Seq(Threads) /\ Len(rq) \in Nat /\ Len(q) \in Nat
  BY DEF TypeOK
<1>1. /\ \A i, j \in 1..Len(rq) : rq[i] = rq[j] => i = j
      /\ \A i \in 1..Len(rq) : rq[i] \in Threads /\ state[rq[i]] \in Queueable
      /\ \A t \in Threads : state[t] = "ready" => \E i \in 1..Len(rq) : rq[i] = t
  BY <1>0 DEF ReadyQueueSound, Queueable
<1> DEFINE c == rq \o q
<1>2. /\ c \in Seq(Threads) /\ Len(c) = Len(rq) + Len(q)
      /\ \A i \in 1..Len(rq) : c[i] = rq[i]
      /\ \A i \in 1..Len(q) : c[Len(rq) + i] = q[i]
      /\ \A i \in 1..Len(c) : i \in 1..Len(rq)
            \/ (i - Len(rq) \in 1..Len(q) /\ c[i] = q[i - Len(rq)])
  BY <1>0, ConcatElements
<1> HIDE DEF c, rq
<1>3. \A i \in 1..Len(c) : i \in 1..Len(rq) => c[i] \in Threads /\ state[c[i]] \in Queueable
  BY <1>1, <1>2
<1>4. \A i \in 1..Len(c) : i \notin 1..Len(rq) => c[i] \in W
  <2> SUFFICES ASSUME NEW i \in 1..Len(c), i \notin 1..Len(rq) PROVE c[i] \in W
    OBVIOUS
  <2>1. i - Len(rq) \in 1..Len(q) /\ c[i] = q[i - Len(rq)]
    BY <1>2
  <2> QED  BY <2>1 DEF IsOrder
<1>5. ASSUME NEW i \in 1..Len(c), NEW j \in 1..Len(c), c[i] = c[j] PROVE i = j
  <2>1. CASE i \in 1..Len(rq) /\ j \in 1..Len(rq)
    BY <1>1, <1>2, <1>5, <2>1
  <2>2. CASE i \notin 1..Len(rq) /\ j \notin 1..Len(rq)
    <3>1. /\ i - Len(rq) \in 1..Len(q) /\ c[i] = q[i - Len(rq)]
          /\ j - Len(rq) \in 1..Len(q) /\ c[j] = q[j - Len(rq)]
      BY <1>2, <2>2
    <3>2. i - Len(rq) = j - Len(rq)
      BY <1>5, <3>1 DEF IsOrder
    <3> QED  BY <1>0, <3>2
  <2> QED  BY <1>3, <1>4, <1>5, <2>1, <2>2
<1>6. ASSUME NEW i \in 1..Len(c) PROVE state'[c[i]] \in Queueable
  <2>1. CASE i \in 1..Len(rq)
    <3>1. c[i] \in Threads /\ state[c[i]] \in Queueable
      BY <1>3, <2>1
    <3> QED  BY <3>1 DEF Queueable
  <2>2. CASE i \notin 1..Len(rq)
    BY <1>4, <2>2
  <2> QED  BY <2>1, <2>2
<1>7. ASSUME NEW t \in Threads, state'[t] = "ready" PROVE \E i \in 1..Len(c) : c[i] = t
  <2>1. CASE t \in W
    <3>1. PICK i \in 1..Len(q) : q[i] = t
      BY <2>1 DEF IsOrder
    <3>2. Len(rq) + i \in 1..Len(c)
      BY <1>0, <1>2
    <3> QED  BY <1>2, <3>1, <3>2
  <2>2. CASE t \notin W
    <3>1. state[t] = "ready"
      BY <1>7, <2>2
    <3>2. PICK i \in 1..Len(rq) : rq[i] = t
      BY <1>1, <3>1
    <3>3. i \in 1..Len(c)
      BY <1>0, <1>2
    <3> QED  BY <1>2, <3>2, <3>3
  <2> QED  BY <2>1, <2>2
<1>8. readyQueue' = c /\ DOMAIN c = 1..Len(c)
  BY <1>2 DEF c, rq
<1> QED  BY <1>5, <1>6, <1>7, <1>8 DEF ReadyQueueSound, Queueable

\* A step that leaves the queue alone.
LEMMA SameQueue ==
    ASSUME TypeOK, ReadyQueueSound, UNCHANGED readyQueue,
           \A t \in Threads :
               \/ state'[t] = state[t] \/ state'[t] \in Gone
               \/ state[t] \notin Queueable /\ state'[t] # "ready"
    PROVE  ReadyQueueSound'
<1>1. /\ {} \in SUBSET Threads /\ <<>> \in Seq(Threads) /\ IsOrder(<<>>, {})
      /\ readyQueue' = readyQueue \o <<>>
  BY EmptyOrder, EmptySeq DEF TypeOK
<1> QED  BY <1>1, AppendKeepsQueue

\* A step that puts one thread at the end.
LEMMA AppendOne ==
    ASSUME TypeOK, ReadyQueueSound, NEW t \in Threads, state[t] \notin Queueable,
           readyQueue' = Append(readyQueue, t), state' = [state EXCEPT ![t] = "ready"]
    PROVE  ReadyQueueSound'
<1>1. readyQueue' = readyQueue \o <<t>> /\ <<t>> \in Seq(Threads)
  BY AppendIsConcat DEF TypeOK
<1>2. \A u \in Threads : state'[u] = IF u = t THEN "ready" ELSE state[u]
  BY DEF TypeOK
<1>3. {t} \in SUBSET Threads /\ IsOrder(<<t>>, {t})
  BY OneOrder
<1>4. \A u \in {t} : state[u] \notin Queueable /\ state'[u] \in Queueable
  BY <1>2 DEF Queueable
<1>5. \A u \in Threads \ {t} : state'[u] = state[u]
  BY <1>2
<1> QED  BY <1>1, <1>3, <1>4, <1>5, AppendKeepsQueue

\* A step that wakes threads, and may end one.
LEMMA WakesKeepsQueue ==
    ASSUME TypeOK, ReadyQueueSound, NEW W \in SUBSET Threads, Wakes(W),
           \A t \in Threads : \/ t \in W /\ state'[t] = "ready"
                              \/ t \notin W /\ state'[t] = state[t]
                              \/ state'[t] \in Gone
    PROVE  ReadyQueueSound'
<1>1. PICK q \in Seq(Threads) : IsOrder(q, W) /\ readyQueue' = readyQueue \o q
  BY DEF Wakes
<1>2. \A t \in W : state[t] \notin Queueable /\ state'[t] \in Queueable
  BY DEF Wakes, Queueable
<1> QED  BY <1>1, <1>2, AppendKeepsQueue

\* The first thread leaves the queue: to run, or because it is gone.
LEMMA TailKeepsQueue ==
    ASSUME TypeOK, ReadyQueueSound, readyQueue # <<>>, readyQueue' = Tail(readyQueue),
           \A t \in Threads : t # Head(readyQueue) => state'[t] = state[t],
           state'[Head(readyQueue)] # "ready"
    PROVE  ReadyQueueSound'
<1> DEFINE rq == readyQueue
           tl == Tail(readyQueue)
<1>1. /\ rq \in Seq(Threads) /\ Len(rq) \in Nat \ {0} /\ tl \in Seq(Threads)
      /\ Head(rq) = rq[1] /\ Len(tl) = Len(rq) - 1
      /\ \A i \in 1..Len(tl) : tl[i] = rq[i + 1]
  BY HeadTailProperties, LenProperties, EmptySeq DEF TypeOK
<1>2. /\ \A i, j \in 1..Len(rq) : rq[i] = rq[j] => i = j
      /\ \A i \in 1..Len(rq) : rq[i] \in Threads /\ state[rq[i]] \in Queueable
      /\ \A t \in Threads : state[t] = "ready" => \E i \in 1..Len(rq) : rq[i] = t
  BY <1>1 DEF ReadyQueueSound, Queueable
<1>3. readyQueue' = tl /\ DOMAIN tl = 1..Len(tl)
  BY <1>1
<1> HIDE DEF rq, tl
<1>4. \A i \in 1..Len(tl) : /\ i + 1 \in 1..Len(rq) /\ i + 1 # 1 /\ 1 \in 1..Len(rq)
                            /\ tl[i] = rq[i + 1]
  BY <1>1
<1>5. ASSUME NEW i \in 1..Len(tl) PROVE tl[i] # Head(rq) /\ tl[i] \in Threads
  BY <1>1, <1>2, <1>4
<1>6. ASSUME NEW i \in 1..Len(tl), NEW j \in 1..Len(tl), tl[i] = tl[j] PROVE i = j
  <2>1. i + 1 = j + 1
    BY <1>2, <1>4, <1>6
  <2> QED  BY <2>1
<1>7. ASSUME NEW i \in 1..Len(tl) PROVE state'[tl[i]] \in Queueable
  <2>1. state'[tl[i]] = state[tl[i]]
    BY <1>5 DEF rq
  <2> QED  BY <1>2, <1>4, <2>1
<1>8. ASSUME NEW t \in Threads, state'[t] = "ready" PROVE \E i \in 1..Len(tl) : tl[i] = t
  <2>1. t # Head(rq) /\ state[t] = "ready"
    BY <1>8 DEF rq
  <2>2. PICK i \in 1..Len(rq) : rq[i] = t
    BY <1>2, <2>1
  <2>3. i # 1
    BY <1>1, <2>1, <2>2
  <2>4. i - 1 \in 1..Len(tl) /\ (i - 1) + 1 = i
    BY <1>1, <2>3
  <2> QED  BY <1>4, <2>2, <2>4
<1> QED  BY <1>3, <1>6, <1>7, <1>8 DEF ReadyQueueSound, Queueable

\* A running thread that begins to wait is not in the ready queue.
LEMMA BlockKeepsQueue ==
    ASSUME TypeOK, WaitInv, ReadyQueueSound, phase = "run", NEW st \in Waiting,
           NEW obj, NEW tm, Block(st, obj, tm)
    PROVE  ReadyQueueSound'
<1>1. state[current] = "running" /\ current \in Threads
  BY DEF WaitInv, OneRunning, TypeOK
<1>2. UNCHANGED readyQueue /\ state' = [state EXCEPT ![current] = st]
  BY DEF Block
<1>3. \A t \in Threads : \/ state'[t] = state[t] \/ state'[t] \in Gone
                         \/ state[t] \notin Queueable /\ state'[t] # "ready"
  BY <1>1, <1>2 DEF TypeOK, Queueable
<1> QED  BY <1>2, <1>3, SameQueue

\* Waking waiting threads, one way or the other, keeps the queue sound.
LEMMA UnblockKeepsQueue ==
    ASSUME TypeOK, ReadyQueueSound, NEW W \in SUBSET Threads, BasicUnblock(W),
           \A t \in W : state[t] \in Waiting
    PROVE  ReadyQueueSound'
<1>1. Wakes(W) /\ \A t \in Threads : state'[t] = IF t \in W THEN "ready" ELSE state[t]
  BY UnblockWakes
<1> QED  BY <1>1, WakesKeepsQueue

\* The same for ##sys#thread-unblock!, which looks at the state first.
LEMMA ThreadUnblockKeepsQueue ==
    ASSUME TypeOK, ReadyQueueSound, NEW S \in SUBSET Threads, ThreadUnblock(S)
    PROVE  ReadyQueueSound'
<1>1. PICK W \in SUBSET Threads :
          /\ Wakes(W)
          /\ \A t \in Threads : state'[t] = IF t \in W THEN "ready" ELSE state[t]
  BY ThreadUnblockWakes
<1> QED  BY <1>1, WakesKeepsQueue

\* A kill wakes those who waited for the thread, and leaves it in the queue if it was there.
LEMMA KillKeepsQueue ==
    ASSUME TypeOK, WaitInv, ReadyQueueSound, NEW k \in Threads, NEW s \in Gone,
           NEW forced \in SUBSET Threads, \A t \in forced : state[t] \in Waiting,
           ThreadKill(k, s, forced)
    PROVE  ReadyQueueSound'
<1>1. PICK W \in SUBSET Threads :
          /\ Wakes(W)
          /\ \A t \in Threads : state'[t] = IF t = k THEN s
                                            ELSE IF t \in W THEN "ready" ELSE state[t]
  BY KillWakes
<1>2. \A t \in Threads : \/ t \in W /\ state'[t] = "ready"
                         \/ t \notin W /\ state'[t] = state[t]
                         \/ state'[t] \in Gone
  BY <1>1
<1> QED  BY <1>1, <1>2, WakesKeepsQueue

\* The threads a pass wakes were waiting: for a deadline, or for a descriptor.
LEMMA ExpiredWait ==
    ASSUME TypeOK, WaitInv, NEW e \in timeoutList, Valid(e)
    PROVE  e[2] \in Threads /\ state[e[2]] \in Waiting /\ timeout[e[2]] # None
<1>1. e[2] \in Threads /\ timeout[e[2]] # None
  BY Kinds DEF Valid, TypeOK
<1> QED  BY <1>1 DEF WaitInv, OnlyWaitingWait

\* Who is in fd-list waits.
LEMMA ListedWait ==
    ASSUME TypeOK, WaitInv, NEW fd \in Fds, NEW t \in fdList[fd]
    PROVE  t \in Threads /\ state[t] \in Waiting
<1>1. t \in Threads
  BY DEF TypeOK
<1>2. \E d \in Directions : blockObj[t] = <<fd, d>>
  BY DEF WaitInv, FdListSound
<1>3. blockObj[t] # None
  BY <1>1, <1>2, Kinds
<1> QED  BY <1>1, <1>3 DEF WaitInv, OnlyWaitingWait

\* poll() wakes waiting threads only.
LEMMA PollWakesWaiting ==
    ASSUME TypeOK, WaitInv, PollReady
    PROVE  \E W \in SUBSET Threads : BasicUnblock(W) /\ \A t \in W : state[t] \in Waiting
<1>1. PICK r \in PollResults :
        LET seen(fd) == { t \in fdList[fd] : r[fd] # {} }
            wake(fd) == { t \in seen(fd) : /\ ~byTimeout[t]
                                          /\ blockObj[t] \in IoObjs =>
                                               FdsetTest(r[fd], blockObj[t][2]) }
        IN  BasicUnblock(UNION { wake(fd) : fd \in Fds })
  BY DEF PollReady
<1> DEFINE seen(fd) == { t \in fdList[fd] : r[fd] # {} }
           wake(fd) == { t \in seen(fd) : /\ ~byTimeout[t]
                                         /\ blockObj[t] \in IoObjs =>
                                              FdsetTest(r[fd], blockObj[t][2]) }
           W == UNION { wake(fd) : fd \in Fds }
<1>2. W \in SUBSET UNION { fdList[fd] : fd \in Fds } /\ BasicUnblock(W)
  BY <1>1
<1> HIDE DEF W
<1>3. W \in SUBSET Threads /\ \A t \in W : state[t] \in Waiting
  BY <1>2, ListedWait
<1> QED  BY <1>2, <1>3

\* The threads a thread killed with AbortOnThreadExceptions takes along wait.
LEMMA ForcedWait ==
    ASSUME UncaughtException
    PROVE  \E forced \in SUBSET Threads :
               /\ \A t \in forced : state[t] \in Waiting
               /\ ThreadKill(current, "terminated", forced)
<1> DEFINE forced == { t \in {Primordial} : AbortOnThreadExceptions
                                           /\ state[t] \in Waiting }
<1>1. /\ forced \in SUBSET Threads /\ \A t \in forced : state[t] \in Waiting
      /\ ThreadKill(current, "terminated", forced)
  BY PrimordialAssumption DEF UncaughtException
<1> HIDE DEF forced
<1> QED  BY <1>1

-----------------------------------------------------------------------------
\* The calls that do not wait keep the queue sound,
LEMMA OtherCallQueue == TypeOK /\ WaitInv /\ ReadyQueueSound /\ OtherCall => ReadyQueueSound'
<1> SUFFICES ASSUME TypeOK, WaitInv, ReadyQueueSound, OtherCall PROVE ReadyQueueSound'
  OBVIOUS
<1>1. ASSUME UNCHANGED <<state, readyQueue>> PROVE ReadyQueueSound'
  BY <1>1 DEF ReadyQueueSound
<1>2. CASE SetContext \/ \E m \in Mutexes : MutexLock(m)
  BY <1>1, <1>2 DEF SetContext, MutexLock, threadVars, queueVars
<1>3. ASSUME NEW t \in Threads, MakeThread(t) PROVE ReadyQueueSound'
  <2>1. /\ UNCHANGED readyQueue /\ state' = [state EXCEPT ![t] = "created"]
        /\ state[t] = "nonexistent"
    BY <1>3 DEF MakeThread, queueVars
  <2>2. \A u \in Threads : \/ state'[u] = state[u]
                           \/ state[u] \notin Queueable /\ state'[u] # "ready"
    BY <2>1 DEF TypeOK, Queueable
  <2> QED  BY <2>1, <2>2, SameQueue
<1>4. ASSUME NEW t \in Threads, StartThread(t) PROVE ReadyQueueSound'
  BY <1>4, AppendOne DEF StartThread, Queueable
<1>5. ASSUME NEW t \in Threads, Terminate(t) PROVE ReadyQueueSound'
  <2>1. ThreadKill(t, "terminated", {}) /\ {} \in SUBSET Threads /\ "terminated" \in Gone
    BY <1>5 DEF Terminate
  <2> QED  BY <2>1, KillKeepsQueue
<1>6. ASSUME NEW m \in Mutexes, MutexUnlock(m) PROVE ReadyQueueSound'
  <2>1. CASE UNCHANGED <<state, timeout, blockObj, queueVars>>
    BY <1>1, <2>1 DEF queueVars
  <2>2. ASSUME NEW w \in mutex[m].waiters, ThreadUnblock({w}) PROVE ReadyQueueSound'
    <3>1. {w} \in SUBSET Threads
      BY DEF TypeOK
    <3> QED  BY <2>2, <3>1, ThreadUnblockKeepsQueue
  <2> QED  BY <1>6, <2>1, <2>2 DEF MutexUnlock
<1>7. ASSUME NEW c \in CVars, CVarSignal(c) PROVE ReadyQueueSound'
  <2>1. PICK w \in cvarWaiters[c] : ThreadUnblock({w})
    BY <1>7 DEF CVarSignal
  <2>2. {w} \in SUBSET Threads
    BY DEF TypeOK
  <2> QED  BY <2>1, <2>2, ThreadUnblockKeepsQueue
<1>8. CASE Finish
  <2>1. /\ ThreadKill(current, "dead", {}) /\ current \in Threads
        /\ {} \in SUBSET Threads /\ "dead" \in Gone
    BY <1>8 DEF Finish, TypeOK
  <2> QED  BY <2>1, KillKeepsQueue
<1>9. CASE UncaughtException
  <2>1. PICK forced \in SUBSET Threads :
            /\ \A t \in forced : state[t] \in Waiting
            /\ ThreadKill(current, "terminated", forced)
    BY <1>9, ForcedWait
  <2>2. current \in Threads /\ "terminated" \in Gone
    BY DEF TypeOK
  <2> QED  BY <2>1, <2>2, KillKeepsQueue
<1> QED  BY <1>2, <1>3, <1>4, <1>5, <1>6, <1>7, <1>8, <1>9 DEF OtherCall

\* the passes of ##sys#schedule do,
LEMMA SchedulerPassQueue ==
    TypeOK /\ WaitInv /\ ReadyQueueSound /\ SchedulerPass => ReadyQueueSound'
<1> SUFFICES ASSUME TypeOK, WaitInv, ReadyQueueSound, SchedulerPass
             PROVE  ReadyQueueSound'
  OBVIOUS
<1>1. CASE UnblockTimeouts
  <2> DEFINE W == { e[2] : e \in { e \in timeoutList : Valid(e) /\ e[1] <= now } }
  <2>1. W \in SUBSET Threads /\ \A t \in W : state[t] \in Waiting
    BY ExpiredWait
  <2>2. BasicUnblock(W)
    BY <1>1 DEF UnblockTimeouts
  <2> HIDE DEF W
  <2> QED  BY <2>1, <2>2, UnblockKeepsQueue
<1>2. CASE PollReady
  <2>1. PICK W \in SUBSET Threads : BasicUnblock(W) /\ \A t \in W : state[t] \in Waiting
    BY <1>2, PollWakesWaiting
  <2> QED  BY <2>1, UnblockKeepsQueue
<1>3. CASE SleepInterrupted \/ PollInterrupted
  <2>1. ThreadUnblock({Primordial}) /\ {Primordial} \in SUBSET Threads
    BY <1>3, PrimordialAssumption DEF SleepInterrupted, PollInterrupted, ForcePrimordial
  <2> QED  BY <2>1, ThreadUnblockKeepsQueue
<1>4. CASE Switch
  <2>1. /\ readyQueue # <<>> /\ readyQueue' = Tail(readyQueue)
        /\ state' = [state EXCEPT ![Head(readyQueue)] = "running"]
    BY <1>4 DEF Switch
  <2>2. Head(readyQueue) \in Threads
    BY <2>1, HeadTailProperties DEF TypeOK
  <2>3. /\ \A t \in Threads : t # Head(readyQueue) => state'[t] = state[t]
        /\ state'[Head(readyQueue)] # "ready"
    BY <2>1, <2>2 DEF TypeOK
  <2> QED  BY <2>1, <2>3, TailKeepsQueue
<1>5. CASE SkipThread
  BY <1>5, TailKeepsQueue DEF SkipThread, threadVars
<1>6. CASE MSleep \/ MSleepSignalled \/ NoIo \/ PollTimeout \/ NothingReady
  <2>1. UNCHANGED <<state, readyQueue>>
    BY <1>6 DEF MSleep, MSleepSignalled, NoIo, PollTimeout, NothingReady, threadVars,
       queueVars
  <2> QED  BY <2>1 DEF ReadyQueueSound
<1> QED  BY <1>1, <1>2, <1>3, <1>4, <1>5, <1>6 DEF SchedulerPass

\* and hence every step does.
LEMMA NextQueue == TypeOK /\ WaitInv /\ ReadyQueueSound /\ [Next]_vars => ReadyQueueSound'
<1> SUFFICES ASSUME TypeOK, WaitInv, ReadyQueueSound, [Next]_vars PROVE ReadyQueueSound'
  OBVIOUS
<1>1. CASE Yield
  <2>1. /\ phase = "run" /\ state' = [state EXCEPT ![current] = "ready"]
        /\ readyQueue' = Append(readyQueue, current)
    BY <1>1 DEF Yield
  <2>2. state[current] \notin Queueable /\ current \in Threads
    BY <2>1 DEF WaitInv, OneRunning, TypeOK, Queueable
  <2> QED  BY <2>1, <2>2, AppendOne
<1>2. CASE BlockingCall
  <2>1. PICK st \in Waiting, obj \in BlockObjs \cup {None}, tm \in Deadlines \cup {None} :
            Block(st, obj, tm) /\ phase = "run"
    BY <1>2 DEF BlockingCall, Sleep, BlockForIo, Join, MutexWait, CVarWait, BlockObjs, IoObjs
  <2> QED  BY <2>1, BlockKeepsQueue
<1>3. CASE Tick \/ UNCHANGED vars
  BY <1>3 DEF Tick, vars, threadVars, queueVars, ReadyQueueSound
<1> QED  BY <1>1, <1>2, <1>3, OtherCallQueue, SchedulerPassQueue DEF Next

\* No ready thread is lost or put into the ready queue twice, and the queue holds
\* nothing else but threads killed while they were in it, whatever order threads
\* yield, are woken and are killed in (add-to-ready-queue, remove-from-ready-queue).
THEOREM ReadyQueueIsSound == Spec => []ReadyQueueSound
<1>1. Init => ReadyQueueSound
  BY EmptySeq DEF Init, ReadyQueueSound
<1>2. TypeOK /\ WaitInv /\ ReadyQueueSound /\ [Next]_vars => ReadyQueueSound'
  BY NextQueue
<1> QED  BY <1>1, <1>2, WaitInvariant, PTL DEF Spec

-----------------------------------------------------------------------------
(***************************************************************************)
(* The owners of the mutexes.                                              *)
(***************************************************************************)

\* A step that neither gives nor takes a mutex and ends no thread.
LEMMA SameOwners ==
    ASSUME TypeOK, MutexOwnersAgree, UNCHANGED owned,
           \A m \in Mutexes : mutex'[m].owner = mutex[m].owner,
           \A t \in Threads : state'[t] \in Gone => state[t] \in Gone
    PROVE  MutexOwnersAgree'
BY DEF MutexOwnersAgree

\* A dead thread's mutexes are free, and nobody else's mutex is touched.
LEMMA KillKeepsOwners ==
    ASSUME TypeOK, WaitInv, MutexOwnersAgree, NEW k \in Threads, NEW s \in Gone,
           NEW forced \in SUBSET Threads, \A t \in forced : state[t] \in Waiting,
           ThreadKill(k, s, forced)
    PROVE  MutexOwnersAgree'
<1>1. AbandonMutexes(k)
  BY DEF ThreadKill
<1>2. \A m \in Mutexes : mutex'[m].owner = IF m \in owned[k] THEN None ELSE mutex[m].owner
  BY <1>1 DEF AbandonMutexes, With, TypeOK
<1>3. \A t \in Threads : owned'[t] = IF t = k THEN {} ELSE owned[t]
  BY <1>1 DEF AbandonMutexes, TypeOK
<1>4. \A t \in Threads : t # k /\ state'[t] \in Gone => state[t] \in Gone
  BY KillWakes
<1>5. ASSUME NEW m \in Mutexes, NEW t \in Threads PROVE mutex'[m].owner = t <=> m \in owned'[t]
  <2>1. /\ mutex[m].owner = t <=> m \in owned[t]
        /\ mutex[m].owner = k <=> m \in owned[k]
        /\ None # t
    BY Kinds DEF MutexOwnersAgree
  <2> QED  BY <1>2, <1>3, <2>1
<1>6. ASSUME NEW t \in Threads, state'[t] \in Gone PROVE owned'[t] = {}
  BY <1>3, <1>4, <1>6 DEF MutexOwnersAgree
<1> QED  BY <1>5, <1>6 DEF MutexOwnersAgree

\* A wake changes no owner.
LEMMA WakesKeepsOwners ==
    ASSUME TypeOK, MutexOwnersAgree, UNCHANGED <<owned, mutex>>, NEW W \in SUBSET Threads,
           \A t \in Threads : state'[t] = IF t \in W THEN "ready" ELSE state[t]
    PROVE  MutexOwnersAgree'
BY SameOwners

\* The calls of the running thread keep the owners in agreement,
LEMMA OtherCallOwners ==
    TypeOK /\ WaitInv /\ MutexOwnersAgree /\ OtherCall => MutexOwnersAgree'
<1> SUFFICES ASSUME TypeOK, WaitInv, MutexOwnersAgree, OtherCall PROVE MutexOwnersAgree'
  OBVIOUS
<1>1. CASE SetContext
  BY <1>1, SameOwners DEF SetContext, threadVars, syncVars
<1>2. ASSUME NEW t \in Threads, MakeThread(t) \/ StartThread(t) PROVE MutexOwnersAgree'
  <2>1. \A u \in Threads : state'[u] \in Gone => state[u] \in Gone
    BY <1>2 DEF MakeThread, StartThread, TypeOK
  <2> QED  BY <1>2, <2>1, SameOwners DEF MakeThread, StartThread, syncVars
<1>3. ASSUME NEW t \in Threads, Terminate(t) PROVE MutexOwnersAgree'
  <2>1. ThreadKill(t, "terminated", {}) /\ {} \in SUBSET Threads /\ "terminated" \in Gone
    BY <1>3 DEF Terminate
  <2> QED  BY <2>1, KillKeepsOwners
<1>4. ASSUME NEW n \in Mutexes, MutexLock(n) PROVE MutexOwnersAgree'
  <2>1. /\ \A m \in Mutexes : mutex'[m].owner = IF m = n THEN current ELSE mutex[m].owner
        /\ \A t \in Threads : owned'[t] = IF t = current THEN owned[t] \cup {n} ELSE owned[t]
        /\ mutex[n].owner = None /\ phase = "run" /\ UNCHANGED state
    BY <1>4 DEF MutexLock, TypeOK, threadVars
  <2>2. current \in Threads /\ state[current] = "running"
    BY <2>1 DEF WaitInv, OneRunning, TypeOK
  <2>3. \A t \in Threads : n \notin owned[t]
    BY <2>1, Kinds DEF MutexOwnersAgree
  <2>4. ASSUME NEW m \in Mutexes, NEW t \in Threads
        PROVE  mutex'[m].owner = t <=> m \in owned'[t]
    <3>1. mutex[m].owner = t <=> m \in owned[t]
      BY DEF MutexOwnersAgree
    <3>2. m \in owned'[t] <=> m \in owned[t] \/ (t = current /\ m = n)
      BY <2>1
    <3> QED  BY <2>1, <2>3, <3>1, <3>2
  <2>5. \A t \in Threads : state'[t] \in Gone => owned'[t] = {}
    BY <2>1, <2>2 DEF MutexOwnersAgree
  <2> QED  BY <2>4, <2>5 DEF MutexOwnersAgree
<1>5. ASSUME NEW n \in Mutexes, MutexUnlock(n) PROVE MutexOwnersAgree'
  <2>1. mutex[n].owner = current /\ current \in Threads
    BY <1>5 DEF MutexUnlock, TypeOK
  <2>2. \A t \in Threads : n \in owned[t] => t = current
    BY <2>1 DEF MutexOwnersAgree
  <2>3. CASE /\ mutex' = [mutex EXCEPT ![n] =
                   [owner |-> None, waiters |-> {}, abandoned |-> @.abandoned]]
             /\ owned' = [owned EXCEPT ![current] = @ \ {n}]
             /\ UNCHANGED state
    <3>1. /\ \A m \in Mutexes : mutex'[m].owner = IF m = n THEN None ELSE mutex[m].owner
          /\ \A t \in Threads : owned'[t] = IF t = current THEN owned[t] \ {n} ELSE owned[t]
      BY <2>3 DEF TypeOK
    <3>2. ASSUME NEW m \in Mutexes, NEW t \in Threads
          PROVE  mutex'[m].owner = t <=> m \in owned'[t]
      <4>1. mutex[m].owner = t <=> m \in owned[t]
        BY DEF MutexOwnersAgree
      <4>2. CASE m = n
        BY <2>2, <3>1, <4>2, Kinds
      <4>3. CASE m # n
        BY <3>1, <4>1, <4>3
      <4> QED  BY <4>2, <4>3
    <3> QED  BY <2>3, <3>1, <3>2 DEF MutexOwnersAgree
  <2>4. ASSUME NEW w \in Threads, NEW ws,
               mutex' = [mutex EXCEPT ![n] =
                  [owner |-> w, waiters |-> ws, abandoned |-> @.abandoned]],
               owned' = [t \in Threads |-> IF t = w THEN owned[t] \cup {n}
                                          ELSE owned[t] \ {n}],
               state[w] \in Waiting, ThreadUnblock({w})
        PROVE  MutexOwnersAgree'
    <3>1. \A m \in Mutexes : mutex'[m].owner = IF m = n THEN w ELSE mutex[m].owner
      BY <2>4 DEF TypeOK
    <3>2. \A t \in Threads : state'[t] \in Gone => state[t] \in Gone /\ t # w
      <4>1. PICK W \in SUBSET Threads :
                 \A t \in Threads : state'[t] = IF t \in W THEN "ready" ELSE state[t]
        BY <2>4, ThreadUnblockWakes
      <4> QED  BY <2>4, <4>1
    <3>3. ASSUME NEW m \in Mutexes, NEW t \in Threads
          PROVE  mutex'[m].owner = t <=> m \in owned'[t]
      <4>1. mutex[m].owner = t <=> m \in owned[t]
        BY DEF MutexOwnersAgree
      <4>2. m \in owned'[t] <=> IF m = n THEN t = w ELSE m \in owned[t]
        BY <2>4
      <4> QED  BY <3>1, <4>1, <4>2
    <3>4. ASSUME NEW t \in Threads, state'[t] \in Gone PROVE owned'[t] = {}
      <4>1. state[t] \in Gone /\ t # w
        BY <3>2, <3>4
      <4> QED  BY <2>4, <4>1 DEF MutexOwnersAgree
    <3> QED  BY <3>3, <3>4 DEF MutexOwnersAgree
  <2>5. mutex[n].waiters \subseteq Threads
    BY DEF TypeOK
  <2> QED  BY <1>5, <2>3, <2>4, <2>5 DEF MutexUnlock
<1>6. ASSUME NEW c \in CVars, CVarSignal(c) PROVE MutexOwnersAgree'
  <2>1. PICK w \in cvarWaiters[c] : ThreadUnblock({w})
    BY <1>6 DEF CVarSignal
  <2>2. {w} \in SUBSET Threads
    BY DEF TypeOK
  <2>3. UNCHANGED <<owned, mutex>>
    BY <1>6 DEF CVarSignal
  <2> QED  BY <2>1, <2>2, <2>3, ThreadUnblockWakes, WakesKeepsOwners
<1>7. CASE Finish
  <2>1. /\ ThreadKill(current, "dead", {}) /\ current \in Threads
        /\ {} \in SUBSET Threads /\ "dead" \in Gone
    BY <1>7 DEF Finish, TypeOK
  <2> QED  BY <2>1, KillKeepsOwners
<1>8. CASE UncaughtException
  <2>1. PICK forced \in SUBSET Threads :
            /\ \A t \in forced : state[t] \in Waiting
            /\ ThreadKill(current, "terminated", forced)
    BY <1>8, ForcedWait
  <2>2. current \in Threads /\ "terminated" \in Gone
    BY DEF TypeOK
  <2> QED  BY <2>1, <2>2, KillKeepsOwners
<1> QED  BY <1>1, <1>2, <1>3, <1>4, <1>5, <1>6, <1>7, <1>8 DEF OtherCall

\* the passes of ##sys#schedule do,
LEMMA SchedulerPassOwners ==
    TypeOK /\ WaitInv /\ MutexOwnersAgree /\ SchedulerPass => MutexOwnersAgree'
<1> SUFFICES ASSUME TypeOK, WaitInv, MutexOwnersAgree, SchedulerPass
             PROVE  MutexOwnersAgree'
  OBVIOUS
<1>1. UNCHANGED <<owned, mutex>>
  BY DEF SchedulerPass, UnblockTimeouts, MSleep, MSleepSignalled, SleepInterrupted, NoIo,
     PollReady, PollTimeout, PollInterrupted, Switch, SkipThread, NothingReady, syncVars
<1>2. ASSUME NEW W, BasicUnblock(W) PROVE \A t \in Threads : state'[t] \in Gone => state[t] \in Gone
  BY <1>2 DEF BasicUnblock, With, TypeOK
<1>3. \A t \in Threads : state'[t] \in Gone => state[t] \in Gone
  <2>1. CASE UnblockTimeouts
    BY <1>2, <2>1 DEF UnblockTimeouts
  <2>2. CASE PollReady
    <3>1. \E W : BasicUnblock(W)
      BY <2>2 DEF PollReady
    <3> QED  BY <1>2, <3>1
  <2>3. CASE SleepInterrupted \/ PollInterrupted
    BY <1>2, <2>3 DEF SleepInterrupted, PollInterrupted, ForcePrimordial, ThreadUnblock
  <2>4. CASE Switch
    BY <2>4 DEF Switch, TypeOK
  <2>5. CASE MSleep \/ MSleepSignalled \/ NoIo \/ PollTimeout \/ SkipThread \/ NothingReady
    BY <2>5 DEF MSleep, MSleepSignalled, NoIo, PollTimeout, SkipThread, NothingReady,
       threadVars
  <2> QED  BY <2>1, <2>2, <2>3, <2>4, <2>5 DEF SchedulerPass
<1> QED  BY <1>1, <1>3, SameOwners

\* and hence every step does.
LEMMA NextOwners ==
    TypeOK /\ WaitInv /\ MutexOwnersAgree /\ [Next]_vars => MutexOwnersAgree'
<1> SUFFICES ASSUME TypeOK, WaitInv, MutexOwnersAgree, [Next]_vars PROVE MutexOwnersAgree'
  OBVIOUS
<1>1. CASE Yield
  BY <1>1, SameOwners DEF Yield, syncVars, TypeOK
<1>2. CASE BlockingCall
  <2>1. PICK st \in Waiting, obj \in BlockObjs \cup {None}, tm \in Deadlines \cup {None} :
            Block(st, obj, tm) /\ phase = "run"
    BY <1>2 DEF BlockingCall, Sleep, BlockForIo, Join, MutexWait, CVarWait, BlockObjs, IoObjs
  <2>2. \A t \in Threads : state'[t] \in Gone => state[t] \in Gone
    BY <2>1 DEF Block, TypeOK
  <2>3. UNCHANGED owned
    BY <1>2 DEF BlockingCall, Sleep, BlockForIo, Join, MutexWait, CVarWait, syncVars
  <2>4. \A m \in Mutexes : mutex'[m].owner = mutex[m].owner
    <3>1. CASE \E n \in Mutexes : MutexWait(n)
      BY <3>1 DEF MutexWait, TypeOK
    <3>2. CASE ~\E n \in Mutexes : MutexWait(n)
      BY <1>2, <3>2 DEF BlockingCall, Sleep, BlockForIo, Join, CVarWait, syncVars
    <3> QED  BY <3>1, <3>2
  <2> QED  BY <2>2, <2>3, <2>4, SameOwners
<1>3. CASE Tick \/ UNCHANGED vars
  BY <1>3 DEF Tick, vars, threadVars, syncVars, MutexOwnersAgree
<1> QED  BY <1>1, <1>2, <1>3, OtherCallOwners, SchedulerPassOwners DEF Next

\* A mutex and its owner always name each other, and no thread dies with a mutex
\* (mutex-unlock! and ##sys#abandon-mutexes change both slots), whichever threads
\* end, are killed or hand a mutex to one another.
THEOREM OwnersAgree == Spec => []MutexOwnersAgree
<1>1. Init => MutexOwnersAgree
  BY Kinds DEF Init, MutexOwnersAgree
<1>2. TypeOK /\ WaitInv /\ MutexOwnersAgree /\ [Next]_vars => MutexOwnersAgree'
  BY NextOwners
<1> QED  BY <1>1, <1>2, WaitInvariant, PTL DEF Spec

-----------------------------------------------------------------------------
(***************************************************************************)
(* Deadlines.                                                              *)
(***************************************************************************)

\* Only the pass over timeout-list sets the flag, for deadlines that have come.
LEMMA StepNotEarly ==
    ASSUME TypeOK, WaitInv, [Next]_vars, NEW t \in Threads, byTimeout'[t], ~byTimeout[t]
    PROVE  timeout[t] # None /\ timeout[t] <= now
<1>1. CASE UnblockTimeouts
  <2>1. PICK e \in timeoutList : Valid(e) /\ e[1] <= now /\ t = e[2]
    BY <1>1 DEF UnblockTimeouts, With, TypeOK
  <2> QED  BY <2>1, ExpiredWait DEF Valid
<1>2. CASE \/ MSleep \/ MSleepSignalled \/ NoIo \/ PollReady \/ PollTimeout \/ Switch
           \/ SkipThread \/ NothingReady \/ Tick \/ OtherCall \/ UNCHANGED vars
  <2>1. UNCHANGED byTimeout
    BY <1>2 DEF MSleep, MSleepSignalled, NoIo, PollReady, PollTimeout, Switch, SkipThread,
       NothingReady, Tick, OtherCall, SetContext, MakeThread, StartThread, Terminate,
       MutexLock, MutexUnlock, CVarSignal, Finish, UncaughtException, ThreadKill, vars,
       threadVars
  <2> QED  BY <2>1
<1>3. CASE SleepInterrupted \/ PollInterrupted
  BY <1>3 DEF SleepInterrupted, PollInterrupted, ForcePrimordial, TypeOK
<1>4. CASE Yield
  BY <1>4 DEF Yield, TypeOK
<1>5. CASE BlockingCall
  <2>1. byTimeout' = [byTimeout EXCEPT ![current] = FALSE]
    BY <1>5 DEF BlockingCall, Sleep, BlockForIo, Join, MutexWait, CVarWait, Block
  <2> QED  BY <2>1 DEF TypeOK
<1> QED  BY <1>1, <1>2, <1>3, <1>4, <1>5 DEF Next, SchedulerPass

\* A thread is told that its deadline passed only after it did, however its wait
\* is interleaved with wakeups for other reasons (##sys#schedule, timeout-list).
THEOREM NeverEarly == Spec => NoEarlyTimeout
<1>1. TypeOK /\ WaitInv /\ [Next]_vars =>
          [\A t \in Threads : byTimeout'[t] /\ ~byTimeout[t] =>
              timeout[t] # None /\ timeout[t] <= now]_vars
  BY StepNotEarly
<1> QED  BY <1>1, WaitInvariant, PTL DEF Spec, NoEarlyTimeout

-----------------------------------------------------------------------------
(***************************************************************************)
(* Idling and giving up.                                                   *)
(***************************************************************************)

\* A set of numbers that is not empty has a least one.
LEMMA LeastNat ==
    ASSUME NEW S \in SUBSET Nat, S # {}
    PROVE  \E n \in S : \A m \in S : n <= m
<1>1. IsWellFoundedOn(OpToRel(<, Nat), Nat)
  BY NatLessThanWellFounded
<1>2. PICK n \in S : \A m \in S : ~(<<m, n>> \in OpToRel(<, Nat))
  BY <1>1, WFMin
<1>3. \A m \in S : ~(m < n)
  BY <1>2 DEF OpToRel
<1> QED  BY <1>3

\* The pass over timeout-list leaves a list that starts with a deadline which
\* some thread waits for, and no thread waits for an earlier one.
LEMMA PassIdles ==
    ASSUME TypeOK, WaitInv, TypeOK', WaitInv', UnblockTimeouts, timeoutList' # {}
    PROVE  \E t \in Threads :
               /\ timeout'[t] # None
               /\ \A e \in timeoutList' : timeout'[t] <= e[1]
               /\ \A u \in Threads : timeout'[u] # None => timeout'[t] <= timeout'[u]
<1> DEFINE expired == { e \in timeoutList : Valid(e) /\ e[1] <= now }
           pending == { e \in timeoutList : Valid(e) /\ e[1] > now }
           W == { e[2] : e \in expired }
           S == { e[1] : e \in pending }
<1>1. timeoutList' = { e \in timeoutList : \E f \in pending : f[1] <= e[1] }
  BY DEF UnblockTimeouts
<1>2. \A t \in Threads : timeout'[t] = IF t \in W THEN None ELSE timeout[t]
  BY DEF UnblockTimeouts, BasicUnblock, With, TypeOK
<1>3. \A e \in timeoutList : e[1] \in Nat /\ e[2] \in Threads
  BY DEF TypeOK
<1>4. S \in SUBSET Nat /\ S # {}
  BY <1>1, <1>3
<1>5. PICK n \in S : \A m \in S : n <= m
  <2> HIDE DEF S
  <2> QED  BY <1>4, LeastNat
<1>6. PICK f \in pending : f[1] = n
  OBVIOUS
<1>7. f \in timeoutList /\ Valid(f) /\ f[1] > now
  BY <1>6
<1>8. f[2] \in Threads /\ timeout[f[2]] = n /\ n \in Nat /\ n > now
  BY <1>3, <1>6, <1>7 DEF Valid
<1>9. f[2] \notin W
  <2> SUFFICES ASSUME NEW e \in timeoutList, Valid(e), e[1] <= now, e[2] = f[2]
               PROVE  FALSE
    OBVIOUS
  <2>1. e[1] = n /\ now \in Nat
    BY <1>8 DEF Valid, TypeOK
  <2> QED  BY <1>8, <2>1
<1>10. timeout'[f[2]] = n /\ n # None
  BY <1>2, <1>8, <1>9, Kinds
<1>11. \A e \in timeoutList' : n <= e[1]
  <2> SUFFICES ASSUME NEW e \in timeoutList, NEW g \in pending, g[1] <= e[1]
               PROVE  n <= e[1]
    BY <1>1
  <2>1. g[1] \in S /\ g[1] \in Nat /\ e[1] \in Nat /\ n \in Nat
    BY <1>3, <1>8
  <2> HIDE DEF S, pending
  <2> QED  BY <1>5, <2>1
<1>12. \A u \in Threads : timeout'[u] # None => n <= timeout'[u]
  <2> SUFFICES ASSUME NEW u \in Threads, timeout'[u] # None PROVE n <= timeout'[u]
    OBVIOUS
  <2>1. <<timeout'[u], u>> \in timeoutList'
    BY DEF WaitInv, NoThreadLost, DeadlineListed
  <2> QED  BY <1>11, <2>1
<1> QED  BY <1>8, <1>10, <1>11, <1>12

\* Every step keeps what is said about idling.
LEMMA NextIdle ==
    /\ TypeOK /\ WaitInv /\ TypeOK' /\ WaitInv' /\ IdleUntilDeadline /\ [Next]_vars
    => IdleUntilDeadline'
<1> SUFFICES ASSUME TypeOK, WaitInv, TypeOK', WaitInv', IdleUntilDeadline, [Next]_vars,
                    Idle'
             PROVE  IdleUntilDeadline'
  BY DEF IdleUntilDeadline
<1>1. phase' \in {"sleep", "io"} /\ timeoutList' # {}
  BY DEF Idle, Polling
<1>2. CASE UnblockTimeouts
  BY <1>1, <1>2, PassIdles DEF IdleUntilDeadline
<1>3. CASE MSleep \/ MSleepSignalled
  BY <1>3 DEF MSleep, MSleepSignalled, threadVars, queueVars, Idle, IdleUntilDeadline
<1>4. CASE Tick \/ UNCHANGED vars
  <2>1. UNCHANGED <<threadVars, queueVars, schedVars>>
    BY <1>4 DEF Tick, vars
  <2>2. Idle
    BY <2>1 DEF queueVars, schedVars, Idle, Polling, FdListEmpty
  <2> QED  BY <2>1, <2>2 DEF threadVars, queueVars, IdleUntilDeadline
<1>5. CASE Yield \/ BlockingCall
  <2>1. phase' = "timeouts"
    BY <1>5 DEF Yield, BlockingCall, Sleep, BlockForIo, Join, MutexWait, CVarWait, Block,
       EnterScheduler
  <2> QED  BY <1>1, <2>1
<1>6. CASE OtherCall
  <2>1. phase' = "run" \/ phase' = "timeouts"
    BY <1>6 DEF OtherCall, SetContext, MakeThread, StartThread, Terminate, MutexLock,
       MutexUnlock, CVarSignal, Finish, UncaughtException, EnterScheduler, schedVars
  <2> QED  BY <1>1, <2>1
<1>7. CASE \/ SleepInterrupted \/ NoIo \/ PollReady \/ PollTimeout \/ PollInterrupted
           \/ Switch \/ SkipThread \/ NothingReady
  <2>1. phase' \in {"fetch", "run", "halted", "timeouts"}
    BY <1>7 DEF SleepInterrupted, NoIo, PollReady, PollTimeout, PollInterrupted, Switch,
       SkipThread, NothingReady, schedVars
  <2> QED  BY <1>1, <2>1
<1> QED  BY <1>2, <1>3, <1>4, <1>5, <1>6, <1>7 DEF Next, SchedulerPass

\* Every step keeps what is said about the panic.
LEMMA NextPanic ==
    /\ TypeOK /\ WaitInv /\ ReadyQueueSound /\ PanicIsDeadlock /\ [Next]_vars
    => PanicIsDeadlock'
<1> SUFFICES ASSUME TypeOK, WaitInv, ReadyQueueSound, PanicIsDeadlock, [Next]_vars,
                    phase' = "halted"
             PROVE  PanicIsDeadlock'
  BY DEF PanicIsDeadlock
<1>1. CASE NothingReady
  <2>1. /\ readyQueue = <<>> /\ timeoutList = {} /\ FdListEmpty(fdList) /\ phase = "fetch"
        /\ UNCHANGED <<state, timeout, blockObj>>
    BY <1>1 DEF NothingReady, threadVars
  <2>2. ASSUME NEW t \in Threads
        PROVE  state[t] \notin {"ready", "running"} /\ timeout[t] = None
    <3>1. state[t] # "ready"
      BY <2>1, EmptySeq DEF ReadyQueueSound
    <3>2. state[t] # "running"
      BY <2>1 DEF WaitInv, OneRunning
    <3>3. timeout[t] = None
      BY <2>1 DEF WaitInv, NoThreadLost, DeadlineListed
    <3> QED  BY <3>1, <3>2, <3>3
  <2>3. ASSUME NEW t \in Threads PROVE blockObj[t] \notin IoObjs
    BY <2>1 DEF WaitInv, NoThreadLost, IoRegistered, FdListEmpty, IoObjs
  <2> QED  BY <2>1, <2>2, <2>3 DEF PanicIsDeadlock
<1>2. CASE UNCHANGED vars
  BY <1>2 DEF vars, threadVars, schedVars, PanicIsDeadlock
<1>3. CASE Yield \/ BlockingCall \/ Tick
  <2>1. phase' = "timeouts" \/ (phase' = phase /\ phase # "halted")
    BY <1>3 DEF Yield, BlockingCall, Sleep, BlockForIo, Join, MutexWait, CVarWait, Block,
       EnterScheduler, Tick, schedVars
  <2> QED  BY <2>1
<1>4. CASE OtherCall
  <2>1. phase' = "run" \/ phase' = "timeouts"
    BY <1>4 DEF OtherCall, SetContext, MakeThread, StartThread, Terminate, MutexLock,
       MutexUnlock, CVarSignal, Finish, UncaughtException, EnterScheduler, schedVars
  <2> QED  BY <2>1
<1>5. CASE \/ UnblockTimeouts \/ MSleep \/ MSleepSignalled \/ SleepInterrupted \/ NoIo
           \/ PollReady \/ PollTimeout \/ PollInterrupted \/ Switch \/ SkipThread
  <2>1. phase' \in {"fetch", "run", "sleep", "io"}
    BY <1>5 DEF UnblockTimeouts, MSleep, MSleepSignalled, SleepInterrupted, NoIo, PollReady,
       PollTimeout, PollInterrupted, Switch, SkipThread, schedVars
  <2> QED  BY <2>1
<1> QED  BY <1>1, <1>2, <1>3, <1>4, <1>5 DEF Next, SchedulerPass

\* The process sleeps or polls no longer than until the first deadline a thread
\* waits for, whatever stale entries timeout-list has, and panics with "deadlock"
\* only when no thread is ready and none waits for a time or a descriptor.
THEOREM IdlesAsItShould == Spec => []IdlesRightly
<1>1. Init => IdlesRightly
  BY DEF Init, IdlesRightly, IdleUntilDeadline, Idle, Polling, PanicIsDeadlock
<1>2. /\ TypeOK /\ WaitInv /\ TypeOK' /\ WaitInv' /\ ReadyQueueSound /\ IdlesRightly
      /\ [Next]_vars
      => IdlesRightly'
  BY NextIdle, NextPanic DEF IdlesRightly
<1> QED  BY <1>1, <1>2, WaitInvariant, ReadyQueueIsSound, PTL DEF Spec

-----------------------------------------------------------------------------
(***************************************************************************)
(* The scheduler implements ThreadSystem: every step of Scheduler is one   *)
(* of ThreadSystem, or none, under the refinement mapping of               *)
(* SchedulerRefinement.  Besides the invariant of SchedulerProofs this     *)
(* needs that the registers are in the buffer while the scheduler runs,    *)
(* and that no two threads have the same parameter vector.                 *)
(***************************************************************************)
\* What ThreadSystem sees.
Status  == [t \in Threads |-> StatusOf(state[t])]
Env     == [t \in Threads |->
              Environment(IF phase = "run" /\ t = current THEN regs ELSE buffer[t])]
\* The thread whose Scheme code runs, if any.
Running == IF phase = "run" THEN current ELSE None

\* The states of the code and the statuses of ThreadSystem.
LEMMA StatusFacts ==
    /\ StatusOf("nonexistent") = "unborn"
    /\ StatusOf("created") = "new"
    /\ StatusOf("ready") = "ready"
    /\ StatusOf("running") = "running"
    /\ StatusOf("blocked") = "waiting"
    /\ StatusOf("sleeping") = "waiting"
    /\ StatusOf("terminated") = "gone"
    /\ StatusOf("dead") = "gone"
BY DEF StatusOf

\* Inside the scheduler the registers of the thread that entered it are in its
\* buffer.
RegsSaved == phase # "run" => buffer[current] = regs

\* Every step keeps the saved registers of the threads that do not run.
LEMMA NextRegsSaved == TypeOK /\ RegsSaved /\ [Next]_vars => RegsSaved'
<1> SUFFICES ASSUME TypeOK, RegsSaved, [Next]_vars PROVE RegsSaved'
  OBVIOUS
<1>1. ASSUME EnterScheduler PROVE RegsSaved'
  BY <1>1 DEF EnterScheduler, RegsSaved, TypeOK
<1>2. ASSUME UNCHANGED <<current, regs, vectors, buffer>>, phase # "run" \/ phase' = "run"
      PROVE  RegsSaved'
  BY <1>2 DEF RegsSaved
<1>3. CASE Yield \/ BlockingCall \/ Finish \/ UncaughtException
  BY <1>1, <1>3 DEF Yield, BlockingCall, Sleep, BlockForIo, Join, MutexWait, CVarWait,
     Block, Finish, UncaughtException
<1>4. CASE OtherCall /\ ~(Finish \/ UncaughtException)
  <2>1. phase' = "run"
    BY <1>4 DEF OtherCall, SetContext, MakeThread, StartThread, Terminate, MutexLock,
       MutexUnlock, CVarSignal, schedVars
  <2> QED  BY <2>1 DEF RegsSaved
<1>5. CASE \/ UnblockTimeouts \/ MSleep \/ MSleepSignalled \/ NoIo \/ PollReady \/ PollTimeout
           \/ PollInterrupted \/ SkipThread \/ NothingReady \/ Tick \/ UNCHANGED vars
  BY <1>2, <1>5 DEF UnblockTimeouts, MSleep, MSleepSignalled, NoIo, PollReady, PollTimeout,
     PollInterrupted, SkipThread, NothingReady, Polling, Tick, vars, schedVars
<1>6. CASE SleepInterrupted
  BY <1>6 DEF SleepInterrupted, RegsSaved, TypeOK
<1>7. CASE Switch
  BY <1>7 DEF Switch, RegsSaved
<1> QED  BY <1>3, <1>4, <1>5, <1>6, <1>7 DEF Next, OtherCall, SchedulerPass

\* The parameter vector of a thread is nobody else's.
OwnVectors ==
    /\ regs.parameters = current
    /\ \A t \in Threads : buffer[t].parameters = t

\* Every step leaves each thread the parameter vector it was made with.
LEMMA NextOwnVectors == TypeOK /\ OwnVectors /\ [Next]_vars => OwnVectors'
<1> SUFFICES ASSUME TypeOK, OwnVectors, [Next]_vars PROVE OwnVectors'
  OBVIOUS
<1>1. ASSUME EnterScheduler PROVE OwnVectors'
  BY <1>1 DEF EnterScheduler, OwnVectors, TypeOK
<1>2. ASSUME UNCHANGED <<current, regs, buffer>> PROVE OwnVectors'
  BY <1>2 DEF OwnVectors
<1>3. CASE Yield \/ BlockingCall \/ Finish \/ UncaughtException
  BY <1>1, <1>3 DEF Yield, BlockingCall, Sleep, BlockForIo, Join, MutexWait, CVarWait,
     Block, Finish, UncaughtException
<1>4. CASE SetContext
  BY <1>4 DEF SetContext, OwnVectors, TypeOK, Registers
<1>5. ASSUME NEW t \in Threads, MakeThread(t) PROVE OwnVectors'
  BY <1>5 DEF MakeThread, OwnVectors, TypeOK
<1>6. CASE /\ OtherCall /\ ~(Finish \/ UncaughtException \/ SetContext)
           /\ ~(\E t \in Threads : MakeThread(t))
  <2>1. UNCHANGED schedVars
    BY <1>6 DEF OtherCall, StartThread, Terminate, MutexLock, MutexUnlock, CVarSignal
  <2> QED  BY <1>2, <2>1 DEF schedVars
<1>7. CASE \/ UnblockTimeouts \/ MSleep \/ MSleepSignalled \/ NoIo \/ PollReady \/ PollTimeout
           \/ PollInterrupted \/ SkipThread \/ NothingReady \/ Tick \/ UNCHANGED vars
  BY <1>2, <1>7 DEF UnblockTimeouts, MSleep, MSleepSignalled, NoIo, PollReady, PollTimeout,
     PollInterrupted, SkipThread, NothingReady, Polling, Tick, vars, schedVars
<1>8. CASE SleepInterrupted
  BY <1>8 DEF SleepInterrupted, OwnVectors, TypeOK
<1>9. CASE Switch
  <2>1. Head(readyQueue) \in Threads
    BY <1>9, HeadTailProperties DEF Switch, TypeOK
  <2> QED  BY <1>9, <2>1 DEF Switch, OwnVectors
<1> QED  BY <1>3, <1>4, <1>5, <1>6, <1>7, <1>8, <1>9 DEF Next, OtherCall, SchedulerPass

\* Entering the scheduler saves the environment of the running thread.
LEMMA EnterEnv ==
    ASSUME TypeOK, phase = "run", EnterScheduler
    PROVE  Env' = Env /\ Running = current /\ Running' = None
BY DEF EnterScheduler, Env, Environment, Running, TypeOK

\* A step that changes no thread and no register changes no environment.
LEMMA SameEnv ==
    ASSUME UNCHANGED <<current, regs, vectors, buffer>>, phase = "run" <=> phase' = "run"
    PROVE  Env' = Env /\ Running' = Running
BY DEF Env, Environment, Running

\* What waking and ending threads look like to ThreadSystem.
LEMMA WokenStatus ==
    ASSUME TypeOK, NEW W \in SUBSET Threads, \A t \in W : state[t] \in Waiting,
           \A t \in Threads : state'[t] = IF t \in W THEN "ready" ELSE state[t]
    PROVE  W \in SUBSET System!WaitingThreads /\ Status' = System!Woken(W)
<1>1. W \in SUBSET System!WaitingThreads
  BY StatusFacts DEF System!WaitingThreads
<1>2. Status' = System!Woken(W)
  BY StatusFacts DEF System!Woken, Status
<1> QED  BY <1>1, <1>2

\* What a kill does to the statuses.
LEMMA KilledStatus ==
    ASSUME TypeOK, NEW W \in SUBSET Threads, \A t \in W : state[t] \in Waiting,
           NEW k \in Threads, NEW s \in Gone,
           \A t \in Threads : state'[t] = IF t = k THEN s
                                          ELSE IF t \in W THEN "ready" ELSE state[t]
    PROVE  /\ W \in SUBSET System!WaitingThreads
           /\ Status' = [System!Woken(W) EXCEPT ![k] = "gone"]
<1>1. W \in SUBSET System!WaitingThreads
  BY StatusFacts DEF System!WaitingThreads
<1>2. StatusOf(s) = "gone"
  BY StatusFacts
<1>3. Status' = [System!Woken(W) EXCEPT ![k] = "gone"]
  BY <1>2, StatusFacts DEF System!Woken, Status
<1> QED  BY <1>1, <1>3

\* Waking waiting threads is a step of ThreadSystem,
LEMMA WakeStep ==
    ASSUME TypeOK, NEW W \in SUBSET Threads, BasicUnblock(W),
           \A t \in W : state[t] \in Waiting, Env' = Env, Running' = Running
    PROVE  System!Wake
<1>1. W \in SUBSET System!WaitingThreads /\ Status' = System!Woken(W)
  BY UnblockWakes, WokenStatus
<1> QED  BY <1>1 DEF System!Wake, Status, Env, Running

\* so is ##sys#thread-unblock!,
LEMMA ThreadWakeStep ==
    ASSUME TypeOK, NEW S \in SUBSET Threads, ThreadUnblock(S), Env' = Env, Running' = Running
    PROVE  System!Wake
<1> DEFINE W == { t \in S : state[t] \in Waiting }
<1>1. W \in SUBSET Threads /\ BasicUnblock(W) /\ \A t \in W : state[t] \in Waiting
  BY DEF ThreadUnblock
<1> HIDE DEF W
<1> QED  BY <1>1, WakeStep

\* The end of the current thread.
LEMMA LeaveStep ==
    ASSUME TypeOK, WaitInv, phase = "run", current # Primordial, NEW s \in Gone,
           NEW forced \in SUBSET Threads, \A t \in forced : state[t] \in Waiting,
           ThreadKill(current, s, forced), EnterScheduler
    PROVE  System!Leave
<1>1. current \in Threads
  BY DEF TypeOK
<1>2. PICK W \in SUBSET Threads :
          /\ Wakes(W)
          /\ \A t \in Threads : state'[t] = IF t = current THEN s
                                            ELSE IF t \in W THEN "ready" ELSE state[t]
  BY <1>1, KillWakes
<1>3. /\ W \in SUBSET System!WaitingThreads
      /\ Status' = [System!Woken(W) EXCEPT ![current] = "gone"]
  BY <1>1, <1>2, KilledStatus DEF Wakes
<1>4. Env' = Env /\ Running = current /\ Running' = None
  BY EnterEnv
<1>5. current \notin {None, Primordial}
  BY <1>1, Kinds
<1>6. Running \notin {None, Primordial} /\ Status' = [System!Woken(W) EXCEPT ![Running] = "gone"]
  BY <1>3, <1>4, <1>5
<1> QED  BY <1>3, <1>4, <1>6 DEF System!Leave, Status, Env, Running

\* and so is a thread that enters the scheduler to wait or to yield.
LEMMA SuspendStep ==
    ASSUME TypeOK, WaitInv, phase = "run", EnterScheduler, NEW s \in Waiting \cup {"ready"},
           state' = [state EXCEPT ![current] = s]
    PROVE  System!Suspend
<1>1. current \in Threads /\ current # None
  BY Kinds DEF TypeOK
<1>2. Env' = Env /\ Running = current /\ Running' = None
  BY EnterEnv
<1>3. StatusOf(s) \in {"ready", "waiting"}
  BY StatusFacts
<1>4. Status' = [Status EXCEPT ![Running] = StatusOf(s)]
  BY <1>1, <1>2 DEF Status, TypeOK
<1> QED  BY <1>1, <1>2, <1>3, <1>4 DEF System!Suspend, Status, Env, Running

\* Each call of the running thread is a step of ThreadSystem or none,
LEMMA OtherCallSteps ==
    TypeOK /\ WaitInv /\ OwnVectors /\ OtherCall => [System!Next]_System!vars
<1> SUFFICES ASSUME TypeOK, WaitInv, OwnVectors, OtherCall PROVE [System!Next]_System!vars
  OBVIOUS
<1>0. ASSUME phase = "run"
      PROVE  /\ Running = current /\ current \in Threads /\ current # None
             /\ state[current] = "running" /\ Env[current] = Environment(regs)
  BY <1>0, Kinds DEF Running, Env, TypeOK, WaitInv, OneRunning
<1>1. CASE SetContext
  <2>1. PICK c \in Contexts, v \in ParameterValues :
            /\ regs' = [regs EXCEPT !.context = c]
            /\ vectors' = [vectors EXCEPT ![current] = v]
    BY <1>1 DEF SetContext, OwnVectors
  <2>2. /\ phase = "run" /\ phase' = "run"
        /\ UNCHANGED <<state, buffer, current>>
    BY <1>1 DEF SetContext, threadVars
  <2> DEFINE e == [context |-> c, parameters |-> v]
  <2>3. e \in System!Environments
    BY DEF System!Environments
  <2>4. Environment(regs)' = e
    BY <1>0, <2>1, <2>2 DEF Environment, OwnVectors, TypeOK, Registers
  <2>5. \A t \in Threads \ {current} : Environment(buffer[t])' = Environment(buffer[t])
    BY <2>1, <2>2 DEF Environment, OwnVectors, TypeOK
  <2> HIDE DEF e
  <2>6. Env' = [Env EXCEPT ![Running] = e] /\ Running' = Running /\ Status' = Status
    BY <1>0, <2>2, <2>4, <2>5 DEF Env, Running, Status
  <2>7. Running # None
    BY <1>0, <2>2
  <2>8. System!Compute
    BY <2>3, <2>6, <2>7 DEF System!Compute, Status, Env, Running
  <2> QED  BY <2>8 DEF System!Next
<1>2. ASSUME NEW t \in Threads, MakeThread(t) PROVE [System!Next]_System!vars
  <2>1. /\ phase = "run" /\ phase' = "run" /\ state[t] = "nonexistent"
        /\ state' = [state EXCEPT ![t] = "created"]
        /\ vectors' = [vectors EXCEPT ![t] = vectors[current]]
        /\ buffer' = [buffer EXCEPT ![t] = [context |-> NewContext(regs.context),
                                           parameters |-> t]]
        /\ UNCHANGED <<regs, current>>
    BY <1>2 DEF MakeThread, OwnVectors
  <2>2. t # current
    BY <1>0, <2>1
  <2>3. Environment(buffer[t])' = System!Inherited(Environment(regs))
    BY <2>1 DEF Environment, NewContext, System!Inherited, OwnVectors, TypeOK
  <2>4. Environment(regs)' = Environment(regs)
    BY <2>1, <2>2 DEF Environment, OwnVectors, TypeOK
  <2>5. \A u \in Threads \ {t} : Environment(buffer[u])' = Environment(buffer[u])
    BY <2>1 DEF Environment, OwnVectors, TypeOK
  <2>6. Env' = [Env EXCEPT ![t] = System!Inherited(Env[Running])] /\ Running' = Running
    <3>1. Env'[t] = System!Inherited(Env[Running])
      BY <1>0, <2>1, <2>2, <2>3 DEF Env
    <3>2. \A u \in Threads \ {t} : Env'[u] = Env[u]
      BY <2>1, <2>4, <2>5 DEF Env
    <3> QED  BY <2>1, <3>1, <3>2 DEF Env, Running
  <2>7. Status' = [Status EXCEPT ![t] = "new"] /\ Status[t] = "unborn"
    BY <2>1, StatusFacts DEF Status, TypeOK
  <2>8. System!Create(t)
    BY <1>0, <2>1, <2>6, <2>7 DEF System!Create, Status, Env, Running
  <2> QED  BY <2>8 DEF System!Next
<1>3. ASSUME NEW t \in Threads, StartThread(t) PROVE [System!Next]_System!vars
  <2>1. /\ phase = "run" /\ phase' = "run" /\ state[t] = "created"
        /\ state' = [state EXCEPT ![t] = "ready"] /\ UNCHANGED <<regs, vectors, buffer, current>>
    BY <1>3 DEF StartThread, schedVars
  <2>2. Env' = Env /\ Running' = Running
    BY <2>1, SameEnv
  <2>3. Status' = [Status EXCEPT ![t] = "ready"] /\ Status[t] = "new"
    BY <2>1, StatusFacts DEF Status, TypeOK
  <2>4. System!Start(t)
    BY <1>0, <2>1, <2>2, <2>3 DEF System!Start, Status, Env, Running
  <2> QED  BY <2>4 DEF System!Next
<1>4. ASSUME NEW t \in Threads, Terminate(t) PROVE [System!Next]_System!vars
  <2>1. /\ ThreadKill(t, "terminated", {}) /\ {} \in SUBSET Threads /\ "terminated" \in Gone
        /\ phase = "run" /\ t \notin {Primordial, current}
        /\ state[t] \notin Gone \cup {"nonexistent"} /\ UNCHANGED schedVars
    BY <1>4 DEF Terminate
  <2>2. PICK W \in SUBSET Threads :
            /\ Wakes(W)
            /\ \A u \in Threads : state'[u] = IF u = t THEN "terminated"
                                              ELSE IF u \in W THEN "ready" ELSE state[u]
    BY <2>1, KillWakes
  <2>3. /\ W \in SUBSET System!WaitingThreads
        /\ Status' = [System!Woken(W) EXCEPT ![t] = "gone"]
    BY <2>1, <2>2, KilledStatus DEF Wakes
  <2>4. Env' = Env /\ Running' = Running
    BY <2>1, SameEnv DEF schedVars
  <2>5. Status[t] \notin {"unborn", "gone"}
    <3>1. state[t] \in {"created", "ready", "running", "blocked", "sleeping"}
      BY <2>1 DEF TypeOK, ThreadStates
    <3> QED  BY <3>1, StatusFacts DEF Status
  <2>6. Running \notin {None, t} /\ t # Primordial
    BY <1>0, <2>1
  <2>7. System!Kill(t)
    BY <2>3, <2>4, <2>5, <2>6 DEF System!Kill, Status, Env, Running
  <2> QED  BY <2>7 DEF System!Next
<1>5. ASSUME NEW m \in Mutexes, MutexLock(m) PROVE [System!Next]_System!vars
  BY <1>5 DEF MutexLock, threadVars, schedVars, System!vars, Environment
<1>6. ASSUME NEW m \in Mutexes, MutexUnlock(m) PROVE [System!Next]_System!vars
  <2>1. UNCHANGED schedVars
    BY <1>6 DEF MutexUnlock
  <2>2. CASE UNCHANGED state
    BY <2>1, <2>2 DEF schedVars, System!vars, Environment
  <2>3. ASSUME NEW w \in mutex[m].waiters, ThreadUnblock({w}) PROVE System!Wake
    <3>1. {w} \in SUBSET Threads
      BY DEF TypeOK
    <3>2. Env' = Env /\ Running' = Running
      BY <2>1, SameEnv DEF schedVars
    <3> QED  BY <2>3, <3>1, <3>2, ThreadWakeStep
  <2> QED  BY <1>6, <2>2, <2>3 DEF MutexUnlock, System!Next
<1>7. ASSUME NEW c \in CVars, CVarSignal(c) PROVE [System!Next]_System!vars
  <2>1. PICK w \in cvarWaiters[c] : ThreadUnblock({w})
    BY <1>7 DEF CVarSignal
  <2>2. {w} \in SUBSET Threads
    BY DEF TypeOK
  <2>3. Env' = Env /\ Running' = Running
    BY <1>7, SameEnv DEF CVarSignal, schedVars
  <2> QED  BY <2>1, <2>2, <2>3, ThreadWakeStep DEF System!Next
<1>8. CASE Finish
  <2>1. /\ ThreadKill(current, "dead", {}) /\ phase = "run" /\ current # Primordial
        /\ EnterScheduler /\ {} \in SUBSET Threads /\ "dead" \in Gone
    BY <1>8 DEF Finish
  <2> QED  BY <2>1, LeaveStep DEF System!Next
<1>9. CASE UncaughtException
  <2>1. PICK forced \in SUBSET Threads :
            /\ \A t \in forced : state[t] \in Waiting
            /\ ThreadKill(current, "terminated", forced)
    BY <1>9, ForcedWait
  <2>2. phase = "run" /\ current # Primordial /\ EnterScheduler /\ "terminated" \in Gone
    BY <1>9 DEF UncaughtException
  <2> QED  BY <2>1, <2>2, LeaveStep DEF System!Next
<1> QED  BY <1>1, <1>2, <1>3, <1>4, <1>5, <1>6, <1>7, <1>8, <1>9 DEF OtherCall

\* each pass of ##sys#schedule is,
LEMMA SchedulerPassSteps ==
    TypeOK /\ WaitInv /\ RegsSaved /\ SchedulerPass => [System!Next]_System!vars
<1> SUFFICES ASSUME TypeOK, WaitInv, RegsSaved, SchedulerPass
             PROVE  [System!Next]_System!vars
  OBVIOUS
<1>1. CASE UnblockTimeouts
  <2> DEFINE W == { e[2] : e \in { e \in timeoutList : Valid(e) /\ e[1] <= now } }
  <2>1. W \in SUBSET Threads /\ \A t \in W : state[t] \in Waiting
    BY ExpiredWait
  <2>2. BasicUnblock(W)
    BY <1>1 DEF UnblockTimeouts
  <2>3. Env' = Env /\ Running' = Running
    BY <1>1, SameEnv DEF UnblockTimeouts
  <2> HIDE DEF W
  <2> QED  BY <2>1, <2>2, <2>3, WakeStep DEF System!Next
<1>2. CASE PollReady
  <2>1. PICK W \in SUBSET Threads : BasicUnblock(W) /\ \A t \in W : state[t] \in Waiting
    BY <1>2, PollWakesWaiting
  <2>2. Env' = Env /\ Running' = Running
    BY <1>2, SameEnv DEF PollReady, Polling
  <2> QED  BY <2>1, <2>2, WakeStep DEF System!Next
<1>3. CASE SleepInterrupted \/ PollInterrupted
  <2>1. ThreadUnblock({Primordial}) /\ {Primordial} \in SUBSET Threads
    BY <1>3, PrimordialAssumption DEF SleepInterrupted, PollInterrupted, ForcePrimordial
  <2>2. phase = "io" /\ phase' = "fetch" /\ UNCHANGED <<current, regs, vectors, buffer>>
    BY <1>3 DEF SleepInterrupted, PollInterrupted, Polling, RegsSaved, TypeOK
  <2> QED  BY <2>1, <2>2, SameEnv, ThreadWakeStep DEF System!Next
<1>4. CASE Switch
  <2> DEFINE h == Head(readyQueue)
  <2>1. /\ phase = "fetch" /\ phase' = "run" /\ state[h] = "ready" /\ current' = h
        /\ state' = [state EXCEPT ![h] = "running"] /\ regs' = buffer[h]
        /\ UNCHANGED <<buffer, vectors>>
    BY <1>4 DEF Switch
  <2>2. h \in Threads
    BY <1>4, HeadTailProperties DEF Switch, TypeOK
  <2> HIDE DEF h
  <2>3. Env' = Env /\ Running = None /\ Running' = h
    BY <2>1, <2>2 DEF Env, Environment, Running
  <2>4. Status[h] = "ready" /\ Status' = [Status EXCEPT ![h] = "running"]
    BY <2>1, <2>2, StatusFacts DEF Status, TypeOK
  <2>5. System!Dispatch(h)
    BY <2>3, <2>4 DEF System!Dispatch, Status, Env, Running
  <2> QED  BY <2>2, <2>5 DEF System!Next
<1>5. CASE MSleep \/ MSleepSignalled \/ NoIo \/ PollTimeout \/ SkipThread \/ NothingReady
  <2>1. UNCHANGED <<state, current, regs, vectors, buffer>> /\ phase # "run" /\ phase' # "run"
    BY <1>5 DEF MSleep, MSleepSignalled, NoIo, PollTimeout, Polling, SkipThread,
       NothingReady, threadVars, schedVars
  <2>2. Env' = Env /\ Running' = Running
    BY <2>1, SameEnv
  <2> QED  BY <2>1, <2>2 DEF System!vars, Env, Running
<1> QED  BY <1>1, <1>2, <1>3, <1>4, <1>5 DEF SchedulerPass

\* and hence every step is.
LEMMA NextSteps ==
    TypeOK /\ WaitInv /\ RegsSaved /\ OwnVectors /\ [Next]_vars => [System!Next]_System!vars
<1> SUFFICES ASSUME TypeOK, WaitInv, RegsSaved, OwnVectors, [Next]_vars
             PROVE  [System!Next]_System!vars
  OBVIOUS
<1>1. CASE Yield
  BY <1>1, SuspendStep DEF Yield, System!Next
<1>2. CASE BlockingCall
  <2>1. PICK st \in Waiting, obj \in BlockObjs \cup {None}, tm \in Deadlines \cup {None} :
            Block(st, obj, tm) /\ phase = "run"
    BY <1>2 DEF BlockingCall, Sleep, BlockForIo, Join, MutexWait, CVarWait, BlockObjs, IoObjs
  <2> QED  BY <2>1, SuspendStep DEF Block, System!Next
<1>3. CASE Tick \/ UNCHANGED vars
  BY <1>3 DEF Tick, vars, threadVars, schedVars, System!vars, Environment
<1> QED  BY <1>1, <1>2, <1>3, OtherCallSteps, SchedulerPassSteps DEF Next

\* The initial states are initial states of ThreadSystem.
LEMMA InitSystem == Init => System!Init
<1> SUFFICES ASSUME Init PROVE System!Init
  OBVIOUS
<1>1. Status = [t \in Threads |-> IF t = Primordial THEN "running" ELSE "unborn"]
  BY StatusFacts DEF Init, Status
<1>2. PICK c \in Contexts : buffer = [t \in Threads |-> [context |-> NewContext(c),
                                                         parameters |-> t]]
  BY DEF Init
<1>3. PICK v \in ParameterValues : vectors = [t \in Threads |-> v]
  BY DEF Init
<1> DEFINE e == [context |-> NewContext(c), parameters |-> v]
<1>4. e \in System!Environments
  BY ContextsAssumption DEF System!Environments
<1>5. \A t \in Threads : Environment(buffer[t]) = e
  BY <1>2, <1>3 DEF Environment
<1>6. regs = buffer[Primordial] /\ current = Primordial /\ phase = "run"
  BY DEF Init
<1> HIDE DEF e
<1>7. Env = [t \in Threads |-> e] /\ Running = Primordial
  BY <1>5, <1>6, PrimordialAssumption DEF Env, Running
<1> QED  BY <1>1, <1>4, <1>7 DEF System!Init, Status, Env, Running

\* The scheduler keeps the promises of ThreadSystem: whatever order threads are
\* preempted, blocked, woken, interrupted and killed in, nobody changes the dynamic
\* environment of a thread but itself, at most one thread runs, one that waits runs
\* only after a wakeup, and one that is gone never again.
THEOREM SchedulerImplements == Spec => ImplementsThreadSystem
<1>1. Init => System!Init /\ RegsSaved /\ OwnVectors
  BY InitSystem, PrimordialAssumption DEF Init, RegsSaved, OwnVectors
<1>2. TypeOK /\ RegsSaved /\ OwnVectors /\ [Next]_vars => RegsSaved' /\ OwnVectors'
  BY NextRegsSaved, NextOwnVectors
<1>3. TypeOK /\ WaitInv /\ RegsSaved /\ OwnVectors /\ [Next]_vars => [System!Next]_System!vars
  BY NextSteps
<1> QED  BY <1>1, <1>2, <1>3, WaitInvariant, PTL
         DEF Spec, System!Spec, ImplementsThreadSystem
=============================================================================
