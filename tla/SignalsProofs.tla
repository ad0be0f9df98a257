---------------------------- MODULE SignalsProofs ----------------------------
(***************************************************************************)
(* Proofs about signals, for every number of threads and signals and every *)
(* length of the queue of pending interrupts.                              *)
(***************************************************************************)
EXTENDS Signals, FiniteSetTheorems, SequenceTheorems, TLAPS

-----------------------------------------------------------------------------
(***************************************************************************)
(* Types.  Besides its type each variable has the range that the place     *)
(* between two accesses to the queue allows.                               *)
(***************************************************************************)
FrameType == [kind : FrameKinds, sig : Sigs \cup {None}]

\* What the process is doing at each place inside of C code.
PlacesOK ==
    /\ pc \in {"raise", "append"} => reg < MaxPending
    /\ pc = "limit" => count > 0
    /\ pc \in {"handle", "pop"} => reg > 0
    /\ pc \in {"handleRead", "popRead"} => reg < MaxPending
    /\ pc \in {"next", "pop", "popRead", "last"} => Doing(current, "pop")
    /\ pc = "nap" => Doing(current, "suspend")

\* The inductive type invariant.
TypeInv == TypeOK /\ frames \in [Threads -> Seq(FrameType)] /\ PlacesOK

\* A process signal changes what an interrupted sleep() returns to, and else
\* only pushes and replaces the innermost frame.
LEMMA TopFrame ==
    ASSUME TypeInv, NEW t \in Threads, NEW k, Doing(t, k)
    PROVE  /\ Len(frames[t]) \in Nat \ {0}
           /\ frames[t][Len(frames[t])] \in FrameType
           /\ frames[t][Len(frames[t])].kind = k
           /\ Below(t) \in Seq(FrameType)
           /\ Len(Below(t)) = Len(frames[t]) - 1
           /\ \A i \in 1..Len(Below(t)) : Below(t)[i] = frames[t][i]
<1> DEFINE s == frames[t]
<1>1. s \in Seq(FrameType) /\ s # <<>> /\ s[Len(s)].kind = k
  BY DEF TypeInv, Doing
<1>2. Len(s) \in Nat \ {0} /\ Len(s) \in 1..Len(s)
  BY <1>1, EmptySeq
<1>3. s[Len(s)] \in FrameType
  BY <1>1, <1>2
<1>4. /\ SubSeq(s, 1, Len(s) - 1) \in Seq(FrameType)
      /\ Len(SubSeq(s, 1, Len(s) - 1)) = Len(s) - 1
      /\ \A i \in 1..Len(s) - 1 : SubSeq(s, 1, Len(s) - 1)[i] = s[i]
  BY <1>1, <1>2
<1> QED  BY <1>1, <1>2, <1>3, <1>4 DEF Below

\* What frames may be pushed.
LEMMA FramesHaveType ==
    /\ \A k \in FrameKinds : Frame(k) \in FrameType
    /\ \A s \in Sigs \cup {None} : HandlerOf(s) \in FrameType
BY DEF Frame, HandlerOf, FrameType, FrameKinds

\* Frames below the innermost one are frames of the same set.
LEMMA BelowOf ==
    ASSUME NEW S, frames \in [Threads -> Seq(S)], NEW t \in Threads, NEW k, Doing(t, k)
    PROVE  Below(t) \in Seq(S)
<1> DEFINE s == frames[t]
<1>1. s \in Seq(S) /\ s # <<>>
  BY DEF Doing
<1>2. Len(s) \in Nat \ {0}
  BY <1>1, EmptySeq
<1>3. SubSeq(s, 1, Len(s) - 1) \in Seq(S)
  BY <1>1, <1>2
<1> QED  BY <1>3 DEF Below

\* Exchanging what a thread does keeps the types of the frames.
LEMMA ReplaceType ==
    ASSUME NEW S, frames \in [Threads -> Seq(S)], NEW t \in Threads,
           NEW q \in Seq(S), NEW f, f = [frames EXCEPT ![t] = q]
    PROVE  /\ f \in [Threads -> Seq(S)]
           /\ f[t] = q
           /\ \A u \in Threads \ {t} : f[u] = frames[u]
OBVIOUS

\* The part of the type invariant that frames do not appear in.
LEMMA UseFacts ==
    ASSUME TypeInv
    PROVE  /\ use \in Uses /\ UseTypeOK(use)
           /\ Queued \subseteq Sigs /\ Breaks \subseteq Sigs
           /\ Queued \cap Breaks = {}
           /\ use.maxRaised \in Nat
BY UsesAssumption DEF TypeInv, TypeOK, UseTypeOK, Queued, Breaks

\* A set of frames that holds those of the system's own procedures.
FramesIn(S) ==
    /\ frames \in [Threads -> Seq(S)]
    /\ \A k \in FrameKinds \ {"handler"} : Frame(k) \in S

\* An interrupted sleep() returns to the loop of the hook.
LEMMA WokenType ==
    ASSUME TypeInv, NEW S, FramesIn(S)
    PROVE  /\ Woken(frames) \in [Threads -> Seq(S)]
           /\ pc # "check" => Woken(frames) = frames
<1>1. CASE pc = "check" /\ Doing(current, "sleep")
  <2>1. current \in Threads
    BY DEF TypeInv, TypeOK
  <2>2. Below(current) \in Seq(S)
    BY <1>1, <2>1, BelowOf DEF FramesIn
  <2>3. Frame("head") \in S /\ Frame("pop") \in S
    BY DEF FrameKinds, FramesIn
  <2>4. Below(current) \o <<Frame("head"), Frame("pop")>> \in Seq(S)
    BY <2>2, <2>3
  <2> QED  BY <1>1, <2>1, <2>4, ReplaceType DEF Woken, FramesIn
<1>2. CASE ~(pc = "check" /\ Doing(current, "sleep"))
  BY <1>2 DEF Woken, FramesIn
<1> QED  BY <1>1, <1>2

\* Frames of the right type give the conjunct of TypeOK.
LEMMA FramesTypeOK ==
    ASSUME NEW f \in [Threads -> Seq(FrameType)]
    PROVE  \A t \in Threads : \A i \in DOMAIN f[t] :
              f[t][i] \in [kind : FrameKinds, sig : Sigs \cup {None}]
<1> SUFFICES ASSUME NEW t \in Threads, NEW i \in DOMAIN f[t]
             PROVE  f[t][i] \in FrameType
  BY DEF FrameType
<1>1. f[t] \in Seq(FrameType)
  OBVIOUS
<1>2. \A q \in Seq(FrameType) : \A j \in DOMAIN q : q[j] \in FrameType
  OBVIOUS
<1> QED  BY <1>1, <1>2

\* The initial states are well typed.
LEMMA InitTypes == Init => TypeInv
<1> SUFFICES ASSUME Init PROVE TypeInv
  OBVIOUS
<1>1. use \in Uses /\ UseTypeOK(use)
  BY UsesAssumption DEF Init
<1>2. frames \in [Threads -> Seq(FrameType)]
  BY DEF Init
<1>4. count \in 0..MaxPending /\ reg \in 0..MaxPending
  BY BoundsAssumption DEF Init
<1>5. raised \in [Sigs -> 0..use.maxRaised] /\ owed \in [Sigs -> Int]
      /\ struck \subseteq Places
  BY <1>1 DEF Init, UseTypeOK
<1>6. slots \in [0..MaxPending-1 -> Reasons \cup {None}]
  BY DEF Init
<1>7. current \in Threads /\ pc \in Places /\ waiter \in Threads \cup {None}
      /\ handling \in BOOLEAN /\ faked \in BOOLEAN /\ enabled \in BOOLEAN
  BY PrimordialAssumption DEF Init, Places
<1>8. events \in Seq(Sigs)
  BY DEF Init
<1>9. TypeOK
  BY <1>1, <1>2, <1>4, <1>5, <1>6, <1>7, <1>8, FramesTypeOK DEF TypeOK
<1>10. PlacesOK
  BY DEF Init, PlacesOK
<1> QED  BY <1>2, <1>9, <1>10 DEF TypeInv

\* A signal that arrives keeps the types.
LEMMA DeliverTypes ==
    ASSUME TypeInv, NEW s \in Sigs, Deliver(s)
    PROVE  TypeInv'
<1>0. FramesIn(FrameType)
  BY FramesHaveType DEF FramesIn, TypeInv
<1>1. frames' \in [Threads -> Seq(FrameType)] /\ (pc # "check" => frames' = frames)
  BY <1>0, WokenType DEF Deliver
<1>2. raised' \in [Sigs -> 0..use.maxRaised]
  <2>1. raised \in [Sigs -> 0..use.maxRaised] /\ use.maxRaised \in Nat
    BY UseFacts DEF TypeInv, TypeOK
  <2>2. raised[s] < use.maxRaised /\ raised' = [raised EXCEPT ![s] = @ + 1]
    BY DEF Deliver
  <2>3. raised[s] + 1 \in 0..use.maxRaised
    BY <2>1, <2>2
  <2> QED  BY <2>1, <2>2, <2>3
<1>3. /\ count' \in 0..MaxPending /\ count' >= count
      /\ slots' \in [0..MaxPending-1 -> Reasons \cup {None}]
      /\ faked' \in BOOLEAN
      /\ owed' \in [Sigs -> Int]
      /\ struck' \subseteq Places
  <2>1. CASE enabled /\ (First \/ Room(s))
    <3>1. count < MaxPending
      BY <2>1, BoundsAssumption DEF First, Room
    <3>2. count' = count + 1 /\ slots' = [slots EXCEPT ![count] = s]
          /\ faked' = (faked \/ First) /\ owed' = [owed EXCEPT ![s] = @ + 1]
          /\ struck' = struck \cup {pc}
      BY <2>1 DEF Deliver
    <3>3. count' \in 0..MaxPending /\ count' >= count
      BY <3>1, <3>2, BoundsAssumption DEF TypeInv, TypeOK
    <3>4. owed[s] + 1 \in Int
      BY DEF TypeInv, TypeOK
    <3> QED  BY <3>2, <3>3, <3>4 DEF TypeInv, TypeOK, Reasons
  <2>2. CASE ~(enabled /\ (First \/ Room(s)))
    BY <2>2, BoundsAssumption DEF Deliver, TypeInv, TypeOK
  <2> QED  BY <2>1, <2>2
<1>4. UNCHANGED <<use, handling, enabled, pc, reg, current, events, waiter>>
  BY DEF Deliver, eventVars
<1>5. TypeOK'
  BY <1>1, <1>2, <1>3, <1>4, FramesTypeOK DEF TypeInv, TypeOK
<1>6. PlacesOK'
  <2>1. PlacesOK /\ count \in Nat
    BY BoundsAssumption DEF TypeInv, TypeOK
  <2>2. pc = "limit" => count' > 0
    BY <1>3, <2>1, BoundsAssumption DEF PlacesOK
  <2>3. pc # "check" => (\A k \in FrameKinds : Doing(current, k)' <=> Doing(current, k))
    BY <1>1, <1>4 DEF Doing
  <2> QED  BY <1>4, <2>1, <2>2, <2>3 DEF PlacesOK, FrameKinds
<1> QED  BY <1>1, <1>5, <1>6 DEF TypeInv

\* The steps of the timer, of C_reclaim and of handle_interrupt.
LEMMA QueueTypes ==
    ASSUME TypeInv, TimerExpires \/ SetEnabled \/ RaiseTimer \/ Reclaim
                    \/ RestoreLimit \/ Decrement \/ EnterPop \/ TestPending
                    \/ Suspend
    PROVE  TypeInv'
<1> USE DEF queueVars, eventVars, arrivals
<1>1. frames' = frames /\ current' = current
  BY DEF TimerExpires, SetEnabled, RaiseTimer, Reclaim, RestoreLimit, Decrement,
         EnterPop, TestPending, Suspend
<1>2. frames' \in [Threads -> Seq(FrameType)]
  BY <1>1 DEF TypeInv
<1>3. /\ reg' \in 0..MaxPending /\ count' \in 0..MaxPending
      /\ slots' \in [0..MaxPending-1 -> Reasons \cup {None}]
  <2>1. CASE TimerExpires \/ SetEnabled \/ Reclaim \/ RestoreLimit \/ EnterPop
             \/ TestPending \/ Suspend
    BY <2>1 DEF TimerExpires, SetEnabled, Reclaim, RestoreLimit, EnterPop,
                TestPending, Suspend, TypeInv, TypeOK
  <2>2. CASE RaiseTimer
    <3>1. reg < MaxPending /\ reg \in Nat
      BY <2>2 DEF RaiseTimer, TypeInv, TypeOK, PlacesOK
    <3> QED  BY <2>2, <3>1, BoundsAssumption DEF RaiseTimer, TypeInv, TypeOK, Reasons
  <2>3. CASE Decrement
    <3>1. reg \in 1..MaxPending
      BY <2>3 DEF Decrement, TypeInv, TypeOK, PlacesOK
    <3> QED  BY <2>3, <3>1, BoundsAssumption DEF Decrement, TypeInv, TypeOK
  <2> QED  BY <2>1, <2>2, <2>3
<1>4. /\ pc' \in Places
      /\ handling' \in BOOLEAN /\ faked' \in BOOLEAN /\ enabled' \in BOOLEAN
  BY DEF TimerExpires, SetEnabled, RaiseTimer, Reclaim, RestoreLimit, Decrement,
         EnterPop, TestPending, Suspend, TypeInv, TypeOK, Places
<1>5. UNCHANGED <<use, events, waiter, raised, struck, owed>>
  BY DEF TimerExpires, SetEnabled, RaiseTimer, Reclaim, RestoreLimit, Decrement,
         EnterPop, TestPending, Suspend
<1>6. TypeOK'
  BY <1>1, <1>2, <1>3, <1>4, <1>5, FramesTypeOK DEF TypeInv, TypeOK
<1>7. PlacesOK'
  <2>1. CASE TimerExpires
    BY <2>1, BoundsAssumption
       DEF TimerExpires, First, Room, TypeInv, TypeOK, PlacesOK
  <2>2. CASE SetEnabled \/ RaiseTimer \/ Reclaim \/ RestoreLimit
    BY <2>2 DEF SetEnabled, RaiseTimer, Reclaim, RestoreLimit, TypeInv, TypeOK,
                PlacesOK, Doing
  <2>3. CASE Decrement
    BY <2>3, BoundsAssumption DEF Decrement, TypeInv, TypeOK, PlacesOK, Doing
  <2>4. CASE EnterPop \/ TestPending \/ Suspend
    BY <2>4 DEF EnterPop, TestPending, Suspend, Runs, TypeInv, TypeOK, PlacesOK, Doing
  <2> QED  BY <2>1, <2>2, <2>3, <2>4
<1> QED  BY <1>2, <1>6, <1>7 DEF TypeInv

\* The innermost frame of the current thread is exchanged for other frames.
LEMMA ReplacedTypes ==
    ASSUME TypeInv, NEW S, FramesIn(S), NEW k, Doing(current, k), NEW q \in Seq(S),
           Replace(current, q)
    PROVE  frames' \in [Threads -> Seq(S)]
<1>1. current \in Threads
  BY DEF TypeInv, TypeOK
<1>2. Below(current) \o q \in Seq(S)
  BY <1>1, BelowOf DEF FramesIn
<1> QED  BY <1>1, <1>2, ReplaceType DEF Replace, FramesIn

\* The handler the hook is about to call is a frame of the set.
HandlerIn(S) ==
    pc \in {"handleRead", "popRead"} /\ slots[reg] # Timer => HandlerOf(slots[reg]) \in S

\* The steps that change what threads do push and replace frames of the set.
LEMMA FramesOf ==
    ASSUME TypeInv, NEW S, FramesIn(S), HandlerIn(S),
           \/ CallHook \/ TakePending \/ NonePending \/ Handlers \/ GetNextEvent
           \/ WaitForNextEvent \/ LookForEvent \/ Sleep \/ SleepEnds
    PROVE  frames' \in [Threads -> Seq(S)]
<1>0. \A k \in FrameKinds \ {"handler"} : Frame(k) \in S
  BY DEF FramesIn
<1>1. current \in Threads /\ frames \in [Threads -> Seq(S)]
  BY DEF TypeInv, TypeOK, FramesIn
<1>2. ASSUME NEW f \in S, Push(current, f)
      PROVE  frames' \in [Threads -> Seq(S)]
  BY <1>1, <1>2 DEF Push
<1>3. pc \in {"handleRead", "popRead"} /\ slots[reg] # Timer =>
          HandlerOf(slots[reg]) \in S
  BY DEF HandlerIn
<1>4. <<>> \in Seq(S)
  OBVIOUS
<1>5. CASE CallHook
  BY <1>0, <1>2, <1>3, <1>5 DEF CallHook, FrameKinds
<1>6. CASE TakePending
  <2>1. Doing(current, "pop")
    BY <1>6 DEF TakePending, TypeInv, PlacesOK
  <2>2. CASE slots[reg] # Timer
    <3>1. <<HandlerOf(slots[reg])>> \in Seq(S)
      BY <1>3, <1>6, <2>2 DEF TakePending
    <3>2. Replace(current, <<HandlerOf(slots[reg])>>)
      BY <1>6, <2>2 DEF TakePending
    <3> QED  BY <2>1, <3>1, <3>2, ReplacedTypes
  <2> QED  BY <1>1, <1>6, <2>2 DEF TakePending
<1>7. CASE NonePending
  <2>1. Doing(current, "pop")
    BY <1>7 DEF NonePending, TypeInv, PlacesOK
  <2> QED  BY <1>4, <1>7, <2>1, ReplacedTypes DEF NonePending, Return
<1>8. CASE Handle
  <2>1. <<Frame("pop")>> \in Seq(S)
    BY <1>0 DEF FrameKinds
  <2>2. Replace(current, <<Frame("pop")>>) /\ Doing(current, "handler")
    BY <1>8 DEF Handle, Runs
  <2> QED  BY <2>1, <2>2, ReplacedTypes
<1>9. CASE BreakPrimordial
  BY <1>1, <1>4, <1>9 DEF BreakPrimordial
<1>10. CASE BreakOther
  <2>1. Below(current) \o <<Frame("pop")>> \in Seq(S)
    BY <1>0, <1>1, <1>10, BelowOf DEF BreakOther, Runs, FrameKinds
  <2>2. <<Frame("break")>> \in Seq(S)
    BY <1>0 DEF FrameKinds
  <2> QED  BY <1>1, <1>10, <2>1, <2>2 DEF BreakOther
<1>11. CASE Break
  BY <1>1, <1>4, <1>11 DEF Break
<1>12. CASE GetNextEvent
  BY <1>1, <1>12 DEF GetNextEvent
<1>13. CASE WaitForNextEvent
  BY <1>0, <1>2, <1>13 DEF WaitForNextEvent, FrameKinds
<1>14. CASE LookForEvent
  <2>1. Doing(current, "head")
    BY <1>14 DEF LookForEvent, Runs
  <2>2. <<Frame("suspend")>> \in Seq(S)
    BY <1>0 DEF FrameKinds
  <2> QED  BY <1>4, <1>14, <2>1, <2>2, ReplacedTypes DEF LookForEvent, Return
<1>15. CASE Sleep
  <2>1. Doing(current, "suspend")
    BY <1>15 DEF Sleep, TypeInv, PlacesOK
  <2>2. <<Frame("sleep")>> \in Seq(S)
    BY <1>0 DEF FrameKinds
  <2> QED  BY <1>15, <2>1, <2>2, ReplacedTypes DEF Sleep
<1>16. CASE SleepEnds
  <2>1. Below(current) \o <<Frame("head"), Frame("pop")>> \in Seq(S)
    BY <1>0, <1>1, <1>16, BelowOf DEF SleepEnds, FrameKinds
  <2> QED  BY <1>1, <1>16, <2>1 DEF SleepEnds
<1> QED  BY <1>5, <1>6, <1>7, <1>8, <1>9, <1>10, <1>11, <1>12, <1>13, <1>14, <1>15,
            <1>16 DEF Handlers

\* These steps keep the types of the frames.
LEMMA FrameTypes ==
    ASSUME TypeInv, CallHook \/ TakePending \/ NonePending \/ Handlers \/ GetNextEvent
                    \/ WaitForNextEvent \/ LookForEvent \/ Sleep \/ SleepEnds
    PROVE  frames' \in [Threads -> Seq(FrameType)]
<1>1. FramesIn(FrameType)
  BY FramesHaveType DEF FramesIn, TypeInv
<1>2. HandlerIn(FrameType)
  BY FramesHaveType, BoundsAssumption
     DEF HandlerIn, TypeInv, TypeOK, PlacesOK, Reasons
<1> QED  BY <1>1, <1>2, FramesOf

\* The same steps keep the types of everything else.
LEMMA StepTypes ==
    ASSUME TypeInv, CallHook \/ TakePending \/ NonePending \/ Handlers \/ GetNextEvent
                    \/ WaitForNextEvent \/ LookForEvent \/ Sleep \/ SleepEnds
    PROVE  TypeInv'
<1> USE DEF queueVars, eventVars, arrivals, Handlers
<1>1. frames' \in [Threads -> Seq(FrameType)]
  BY FrameTypes
<1>2. UNCHANGED <<use, slots, count, faked, enabled, reg, raised, struck>>
  BY DEF CallHook, TakePending, NonePending, Handle, BreakPrimordial, BreakOther,
         Break, GetNextEvent, WaitForNextEvent, LookForEvent, Sleep, SleepEnds
<1>3. pc' = "check" /\ current' \in Threads /\ handling' \in BOOLEAN
  BY DEF CallHook, TakePending, NonePending, Handle, BreakPrimordial, BreakOther,
         Break, GetNextEvent, WaitForNextEvent, LookForEvent, Sleep, SleepEnds,
         Runs, TypeInv, TypeOK
<1>4. owed' \in [Sigs -> Int]
  BY DEF CallHook, TakePending, NonePending, Handle, BreakPrimordial, BreakOther,
         Break, GetNextEvent, WaitForNextEvent, LookForEvent, Sleep, SleepEnds,
         TypeInv, TypeOK
<1>5. events' \in Seq(Sigs) /\ waiter' \in Threads \cup {None}
  <2>1. CASE Handle
    BY <2>1, UseFacts DEF Handle, TypeInv, TypeOK
  <2>2. CASE GetNextEvent \/ LookForEvent
    <3>1. events # <<>> => Tail(events) \in Seq(Sigs)
      BY DEF TypeInv, TypeOK
    <3>2. events' = events \/ (events # <<>> /\ events' = Tail(events))
      BY <2>2 DEF GetNextEvent, LookForEvent
    <3>3. waiter' \in {waiter, current}
      BY <2>2 DEF GetNextEvent, LookForEvent
    <3> QED  BY <3>1, <3>2, <3>3 DEF TypeInv, TypeOK
  <2>3. CASE UNCHANGED eventVars
    BY <2>3 DEF TypeInv, TypeOK
  <2> QED  BY <2>1, <2>2, <2>3 DEF CallHook, TakePending, NonePending, BreakPrimordial,
              BreakOther, Break, WaitForNextEvent, Sleep, SleepEnds
<1>6. TypeOK'
  BY <1>1, <1>2, <1>3, <1>4, <1>5, FramesTypeOK DEF TypeInv, TypeOK, Places
<1>7. PlacesOK'
  BY <1>3 DEF PlacesOK
<1> QED  BY <1>1, <1>6, <1>7 DEF TypeInv

\* The types are an invariant.
LEMMA Types == Spec => []TypeInv
<1>1. Init => TypeInv
  BY InitTypes
<1>2. TypeInv /\ [Next]_vars => TypeInv'
  <2> SUFFICES ASSUME TypeInv, [Next]_vars PROVE TypeInv'
    OBVIOUS
  <2>1. CASE CollectAgain \/ UNCHANGED vars
    <3>1. UNCHANGED vars
      BY <2>1 DEF CollectAgain
    <3>2. TypeOK'
      BY <3>1 DEF TypeInv, TypeOK, vars, queueVars, eventVars, arrivals
    <3> QED  BY <3>1, <3>2 DEF TypeInv, PlacesOK, Doing, vars, queueVars, eventVars
  <2>2. CASE Next
    BY <2>1, <2>2, DeliverTypes, QueueTypes, StepTypes
       DEF Next, UserCode, HookLoop, Waiting
  <2> QED  BY <2>1, <2>2
<1> QED  BY <1>1, <1>2, PTL DEF Spec

-----------------------------------------------------------------------------
(***************************************************************************)
(* The faked stack limit.                                                  *)
(***************************************************************************)

\* A faked limit has a pending interrupt that is enabled, wherever the limit
\* may be looked at next, and is not faked where the count is decremented.
LimitInv ==
    /\ faked => enabled /\ count > 0 /\ pc \notin {"handle", "next", "pop"}
    /\ pc = "raise" => enabled
    /\ pc = "handle" => count > 0
    /\ pc = "pop" => handling

\* A signal that arrives makes a reason pending when it fakes the limit.
LEMMA DeliverLimit ==
    ASSUME TypeInv, LimitInv, NEW s \in Sigs, Deliver(s), "next" \notin struck'
    PROVE  LimitInv'
<1>1. UNCHANGED <<pc, enabled, handling>> /\ count \in Nat
  BY BoundsAssumption DEF Deliver, TypeInv, TypeOK
<1>2. CASE enabled /\ (First \/ Room(s))
  <2>1. count' = count + 1 /\ faked' = (faked \/ First) /\ pc # "next"
    BY <1>2 DEF Deliver
  <2>2. First => pc \notin {"handle", "next", "pop"}
    BY <2>1 DEF First, LimitInv
  <2>3. count' > 0
    BY <1>1, <2>1
  <2>4. faked' => pc \notin {"handle", "next", "pop"}
    BY <2>1, <2>2 DEF LimitInv
  <2> QED  BY <1>1, <1>2, <2>3, <2>4 DEF LimitInv
<1>3. CASE ~(enabled /\ (First \/ Room(s)))
  BY <1>1, <1>3 DEF Deliver, LimitInv
<1> QED  BY <1>2, <1>3

\* No step leaves a faked limit without its interrupt.
LEMMA LimitStep ==
    ASSUME TypeInv, LimitInv, [Next]_vars, "next" \notin struck'
    PROVE  LimitInv'
<1> USE DEF queueVars, eventVars, arrivals, LimitInv
<1>1. ASSUME NEW s \in Sigs, Deliver(s) PROVE LimitInv'
  BY <1>1, DeliverLimit
<1>2. CASE TimerExpires
  BY <1>2 DEF TimerExpires, First, Room
<1>3. CASE RaiseTimer
  <2>1. reg + 1 > 0
    BY BoundsAssumption DEF TypeInv, TypeOK
  <2> QED  BY <1>3, <2>1 DEF RaiseTimer
<1>4. CASE SetEnabled \/ Reclaim \/ RestoreLimit \/ Decrement \/ CallHook
  BY <1>4 DEF SetEnabled, Reclaim, RestoreLimit, Decrement, CallHook, TypeInv, PlacesOK
<1>5. CASE HookLoop
  BY <1>5 DEF HookLoop, EnterPop, TestPending, TakePending, NonePending, Runs
<1>6. CASE Handlers \/ Waiting \/ GetNextEvent \/ WaitForNextEvent
  BY <1>6 DEF Handlers, Handle, BreakPrimordial, BreakOther, Break, Runs, Waiting,
              LookForEvent, Suspend, Sleep, SleepEnds, GetNextEvent, WaitForNextEvent
<1>7. CASE CollectAgain \/ UNCHANGED vars
  BY <1>7 DEF CollectAgain, vars
<1> QED  BY <1>1, <1>2, <1>3, <1>4, <1>5, <1>6, <1>7 DEF Next, UserCode

\* Places are never taken from struck.
LEMMA StruckGrows == [Next]_vars => struck \subseteq struck'
BY DEF Next, Deliver, UserCode, TimerExpires, SetEnabled, GetNextEvent,
       WaitForNextEvent, RaiseTimer, Reclaim, CollectAgain, RestoreLimit, Decrement,
       CallHook, HookLoop, EnterPop, TestPending, TakePending, NonePending, Handlers,
       Handle, BreakPrimordial, BreakOther, Break, Waiting, LookForEvent, Suspend,
       Sleep, SleepEnds, vars, arrivals

\* The limit is never faked for nothing, unless a signal struck at "next".
LEMMA Limits == Spec => []("next" \notin struck => LimitInv)
<1>1. Init => LimitInv
  BY DEF Init, LimitInv
<1>2. TypeInv /\ ("next" \notin struck => LimitInv) /\ [Next]_vars
          => ("next" \notin struck => LimitInv)'
  BY LimitStep, StruckGrows
<1> QED  BY <1>1, <1>2, Types, PTL DEF Spec

-----------------------------------------------------------------------------
(***************************************************************************)
(* What is read from the queue was raised, wherever signals arrive.        *)
(***************************************************************************)

\* What was raised so far.
RaisedReasons == { r \in Reasons : Raised(r) }

\* The frames in which only handlers of signals that were sent are called.
RaisedFrames == { f \in FrameType : f.kind = "handler" => f.sig \in RaisedReasons }

\* A queue position that the count, or the count last loaded, reaches holds a
\* reason that was raised: a position written once never goes back to none.
RaisedInv ==
    /\ \A i \in 0..count-1 : slots[i] \in RaisedReasons
    /\ \A i \in 0..reg-1 : slots[i] \in RaisedReasons
    /\ pc \in {"handleRead", "popRead"} => slots[reg] \in RaisedReasons
    /\ frames \in [Threads -> Seq(RaisedFrames)]
    /\ events \in Seq(RaisedReasons)

\* What was raised once stays so.
LEMMA RaisedGrows ==
    ASSUME TypeInv, [Next]_vars
    PROVE  RaisedReasons \subseteq RaisedReasons'
<1> USE DEF arrivals
<1>1. ASSUME NEW s \in Sigs, Deliver(s) PROVE RaisedReasons \subseteq RaisedReasons'
  <2>1. raised' = [raised EXCEPT ![s] = @ + 1] /\ raised \in [Sigs -> 0..use.maxRaised]
    BY <1>1 DEF Deliver, TypeInv, TypeOK
  <2>2. use.maxRaised \in Nat
    BY UseFacts
  <2> QED  BY <2>1, <2>2 DEF RaisedReasons, Raised
<1>2. CASE raised' = raised
  BY <1>2 DEF RaisedReasons, Raised
<1> QED  BY <1>1, <1>2
         DEF Next, UserCode, TimerExpires, SetEnabled, GetNextEvent, WaitForNextEvent,
             RaiseTimer, Reclaim, CollectAgain, RestoreLimit, Decrement, CallHook,
             HookLoop, EnterPop, TestPending, TakePending, NonePending, Handlers,
             Handle, BreakPrimordial, BreakOther, Break, Waiting, LookForEvent,
             Suspend, Sleep, SleepEnds, vars

\* Every step puts only frames of raised signals on top of threads.
LEMMA RaisedFramesKept ==
    ASSUME TypeInv, RaisedInv, [Next]_vars
    PROVE  frames' \in [Threads -> Seq(RaisedFrames')]
<1>1. PICK S : S = RaisedFrames
  OBVIOUS
<1>2. FramesIn(S)
  BY <1>1, FramesHaveType DEF FramesIn, RaisedInv, RaisedFrames, Frame
<1>3. HandlerIn(S)
  <2> SUFFICES ASSUME pc \in {"handleRead", "popRead"}, slots[reg] # Timer
               PROVE  HandlerOf(slots[reg]) \in S
    BY DEF HandlerIn
  <2>1. slots[reg] \in RaisedReasons /\ slots[reg] \in Sigs
    BY DEF RaisedInv, RaisedReasons, Reasons
  <2>2. HandlerOf(slots[reg]) \in FrameType /\ HandlerOf(slots[reg]).sig = slots[reg]
    BY <2>1, FramesHaveType DEF HandlerOf
  <2> QED  BY <1>1, <2>1, <2>2 DEF RaisedFrames
<1>4. frames' \in [Threads -> Seq(S)]
  <2>1. ASSUME NEW s \in Sigs, Deliver(s) PROVE frames' \in [Threads -> Seq(S)]
    BY <1>2, <2>1, WokenType DEF Deliver
  <2>2. CASE frames' = frames
    BY <1>2, <2>2 DEF FramesIn
  <2>3. CASE \/ CallHook \/ TakePending \/ NonePending \/ Handlers \/ GetNextEvent
             \/ WaitForNextEvent \/ LookForEvent \/ Sleep \/ SleepEnds
    BY <1>2, <1>3, <2>3, FramesOf
  <2> QED  BY <2>1, <2>2, <2>3
           DEF Next, UserCode, TimerExpires, SetEnabled, RaiseTimer, Reclaim,
               CollectAgain, RestoreLimit, Decrement, HookLoop, EnterPop, TestPending,
               Waiting, Suspend, vars
<1>5. S \subseteq RaisedFrames'
  BY <1>1, RaisedGrows DEF RaisedFrames, FrameType
<1>6. ASSUME NEW Q, S \subseteq Q PROVE frames' \in [Threads -> Seq(Q)]
  <2>1. \A q \in Seq(S) : q \in Seq(Q)
    BY <1>6
  <2> QED  BY <1>4, <2>1
<1>7. PICK Q : Q = RaisedFrames'
  OBVIOUS
<1> QED  BY <1>5, <1>6, <1>7

\* Every step puts only signals that were raised in the event queue.
LEMMA RaisedEvents ==
    ASSUME TypeInv, RaisedInv, [Next]_vars
    PROVE  events' \in Seq(RaisedReasons')
<1> USE DEF eventVars
<1>0. PICK S : S = RaisedReasons
  OBVIOUS
<1>1. events \in Seq(S)
  BY <1>0 DEF RaisedInv
<1>7. PICK Q : Q = RaisedReasons'
  OBVIOUS
<1>8. S \subseteq Q
  BY <1>0, <1>7, RaisedGrows
<1> SUFFICES events' \in Seq(S)
  BY <1>7, <1>8
<1>2. CASE events' = events
  BY <1>1, <1>2
<1>3. CASE events # <<>> /\ events' = Tail(events)
  BY <1>1, <1>3
<1>4. CASE Handle
  <2>1. PICK f : f = frames[current][Len(frames[current])]
    OBVIOUS
  <2>2. current \in Threads /\ Doing(current, "handler")
    BY <1>4 DEF Handle, Runs, TypeInv, TypeOK
  <2>3. frames[current] \in Seq(RaisedFrames) /\ Len(frames[current]) \in Nat \ {0}
    BY <2>2, TopFrame DEF RaisedInv
  <2>4. f \in RaisedFrames
    BY <2>1, <2>3
  <2>5. f.kind = "handler" /\ f.sig \in S /\ f.sig = Handled
    BY <1>0, <2>1, <2>2, <2>4 DEF RaisedFrames, Doing, Handled
  <2>6. PICK h : h = Handled
    OBVIOUS
  <2>7. h \in S /\ events' = Append(events, h)
    BY <1>4, <2>5, <2>6 DEF Handle
  <2> QED  BY <1>1, <2>7
<1> QED
  BY <1>1, <1>2, <1>3, <1>4
     DEF Next, Deliver, UserCode, TimerExpires, SetEnabled, GetNextEvent,
         WaitForNextEvent, RaiseTimer, Reclaim, CollectAgain, RestoreLimit,
         Decrement, CallHook, HookLoop, EnterPop, TestPending, TakePending,
         NonePending, Handlers, BreakPrimordial, BreakOther, Break, Waiting,
         LookForEvent, Suspend, Sleep, SleepEnds, vars

\* The positions that are reached hold members of Q.
Reached(Q) ==
    /\ \A i \in 0..count-1 : slots[i] \in Q
    /\ \A i \in 0..reg-1 : slots[i] \in Q
    /\ pc \in {"handleRead", "popRead"} => slots[reg] \in Q

\* A step that leaves the queue alone, or only stores what was loaded.
LEMMA ReachedKept ==
    ASSUME TypeInv, NEW Q, Reached(Q), [Next]_vars, ~RaiseTimer,
           \A s \in Sigs : ~Deliver(s)
    PROVE  Reached(Q)'
<1> USE DEF queueVars, Reached
<1>0. count \in Nat /\ reg \in Nat
  BY BoundsAssumption DEF TypeInv, TypeOK
<1>1. CASE Decrement
  <2>1. /\ reg > 0 /\ slots' = slots /\ count' = reg - 1 /\ reg' = reg - 1
    BY <1>1 DEF Decrement, TypeInv, PlacesOK
  <2>2. reg - 1 \in 0..reg-1 /\ \A i \in 0..(reg-1)-1 : i \in 0..reg-1
    BY <1>0, <2>1
  <2> QED  BY <2>1, <2>2
<1>2. CASE TimerExpires \/ RestoreLimit \/ TestPending
  <2>1. UNCHANGED <<slots, count>> /\ reg' = count /\ pc' \notin {"handleRead", "popRead"}
    BY <1>2 DEF TimerExpires, RestoreLimit, TestPending
  <2> QED  BY <2>1
<1>3. CASE /\ UNCHANGED <<slots, count, reg>>
           /\ pc' = pc \/ pc' \notin {"handleRead", "popRead"}
  BY <1>3
<1> QED  BY <1>1, <1>2, <1>3
         DEF Next, UserCode, SetEnabled, GetNextEvent, WaitForNextEvent, Reclaim,
             CollectAgain, CallHook, HookLoop, EnterPop, TakePending, NonePending,
             Handlers, Handle, BreakPrimordial, BreakOther, Break, Waiting,
             LookForEvent, Suspend, Sleep, SleepEnds, vars

\* A step that writes a position writes a reason that is raised.
LEMMA ReachedWritten ==
    ASSUME TypeInv, NEW Q, Reached(Q), NEW k \in 0..MaxPending-1, NEW r \in Q,
           slots' = [slots EXCEPT ![k] = r], count' = k + 1, k \in {count, reg},
           UNCHANGED reg, pc' = pc \/ pc' = "check"
    PROVE  Reached(Q)'
<1>1. /\ count \in 0..MaxPending /\ reg \in 0..MaxPending /\ MaxPending \in Nat
      /\ DOMAIN slots = 0..MaxPending-1
  BY BoundsAssumption DEF TypeInv, TypeOK
<1>2. \A i \in 0..MaxPending-1 : slots'[i] = r \/ slots'[i] = slots[i]
  BY <1>1
<1>3. slots'[k] = r
  BY <1>1
<1>4. \A i \in 0..count'-1 : i \in 0..MaxPending-1 /\ (i = k \/ i \in 0..count-1 \/ i \in 0..reg-1)
  BY <1>1
<1>5. \A i \in 0..reg-1 : i \in 0..MaxPending-1
  BY <1>1
<1>6. pc \in {"handleRead", "popRead"} => reg \in 0..MaxPending-1
  BY <1>1 DEF TypeInv, PlacesOK
<1> QED  BY <1>2, <1>3, <1>4, <1>5, <1>6 DEF Reached

\* Every step keeps the positions that are reached raised.
LEMMA RaisedSlots ==
    ASSUME TypeInv, RaisedInv, [Next]_vars, NEW Q, Q = RaisedReasons'
    PROVE  Reached(Q)'
<1>0. Reached(Q)
  BY RaisedGrows DEF Reached, RaisedInv
<1>1. ASSUME NEW s \in Sigs, Deliver(s) PROVE Reached(Q)'
  <2>1. CASE enabled /\ (First \/ Room(s))
    <3>1. count \in 0..MaxPending-1
      BY <2>1, BoundsAssumption DEF First, Room, TypeInv, TypeOK
    <3>2. /\ slots' = [slots EXCEPT ![count] = s] /\ count' = count + 1
          /\ UNCHANGED <<pc, reg>> /\ raised' = [raised EXCEPT ![s] = @ + 1]
      BY <1>1, <2>1 DEF Deliver
    <3>3. raised'[s] = raised[s] + 1 /\ raised[s] \in Nat
      BY <3>2, UseFacts DEF TypeInv, TypeOK
    <3>4. s \in Q
      BY <3>3 DEF RaisedReasons, Raised, Reasons
    <3>5. PICK k : k = count
      OBVIOUS
    <3> QED  BY <1>0, <3>1, <3>2, <3>4, <3>5, ReachedWritten
  <2>2. CASE ~(enabled /\ (First \/ Room(s)))
    <3>1. UNCHANGED <<slots, count, pc, reg>>
      BY <1>1, <2>2 DEF Deliver
    <3> QED  BY <1>0, <3>1 DEF Reached
  <2> QED  BY <2>1, <2>2
<1>2. CASE RaiseTimer
  <2>1. /\ reg \in 0..MaxPending-1 /\ slots' = [slots EXCEPT ![reg] = Timer]
        /\ count' = reg + 1 /\ reg' = reg /\ pc' = "check"
    BY <1>2, BoundsAssumption DEF RaiseTimer, TypeInv, TypeOK, PlacesOK
  <2>2. Timer \in Q
    BY DEF RaisedReasons, Raised, Reasons
  <2>3. PICK k : k = reg
    OBVIOUS
  <2> QED  BY <1>0, <2>1, <2>2, <2>3, ReachedWritten
<1> QED  BY <1>0, <1>1, <1>2, ReachedKept

\* What the queue, handlers and event queues hold was raised.
LEMMA ReasonsRaised == Spec => []RaisedInv
<1>1. Init => RaisedInv
  <2> SUFFICES ASSUME Init PROVE RaisedInv
    OBVIOUS
  <2>1. frames \in [Threads -> Seq(RaisedFrames)] /\ events = <<>>
    BY DEF Init
  <2>2. events \in Seq(RaisedReasons)
    BY <2>1
  <2> QED  BY <2>1, <2>2 DEF Init, RaisedInv
<1>2. TypeInv /\ RaisedInv /\ [Next]_vars => RaisedInv'
  <2> SUFFICES ASSUME TypeInv, RaisedInv, [Next]_vars PROVE RaisedInv'
    OBVIOUS
  <2>1. PICK Q : Q = RaisedReasons'
    OBVIOUS
  <2>2. Reached(Q)'
    BY <2>1, RaisedSlots
  <2> QED  BY <2>1, <2>2, RaisedFramesKept, RaisedEvents DEF RaisedInv, Reached
<1> QED  BY <1>1, <1>2, Types, PTL DEF Spec

\* For any number of threads and signals, any length of the queue and signals that
\* arrive at any place in C code: reasons that are read from the queue, handlers
\* and events are of signals that were raised; and a check that fails because the
\* limit is faked finds an interrupt that it may handle, so the limit is restored,
\* unless a signal was accepted just before C_i_pending_interrupt tests the count.
THEOREM FakedLimitIsServed == Spec => []InterruptsSound
<1>1. TypeInv /\ ("next" \notin struck => LimitInv) /\ RaisedInv => InterruptsSound
  <2> SUFFICES ASSUME TypeInv, "next" \notin struck => LimitInv, RaisedInv
               PROVE  InterruptsSound
    OBVIOUS
  <2>1. ASSUME NEW t \in Threads, NEW i \in DOMAIN frames[t]
        PROVE  frames[t][i] \in RaisedFrames
    <3>1. PICK q : q = frames[t]
      OBVIOUS
    <3>2. PICK S : S = RaisedFrames
      OBVIOUS
    <3>3. q \in Seq(S)
      BY <3>1, <3>2 DEF RaisedInv
    <3> QED  BY <2>1, <3>1, <3>2, <3>3
  <2>2. \A i \in DOMAIN events : events[i] \in RaisedReasons
    <3>1. PICK S : S = RaisedReasons
      OBVIOUS
    <3>2. events \in Seq(S)
      BY <3>1 DEF RaisedInv
    <3> QED  BY <3>1, <3>2
  <2>3. ReasonsAreRaised
    BY <2>1, <2>2 DEF ReasonsAreRaised, RaisedInv, RaisedFrames, RaisedReasons, Pending
  <2> QED  BY <2>3 DEF TypeInv, LimitInv, InterruptsSound, LimitFindsInterrupt
<1> QED  BY <1>1, Types, Limits, ReasonsRaised, PTL

-----------------------------------------------------------------------------
(***************************************************************************)
(* The thread an event queue names.                                        *)
(***************************************************************************)

\* In a program that breaks, no thread waits for events.
BreaksOrWaiters == \A u \in Uses : u.breaks = {} \/ u.waiters = {}

\* The frames of a thread that waits for an event.
WaitKinds == {"head", "suspend", "sleep"}

\* The kinds of frames in a sequence.
Kinds(q) == { q[i].kind : i \in DOMAIN q }

\* What threads do for events and for user interrupts.
WaiterInv ==
    /\ waiter # None =>
          /\ events = <<>>
          /\ Kinds(frames[waiter]) \cap WaitKinds # {}
    /\ Breaks = {} => \A t \in Threads : "break" \notin Kinds(frames[t])
    /\ use.waiters = {} =>
          /\ waiter = None
          /\ \A t \in Threads : Kinds(frames[t]) \cap WaitKinds = {}

\* Concatenation, element by element.
LEMMA ConcatFrames ==
    ASSUME NEW q \in Seq(FrameType), NEW r \in Seq(FrameType)
    PROVE  /\ DOMAIN (q \o r) = 1..Len(q) + Len(r)
           /\ DOMAIN q = 1..Len(q) /\ DOMAIN r = 1..Len(r)
           /\ Len(q) \in Nat /\ Len(r) \in Nat
           /\ \A i \in 1..Len(q) + Len(r) :
                 (q \o r)[i] = IF i <= Len(q) THEN q[i] ELSE r[i - Len(q)]
BY ConcatProperties

\* The kinds of frames in the sequences that threads are given.
LEMMA KindsOfSequences ==
    /\ Kinds(<<>>) = {}
    /\ \A f : Kinds(<<f>>) = {f.kind}
    /\ \A f, g : Kinds(<<f, g>>) = {f.kind, g.kind}
    /\ \A q, r \in Seq(FrameType) : Kinds(q \o r) = Kinds(q) \cup Kinds(r)
    /\ \A q \in Seq(FrameType) : \A f \in FrameType :
          Kinds(Append(q, f)) = Kinds(q) \cup {f.kind}
<1>1. /\ Kinds(<<>>) = {}
      /\ \A f : Kinds(<<f>>) = {f.kind}
      /\ \A f, g : Kinds(<<f, g>>) = {f.kind, g.kind}
  BY DEF Kinds
<1>2. ASSUME NEW q \in Seq(FrameType), NEW r \in Seq(FrameType)
      PROVE  Kinds(q \o r) = Kinds(q) \cup Kinds(r)
  <2>1. /\ DOMAIN (q \o r) = 1..Len(q) + Len(r)
        /\ DOMAIN q = 1..Len(q) /\ DOMAIN r = 1..Len(r)
        /\ Len(q) \in Nat /\ Len(r) \in Nat
        /\ \A i \in 1..Len(q) + Len(r) :
              (q \o r)[i] = IF i <= Len(q) THEN q[i] ELSE r[i - Len(q)]
    BY ConcatFrames
  <2>2. ASSUME NEW k \in Kinds(q \o r) PROVE k \in Kinds(q) \cup Kinds(r)
    <3>1. PICK i \in 1..Len(q) + Len(r) : k = (q \o r)[i].kind
      BY <2>1, <2>2 DEF Kinds
    <3>2. CASE i <= Len(q)
      BY <2>1, <3>1, <3>2 DEF Kinds
    <3>3. CASE i > Len(q)
      <4>1. i - Len(q) \in 1..Len(r) /\ (q \o r)[i] = r[i - Len(q)]
        BY <2>1, <3>3
      <4> QED  BY <2>1, <3>1, <4>1 DEF Kinds
    <3> QED  BY <2>1, <3>2, <3>3
  <2>3. ASSUME NEW i \in DOMAIN q PROVE q[i].kind \in Kinds(q \o r)
    <3>1. i \in 1..Len(q) + Len(r) /\ (q \o r)[i] = q[i]
      BY <2>1
    <3> QED  BY <2>1, <3>1 DEF Kinds
  <2>4. ASSUME NEW i \in DOMAIN r PROVE r[i].kind \in Kinds(q \o r)
    <3>1. i + Len(q) \in 1..Len(q) + Len(r) /\ (q \o r)[i + Len(q)] = r[i]
      BY <2>1
    <3> QED  BY <2>1, <3>1 DEF Kinds
  <2> QED  BY <2>2, <2>3, <2>4 DEF Kinds
<1>3. ASSUME NEW q \in Seq(FrameType), NEW f \in FrameType
      PROVE  Kinds(Append(q, f)) = Kinds(q) \cup {f.kind}
  <2>1. Append(q, f) = q \o <<f>> /\ <<f>> \in Seq(FrameType)
    OBVIOUS
  <2>2. Kinds(<<f>>) = {f.kind}
    BY <1>1
  <2>3. Kinds(q \o <<f>>) = Kinds(q) \cup Kinds(<<f>>)
    BY <1>2, <2>1
  <2> QED  BY <2>1, <2>2, <2>3
<1> QED  BY <1>1, <1>2, <1>3

\* What a thread does is the kind of a frame of it.
LEMMA DoingKind ==
    ASSUME TypeInv, NEW t \in Threads, NEW k, Doing(t, k)
    PROVE  k \in Kinds(frames[t])
<1> DEFINE s == frames[t]
<1>1. Len(s) \in Nat \ {0} /\ s[Len(s)].kind = k
  BY TopFrame
<1>2. s \in Seq(FrameType)
  BY DEF TypeInv
<1> HIDE DEF s
<1>3. Len(s) \in DOMAIN s
  BY <1>1, <1>2
<1>4. s[Len(s)].kind \in Kinds(s)
  BY <1>3 DEF Kinds
<1> QED  BY <1>1, <1>4 DEF s

\* Replacing the innermost frame takes one kind away and adds those of the
\* new frames.
LEMMA ReplaceKinds ==
    ASSUME TypeInv, NEW k, Doing(current, k), NEW q \in Seq(FrameType)
    PROVE  /\ Kinds(frames[current]) = Kinds(Below(current)) \cup {k}
           /\ Kinds(Below(current) \o q) = Kinds(Below(current)) \cup Kinds(q)
           /\ Below(current) \o q \in Seq(FrameType)
<1> DEFINE s == frames[current]
           b == Below(current)
<1>1. /\ Len(s) \in Nat \ {0} /\ s[Len(s)].kind = k
      /\ b \in Seq(FrameType) /\ Len(b) = Len(s) - 1
      /\ \A i \in 1..Len(b) : b[i] = s[i]
  BY TopFrame DEF TypeInv, TypeOK
<1>2. DOMAIN s = 1..Len(s) /\ DOMAIN b = 1..Len(b)
  BY <1>1 DEF TypeInv, TypeOK
<1>3. DOMAIN s = DOMAIN b \cup {Len(s)} /\ \A i \in DOMAIN b : b[i].kind = s[i].kind
  BY <1>1, <1>2
<1>4. Kinds(s) = Kinds(b) \cup {k}
  <2>1. s[Len(s)].kind = k
    BY <1>1
  <2> HIDE DEF s, b
  <2>2. Kinds(s) \subseteq Kinds(b) \cup {k}
    BY <1>3, <2>1 DEF Kinds
  <2>3. Kinds(b) \subseteq Kinds(s) /\ k \in Kinds(s)
    BY <1>3, <2>1 DEF Kinds
  <2> QED  BY <2>2, <2>3
<1> QED  BY <1>1, <1>4, KindsOfSequences

\* A step that changes what one thread does keeps the invariant if it neither
\* ends nor begins to wait, and if a break needs a signal that breaks.
LEMMA KindsKeepWaiter ==
    ASSUME TypeInv, WaiterInv, UNCHANGED <<use, events, waiter>>,
           NEW c \in Threads, NEW B, NEW old, NEW new,
           Kinds(frames[c]) = B \cup old, Kinds(frames'[c]) = B \cup new,
           \A u \in Threads \ {c} : frames'[u] = frames[u],
           (old \cap WaitKinds = {}) <=> (new \cap WaitKinds = {}),
           "break" \notin new
    PROVE  WaiterInv'
<1>1. \A t \in Threads :
         /\ (Kinds(frames[t]) \cap WaitKinds = {})
               <=> (Kinds(frames'[t]) \cap WaitKinds = {})
         /\ "break" \in Kinds(frames'[t]) => "break" \in Kinds(frames[t])
  <2> SUFFICES ASSUME NEW t \in Threads
               PROVE  /\ (Kinds(frames[t]) \cap WaitKinds = {})
                            <=> (Kinds(frames'[t]) \cap WaitKinds = {})
                      /\ "break" \in Kinds(frames'[t]) => "break" \in Kinds(frames[t])
    OBVIOUS
  <2>1. CASE t = c
    BY <2>1
  <2>2. CASE t # c
    BY <2>2
  <2> QED  BY <2>1, <2>2
<1>2. waiter # None => waiter \in Threads
  BY DEF TypeInv, TypeOK
<1>3. waiter' # None => events' = <<>> /\ Kinds(frames'[waiter']) \cap WaitKinds # {}
  BY <1>1, <1>2 DEF WaiterInv
<1>4. Breaks' = Breaks
  BY DEF Breaks
<1> QED  BY <1>1, <1>3, <1>4 DEF WaiterInv

\* The same for a step that replaces the innermost frame of the current thread.
LEMMA ReplaceKeepsWaiter ==
    ASSUME TypeInv, WaiterInv, UNCHANGED <<use, events, waiter>>,
           NEW k, Doing(current, k), NEW q \in Seq(FrameType),
           frames' = [frames EXCEPT ![current] = Below(current) \o q],
           (k \notin WaitKinds) <=> (Kinds(q) \cap WaitKinds = {}),
           "break" \notin Kinds(q)
    PROVE  WaiterInv'
<1>1. current \in Threads /\ frames \in [Threads -> Seq(FrameType)]
  BY DEF TypeInv, TypeOK
<1>2. /\ frames'[current] = Below(current) \o q
      /\ \A u \in Threads \ {current} : frames'[u] = frames[u]
  BY <1>1
<1>3. /\ Kinds(frames[current]) = Kinds(Below(current)) \cup {k}
      /\ Kinds(frames'[current]) = Kinds(Below(current)) \cup Kinds(q)
  BY <1>2, ReplaceKinds
<1>4. ({k} \cap WaitKinds = {}) <=> (Kinds(q) \cap WaitKinds = {})
  OBVIOUS
<1> QED  BY <1>1, <1>2, <1>3, <1>4, KindsKeepWaiter

\* And for a step that pushes a frame of the hook.
LEMMA PushKeepsWaiter ==
    ASSUME TypeInv, WaiterInv, UNCHANGED <<use, events, waiter>>,
           NEW f \in FrameType, Push(current, f),
           f.kind \notin WaitKinds, f.kind # "break"
    PROVE  WaiterInv'
<1>1. current \in Threads /\ frames \in [Threads -> Seq(FrameType)]
  BY DEF TypeInv, TypeOK
<1>2. /\ frames'[current] = Append(frames[current], f)
      /\ \A u \in Threads \ {current} : frames'[u] = frames[u]
  BY <1>1 DEF Push
<1>3. /\ Kinds(frames[current]) = Kinds(frames[current]) \cup {}
      /\ Kinds(frames'[current]) = Kinds(frames[current]) \cup {f.kind}
  BY <1>1, <1>2, KindsOfSequences
<1>4. ({} \cap WaitKinds = {}) <=> ({f.kind} \cap WaitKinds = {})
  OBVIOUS
<1>5. "break" \notin {f.kind}
  OBVIOUS
<1> QED  BY <1>1, <1>2, <1>3, <1>4, <1>5, KindsKeepWaiter

\* The steps that nobody begins or ends to wait in.
LEMMA HookKeepsWaiter ==
    ASSUME TypeInv, WaiterInv,
           \/ \E s \in Sigs : Deliver(s)
           \/ CallHook \/ TakePending \/ NonePending \/ Sleep \/ SleepEnds
    PROVE  WaiterInv'
<1> USE KindsOfSequences, FramesHaveType DEF eventVars
<1>1. UNCHANGED <<use, events, waiter>>
  BY DEF Deliver, CallHook, TakePending, NonePending, Sleep, SleepEnds
<1>2. CASE frames' = frames
  BY <1>1, <1>2 DEF WaiterInv, Breaks
<1>3. /\ Kinds(<<Frame("head"), Frame("pop")>>) = {"head", "pop"}
      /\ Kinds(<<Frame("sleep")>>) = {"sleep"}
      /\ \A s : Kinds(<<HandlerOf(s)>>) = {"handler"}
      /\ <<Frame("head"), Frame("pop")>> \in Seq(FrameType)
      /\ <<Frame("sleep")>> \in Seq(FrameType)
      /\ <<>> \in Seq(FrameType)
  BY DEF Frame, HandlerOf, FrameKinds
<1>4. pc \in {"handleRead", "popRead"} /\ slots[reg] # Timer =>
          HandlerOf(slots[reg]) \in FrameType
  BY BoundsAssumption DEF TypeInv, TypeOK, PlacesOK, Reasons
<1>5. CASE Doing(current, "sleep") /\
           frames' = [frames EXCEPT ![current] =
                         Below(current) \o <<Frame("head"), Frame("pop")>>]
  BY <1>1, <1>3, <1>5, ReplaceKeepsWaiter DEF WaitKinds
<1>6. CASE CallHook
  <2>1. CASE slots[reg] = Timer
    <3>1. Push(current, Frame("pop"))
      BY <1>6, <2>1 DEF CallHook
    <3> QED  BY <1>1, <3>1, PushKeepsWaiter DEF Frame, FrameKinds, WaitKinds
  <2>2. CASE slots[reg] # Timer
    <3>1. Push(current, HandlerOf(slots[reg])) /\ HandlerOf(slots[reg]) \in FrameType
      BY <1>4, <1>6, <2>2 DEF CallHook
    <3>2. HandlerOf(slots[reg]).kind = "handler"
      BY DEF HandlerOf
    <3> QED  BY <1>1, <3>1, <3>2, PushKeepsWaiter DEF WaitKinds
  <2> QED  BY <2>1, <2>2
<1>7. CASE TakePending /\ slots[reg] # Timer
  <2>1. Doing(current, "pop") /\ Replace(current, <<HandlerOf(slots[reg])>>)
    BY <1>7 DEF TakePending, TypeInv, PlacesOK
  <2>2. <<HandlerOf(slots[reg])>> \in Seq(FrameType)
    BY <1>4, <1>7 DEF TakePending
  <2>3. Kinds(<<HandlerOf(slots[reg])>>) = {"handler"}
    BY <1>3
  <2>4. frames' = [frames EXCEPT ![current] =
                      Below(current) \o <<HandlerOf(slots[reg])>>]
    BY <2>1 DEF Replace
  <2>5. "pop" \notin WaitKinds /\ {"handler"} \cap WaitKinds = {}
    BY DEF WaitKinds
  <2>6. "break" \notin {"handler"}
    OBVIOUS
  <2> HIDE <1>7, KindsOfSequences, FramesHaveType
  <2> QED  BY <1>1, <2>1, <2>2, <2>3, <2>4, <2>5, <2>6, ReplaceKeepsWaiter
<1>8. CASE NonePending
  <2>1. Doing(current, "pop") /\ Replace(current, <<>>)
    BY <1>8 DEF NonePending, Return, TypeInv, PlacesOK
  <2> QED  BY <1>1, <1>3, <2>1, ReplaceKeepsWaiter DEF WaitKinds, Replace
<1>9. CASE Sleep
  <2>1. Doing(current, "suspend") /\ Replace(current, <<Frame("sleep")>>)
    BY <1>9 DEF Sleep, TypeInv, PlacesOK
  <2> QED  BY <1>1, <1>3, <2>1, ReplaceKeepsWaiter DEF WaitKinds, Replace
<1> QED  BY <1>2, <1>5, <1>6, <1>7, <1>8, <1>9
         DEF Deliver, Woken, TakePending, SleepEnds

\* An event that is put into the queue, a break and the steps of
\* make-signal-handler's procedure.
LEMMA EventsKeepWaiter ==
    ASSUME Breaks = {} \/ use.waiters = {}, TypeInv, WaiterInv,
           Handlers \/ GetNextEvent \/ WaitForNextEvent \/ LookForEvent
    PROVE  WaiterInv'
<1> USE KindsOfSequences, FramesHaveType DEF eventVars
<1>1. current \in Threads /\ frames \in [Threads -> Seq(FrameType)]
  BY DEF TypeInv, TypeOK
<1>2. Breaks = {} \/ use.waiters = {}
  OBVIOUS
<1>3. use' = use /\ Breaks' = Breaks
  BY DEF Handlers, Handle, BreakPrimordial, BreakOther, Break, GetNextEvent,
         WaitForNextEvent, LookForEvent, Breaks
<1>4. ASSUME NEW k, Doing(current, k)
      PROVE  k \in Kinds(frames[current])
  <2>1. current \in Threads
    BY DEF TypeInv, TypeOK
  <2> QED  BY <1>4, <2>1, DoingKind
<1>5. /\ Kinds(<<Frame("pop")>>) = {"pop"}
      /\ Kinds(<<Frame("suspend")>>) = {"suspend"}
      /\ Kinds(<<Frame("break")>>) = {"break"}
      /\ <<Frame("pop")>> \in Seq(FrameType)
      /\ <<Frame("suspend")>> \in Seq(FrameType)
      /\ <<>> \in Seq(FrameType)
  BY DEF Frame, FrameKinds
<1>6. CASE Handle
  <2>1. Doing(current, "handler") /\ waiter' = None
    BY <1>6 DEF Handle, Runs
  <2>2. frames' = [frames EXCEPT ![current] = Below(current) \o <<Frame("pop")>>]
    BY <1>6 DEF Handle, Replace
  <2>3. Kinds(frames'[current]) \subseteq Kinds(frames[current]) \cup {"pop"}
    <3>1. frames'[current] = Below(current) \o <<Frame("pop")>>
      BY <1>1, <2>2
    <3>2. /\ Kinds(frames[current]) = Kinds(Below(current)) \cup {"handler"}
          /\ Kinds(Below(current) \o <<Frame("pop")>>)
                = Kinds(Below(current)) \cup Kinds(<<Frame("pop")>>)
      BY <1>5, <2>1, ReplaceKinds
    <3> QED  BY <1>5, <3>1, <3>2
  <2>4. \A t \in Threads : Kinds(frames'[t]) \subseteq Kinds(frames[t]) \cup {"pop"}
    BY <1>1, <2>2, <2>3
  <2> QED  BY <1>3, <2>1, <2>4 DEF WaiterInv, WaitKinds
<1>7. CASE BreakPrimordial \/ BreakOther \/ Break
  <2>1. Breaks # {}
    <3>1. CASE BreakPrimordial \/ BreakOther
      BY <3>1 DEF BreakPrimordial, BreakOther
    <3>2. CASE Break
      BY <1>1, <1>4, <3>2 DEF Break, Runs, WaiterInv
    <3> QED  BY <1>7, <3>1, <3>2
  <2>2. waiter = None /\ waiter' = None
    BY <1>2, <1>7, <2>1 DEF WaiterInv, BreakPrimordial, BreakOther, Break
  <2>3. \A t \in Threads : Kinds(frames'[t]) \cap WaitKinds = {}
    <3>1. \A t \in Threads : Kinds(frames[t]) \cap WaitKinds = {}
      BY <1>2, <2>1 DEF WaiterInv
    <3>2. CASE BreakPrimordial
      BY <1>1, <3>1, <3>2 DEF BreakPrimordial
    <3>3. CASE Break
      BY <1>1, <3>1, <3>3 DEF Break
    <3>4. CASE BreakOther
      <4>1. Doing(current, "handler") /\ current # Primordial
        BY <3>4 DEF BreakOther, Runs
      <4>2. frames' = [frames EXCEPT ![Primordial] = <<Frame("break")>>,
                                     ![current] = Below(current) \o <<Frame("pop")>>]
        BY <3>4 DEF BreakOther
      <4>3. Kinds(frames'[current]) \subseteq Kinds(frames[current]) \cup {"pop"}
        <5>1. frames'[current] = Below(current) \o <<Frame("pop")>>
          BY <1>1, <4>1, <4>2
        <5>2. /\ Kinds(frames[current]) = Kinds(Below(current)) \cup {"handler"}
              /\ Kinds(Below(current) \o <<Frame("pop")>>)
                    = Kinds(Below(current)) \cup Kinds(<<Frame("pop")>>)
          BY <1>5, <4>1, ReplaceKinds
        <5> QED  BY <1>5, <5>1, <5>2
      <4>4. Kinds(frames'[Primordial]) = {"break"}
        BY <1>1, <1>5, <4>1, <4>2, PrimordialAssumption
      <4>5. \A t \in Threads \ {current, Primordial} : frames'[t] = frames[t]
        BY <1>1, <4>2
      <4> QED  BY <1>1, <3>1, <4>3, <4>4, <4>5 DEF WaitKinds
    <3> QED  BY <1>7, <3>2, <3>3, <3>4
  <2> QED  BY <1>3, <2>1, <2>2, <2>3 DEF WaiterInv
<1>8. CASE GetNextEvent
  <2>1. waiter = None /\ UNCHANGED <<frames, waiter>>
    BY <1>8 DEF GetNextEvent
  <2> QED  BY <1>3, <2>1 DEF WaiterInv
<1>9. CASE WaitForNextEvent
  <2>1. use.waiters # {} /\ waiter = None /\ waiter' = None
    BY <1>9 DEF WaitForNextEvent
  <2>2. frames' = [frames EXCEPT ![current] = Append(@, Frame("head"))]
    BY <1>9 DEF WaitForNextEvent, Push
  <2>3. Frame("head") \in FrameType /\ Frame("head").kind = "head"
    BY DEF Frame, FrameKinds
  <2>4. Kinds(frames'[current]) = Kinds(frames[current]) \cup {"head"}
    BY <1>1, <2>2, <2>3
  <2>5. \A t \in Threads : Kinds(frames'[t]) \subseteq Kinds(frames[t]) \cup {"head"}
    BY <1>1, <2>2, <2>4
  <2> QED  BY <1>3, <2>1, <2>5 DEF WaiterInv
<1>10. CASE LookForEvent
  <2>1. Doing(current, "head")
    BY <1>10 DEF LookForEvent, Runs
  <2>2. use.waiters # {}
    BY <1>1, <1>4, <2>1 DEF WaiterInv, WaitKinds
  <2>3. CASE events = <<>>
    <3>1. events' = <<>> /\ waiter' = current
      BY <1>10, <2>3 DEF LookForEvent
    <3>2. frames' = [frames EXCEPT ![current] = Below(current) \o <<Frame("suspend")>>]
      BY <1>10, <2>3 DEF LookForEvent, Replace
    <3>3. /\ Kinds(frames'[current]) \subseteq Kinds(frames[current]) \cup {"suspend"}
          /\ "suspend" \in Kinds(frames'[current])
      <4>1. frames'[current] = Below(current) \o <<Frame("suspend")>>
        BY <1>1, <3>2
      <4>2. /\ Kinds(frames[current]) = Kinds(Below(current)) \cup {"head"}
            /\ Kinds(Below(current) \o <<Frame("suspend")>>)
                  = Kinds(Below(current)) \cup Kinds(<<Frame("suspend")>>)
        BY <1>5, <2>1, ReplaceKinds
      <4> QED  BY <1>5, <4>1, <4>2
    <3>4. \A t \in Threads : Kinds(frames'[t]) \subseteq Kinds(frames[t]) \cup {"suspend"}
      BY <1>1, <3>2, <3>3
    <3> QED  BY <1>3, <2>2, <3>1, <3>3, <3>4 DEF WaiterInv, WaitKinds
  <2>4. CASE events # <<>>
    <3>1. waiter = None /\ waiter' = None
      BY <1>10, <2>4 DEF LookForEvent, WaiterInv
    <3>2. frames' = [frames EXCEPT ![current] = Below(current) \o <<>>]
      BY <1>10, <2>4 DEF LookForEvent, Return, Replace
    <3>3. Kinds(frames'[current]) \subseteq Kinds(frames[current])
      BY <1>1, <1>5, <2>1, <3>2, ReplaceKinds
    <3>4. \A t \in Threads : Kinds(frames'[t]) \subseteq Kinds(frames[t])
      BY <1>1, <3>2, <3>3
    <3> QED  BY <1>3, <2>2, <3>1, <3>4 DEF WaiterInv
  <2> QED  BY <2>3, <2>4
<1> QED  BY <1>6, <1>7, <1>8, <1>9, <1>10 DEF Handlers

\* The steps that change neither frames nor event queues.
LEMMA QuietKeepsWaiter ==
    ASSUME WaiterInv,
           \/ TimerExpires \/ SetEnabled \/ RaiseTimer \/ Reclaim \/ RestoreLimit
           \/ Decrement \/ EnterPop \/ TestPending \/ Suspend \/ CollectAgain
           \/ UNCHANGED vars
    PROVE  WaiterInv'
<1>1. UNCHANGED <<use, frames, events, waiter>>
  BY DEF TimerExpires, SetEnabled, RaiseTimer, Reclaim, RestoreLimit, Decrement,
         EnterPop, TestPending, Suspend, CollectAgain, vars, eventVars
<1> QED  BY <1>1 DEF WaiterInv, Breaks

\* The program does not change how it uses signals.
LEMMA UseKept == [Next]_vars => use' = use
BY DEF Next, Deliver, UserCode, TimerExpires, SetEnabled, GetNextEvent,
       WaitForNextEvent, RaiseTimer, Reclaim, CollectAgain, RestoreLimit, Decrement,
       CallHook, HookLoop, EnterPop, TestPending, TakePending, NonePending, Handlers, Handle,
       BreakPrimordial, BreakOther, Break, Waiting, LookForEvent, Suspend, Sleep,
       SleepEnds, vars

\* The invariant holds in the programs that either break or wait.
LEMMA Waiters == Spec => []((Breaks = {} \/ use.waiters = {}) => WaiterInv)
<1> DEFINE I == (Breaks = {} \/ use.waiters = {}) => WaiterInv
<1>1. Init => I
  <2> SUFFICES ASSUME Init PROVE WaiterInv
    OBVIOUS
  <2>1. \A t \in Threads : Kinds(frames[t]) = {}
    BY KindsOfSequences DEF Init
  <2> QED  BY <2>1 DEF Init, WaiterInv
<1>2. TypeInv /\ I /\ [Next]_vars => I'
  <2> SUFFICES ASSUME TypeInv, I, [Next]_vars, Breaks' = {} \/ use'.waiters = {}
               PROVE  WaiterInv'
    OBVIOUS
  <2>1. (Breaks = {} \/ use.waiters = {}) /\ WaiterInv
    BY UseKept DEF Breaks
  <2> QED  BY <2>1, HookKeepsWaiter, EventsKeepWaiter, QuietKeepsWaiter
           DEF Next, UserCode, HookLoop, Waiting
<1> QED  BY <1>1, <1>2, Types, PTL DEF Spec

\* For any number of threads and signals: an event queue names a thread only
\* while that thread waits for it and the queue is empty, however signals,
\* timers, sleeps and other waiting threads interleave, in programs that do not
\* leave a handler by a user interrupt while a thread waits for events.
THEOREM NamedWaiterWaits ==
    ASSUME BreaksOrWaiters
    PROVE  Spec => []WaiterWaits
<1>1. TypeInv => (Breaks = {} \/ use.waiters = {})
  BY UseFacts DEF BreaksOrWaiters, Breaks
<1>2. TypeInv /\ WaiterInv => WaiterWaits
  BY DEF WaiterInv, WaiterWaits, Kinds, WaitKinds
<1> QED  BY <1>1, <1>2, Types, Waiters, PTL

-----------------------------------------------------------------------------
(***************************************************************************)
(* Accepted signals are handled once.                                      *)
(***************************************************************************)

\* The queue holds different reasons, and the count that was loaded is still
\* the count as long as no signal is accepted in between.
QueueInv ==
    /\ \A i, j \in 0..count-1 : slots[i] = slots[j] => i = j
    /\ IsFiniteSet(Pending) /\ Cardinality(Pending) = count
    /\ pc \in {"raise", "append"} => reg = count /\ Timer \notin Pending
    /\ pc \in {"handle", "pop"} => reg = count
    /\ pc \in {"handleRead", "popRead"} => reg = count /\ slots[reg] \notin Pending

\* A reason that is not queued is appended.
LEMMA PendingGrows ==
    ASSUME TypeInv, QueueInv, count < MaxPending, NEW r, r \notin Pending,
           slots' = [slots EXCEPT ![count] = r], count' = count + 1
    PROVE  /\ Pending' = Pending \cup {r}
           /\ \A i, j \in 0..count'-1 : slots'[i] = slots'[j] => i = j
           /\ IsFiniteSet(Pending') /\ Cardinality(Pending') = count'
<1>1. count \in Nat /\ MaxPending \in Nat /\ count \in 0..MaxPending-1
  BY BoundsAssumption DEF TypeInv, TypeOK
<1>2. DOMAIN slots = 0..MaxPending-1
  BY DEF TypeInv, TypeOK
<1>3. slots'[count] = r /\ \A i \in 0..count-1 : slots'[i] = slots[i]
  BY <1>1, <1>2
<1>4. 0..count'-1 = (0..count-1) \cup {count}
  BY <1>1
<1>5. Pending' = Pending \cup {r}
  BY <1>3, <1>4 DEF Pending
<1>6. \A i \in 0..count-1 : slots[i] # r
  BY DEF Pending
<1>7. \A i, j \in 0..count'-1 : slots'[i] = slots'[j] => i = j
  BY <1>3, <1>4, <1>6 DEF QueueInv
<1>8. IsFiniteSet(Pending') /\ Cardinality(Pending') = count + 1
  BY <1>5, FS_AddElement DEF QueueInv
<1> QED  BY <1>5, <1>7, <1>8

\* The last reason is taken out.
LEMMA PendingShrinks ==
    ASSUME TypeInv, QueueInv, count > 0, slots' = slots, count' = count - 1
    PROVE  /\ Pending = Pending' \cup {slots[count']}
           /\ slots[count'] \notin Pending'
           /\ \A i, j \in 0..count'-1 : slots'[i] = slots'[j] => i = j
           /\ IsFiniteSet(Pending') /\ Cardinality(Pending') = count'
<1>1. count \in Nat /\ count' \in 0..count-1
  BY BoundsAssumption DEF TypeInv, TypeOK
<1>2. 0..count-1 = (0..count'-1) \cup {count'} /\ count' \notin 0..count'-1
  BY <1>1
<1>3. Pending = Pending' \cup {slots[count']}
  BY <1>2 DEF Pending
<1>4. slots[count'] \notin Pending'
  BY <1>1, <1>2 DEF Pending, QueueInv
<1>5. \A i, j \in 0..count'-1 : slots'[i] = slots'[j] => i = j
  BY <1>2 DEF QueueInv
<1>6. IsFiniteSet(Pending')
  BY <1>3, FS_Subset DEF QueueInv
<1>7. Cardinality(Pending) = Cardinality(Pending') + 1
  BY <1>3, <1>4, <1>6, FS_AddElement
<1>8. Cardinality(Pending') \in Nat
  BY <1>6, FS_CardinalityType
<1>9. Cardinality(Pending') = count'
  BY <1>1, <1>7, <1>8 DEF QueueInv
<1> QED  BY <1>3, <1>4, <1>5, <1>6, <1>9

\* Every step keeps the queue consistent.
LEMMA QueueStep ==
    ASSUME TypeInv, QueueInv, [Next]_vars, Orderly'
    PROVE  QueueInv'
<1> USE DEF queueVars, eventVars, arrivals
<1>1. ASSUME UNCHANGED <<slots, count>>, pc' \in {"check", "limit", "next", "last", "nap"}
      PROVE  QueueInv'
  BY <1>1 DEF QueueInv, Pending
<1>2. count \in Nat /\ MaxPending \in Nat \ {0}
  BY BoundsAssumption DEF TypeInv, TypeOK
<1>3. ASSUME NEW s \in Sigs, Deliver(s) PROVE QueueInv'
  <2>1. pc' = pc /\ reg' = reg
    BY <1>3 DEF Deliver
  <2>2. CASE enabled /\ (First \/ Room(s))
    <3>1. s \notin Pending /\ count < MaxPending
      BY <1>2, <2>2 DEF First, Room, Pending
    <3>2. slots' = [slots EXCEPT ![count] = s] /\ count' = count + 1
      BY <1>3, <2>2 DEF Deliver
    <3>3. /\ \A i, j \in 0..count'-1 : slots'[i] = slots'[j] => i = j
          /\ IsFiniteSet(Pending') /\ Cardinality(Pending') = count'
      BY <3>1, <3>2, PendingGrows
    <3>4. pc \notin HalfWay
      BY <1>3, <2>2 DEF Deliver, Orderly
    <3> QED  BY <2>1, <3>3, <3>4 DEF QueueInv, HalfWay
  <2>3. CASE ~(enabled /\ (First \/ Room(s)))
    <3>1. UNCHANGED <<slots, count, pc, reg>>
      BY <1>3, <2>3 DEF Deliver
    <3> QED  BY <3>1 DEF QueueInv, Pending
  <2> QED  BY <2>2, <2>3
<1>4. CASE TimerExpires
  <2>1. /\ UNCHANGED <<slots, count>> /\ reg' = count /\ pc' \in {"raise", "append"}
        /\ Timer \notin Pending
    BY <1>2, <1>4 DEF TimerExpires, First, Room, Pending
  <2> QED  BY <2>1 DEF QueueInv, Pending
<1>5. CASE RaiseTimer
  <2>1. /\ reg = count /\ Timer \notin Pending /\ count < MaxPending
        /\ slots' = [slots EXCEPT ![count] = Timer] /\ count' = count + 1
        /\ pc' = "check"
    BY <1>5 DEF RaiseTimer, QueueInv, TypeInv, PlacesOK
  <2>2. /\ \A i, j \in 0..count'-1 : slots'[i] = slots'[j] => i = j
        /\ IsFiniteSet(Pending') /\ Cardinality(Pending') = count'
    BY <2>1, PendingGrows
  <2> QED  BY <2>1, <2>2 DEF QueueInv
<1>6. CASE Decrement
  <2>1. /\ reg = count /\ count > 0 /\ slots' = slots /\ count' = count - 1
        /\ reg' = count' /\ pc' \in {"handleRead", "popRead"}
    BY <1>6 DEF Decrement, QueueInv, TypeInv, PlacesOK
  <2>2. /\ slots[count'] \notin Pending'
        /\ \A i, j \in 0..count'-1 : slots'[i] = slots'[j] => i = j
        /\ IsFiniteSet(Pending') /\ Cardinality(Pending') = count'
    BY <2>1, PendingShrinks
  <2> QED  BY <2>1, <2>2 DEF QueueInv
<1>7. CASE RestoreLimit \/ TestPending
  <2>1. UNCHANGED <<slots, count>> /\ reg' = count /\ pc' \in {"handle", "pop", "last"}
    BY <1>7 DEF RestoreLimit, TestPending
  <2> QED  BY <2>1 DEF QueueInv, Pending
<1>8. CASE SetEnabled \/ Reclaim \/ CallHook \/ EnterPop \/ TakePending \/ NonePending
  BY <1>1, <1>8 DEF SetEnabled, Reclaim, CallHook, EnterPop, TakePending, NonePending
<1>9. CASE Handlers \/ Waiting \/ GetNextEvent \/ WaitForNextEvent
  BY <1>1, <1>9 DEF Handlers, Handle, BreakPrimordial, BreakOther, Break, Runs, Waiting,
              LookForEvent, Suspend, Sleep, SleepEnds, GetNextEvent, WaitForNextEvent
<1>10. CASE CollectAgain \/ UNCHANGED vars
  BY <1>10 DEF CollectAgain, vars, QueueInv, Pending
<1> QED  BY <1>3, <1>4, <1>5, <1>6, <1>7, <1>8, <1>9, <1>10 DEF Next, UserCode, HookLoop

\* The frames that are about to call the handler of a signal.
LEMMA HandlersAre ==
    ASSUME NEW s, NEW x
    PROVE  x \in HandlersToRun(s) <=>
              \E t \in Threads : \E i \in DOMAIN frames[t] :
                 x = <<t, i>> /\ frames[t][i] = HandlerOf(s)
BY DEF HandlersToRun

\* What a step that gives thread t the frames q does to them.
LEMMA HandlersOfThread ==
    ASSUME TypeInv, NEW t \in Threads, NEW q, frames' = [frames EXCEPT ![t] = q],
           NEW s
    PROVE  \A x : x \in HandlersToRun(s)' <=>
              \/ x \in HandlersToRun(s) /\ x[1] # t
              \/ \E i \in DOMAIN q : x = <<t, i>> /\ q[i] = HandlerOf(s)
<1> DEFINE H == { x \in HandlersToRun(s) : x[1] # t }
           N == { <<t, i>> : i \in { j \in DOMAIN q : q[j] = HandlerOf(s) } }
<1>1. frames'[t] = q /\ \A u \in Threads \ {t} : frames'[u] = frames[u]
  BY DEF TypeInv
<1>2. \A x : x \in HandlersToRun(s)' <=>
         \E u \in Threads : \E i \in DOMAIN frames'[u] :
            x = <<u, i>> /\ frames'[u][i] = HandlerOf(s)
  BY DEF HandlersToRun, HandlerOf
<1>3. ASSUME NEW x \in HandlersToRun(s)' PROVE x \in H \cup N
  <2>1. PICK u \in Threads : \E i \in DOMAIN frames'[u] :
           x = <<u, i>> /\ frames'[u][i] = HandlerOf(s)
    BY <1>2
  <2>2. CASE u = t
    BY <1>1, <2>1, <2>2
  <2>3. CASE u # t
    BY <1>1, <2>1, <2>3, HandlersAre
  <2> QED  BY <2>2, <2>3
<1>4. ASSUME NEW x \in H PROVE x \in HandlersToRun(s)'
  <2>1. PICK u \in Threads : \E i \in DOMAIN frames[u] :
           x = <<u, i>> /\ frames[u][i] = HandlerOf(s)
    BY HandlersAre
  <2>2. u # t
    BY <2>1
  <2> QED  BY <1>1, <1>2, <2>1, <2>2
<1>5. ASSUME NEW x \in N PROVE x \in HandlersToRun(s)'
  BY <1>1, <1>2
<1> QED  BY <1>3, <1>4, <1>5

\* A thread that gives up all it did drops its handlers.
LEMMA HandlersDropped ==
    ASSUME TypeInv, NEW t \in Threads, frames' = [frames EXCEPT ![t] = <<>>], NEW s
    PROVE  \A x \in HandlersToRun(s)' : x \in HandlersToRun(s) /\ x[1] # t
<1> DEFINE q == <<>>
<1>1. frames' = [frames EXCEPT ![t] = q] /\ DOMAIN q = {}
  OBVIOUS
<1> HIDE DEF q
<1> QED  BY <1>1, HandlersOfThread

\* The place of the innermost frame of the current thread.
Top == <<current, Len(frames[current])>>

\* The handlers to run when the innermost frame is replaced by frames none of
\* which is about to call the handler, or the first of which is.
LEMMA ReplaceHandlers ==
    ASSUME TypeInv, NEW k, Doing(current, k), NEW q \in Seq(FrameType),
           frames' = [frames EXCEPT ![current] = Below(current) \o q], NEW s
    PROVE  /\ (\A j \in 1..Len(q) : q[j] # HandlerOf(s)) =>
                 HandlersToRun(s)' = HandlersToRun(s) \ {Top}
           /\ q = <<HandlerOf(s)>> => HandlersToRun(s)' = HandlersToRun(s) \cup {Top}
           /\ Top \in HandlersToRun(s)
                 <=> frames[current][Len(frames[current])] = HandlerOf(s)
<1> DEFINE f == frames[current]
           b == Below(current)
           old == { <<current, i>> : i \in { j \in DOMAIN f : f[j] = HandlerOf(s) } }
           new == { <<current, i>> :
                       i \in { j \in DOMAIN (b \o q) : (b \o q)[j] = HandlerOf(s) } }
           rest == { x \in HandlersToRun(s) : x[1] # current }
<1>1. /\ current \in Threads /\ Len(f) \in Nat \ {0}
      /\ b \in Seq(FrameType) /\ Len(b) = Len(f) - 1
      /\ \A i \in 1..Len(b) : b[i] = f[i]
  BY TopFrame DEF TypeInv, TypeOK
<1>2. DOMAIN f = 1..Len(f)
  BY <1>1 DEF TypeInv
<1>3. HandlersToRun(s) = rest \cup old
  <2>1. ASSUME NEW x \in HandlersToRun(s) PROVE x \in rest \cup old
    <3>1. PICK u \in Threads : \E i \in DOMAIN frames[u] :
             x = <<u, i>> /\ frames[u][i] = HandlerOf(s)
      BY HandlersAre
    <3> QED  BY <3>1
  <2>2. ASSUME NEW x \in old PROVE x \in HandlersToRun(s)
    BY <1>1, HandlersAre
  <2> QED  BY <2>1, <2>2
<1>4. HandlersToRun(s)' = rest \cup new
  <2>1. \A x : x \in HandlersToRun(s)' <=>
              \/ x \in HandlersToRun(s) /\ x[1] # current
              \/ \E i \in DOMAIN (b \o q) :
                    x = <<current, i>> /\ (b \o q)[i] = HandlerOf(s)
    <3> DEFINE r == b \o q
    <3>1. frames' = [frames EXCEPT ![current] = r]
      OBVIOUS
    <3> HIDE DEF r
    <3>2. \A x : x \in HandlersToRun(s)' <=>
              \/ x \in HandlersToRun(s) /\ x[1] # current
              \/ \E i \in DOMAIN r : x = <<current, i>> /\ r[i] = HandlerOf(s)
      <4>1. current \in Threads
        BY <1>1
      <4> QED  BY ONLY TypeInv, <4>1, <3>1, HandlersOfThread
    <3> QED  BY <3>2 DEF r
  <2> QED  BY <2>1
<1>5. /\ DOMAIN (b \o q) = 1..Len(b) + Len(q) /\ Len(q) \in Nat
      /\ \A i \in 1..Len(b) + Len(q) :
            (b \o q)[i] = IF i <= Len(b) THEN b[i] ELSE q[i - Len(b)]
  BY <1>1, ConcatFrames
<1>6. Top \in HandlersToRun(s) <=> f[Len(f)] = HandlerOf(s)
  BY <1>1, <1>2, HandlersAre DEF Top
<1>7. ASSUME \A j \in 1..Len(q) : q[j] # HandlerOf(s)
      PROVE  new = old \ {Top}
  <2>1. ASSUME NEW i
        PROVE  (i \in DOMAIN (b \o q) /\ (b \o q)[i] = HandlerOf(s))
                  <=> (i \in DOMAIN f /\ f[i] = HandlerOf(s) /\ i # Len(f))
    <3>1. CASE i \in 1..Len(b)
      <4>1. i \in 1..Len(b) + Len(q) /\ i <= Len(b)
        BY <1>1, <1>2, <1>5, <3>1, SMTT(60)
      <4>2. (b \o q)[i] = b[i]
        BY <1>5, <4>1
      <4> QED  BY <1>1, <1>2, <1>5, <3>1, <4>1, <4>2, SMTT(60)
    <3>2. CASE i \in (1..Len(b) + Len(q)) \ (1..Len(b))
      <4>0. Len(b) \in Nat
        BY <1>1, <1>2
      <4>1. i \in 1..Len(b) + Len(q) /\ ~(i <= Len(b)) /\ Len(b) \in Nat /\ Len(q) \in Nat
        <5>1. \A m, n \in Nat : i \in (1..m + n) \ (1..m) => i \in 1..m + n /\ ~(i <= m)
          OBVIOUS
        <5> QED  BY <1>5, <3>2, <4>0, <5>1
      <4>2. i - Len(b) \in 1..Len(q)
        BY <4>1
      <4>3. (b \o q)[i] = q[i - Len(b)]
        BY <1>5, <4>1
      <4>4. i >= Len(f)
        BY <1>1, <4>1
      <4>5. (b \o q)[i] # HandlerOf(s)
        BY <1>7, <4>2, <4>3
      <4>6. i = Len(f) \/ ~(i \in 1..Len(f))
        BY <1>1, <4>1, <4>4
      <4> QED  BY <1>2, <4>5, <4>6
    <3>3. CASE i \notin 1..Len(b) + Len(q)
      BY <1>1, <1>2, <1>5, <3>3
    <3> QED  BY <3>1, <3>2, <3>3
  <2> QED  BY <2>1 DEF Top
<1>8. ASSUME q = <<HandlerOf(s)>>
      PROVE  new = old \cup {Top}
  <2>1. Len(q) = 1 /\ q[1] = HandlerOf(s)
    BY <1>8
  <2>2. ASSUME NEW i
        PROVE  (i \in DOMAIN (b \o q) /\ (b \o q)[i] = HandlerOf(s))
                  <=> (i \in DOMAIN f /\ f[i] = HandlerOf(s)) \/ i = Len(f)
    <3>1. CASE i \in 1..Len(b)
      BY <1>1, <1>2, <1>5, <2>1, <3>1
    <3>2. CASE i = Len(f)
      <4>1. (b \o q)[i] = q[1]
        BY <1>1, <1>5, <2>1, <3>2
      <4> QED  BY <1>1, <1>5, <2>1, <3>2, <4>1
    <3>3. CASE i \notin 1..Len(f)
      BY <1>1, <1>2, <1>5, <2>1, <3>3
    <3> QED  BY <1>1, <3>1, <3>2, <3>3
  <2> QED  BY <2>2 DEF Top
<1>9. Top \notin rest
  BY DEF Top
<1> HIDE DEF rest, old, new
<1>10. (\A j \in 1..Len(q) : q[j] # HandlerOf(s)) =>
            HandlersToRun(s)' = HandlersToRun(s) \ {Top}
  BY <1>3, <1>4, <1>7, <1>9
<1>11. q = <<HandlerOf(s)>> => HandlersToRun(s)' = HandlersToRun(s) \cup {Top}
  BY <1>3, <1>4, <1>8
<1> QED  BY <1>6, <1>10, <1>11

\* The handlers to run when a frame is pushed.
LEMMA PushHandlers ==
    ASSUME TypeInv, NEW f \in FrameType, Push(current, f), NEW s,
           NEW top, top = <<current, Len(frames[current]) + 1>>
    PROVE  /\ f # HandlerOf(s) => HandlersToRun(s)' = HandlersToRun(s)
           /\ f = HandlerOf(s) => HandlersToRun(s)' = HandlersToRun(s) \cup {top}
           /\ top \notin HandlersToRun(s)
<1> DEFINE q == frames[current]
           old == { <<current, i>> : i \in { j \in DOMAIN q : q[j] = HandlerOf(s) } }
           new == { <<current, i>> : i \in { j \in DOMAIN Append(q, f) :
                                                Append(q, f)[j] = HandlerOf(s) } }
           rest == { x \in HandlersToRun(s) : x[1] # current }
<1>1. current \in Threads /\ q \in Seq(FrameType) /\ Len(q) \in Nat
  BY DEF TypeInv, TypeOK
<1>2. /\ DOMAIN q = 1..Len(q) /\ DOMAIN Append(q, f) = 1..Len(q) + 1
      /\ \A i \in 1..Len(q) : Append(q, f)[i] = q[i]
      /\ Append(q, f)[Len(q) + 1] = f
  BY <1>1
<1>3. HandlersToRun(s) = rest \cup old
  <2>1. ASSUME NEW x \in HandlersToRun(s) PROVE x \in rest \cup old
    <3>1. PICK u \in Threads : \E i \in DOMAIN frames[u] :
             x = <<u, i>> /\ frames[u][i] = HandlerOf(s)
      BY HandlersAre
    <3> QED  BY <3>1
  <2>2. ASSUME NEW x \in old PROVE x \in HandlersToRun(s)
    BY <1>1, HandlersAre
  <2> QED  BY <2>1, <2>2
<1>4. HandlersToRun(s)' = rest \cup new
  <2>1. frames' = [frames EXCEPT ![current] = Append(q, f)]
    BY DEF Push
  <2>2. \A x : x \in HandlersToRun(s)' <=>
              \/ x \in HandlersToRun(s) /\ x[1] # current
              \/ \E i \in DOMAIN Append(q, f) :
                    x = <<current, i>> /\ Append(q, f)[i] = HandlerOf(s)
    BY <1>1, <2>1, HandlersOfThread
  <2> QED  BY <2>2
<1>5. 1..Len(q) + 1 = (1..Len(q)) \cup {Len(q) + 1} /\ Len(q) + 1 \notin 1..Len(q)
  BY <1>1
<1>6. f # HandlerOf(s) => new = old
  BY <1>2, <1>5
<1>7. f = HandlerOf(s) => new = old \cup {top}
  BY <1>2, <1>5
<1>8. top \notin rest /\ top \notin old
  BY <1>2, <1>5
<1> HIDE DEF rest, old, new
<1> QED  BY <1>3, <1>4, <1>6, <1>7, <1>8

\* Signal s is in the queue, or out of it and in no handler yet.
InHook(s) == s \in Pending \/ (pc \in {"handleRead", "popRead"} /\ slots[reg] = s)

\* How many handlers are still to run for s.
Held(s) == Cardinality(HandlersToRun(s)) + (IF InHook(s) THEN 1 ELSE 0)

\* A signal is owed at least what is held for it, and no more unless a user
\* interrupt may throw a handler away.
Accounted(s) ==
    /\ IsFiniteSet(HandlersToRun(s))
    /\ Held(s) <= owed[s]
    /\ Breaks = {} => Held(s) = owed[s]

\* A step that does not concern s.
LEMMA NotConcerned ==
    ASSUME NEW s, Accounted(s), HandlersToRun(s)' = HandlersToRun(s),
           InHook(s)' = InHook(s), owed'[s] = owed[s], Breaks' = Breaks
    PROVE  Accounted(s)'
BY DEF Accounted, Held

\* A step that accepts s.
LEMMA Accepted ==
    ASSUME NEW s, Accounted(s), HandlersToRun(s)' = HandlersToRun(s),
           ~InHook(s), InHook(s)', owed'[s] = owed[s] + 1, Breaks' = Breaks,
           owed[s] \in Int
    PROVE  Accounted(s)'
<1>1. Cardinality(HandlersToRun(s)) \in Nat
  BY FS_CardinalityType DEF Accounted
<1>2. Held(s) = Cardinality(HandlersToRun(s)) /\ Held(s)' = Held(s) + 1
  BY <1>1 DEF Held
<1> QED  BY <1>1, <1>2 DEF Accounted

\* A step that takes s out of the queue and sets about to call its handler.
LEMMA Dispatched ==
    ASSUME NEW s, Accounted(s), NEW x, x \notin HandlersToRun(s),
           HandlersToRun(s)' = HandlersToRun(s) \cup {x},
           InHook(s), ~InHook(s)', owed'[s] = owed[s], Breaks' = Breaks
    PROVE  Accounted(s)'
<1>1. /\ IsFiniteSet(HandlersToRun(s)')
      /\ Cardinality(HandlersToRun(s)') = Cardinality(HandlersToRun(s)) + 1
      /\ Cardinality(HandlersToRun(s)) \in Nat
  BY FS_CardinalityType, FS_AddElement DEF Accounted
<1>2. Held(s)' = Held(s)
  BY <1>1 DEF Held
<1> QED  BY <1>1, <1>2 DEF Accounted

\* A step that runs the handler of s.
LEMMA HandlerRuns ==
    ASSUME NEW s, Accounted(s), NEW x, x \in HandlersToRun(s),
           HandlersToRun(s)' = HandlersToRun(s) \ {x},
           InHook(s)' = InHook(s), owed'[s] = owed[s] - 1, Breaks' = Breaks,
           owed[s] \in Int
    PROVE  Accounted(s)'
<1>1. /\ IsFiniteSet(HandlersToRun(s)')
      /\ Cardinality(HandlersToRun(s)') = Cardinality(HandlersToRun(s)) - 1
      /\ Cardinality(HandlersToRun(s)) \in Nat
  BY FS_CardinalityType, FS_RemoveElement DEF Accounted
<1>2. Held(s) \in Int /\ Held(s)' = Held(s) - 1
  BY <1>1 DEF Held
<1> QED  BY <1>1, <1>2 DEF Accounted

\* A user interrupt that throws handlers away, the one of s that runs if any
\* among them.
LEMMA ThrownAway ==
    ASSUME NEW s, Accounted(s), Breaks # {}, Breaks' = Breaks,
           NEW X \in SUBSET HandlersToRun(s), owed[s] \in Int,
           HandlersToRun(s)' \subseteq HandlersToRun(s) \ X,
           InHook(s)' = InHook(s),
           owed'[s] = owed[s] - Cardinality(X), X = {} \/ \E x : X = {x}
    PROVE  Accounted(s)'
<1>1. CASE X = {}
  <2>1. /\ IsFiniteSet(HandlersToRun(s)')
        /\ Cardinality(HandlersToRun(s)') <= Cardinality(HandlersToRun(s))
    BY <1>1, FS_Subset DEF Accounted
  <2>2. /\ Cardinality(HandlersToRun(s)') \in Nat
        /\ Cardinality(HandlersToRun(s)) \in Nat
    BY <2>1, FS_CardinalityType DEF Accounted
  <2>3. owed'[s] = owed[s]
    BY <1>1, FS_EmptySet
  <2> QED  BY <2>1, <2>2, <2>3 DEF Accounted, Held
<1>2. ASSUME NEW x, X = {x} PROVE Accounted(s)'
  <2>1. /\ IsFiniteSet(HandlersToRun(s) \ {x})
        /\ Cardinality(HandlersToRun(s) \ {x}) = Cardinality(HandlersToRun(s)) - 1
    BY <1>2, FS_RemoveElement DEF Accounted
  <2>2. /\ IsFiniteSet(HandlersToRun(s)')
        /\ Cardinality(HandlersToRun(s)') <= Cardinality(HandlersToRun(s) \ {x})
    BY <1>2, <2>1, FS_Subset
  <2>3. /\ Cardinality(HandlersToRun(s)') \in Nat
        /\ Cardinality(HandlersToRun(s)) \in Nat
    BY <2>2, FS_CardinalityType DEF Accounted
  <2>4. owed'[s] = owed[s] - 1
    BY <1>2, FS_Singleton
  <2>5. Cardinality(HandlersToRun(s)') <= Cardinality(HandlersToRun(s)) - 1
    BY <2>1, <2>2
  <2>6. CASE InHook(s)
    BY <2>2, <2>3, <2>4, <2>5, <2>6 DEF Accounted, Held
  <2>7. CASE ~InHook(s)
    BY <2>2, <2>3, <2>4, <2>5, <2>7 DEF Accounted, Held
  <2> QED  BY <2>6, <2>7
<1> QED  BY <1>1, <1>2

\* Every accepted signal is accounted for, wherever it is.
OwedInv == QueueInv /\ \A s \in Sigs : Accounted(s)

\* A frame of another kind than "handler" calls no handler.
LEMMA NoHandler ==
    /\ \A s, k : k # "handler" => Frame(k) # HandlerOf(s)
    /\ \A s, r : HandlerOf(s) = HandlerOf(r) => s = r
    /\ \A s : HandlerOf(s).kind = "handler" /\ HandlerOf(s).sig = s
BY DEF Frame, HandlerOf

\* Replacing a frame of another kind by frames of other kinds.
LEMMA SameHandlers ==
    ASSUME TypeInv, NEW k, k # "handler", Doing(current, k), NEW q \in Seq(FrameType),
           frames' = [frames EXCEPT ![current] = Below(current) \o q],
           \A i \in 1..Len(q) : q[i].kind # "handler", NEW s
    PROVE  HandlersToRun(s)' = HandlersToRun(s)
<1>1. \A i \in 1..Len(q) : q[i] # HandlerOf(s)
  BY NoHandler
<1>2. frames[current][Len(frames[current])] # HandlerOf(s)
  BY NoHandler DEF Doing
<1>3. Top \notin HandlersToRun(s)
  BY <1>2, ReplaceHandlers
<1>4. HandlersToRun(s)' = HandlersToRun(s) \ {Top}
  BY <1>1, ReplaceHandlers
<1> QED  BY <1>3, <1>4

\* A signal arrives.
LEMMA DeliverOwed ==
    ASSUME TypeInv, OwedInv, NEW r \in Sigs, Deliver(r), NEW s \in Sigs, Orderly'
    PROVE  Accounted(s)'
<1> USE DEF queueVars, eventVars, arrivals
<1>1. UNCHANGED <<pc, reg>> /\ Breaks' = Breaks /\ owed[s] \in Int
  BY DEF Deliver, TypeInv, TypeOK, Breaks
<1>2. HandlersToRun(s)' = HandlersToRun(s)
  <2>1. CASE pc = "check" /\ Doing(current, "sleep")
    <3> DEFINE q == <<Frame("head"), Frame("pop")>>
    <3>1. frames' = [frames EXCEPT ![current] = Below(current) \o q]
      BY <1>1, <2>1 DEF Deliver, Woken
    <3>2. q \in Seq(FrameType) /\ Len(q) = 2 /\ q[1].kind = "head" /\ q[2].kind = "pop"
      BY FramesHaveType DEF FrameKinds, Frame
    <3>3. \A i \in 1..Len(q) : q[i].kind # "handler"
      BY <3>2
    <3> HIDE DEF q
    <3> QED  BY <2>1, <3>1, <3>2, <3>3, SameHandlers
  <2>2. CASE ~(pc = "check" /\ Doing(current, "sleep"))
    <3>1. frames' = frames
      BY <2>2 DEF Deliver, Woken
    <3> QED  BY <3>1 DEF HandlersToRun
  <2> QED  BY <2>1, <2>2
<1>3. CASE enabled /\ (First \/ Room(r))
  <2>1. /\ r \notin Pending /\ count < MaxPending
        /\ slots' = [slots EXCEPT ![count] = r] /\ count' = count + 1
        /\ owed' = [owed EXCEPT ![r] = @ + 1]
    BY <1>3, BoundsAssumption DEF Deliver, First, Room, Pending, TypeInv, TypeOK
  <2>2. Pending' = Pending \cup {r}
    BY <2>1, PendingGrows DEF OwedInv
  <2>0. pc \notin {"handleRead", "popRead"}
    BY <1>3 DEF Deliver, Orderly, HalfWay
  <2>3. CASE s = r
    <3>1. ~InHook(s) /\ InHook(s)'
      BY <1>1, <2>0, <2>1, <2>2, <2>3 DEF InHook
    <3>2. owed'[s] = owed[s] + 1
      BY <2>1, <2>3 DEF TypeInv, TypeOK
    <3> QED  BY <1>1, <1>2, <3>1, <3>2, Accepted DEF OwedInv
  <2>4. CASE s # r
    <3>1. InHook(s)' = InHook(s)
      BY <1>1, <2>0, <2>2, <2>4 DEF InHook
    <3>2. owed'[s] = owed[s]
      BY <2>1, <2>4 DEF TypeInv, TypeOK
    <3> QED  BY <1>1, <1>2, <3>1, <3>2, NotConcerned DEF OwedInv
  <2> QED  BY <2>3, <2>4
<1>4. CASE ~(enabled /\ (First \/ Room(r)))
  <2>1. UNCHANGED <<slots, count, owed>>
    BY <1>4 DEF Deliver
  <2>2. InHook(s)' = InHook(s)
    BY <1>1, <2>1 DEF InHook, Pending
  <2> QED  BY <1>1, <1>2, <2>1, <2>2, NotConcerned DEF OwedInv
<1> QED  BY <1>3, <1>4

\* The steps between the queue and the hook.
LEMMA HookOwed ==
    ASSUME TypeInv, OwedInv, NEW s \in Sigs, RaiseTimer \/ Decrement \/ CallHook \/ TakePending
    PROVE  Accounted(s)'
<1> USE DEF queueVars, eventVars, arrivals
<1>1. UNCHANGED <<use, owed>> /\ Breaks' = Breaks /\ s # Timer
  BY ReasonsAssumption DEF RaiseTimer, Decrement, CallHook, TakePending, Breaks
<1>2. pc \in {"handleRead", "popRead"} /\ slots[reg] # Timer =>
          HandlerOf(slots[reg]) \in FrameType
  BY FramesHaveType, BoundsAssumption DEF TypeInv, TypeOK, PlacesOK, Reasons
<1>3. CASE RaiseTimer
  <2>1. /\ reg = count /\ Timer \notin Pending /\ count < MaxPending
        /\ slots' = [slots EXCEPT ![count] = Timer] /\ count' = count + 1
        /\ pc \in {"raise", "append"} /\ pc' = "check" /\ frames' = frames
    BY <1>3 DEF RaiseTimer, OwedInv, QueueInv, TypeInv, PlacesOK
  <2>2. Pending' = Pending \cup {Timer}
    BY <2>1, PendingGrows DEF OwedInv
  <2>3. InHook(s)' = InHook(s)
    BY <1>1, <2>1, <2>2 DEF InHook
  <2>4. HandlersToRun(s)' = HandlersToRun(s)
    BY <2>1 DEF HandlersToRun
  <2> QED  BY <1>1, <2>3, <2>4, NotConcerned DEF OwedInv
<1>4. CASE Decrement
  <2>1. /\ reg = count /\ count > 0 /\ slots' = slots /\ count' = count - 1
        /\ reg' = count' /\ pc \in {"handle", "pop"} /\ pc' \in {"handleRead", "popRead"}
        /\ frames' = frames
    BY <1>4 DEF Decrement, OwedInv, QueueInv, TypeInv, PlacesOK
  <2>2. Pending = Pending' \cup {slots[count']}
    BY <2>1, PendingShrinks DEF OwedInv
  <2>3. InHook(s)' = InHook(s)
    BY <2>1, <2>2 DEF InHook
  <2>4. HandlersToRun(s)' = HandlersToRun(s)
    BY <2>1 DEF HandlersToRun
  <2> QED  BY <1>1, <2>3, <2>4, NotConcerned DEF OwedInv
<1>5. CASE CallHook
  <2>1. /\ pc = "handleRead" /\ pc' = "check" /\ Pending' = Pending
        /\ slots[reg] \notin Pending
    BY <1>5 DEF CallHook, OwedInv, QueueInv, Pending
  <2>2. CASE slots[reg] = Timer
    <3>1. Push(current, Frame("pop")) /\ Frame("pop") \in FrameType
      BY <1>5, <2>2, FramesHaveType DEF CallHook, FrameKinds
    <3>2. HandlersToRun(s)' = HandlersToRun(s)
      BY <3>1, PushHandlers, NoHandler
    <3>3. InHook(s)' = InHook(s)
      BY <1>1, <2>1, <2>2 DEF InHook
    <3> QED  BY <1>1, <3>2, <3>3, NotConcerned DEF OwedInv
  <2>3. CASE slots[reg] # Timer
    <3>1. Push(current, HandlerOf(slots[reg])) /\ HandlerOf(slots[reg]) \in FrameType
      BY <1>2, <1>5, <2>3 DEF CallHook
    <3>2. CASE slots[reg] = s
      <4>1. PICK x : x \notin HandlersToRun(s)
                     /\ HandlersToRun(s)' = HandlersToRun(s) \cup {x}
        BY <3>1, <3>2, PushHandlers
      <4>2. InHook(s) /\ ~InHook(s)'
        BY <2>1, <3>2 DEF InHook
      <4> QED  BY <1>1, <4>1, <4>2, Dispatched DEF OwedInv
    <3>3. CASE slots[reg] # s
      <4>0. HandlerOf(slots[reg]) # HandlerOf(s)
        BY <3>3, NoHandler
      <4>1. HandlersToRun(s)' = HandlersToRun(s)
        BY <3>1, <4>0, PushHandlers
      <4>2. InHook(s)' = InHook(s)
        BY <2>1, <3>3 DEF InHook
      <4> QED  BY <1>1, <4>1, <4>2, NotConcerned DEF OwedInv
    <3> QED  BY <3>2, <3>3
  <2> QED  BY <2>2, <2>3
<1>6. CASE TakePending
  <2>1. /\ pc = "popRead" /\ pc' = "check" /\ Pending' = Pending
        /\ slots[reg] \notin Pending /\ Doing(current, "pop")
    BY <1>6 DEF TakePending, OwedInv, QueueInv, Pending, TypeInv, PlacesOK
  <2>2. CASE slots[reg] = Timer
    <3>1. HandlersToRun(s)' = HandlersToRun(s)
      BY <1>6, <2>2 DEF TakePending, HandlersToRun
    <3>2. InHook(s)' = InHook(s)
      BY <1>1, <2>1, <2>2 DEF InHook
    <3> QED  BY <1>1, <3>1, <3>2, NotConcerned DEF OwedInv
  <2>3. CASE slots[reg] # Timer
    <3> DEFINE q == <<HandlerOf(slots[reg])>>
    <3>1. frames' = [frames EXCEPT ![current] = Below(current) \o q]
      BY <1>6, <2>3 DEF TakePending, Replace
    <3>2. q \in Seq(FrameType) /\ Len(q) = 1 /\ q[1] = HandlerOf(slots[reg])
      BY <1>2, <2>1, <2>3
    <3>3. frames[current][Len(frames[current])] # HandlerOf(s)
      BY <2>1, NoHandler DEF Doing
    <3>4. CASE slots[reg] = s
      <4>1. q = <<HandlerOf(s)>>
        BY <3>4
      <4> HIDE DEF q
      <4>2. /\ HandlersToRun(s)' = HandlersToRun(s) \cup {Top}
            /\ Top \notin HandlersToRun(s)
        BY <2>1, <3>1, <3>2, <3>3, <4>1, ReplaceHandlers
      <4>3. InHook(s) /\ ~InHook(s)'
        BY <2>1, <3>4 DEF InHook
      <4> QED  BY <1>1, <4>2, <4>3, Dispatched DEF OwedInv
    <3>5. CASE slots[reg] # s
      <4>1. \A j \in 1..Len(q) : q[j] # HandlerOf(s)
        BY <3>2, <3>5, NoHandler
      <4> HIDE DEF q
      <4>2. HandlersToRun(s)' = HandlersToRun(s)
        BY <2>1, <3>1, <3>2, <3>3, <4>1, ReplaceHandlers
      <4>3. InHook(s)' = InHook(s)
        BY <2>1, <3>5 DEF InHook
      <4> QED  BY <1>1, <4>2, <4>3, NotConcerned DEF OwedInv
    <3> QED  BY <3>4, <3>5
  <2> QED  BY <2>2, <2>3
<1> QED  BY <1>3, <1>4, <1>5, <1>6

\* The handler of the current thread is one that is to be run.
LEMMA TopHandler ==
    ASSUME TypeInv, Doing(current, "handler"), frames[current][Len(frames[current])]
                                                  = HandlerOf(Handled)
    PROVE  Top \in HandlersToRun(Handled)
<1>1. current \in Threads /\ Len(frames[current]) \in 1..Len(frames[current])
      /\ frames[current] \in Seq(FrameType)
  BY TopFrame DEF TypeInv, TypeOK
<1>2. Len(frames[current]) \in DOMAIN frames[current]
  BY <1>1
<1> QED  BY <1>1, <1>2, HandlersAre DEF Top

\* The frames of handlers are those that HandlerOf makes.
HandlerFrames ==
    \A t \in Threads : \A i \in DOMAIN frames[t] :
        frames[t][i].kind = "handler" => frames[t][i] = HandlerOf(frames[t][i].sig)

\* By the type of frames.
LEMMA HandlersAreFrames == TypeInv => HandlerFrames
<1> SUFFICES ASSUME TypeInv, NEW t \in Threads, NEW i \in DOMAIN frames[t],
                    frames[t][i].kind = "handler"
             PROVE  frames[t][i] = HandlerOf(frames[t][i].sig)
  BY DEF HandlerFrames
<1>1. frames[t][i] \in [kind : FrameKinds, sig : Sigs \cup {None}]
  BY DEF TypeInv, TypeOK
<1> QED  BY <1>1 DEF HandlerOf

\* Handlers run, user interrupts among them.
LEMMA HandlersOwed ==
    ASSUME TypeInv, OwedInv, Breaks = {} => WaiterInv, Handlers, NEW s \in Sigs
    PROVE  Accounted(s)'
<1> USE DEF queueVars, eventVars, arrivals
<1>1. /\ UNCHANGED <<use, slots, count, reg, pc>> /\ Breaks' = Breaks
      /\ pc = "check" /\ owed[s] \in Int /\ current \in Threads
  BY DEF Handlers, Handle, BreakPrimordial, BreakOther, Break, Runs, Breaks,
         TypeInv, TypeOK
<1>2. InHook(s)' = InHook(s)
  BY <1>1 DEF InHook, Pending
<1>3. Accounted(s)
  BY DEF OwedInv
<1>4. ASSUME Doing(current, "handler")
      PROVE  /\ frames[current][Len(frames[current])] = HandlerOf(Handled)
             /\ Top \in HandlersToRun(Handled)
             /\ Top \in HandlersToRun(s) <=> s = Handled
  <2>1. Len(frames[current]) \in DOMAIN frames[current]
    BY <1>1, <1>4, TopFrame DEF TypeInv
  <2>2. frames[current][Len(frames[current])] = HandlerOf(Handled)
    BY <1>1, <1>4, <2>1, HandlersAreFrames DEF HandlerFrames, Handled, Doing
  <2>3. Top \in HandlersToRun(Handled)
    BY <1>4, <2>2, TopHandler
  <2>4. ASSUME Top \in HandlersToRun(s) PROVE s = Handled
    <3>1. frames[current][Len(frames[current])] = HandlerOf(s)
      BY <2>4, HandlersAre DEF Top
    <3> QED  BY <2>2, <3>1, NoHandler
  <2> QED  BY <2>2, <2>3, <2>4
<1>5. CASE Handle
  <2>1. Doing(current, "handler") /\ owed' = [owed EXCEPT ![Handled] = @ - 1]
    BY <1>5 DEF Handle, Runs
  <2> DEFINE q == <<Frame("pop")>>
  <2>2. frames' = [frames EXCEPT ![current] = Below(current) \o q]
    BY <1>5 DEF Handle, Replace
  <2>3. q \in Seq(FrameType) /\ \A j \in 1..Len(q) : q[j] # HandlerOf(s)
    BY FramesHaveType, NoHandler DEF FrameKinds
  <2> HIDE DEF q
  <2>4. HandlersToRun(s)' = HandlersToRun(s) \ {Top}
    BY <2>1, <2>2, <2>3, ReplaceHandlers
  <2>5. CASE s = Handled
    <3>1. owed'[s] = owed[s] - 1
      BY <2>1, <2>5 DEF TypeInv, TypeOK
    <3>2. Top \in HandlersToRun(s)
      BY <1>4, <2>1, <2>5
    <3> QED  BY <1>1, <1>2, <1>3, <2>4, <3>1, <3>2, HandlerRuns
  <2>6. CASE s # Handled
    <3>1. owed'[s] = owed[s]
      BY <2>1, <2>6 DEF TypeInv, TypeOK
    <3>2. HandlersToRun(s)' = HandlersToRun(s)
      BY <1>4, <2>1, <2>4, <2>6
    <3> QED  BY <1>1, <1>2, <1>3, <3>1, <3>2, NotConcerned
  <2> QED  BY <2>5, <2>6
<1>6. CASE BreakPrimordial \/ BreakOther
  <2>1. /\ Doing(current, "handler") /\ owed' = [owed EXCEPT ![Handled] = @ - 1]
        /\ Breaks # {}
    BY <1>6 DEF BreakPrimordial, BreakOther, Runs
  <2>2. HandlersToRun(s)' \subseteq HandlersToRun(s) \ {Top}
    <3>1. CASE BreakPrimordial
      <4>1. frames' = [frames EXCEPT ![current] = <<>>]
        BY <3>1 DEF BreakPrimordial
      <4>2. \A x \in HandlersToRun(s)' : x \in HandlersToRun(s) /\ x[1] # current
        BY <1>1, <4>1, HandlersDropped
      <4> QED  BY <4>2 DEF Top
    <3>2. CASE BreakOther
      <4> DEFINE b == Below(current)
                 q == b \o <<Frame("pop")>>
      <4>1. /\ current # Primordial
            /\ frames' = [frames EXCEPT ![Primordial] = <<Frame("break")>>,
                                        ![current] = q]
        BY <3>2 DEF BreakOther
      <4>2. /\ frames'[current] = q /\ frames'[Primordial] = <<Frame("break")>>
            /\ \A t \in Threads \ {current, Primordial} : frames'[t] = frames[t]
        BY <1>1, <4>1, PrimordialAssumption DEF TypeInv
      <4>3. /\ Len(frames[current]) \in Nat \ {0} /\ b \in Seq(FrameType)
            /\ Len(b) = Len(frames[current]) - 1
            /\ \A i \in 1..Len(b) : b[i] = frames[current][i]
            /\ DOMAIN frames[current] = 1..Len(frames[current])
        BY <1>1, <2>1, TopFrame DEF TypeInv
      <4>4. <<Frame("pop")>> \in Seq(FrameType)
        BY FramesHaveType DEF FrameKinds
      <4>5. /\ DOMAIN q = 1..Len(b) + 1
            /\ \A i \in 1..Len(b) : q[i] = b[i]
            /\ q[Len(b) + 1] = Frame("pop")
        BY <4>3, <4>4, ConcatFrames
      <4>6. ASSUME NEW i \in DOMAIN q, q[i] = HandlerOf(s)
            PROVE  /\ i \in DOMAIN frames[current] /\ i # Len(frames[current])
                   /\ frames[current][i] = HandlerOf(s)
        <5>1. i # Len(b) + 1
          BY <4>5, <4>6, NoHandler
        <5>2. i \in 1..Len(b)
          BY <4>3, <4>5, <5>1
        <5> QED  BY <4>3, <4>5, <4>6, <5>2
      <4> HIDE DEF q, b
      <4>7. ASSUME NEW x \in HandlersToRun(s)' PROVE x \in HandlersToRun(s) \ {Top}
        <5>1. PICK t \in Threads : \E i \in DOMAIN frames'[t] :
                 x = <<t, i>> /\ frames'[t][i] = HandlerOf(s)
          BY DEF HandlersToRun, HandlerOf
        <5>2. PICK i \in DOMAIN frames'[t] : x = <<t, i>> /\ frames'[t][i] = HandlerOf(s)
          BY <5>1
        <5>3. t # Primordial
          <6> SUFFICES ASSUME t = Primordial PROVE FALSE
            OBVIOUS
          <6>1. i = 1 /\ frames'[t][i] = Frame("break")
            BY <4>2, <5>2
          <6> QED  BY <5>2, <6>1, NoHandler
        <5>4. CASE t = current
          <6>1. i \in DOMAIN q /\ q[i] = HandlerOf(s)
            BY <4>2, <5>2, <5>4
          <6>2. i \in DOMAIN frames[t] /\ i # Len(frames[t]) /\ frames[t][i] = HandlerOf(s)
            BY <4>6, <5>4, <6>1
          <6> QED  BY <5>2, <5>4, <6>2, HandlersAre DEF Top
        <5>5. CASE t # current
          BY <4>2, <5>2, <5>3, <5>5, HandlersAre DEF Top
        <5> QED  BY <5>4, <5>5
      <4> QED  BY <4>7
    <3> QED  BY <1>6, <3>1, <3>2
  <2>3. CASE s = Handled
    <3>1. owed'[s] = owed[s] - 1 /\ Top \in HandlersToRun(s)
      BY <1>4, <2>1, <2>3 DEF TypeInv, TypeOK
    <3>2. Cardinality({Top}) = 1 /\ {Top} \in SUBSET HandlersToRun(s)
      BY <3>1, FS_Singleton
    <3> QED  BY <1>1, <1>2, <1>3, <2>1, <2>2, <3>1, <3>2, ThrownAway
  <2>4. CASE s # Handled
    <3>1. owed'[s] = owed[s]
      BY <2>1, <2>4 DEF TypeInv, TypeOK
    <3>2. Cardinality({}) = 0 /\ HandlersToRun(s)' \subseteq HandlersToRun(s) \ {}
      BY <2>2, FS_EmptySet
    <3>3. owed'[s] = owed[s] - Cardinality({})
      BY <1>1, <3>1, <3>2
    <3> QED  BY <1>1, <1>2, <1>3, <2>1, <3>2, <3>3, ThrownAway
  <2> QED  BY <2>3, <2>4
<1>7. CASE Break
  <2>1. /\ Doing(current, "break") /\ owed' = owed
        /\ frames' = [frames EXCEPT ![current] = <<>>]
    BY <1>7 DEF Break, Runs
  <2>2. Breaks # {}
    <3>1. "break" \in Kinds(frames[current])
      <4>1. current \in Threads
        BY DEF TypeInv, TypeOK
      <4> QED  BY <2>1, <4>1, DoingKind
    <3> QED  BY <1>1, <3>1 DEF WaiterInv
  <2>3. HandlersToRun(s)' \subseteq HandlersToRun(s) \ {}
    <3>1. \A x \in HandlersToRun(s)' : x \in HandlersToRun(s)
      BY <1>1, <2>1, HandlersDropped
    <3> QED  BY <3>1
  <2>4. owed'[s] = owed[s] - Cardinality({})
    BY <1>1, <2>1, FS_EmptySet
  <2> QED  BY <1>1, <1>2, <1>3, <2>2, <2>3, <2>4, ThrownAway
<1> QED  BY <1>5, <1>6, <1>7 DEF Handlers

\* The other steps touch neither the queue nor handlers.
LEMMA OthersOwed ==
    ASSUME TypeInv, OwedInv, NEW s \in Sigs,
           \/ UserCode \/ Reclaim \/ RestoreLimit \/ EnterPop \/ TestPending
           \/ NonePending \/ Waiting \/ CollectAgain \/ UNCHANGED vars
    PROVE  Accounted(s)'
<1> USE DEF queueVars, eventVars, arrivals, UserCode, Waiting, CollectAgain
<1>1. UNCHANGED <<use, slots, count, owed>> /\ Breaks' = Breaks
  BY DEF TimerExpires, SetEnabled, GetNextEvent, WaitForNextEvent, Reclaim,
         RestoreLimit, EnterPop, TestPending, NonePending, LookForEvent, Suspend,
         Sleep, SleepEnds, vars, Breaks
<1>2. \/ UNCHANGED <<pc, reg>>
      \/ pc \notin {"handleRead", "popRead"} /\ pc' \notin {"handleRead", "popRead"}
  BY DEF TimerExpires, SetEnabled, GetNextEvent, WaitForNextEvent, Reclaim,
         RestoreLimit, EnterPop, TestPending, NonePending, LookForEvent, Suspend,
         Sleep, SleepEnds, Runs, vars
<1>3. InHook(s)' = InHook(s)
  BY <1>1, <1>2 DEF InHook, Pending
<1>4. HandlersToRun(s)' = HandlersToRun(s)
  <2>1. CASE frames' = frames
    BY <2>1 DEF HandlersToRun
  <2>2. ASSUME NEW k, k # "handler", Doing(current, k), NEW q \in Seq(FrameType),
               \A i \in 1..Len(q) : q[i].kind # "handler",
               frames' = [frames EXCEPT ![current] = Below(current) \o q]
        PROVE  HandlersToRun(s)' = HandlersToRun(s)
    BY <2>2, SameHandlers
  <2>3. /\ <<>> \in Seq(FrameType) /\ Len(<<>>) = 0
        /\ \A k \in FrameKinds : /\ <<Frame(k)>> \in Seq(FrameType)
                                 /\ Len(<<Frame(k)>>) = 1 /\ <<Frame(k)>>[1].kind = k
    BY FramesHaveType DEF Frame
  <2>4. CASE WaitForNextEvent
    <3>1. Push(current, Frame("head")) /\ Frame("head") \in FrameType
      BY <2>4, FramesHaveType DEF WaitForNextEvent, FrameKinds
    <3>2. Frame("head") # HandlerOf(s)
      BY NoHandler
    <3> QED  BY <3>1, <3>2, PushHandlers
  <2>5. ASSUME NEW k, k # "handler", Doing(current, k), NEW l \in FrameKinds,
               l # "handler", Replace(current, <<Frame(l)>>)
        PROVE  HandlersToRun(s)' = HandlersToRun(s)
    <3> DEFINE q == <<Frame(l)>>
    <3>1. q \in Seq(FrameType) /\ \A i \in 1..Len(q) : q[i].kind # "handler"
      BY <2>3, <2>5
    <3>2. frames' = [frames EXCEPT ![current] = Below(current) \o q]
      BY <2>5 DEF Replace
    <3> HIDE DEF q
    <3> QED  BY <2>2, <2>5, <3>1, <3>2
  <2>6. ASSUME NEW k, k # "handler", Doing(current, k), Return(current)
        PROVE  HandlersToRun(s)' = HandlersToRun(s)
    <3> DEFINE q == <<>>
    <3>1. q \in Seq(FrameType) /\ \A i \in 1..Len(q) : q[i].kind # "handler"
      BY <2>3
    <3>2. frames' = [frames EXCEPT ![current] = Below(current) \o q]
      BY <2>6 DEF Return, Replace
    <3> HIDE DEF q
    <3> QED  BY <2>2, <2>6, <3>1, <3>2
  <2>7. CASE NonePending
    <3>1. Doing(current, "pop") /\ Return(current)
      BY <2>7 DEF NonePending, TypeInv, PlacesOK
    <3> QED  BY <2>6, <3>1
  <2>8. CASE LookForEvent
    <3>1. /\ Doing(current, "head")
          /\ Return(current) \/ Replace(current, <<Frame("suspend")>>)
      BY <2>8 DEF LookForEvent, Runs
    <3> QED  BY <2>5, <2>6, <3>1 DEF FrameKinds
  <2>9. CASE Sleep
    <3>1. Doing(current, "suspend") /\ Replace(current, <<Frame("sleep")>>)
      BY <2>9 DEF Sleep, TypeInv, PlacesOK
    <3> QED  BY <2>5, <3>1 DEF FrameKinds
  <2>10. CASE SleepEnds
    <3> DEFINE q == <<Frame("head"), Frame("pop")>>
    <3>1. frames' = [frames EXCEPT ![current] = Below(current) \o q]
          /\ Doing(current, "sleep")
      BY <2>10 DEF SleepEnds
    <3>2. q \in Seq(FrameType) /\ Len(q) = 2 /\ q[1].kind = "head" /\ q[2].kind = "pop"
      BY FramesHaveType DEF FrameKinds, Frame
    <3>3. \A i \in 1..Len(q) : q[i].kind # "handler"
      BY <3>2
    <3> HIDE DEF q
    <3> QED  BY <2>2, <3>1, <3>2, <3>3
  <2> QED  BY <2>1, <2>4, <2>7, <2>8, <2>9, <2>10
           DEF TimerExpires, SetEnabled, GetNextEvent, Reclaim, RestoreLimit,
               EnterPop, TestPending, Suspend, vars
<1> QED  BY <1>1, <1>3, <1>4, NotConcerned DEF OwedInv

\* For any number of threads and signals and any length of the queue: as long as
\* no signal is accepted half way through an access of C code to the queue, no
\* handler runs more often than its signal was accepted and no reason is queued
\* twice; and without user interrupts no accepted signal is lost, wherever else
\* signals arrive, threads are switched and hooks nest.
THEOREM SignalsHandledOnce == Spec => []SignalsOnce
<1> DEFINE W == (Breaks = {} \/ use.waiters = {}) => WaiterInv
<1>1. Init => OwedInv
  <2> SUFFICES ASSUME Init PROVE OwedInv
    OBVIOUS
  <2>1. Pending = {}
    BY DEF Init, Pending
  <2>2. QueueInv
    BY <2>1, FS_EmptySet DEF Init, QueueInv
  <2>3. \A s : HandlersToRun(s) = {}
    BY DEF Init, HandlersToRun
  <2>4. \A s \in Sigs : Held(s) = 0 /\ owed[s] = 0
    <3> SUFFICES ASSUME NEW s \in Sigs PROVE Held(s) = 0 /\ owed[s] = 0
      OBVIOUS
    <3>1. ~InHook(s)
      BY <2>1 DEF Init, InHook
    <3>2. Cardinality(HandlersToRun(s)) = 0
      BY <2>3, FS_EmptySet
    <3> QED  BY <3>1, <3>2 DEF Init, Held
  <2> QED  BY <2>2, <2>3, <2>4, FS_EmptySet DEF OwedInv, Accounted
<1>2. TypeInv /\ W /\ (Orderly => OwedInv) /\ [Next]_vars => (Orderly => OwedInv)'
  <2> SUFFICES ASSUME TypeInv, W, Orderly => OwedInv, [Next]_vars, Orderly'
               PROVE  OwedInv'
    OBVIOUS
  <2>0. OwedInv
    BY StruckGrows DEF Orderly
  <2>1. QueueInv'
    BY <2>0, QueueStep DEF OwedInv
  <2>2. ASSUME NEW s \in Sigs PROVE Accounted(s)'
    BY <2>0, DeliverOwed, HookOwed, HandlersOwed, OthersOwed DEF Next, HookLoop
  <2> QED  BY <2>1, <2>2 DEF OwedInv
<1>3. TypeInv /\ (Orderly => OwedInv) => SignalsOnce
  <2> SUFFICES ASSUME TypeInv, OwedInv, pc = "check"
               PROVE  /\ Breaks = {} => \A s \in Sigs : owed[s] <= WaitingFor(s)
                      /\ \A s \in Sigs : WaitingFor(s) <= owed[s]
                      /\ Cardinality(Pending) = count
    BY DEF SignalsOnce, NoSignalLost, NoSignalTwice, Orderly, AcceptedKept
  <2>1. \A s \in Sigs : Held(s) = WaitingFor(s)
    BY DEF Held, InHook, WaitingFor
  <2>2. \A s \in Sigs : owed[s] \in Int
    BY DEF TypeInv, TypeOK
  <2> QED  BY <2>1, <2>2 DEF OwedInv, Accounted, QueueInv
<1> QED  BY <1>1, <1>2, <1>3, Types, Waiters, PTL DEF Spec
=============================================================================
