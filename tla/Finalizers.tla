----------------------------- MODULE Finalizers -----------------------------
(***************************************************************************)
(* Finalizers: the collector moves the registrations of dead objects from  *)
(* its list to ##sys#pending-finalizers (runtime.c), the interrupt hook,   *)
(* (gc #t) and exit run what is in that table (library.scm).               *)
(*                                                                         *)
(* Every library procedure in progress is a frame of its thread, innermost *)
(* last.  A thread can be preempted, and the heap collected, between two   *)
(* steps: a step goes from one stack check of the code to another.         *)
(* A node is one registration.  Objects hold no references to each other.  *)
(***************************************************************************)
EXTENDS Integers, Sequences, FiniteSets, SequencesExt

CONSTANTS
    Thread,
    Object,
    None,           \* #f as the working-thread
    InitialMax,     \* C_max_pending_finalizers at startup (-:f)
    MaxNodes,       \* bound on the registrations
    Realloc,        \* the outcomes of C_realloc: may it work, may it fail?
    Kills,          \* do threads terminate each other (thread-terminate!)?
    Escapes         \* do finalizers leave by a continuation from outside?

ASSUME BoundsAssumption == InitialMax \in Nat \ {0} /\ MaxNodes \in Nat
ASSUME NoneAssumption == None \notin Thread
ASSUME OptionsAssumption == Realloc \subseteq BOOLEAN /\ {Kills, Escapes} \subseteq BOOLEAN

VARIABLES
    finalizerList,  \* finalizer_list, most recent registration first
    maxPending,     \* C_max_pending_finalizers
    table,          \* the entries of ##sys#pending-finalizers
    workingThread,  \* working-thread of ##sys#run-pending-finalizers
    frames,         \* per thread: the library procedures in progress
    alive,          \* the threads not terminated
    held,           \* the objects the program can reach
    exiting,        \* exit-in-progress
    exited,         \* has C_exit_runtime been called?
    nodes,          \* registrations begun, in order
    registered,     \* registrations made
    ran,            \* how often the finalizer of each was called
    freed           \* objects whose memory was reclaimed

heapVars == <<finalizerList, maxPending, table, held, freed>>
ghostVars == <<nodes, registered, ran>>
vars == <<heapVars, workingThread, frames, alive, exiting, exited, ghostVars>>

Init ==
    /\ finalizerList = <<>>
    /\ maxPending = InitialMax
    /\ table = <<>>
    /\ workingThread = None
    /\ frames = [t \in Thread |-> <<>>]
    /\ alive = Thread
    /\ held = Object
    /\ exiting = FALSE
    /\ exited = FALSE
    /\ nodes = <<>>
    /\ registered = {}
    /\ ran = [n \in 1..MaxNodes |-> 0]
    /\ freed = {}

-----------------------------------------------------------------------------
Top(t) == Last(frames[t])
Below(t) == Front(frames[t])
Op(t) == IF frames[t] = <<>> THEN "program" ELSE Top(t).op
At(t, op) == t \in alive /\ ~exited /\ Op(t) = op
\* The program's own code runs: outside the library or in a finalizer.
InProgram(t) == t \in alive /\ ~exited /\ Op(t) \in {"program", "handler"}

Resume(t, stack) == frames' = [frames EXCEPT ![t] = stack]
Items(S) == { nodes[n] : n \in S }

FrameRoots(f) ==
    CASE f.op \in {"resized", "register", "handler"} -> {nodes[f.node]}
      [] f.op = "copied" -> {nodes[f.node]} \cup Items(ToSet(f.copy))
      [] OTHER -> {}
Roots ==
    held \cup UNION { UNION { FrameRoots(f) : f \in ToSet(frames[t]) } : t \in Thread }

\* The registrations whose finalizers ought to run: a snapshot of them is taken
\* when (gc #t) or exit is called, for the properties only.
Owed ==
    { n \in ToSet(finalizerList) : nodes[n] \notin Roots }
        \cup { n \in ToSet(table) : ran[n] = 0 }

-----------------------------------------------------------------------------

\* The elements of S that the sequence s lists, in its order.
Those(s, S) ==
    LET at == { i \in DOMAIN s : s[i] \in S }
        rank(i) == Cardinality({ j \in at : j <= i })
    IN  [k \in 1..Cardinality(at) |-> s[CHOOSE i \in at : rank(i) = k]]

\* The registrations of objects that nothing reaches, as many as the table takes.
Queued ==
    LET dead == Those(finalizerList, { n \in ToSet(finalizerList) : nodes[n] \notin Roots })
    IN  SubSeq(dead, 1, IF Len(dead) < maxPending THEN Len(dead) ELSE maxPending)

\* Mutant of Reclaim: the entries that are not queued are not marked.
ReclaimUnmarked ==
    /\ freed' = freed \cup (Object \ (Roots \cup Items(ToSet(finalizerList))))
    /\ IF table # <<>>
       THEN UNCHANGED <<finalizerList, table>>
       ELSE /\ table' = Queued
            /\ finalizerList' = Those(finalizerList, ToSet(finalizerList) \ ToSet(Queued))
    /\ UNCHANGED <<maxPending, held>>

\* The second level of C_reclaim.
Reclaim ==
    /\ freed' = freed \cup (Object \ (Roots \cup Items(ToSet(finalizerList) \cup ToSet(table))))
    /\ IF table # <<>>
       THEN UNCHANGED <<finalizerList, table>>
       ELSE /\ table' = Queued
            /\ finalizerList' = Those(finalizerList, ToSet(finalizerList) \ ToSet(Queued))
    /\ UNCHANGED <<maxPending, held>>

\* The heap is full.
Collect ==
    /\ ~exited
    /\ Reclaim
    /\ UNCHANGED <<workingThread, frames, alive, exiting, exited, ghostVars>>

-----------------------------------------------------------------------------
\* ##sys#run-pending-finalizers: the loop over the entries counted at its start.
Loop(i, c) == [op |-> "finalize", i |-> i, c |-> c]

\* An error of the library: handle-exceptions of the innermost finalizer takes
\* it and goes on with the loop; outside of finalizers it reaches the program.
Raise(t) ==
    LET handlers == { i \in DOMAIN frames[t] : frames[t][i].op = "handler" }
    IN  IF handlers = {}
        THEN Resume(t, <<>>)
        ELSE LET i == CHOOSE i \in handlers : \A j \in handlers : j <= i
                 f == frames[t][i]
             IN  Resume(t, Append(SubSeq(frames[t], 1, i - 1), Loop(f.i + 1, f.c)))

\* Mutant of RunPending: the working thread is not looked at.
RunPendingNested(t, stack) ==
    /\ workingThread' = t
    /\ Resume(t, Append(stack, Loop(0, Len(table))))

\* Called with #f as the state, to return to the frames "stack".
RunPending(t, stack) ==
    \/ /\ workingThread = None
       /\ workingThread' = t
       /\ Resume(t, Append(stack, Loop(0, Len(table))))
    \/ /\ workingThread = t
       /\ Raise(t)
       /\ UNCHANGED workingThread
    \/ /\ workingThread \notin {None, t}    \* ##sys#thread-yield!
       /\ Resume(t, stack)
       /\ UNCHANGED workingThread

\* ##sys#interrupt-hook with something pending.  With a working thread it goes
\* on with the interrupted code at once.
InterruptHook(t) ==
    /\ t \in alive /\ ~exited
    /\ table # <<>>
    /\ workingThread = None
    /\ RunPending(t, frames[t])
    /\ UNCHANGED <<heapVars, alive, exiting, exited, ghostVars>>

CallFinalizer(t) ==
    /\ At(t, "finalize")
    /\ Top(t).i < Top(t).c
    /\ IF Top(t).i < Len(table)
       THEN LET n == table[Top(t).i + 1]
            IN  /\ ran' = [ran EXCEPT ![n] = @ + 1]
                /\ Resume(t, Append(Below(t), [op |-> "handler", i |-> Top(t).i,
                                               c |-> Top(t).c, node |-> n]))
       ELSE /\ Resume(t, Append(Below(t), Loop(Top(t).i + 1, Top(t).c)))
            /\ UNCHANGED ran        \* an undefined entry: the call is an error
    /\ UNCHANGED <<heapVars, workingThread, alive, exiting, exited, nodes, registered>>

\* The finalizer returns, or raises: handle-exceptions prints a warning.
FinalizerReturns(t) ==
    /\ At(t, "handler")
    /\ Resume(t, Append(Below(t), Loop(Top(t).i + 1, Top(t).c)))
    /\ UNCHANGED <<heapVars, workingThread, alive, exiting, exited, ghostVars>>

\* Mutants of FinalizersDone: the count is not set back to 0, the working
\* thread is not set back to #f.
FinalizersDoneKeeps(t) ==
    /\ At(t, "finalize")
    /\ Top(t).i >= Top(t).c
    /\ workingThread' = None
    /\ Resume(t, Below(t))
    /\ UNCHANGED <<heapVars, alive, exiting, exited, ghostVars>>

FinalizersDoneStuck(t) ==
    /\ At(t, "finalize")
    /\ Top(t).i >= Top(t).c
    /\ table' = <<>>
    /\ Resume(t, Below(t))
    /\ UNCHANGED <<finalizerList, maxPending, held, freed>>
    /\ UNCHANGED <<workingThread, alive, exiting, exited, ghostVars>>

FinalizersDone(t) ==
    /\ At(t, "finalize")
    /\ Top(t).i >= Top(t).c
    /\ table' = <<>>
    /\ workingThread' = None
    /\ Resume(t, Below(t))
    /\ UNCHANGED <<finalizerList, maxPending, held, freed, alive, exiting, exited, ghostVars>>

-----------------------------------------------------------------------------
\* C_do_register_finalizer
Register(n) ==
    /\ finalizerList' = <<n>> \o finalizerList
    /\ registered' = registered \cup {n}

\* ##sys#init-finalizer of object x.
SetFinalizer(t, x) ==
    LET n == Len(nodes) + 1
    IN  /\ InProgram(t)
        /\ x \in held
        /\ n <= MaxNodes
        /\ nodes' = Append(nodes, x)
        /\ \/ /\ Len(finalizerList) < maxPending
              /\ Register(n)
              /\ UNCHANGED <<maxPending, frames>>
           \/ /\ Len(finalizerList) >= maxPending
              /\ TRUE \in Realloc       \* C_resize_pending_finalizers
              /\ maxPending' = 2 * maxPending
              /\ Resume(t, Append(frames[t], [op |-> "resized", node |-> n]))
              /\ UNCHANGED <<finalizerList, registered>>
           \/ /\ Len(finalizerList) >= maxPending
              /\ FALSE \in Realloc
              /\ Resume(t, frames[t] \o << [op |-> "register", node |-> n],
                                           [op |-> "force", owed |-> Owed] >>)
              /\ UNCHANGED <<finalizerList, maxPending, registered>>
        /\ UNCHANGED <<table, held, freed, workingThread, alive, exiting, exited, ran>>

\* ##sys#vector-resize: the new vector is allocated, the old one copied.
CopyTable(t) ==
    /\ At(t, "resized")
    /\ Resume(t, Append(Below(t), [op |-> "copied", node |-> Top(t).node, copy |-> table]))
    /\ UNCHANGED <<heapVars, workingThread, alive, exiting, exited, ghostVars>>

InstallTable(t) ==
    /\ At(t, "copied")
    /\ table' = Top(t).copy
    /\ Resume(t, Append(Below(t), [op |-> "register", node |-> Top(t).node]))
    /\ UNCHANGED <<finalizerList, maxPending, held, freed>>
    /\ UNCHANGED <<workingThread, alive, exiting, exited, ghostVars>>

RegisterResumed(t) ==
    /\ At(t, "register")
    /\ Register(Top(t).node)
    /\ Resume(t, Below(t))
    /\ UNCHANGED <<maxPending, table, held, freed>>
    /\ UNCHANGED <<workingThread, alive, exiting, exited, nodes, ran>>

-----------------------------------------------------------------------------
\* (gc #t) of the program: ##sys#force-finalizers.
ForceFinalizers(t) ==
    /\ InProgram(t)
    /\ Resume(t, Append(frames[t], [op |-> "force", owed |-> Owed]))
    /\ UNCHANGED <<heapVars, workingThread, alive, exiting, exited, ghostVars>>

ForceCollect(t) ==
    /\ At(t, "force")
    /\ Reclaim
    /\ Resume(t, Append(Below(t), [Top(t) EXCEPT !.op = "forced"]))
    /\ UNCHANGED <<workingThread, alive, exiting, exited, ghostVars>>

ForceLoop(t) ==
    /\ At(t, "forced")
    /\ IF table # <<>>
       THEN RunPending(t, Append(Below(t), [Top(t) EXCEPT !.op = "force"]))
       ELSE Resume(t, Below(t)) /\ UNCHANGED workingThread
    /\ UNCHANGED <<heapVars, alive, exiting, exited, ghostVars>>

-----------------------------------------------------------------------------
\* exit: the exit-handler, with cleanup-before-exit.
Exit(t) ==
    /\ InProgram(t)
    /\ ~exiting                 \* else a warning, and exit returns
    /\ exiting' = TRUE
    /\ Resume(t, Append(frames[t], [op |-> "tasks", owed |-> Owed]))
    /\ UNCHANGED <<heapVars, workingThread, alive, exited, ghostVars>>

\* Is anything live?  Then it is forced before C_exit_runtime.
Quit(t) ==
    Below(t) \o << [op |-> "quit", owed |-> Top(t).owed] >>
             \o (IF finalizerList = <<>> THEN <<>> ELSE << [op |-> "force", owed |-> Owed] >>)

\* The procedures of on-exit have run.
ExitPending(t) ==
    /\ At(t, "tasks")
    /\ IF table # <<>>
       THEN RunPending(t, Append(Below(t), [Top(t) EXCEPT !.op = "live"]))
       ELSE Resume(t, Quit(t)) /\ UNCHANGED workingThread
    /\ UNCHANGED <<heapVars, alive, exiting, exited, ghostVars>>

ExitForce(t) ==
    /\ At(t, "live")
    /\ Resume(t, Quit(t))
    /\ UNCHANGED <<heapVars, workingThread, alive, exiting, exited, ghostVars>>

ExitRuntime(t) ==
    /\ At(t, "quit")
    /\ exited' = TRUE
    /\ UNCHANGED <<heapVars, workingThread, frames, alive, exiting, ghostVars>>

-----------------------------------------------------------------------------
\* The program.
Drop(t, x) ==
    /\ InProgram(t)
    /\ x \in held
    /\ held' = held \ {x}
    /\ UNCHANGED <<finalizerList, maxPending, table, freed>>
    /\ UNCHANGED <<workingThread, frames, alive, exiting, exited, ghostVars>>

\* A finalizer stores its argument where the program finds it.
Keep(t) ==
    /\ At(t, "handler")
    /\ held' = held \cup {nodes[Top(t).node]}
    /\ held' # held
    /\ UNCHANGED <<finalizerList, maxPending, table, freed>>
    /\ UNCHANGED <<workingThread, frames, alive, exiting, exited, ghostVars>>

\* thread-terminate!
Kill(t, u) ==
    /\ Kills
    /\ InProgram(t)
    /\ u \in alive
    /\ alive # {u}
    /\ alive' = alive \ {u}
    /\ Resume(u, <<>>)
    /\ UNCHANGED <<heapVars, workingThread, exiting, exited, ghostVars>>

\* A finalizer calls a continuation captured outside of the library.
Escape(t) ==
    /\ Escapes
    /\ At(t, "handler")
    /\ Resume(t, <<>>)
    /\ UNCHANGED <<heapVars, workingThread, alive, exiting, exited, ghostVars>>

-----------------------------------------------------------------------------
Step(t) ==
    \/ CallFinalizer(t)
    \/ FinalizerReturns(t)
    \/ FinalizersDone(t)
    \/ CopyTable(t)
    \/ InstallTable(t)
    \/ RegisterResumed(t)
    \/ ForceCollect(t)
    \/ ForceLoop(t)
    \/ ExitPending(t)
    \/ ExitForce(t)
    \/ ExitRuntime(t)

Program(t) ==
    \/ \E x \in Object : SetFinalizer(t, x) \/ Drop(t, x)
    \/ ForceFinalizers(t)
    \/ Exit(t)
    \/ Keep(t)
    \/ \E u \in Thread : Kill(t, u)
    \/ Escape(t)

Next ==
    \/ Collect
    \/ \E t \in Thread : InterruptHook(t) \/ Step(t) \/ Program(t)

Spec == Init /\ [][Next]_vars

\* The scheduler gives every thread its turn, finalizers return, and timer
\* interrupts arrive, at the thread that happens to run.
Fairness ==
    /\ \A t \in Thread : WF_vars(Step(t))
    /\ WF_vars(\E t \in Thread : InterruptHook(t))

FairSpec == Spec /\ Fairness

-----------------------------------------------------------------------------
NodeId == 1..MaxNodes
FrameType ==
    [op : {"resized", "register"}, node : NodeId]
        \cup [op : {"copied"}, node : NodeId, copy : Seq(NodeId)]
        \cup [op : {"force", "forced", "tasks", "live", "quit"}, owed : SUBSET NodeId]
        \cup [op : {"finalize"}, i : Nat, c : Nat]
        \cup [op : {"handler"}, i : Nat, c : Nat, node : NodeId]

\* Types; the table and the list of the collector name each registration made
\* at most once, and the table never holds more than C_max_pending_finalizers.
TypeOK ==
    /\ finalizerList \in Seq(registered) /\ IsInjective(finalizerList)
    /\ table \in Seq(registered) /\ IsInjective(table)
    /\ maxPending \in Nat \ {0} /\ Len(table) <= maxPending
    /\ workingThread \in Thread \cup {None}
    /\ frames \in [Thread -> Seq(FrameType)]
    /\ alive \subseteq Thread
    /\ held \subseteq Object /\ freed \subseteq Object
    /\ {exiting, exited} \subseteq BOOLEAN
    /\ nodes \in Seq(Object) /\ Len(nodes) <= MaxNodes
    /\ registered \subseteq DOMAIN nodes
    /\ ran \in [NodeId -> Nat]

\* ##sys#pending-finalizers is the vector made at startup, not a larger one.
TableKept == maxPending = InitialMax

\* A finalizer is called once for every time it was registered, or not yet.
CalledOnce == \A n \in NodeId : ran[n] <= 1

\* While the table is not replaced nothing calls a finalizer again, neither a
\* collection in the middle of the loop, nor another thread, an escape or a
\* kill.
RunOnce == TableKept => CalledOnce

\* A registration waits in the list, or in the table, until its finalizer is
\* called.
NoneForgotten ==
    \A n \in registered :
        ran[n] > 0 \/ n \in ToSet(finalizerList) \/ n \in ToSet(table)

\* While the table is not replaced no registration is forgotten on the way.
NothingLost == TableKept => NoneForgotten

\* No object is reclaimed that a finalizer is still to be called with, or that
\* the program, the finalizer running or a procedure in progress can reach.
NoFreedItem ==
    LET waiting == { n \in ToSet(table) \cup ToSet(finalizerList) : ran[n] = 0 }
    IN  freed \cap (Items(waiting) \cup Roots) = {}

\* The finalizers of one batch are run by one thread at a time, the working
\* thread, and never by a loop inside of another.
InLoop(f) == f.op \in {"finalize", "handler"}
OneLoop ==
    \A t \in Thread : \A i \in DOMAIN frames[t] :
        InLoop(frames[t][i]) =>
            /\ workingThread = t
            /\ \A j \in DOMAIN frames[t] : InLoop(frames[t][j]) => j = i

Discharged(S) == \A n \in S : ran[n] > 0 \/ nodes[n] \in held

\* What the tests say of (gc #t): when it returns, the finalizers of all data
\* that was garbage when it was called have been called, by whatever thread,
\* unless a finalizer made the data reachable again.
ForceRunsFinalizers ==
    [][\A t \in Thread :
           At(t, "forced") /\ table = <<>> /\ frames'[t] = Below(t) /\ t \in alive'
               => Discharged(Top(t).owed)]_vars

\* An entry of the table has its finalizer called, unless the process ends.
QueuedIsRun ==
    \A n \in NodeId :
        (n \in ToSet(table) /\ ran[n] = 0) ~> (ran[n] > 0 \/ exited)

\* (gc #t) returns, whichever thread runs the finalizers.
Forcing(t) == \E f \in ToSet(frames[t]) : f.op \in {"force", "forced"}
ForceReturns == \A t \in Thread : Forcing(t) ~> (~Forcing(t) \/ exited)

\* "Finalizers for data that has become garbage are called on normal program
\* exit": those of the data that was garbage when exit was called.
ExitRunsFinalizers ==
    exited => \A t \in Thread :
                  Op(t) = "quit" => Discharged(Top(t).owed)

\* "finalizers for unreferenced finalized data are run before exit procedures"
ExitProceduresLast == \A t \in Thread : At(t, "tasks") => Discharged(Top(t).owed)

\* exit-in-progress, which makes exit return with a warning, is set only while
\* some thread is exiting.
ExitIsInProgress ==
    exiting => \E t \in Thread : \E f \in ToSet(frames[t]) : f.op \in {"tasks", "live", "quit"}

\* What is registered stays so, and stays in memory, until its finalizer is called.
ItemsKept == NothingLost /\ NoFreedItem

\* The table of pending finalizers is well formed, and one thread works on it.
TableSound == TypeOK /\ OneLoop

\* Queued finalizers are called, and those who wait for them go on.
FinalizersProceed == QueuedIsRun /\ ForceReturns
=============================================================================
