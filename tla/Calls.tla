---------------------------------- MODULE Calls ----------------------------------
(***************************************************************************)
(* Procedure calls of the runtime: apply, values, call-with-values, the    *)
(* primitive behind call/cc and the continuations they make, called with   *)
(* vectors of arguments (av[1] the procedure, av[2] its continuation) on a *)
(* stack that is never returned to and is collected when it is full.       *)
(*                                                                         *)
(* Every procedure of Scheme is an object [proc, items, prog]: C code and  *)
(* the slots of the closure; prog is what compiled code still has to do.   *)
(***************************************************************************)
EXTENDS Integers, Sequences, FiniteSets, SequencesExt

CONSTANTS
    Threads,
    StackWords,         \* words of an empty nursery
    Signals             \* whether signals of the system arrive, at any time
ASSUME CallsAssumption == StackWords \in Nat /\ Signals \in BOOLEAN

VARIABLES
    call,               \* of each thread, the vector of arguments of its next call
    result,             \* of each thread, what it has come to
    current,
    free,               \* words left on the stack
    faked,              \* C_stack_limit says the stack is full
    pending,            \* pending_interrupts_count > 0
    demand              \* stack_check_demand
machineVars == <<free, faked, pending, demand>>
callVars == <<call, result, current, machineVars>>

\* What compiled code does: an expression of the procedures below.  vals are
\* atoms, sub are expressions, k says which of the continuations in scope.
Program(op, vals, sub, k) == [op |-> op, vals |-> vals, sub |-> sub, k |-> k]
NoProgram == Program("none", <<>>, <<>>, 0)
Object(proc, items, prog) == [proc |-> proc, items |-> items, prog |-> prog]
Atom(a) == Object(a, <<>>, NoProgram)
Listed(vals) == Object("list", vals, NoProgram)
Unspecified == Atom("undefined")
Primitive(name) == Object(name, <<>>, NoProgram)
Closures == {"code", "halt", "ignore", "collect", "C_values", "C_apply", "C_apply_values", "C_call_with_values",
             "C_call_cc", "call_cc_wrapper", "call_cc_values_wrapper", "values_continuation"}
IsClosure(x) == x.proc \in Closures

Outcome(kind, vals) == [kind |-> kind, vals |-> vals]
Unfinished == Outcome("unfinished", <<>>)
Overflow == Outcome("stack overflow", <<>>)
Failed == Outcome("error", <<>>)

Running(t) == current = t /\ result[t] = Unfinished
Goto(t, av) == call' = [call EXCEPT ![t] = av] /\ UNCHANGED <<result, current>>
Finish(t, outcome) == result' = [result EXCEPT ![t] = outcome] /\ UNCHANGED <<call, current>>
Use(n) == free' = (IF free > n THEN free - n ELSE 0) /\ UNCHANGED <<faked, pending>>
Demand(n) == ~faked /\ free > n                 \* C_demand

\* C_save_and_reclaim: an interrupt is handled first, which is where the
\* scheduler runs and another thread may go on; otherwise the stack is emptied.
\* The call is made again in the end.
Reclaim(t, wanted) ==
    IF pending
    THEN /\ pending' = FALSE /\ faked' = FALSE /\ demand' = 0
         /\ current' \in {u \in Threads : result[u] = Unfinished} /\ UNCHANGED <<call, result, free>>
    ELSE free' = StackWords /\ demand' = wanted /\ UNCHANGED <<call, result, current, pending, faked>>
\* where a large vector of arguments is built: C_apply and C_apply_values
CheckedStale(t, size, av) ==        \* a mutant: a demand that is met is not forgotten
    \/ Demand(size) /\ Goto(t, av) /\ Use(size) /\ UNCHANGED demand
    \/ ~Demand(size) /\ demand # 0 /\ Finish(t, Overflow) /\ demand' = 0 /\ UNCHANGED <<free, faked, pending>>
    \/ ~Demand(size) /\ demand = 0 /\ Reclaim(t, size)
Checked(t, size, av) ==
    \/ Demand(size) /\ demand' = 0 /\ Goto(t, av) /\ Use(size)
    \/ /\ ~Demand(size) /\ demand # 0 /\ Finish(t, Overflow)
       /\ demand' = 0              \* ##sys#error-hook applies ##sys#signal-hook to the error
       /\ UNCHANGED <<free, faked, pending>>
    \/ ~Demand(size) /\ demand = 0 /\ Reclaim(t, size)

-----------------------------------------------------------------------------
\* The primitives.  av is the vector of arguments of the running thread.
At(t, name) == Running(t) /\ call[t][1].proc = name
Kontinue(t, k, x) == Goto(t, <<k, x>>)
ReceivesMany(k) == k.proc = "values_continuation"

Apply(t) ==
    /\ At(t, "C_apply")
    /\ LET av == call[t]
           lst == Last(av)
       IN  IF ~IsClosure(av[3]) \/ lst.proc # "list"
           THEN Finish(t, Failed) /\ UNCHANGED machineVars
           ELSE LET av2 == <<av[3], av[2]>> \o SubSeq(av, 4, Len(av) - 1) \o lst.items
                IN  Checked(t, Len(av2), av2)

First(vals) == IF vals = <<>> THEN Unspecified ELSE vals[1]
Values(t) ==
    /\ At(t, "C_values")
    /\ LET k == call[t][2]
           vals == SubSeq(call[t], 3, Len(call[t]))
       IN  IF ReceivesMany(k) THEN Goto(t, <<k>> \o vals) ELSE Kontinue(t, k, First(vals))
    /\ UNCHANGED demand /\ Use(2)

ApplyValues(t) ==
    /\ At(t, "C_apply_values")
    /\ LET k == call[t][2]
           vals == call[t][3].items
       IN  IF ReceivesMany(k)
           THEN Checked(t, Len(vals) + 1, <<k>> \o vals)
           ELSE Kontinue(t, k, First(vals)) /\ UNCHANGED demand /\ Use(2)

CallWithValues(t) ==
    /\ At(t, "C_call_with_values")
    /\ LET k == call[t][2]
           thunk == call[t][3]
           kont == call[t][4]
       IN  IF ~IsClosure(thunk) \/ ~IsClosure(kont)
           THEN Finish(t, Failed)
           ELSE Goto(t, <<thunk, Object("values_continuation", <<kont, k>>, NoProgram)>>)
    /\ UNCHANGED demand /\ Use(4)
ValuesContinuation(t) ==
    /\ At(t, "values_continuation")
    /\ Goto(t, call[t][1].items \o Tail(call[t]))
    /\ UNCHANGED demand /\ Use(Len(call[t]) + 1)

CallCCSingle(t) ==                  \* a mutant: every continuation takes one value
    /\ At(t, "C_call_cc")
    /\ LET k == call[t][2]
       IN  Goto(t, <<call[t][3], k, Object("call_cc_wrapper", <<k>>, NoProgram)>>)
    /\ UNCHANGED demand /\ Use(3)
CallCC(t) ==
    /\ At(t, "C_call_cc")
    /\ LET k == call[t][2]
           receiver == call[t][3]
           wrapper == IF ReceivesMany(k) THEN "call_cc_values_wrapper" ELSE "call_cc_wrapper"
       IN  IF ~IsClosure(receiver) THEN Finish(t, Failed)
           ELSE Goto(t, <<receiver, k, Object(wrapper, <<k>>, NoProgram)>>)
    /\ UNCHANGED demand /\ Use(3)
Wrapper(t) ==
    /\ At(t, "call_cc_wrapper")
    /\ IF Len(call[t]) # 3 THEN Finish(t, Failed) ELSE Kontinue(t, call[t][1].items[1], call[t][3])
    /\ UNCHANGED demand /\ Use(2)
ValuesWrapper(t) ==
    /\ At(t, "call_cc_values_wrapper")
    /\ Goto(t, call[t][1].items \o SubSeq(call[t], 3, Len(call[t])))
    /\ UNCHANGED demand /\ Use(0)

-----------------------------------------------------------------------------
\* Compiled procedures: they check the stack when they are entered.
Compiled == {"code", "halt", "ignore", "collect"}
Entry(t, name) == At(t, name) /\ Demand(Len(call[t])) /\ Use(Len(call[t])) /\ UNCHANGED demand
ReclaimAtEntry(t) ==
    /\ Running(t) /\ call[t][1].proc \in Compiled /\ ~Demand(Len(call[t])) /\ Reclaim(t, demand)
Code(prog, env) == Object("code", env, prog)
\* The arguments of compiled code beyond its continuation extend its environment.
Execute(t) ==
    /\ Entry(t, "code")
    /\ LET k == call[t][2]
           p == call[t][1].prog
           env == call[t][1].items \o SubSeq(call[t], 3, Len(call[t]))
           body == Code(p.sub[1], env)
       IN  Goto(t, CASE p.op = "values" -> <<Primitive("C_values"), k>> \o p.vals
                     [] p.op = "apply" ->    \* the first value apart, the others in a list
                            <<Primitive("C_apply"), k, Primitive("C_values"), p.vals[1], Listed(Tail(p.vals))>>
                     [] p.op = "misapply" -> <<Primitive("C_apply"), k, Primitive("C_values"), p.vals[1]>>
                     [] p.op = "list-values" -> <<Primitive("C_apply_values"), k, Listed(p.vals)>>
                     [] p.op = "call-with-values" ->
                            <<Primitive("C_call_with_values"), k, body, Primitive("collect")>>
                     [] p.op = "call/cc" -> <<Primitive("C_call_cc"), k, body>>
                     [] p.op = "throw" -> <<env[p.k], k>> \o p.vals
                     [] p.op = "begin" -> <<body, Object("ignore", <<k>> \o env, p.sub[2])>>)
Ignore(t) ==
    /\ Entry(t, "ignore")
    /\ LET c == call[t][1] IN Goto(t, <<Code(c.prog, Tail(c.items)), c.items[1]>>)
Collect(t) ==                       \* list
    /\ Entry(t, "collect") /\ Kontinue(t, call[t][2], Listed(SubSeq(call[t], 3, Len(call[t]))))
Halt(t) == Entry(t, "halt") /\ Finish(t, Outcome("values", Tail(call[t])))

Dispatch ==                         \* a thread that has ended leaves the stack to another
    /\ result[current] # Unfinished
    /\ current' \in {u \in Threads : result[u] = Unfinished} /\ UNCHANGED <<call, result, machineVars>>
Interrupt ==            \* by the timer, where compiled code counts and reclaims, or by a signal handler
    /\ ~pending /\ Running(current) /\ (Signals \/ call[current][1].proc \in Compiled)
    /\ pending' = TRUE /\ faked' = TRUE /\ UNCHANGED <<call, result, current, free, demand>>

Primitives(t) ==
    \/ Apply(t) \/ Values(t) \/ ApplyValues(t) \/ CallWithValues(t) \/ ValuesContinuation(t)
    \/ CallCC(t) \/ Wrapper(t) \/ ValuesWrapper(t)
CompiledCode(t) == ReclaimAtEntry(t) \/ Execute(t) \/ Ignore(t) \/ Collect(t) \/ Halt(t)
CallNext == Dispatch \/ Interrupt \/ \E t \in Threads : Primitives(t) \/ CompiledCode(t)
=============================================================================
