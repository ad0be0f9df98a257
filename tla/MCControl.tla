------------------------------ MODULE MCControl ------------------------------
(***************************************************************************)
(* Small instances of the two models of the control of Scheme: calls,      *)
(* values and continuations in runtime.c (Calls), and the dynamic-winds    *)
(* and delimiters that library.scm keeps beside them (DelimitedControl).   *)
(* A behaviour is one of one of them, the part.                            *)
(***************************************************************************)
EXTENDS DelimitedControl, CallSystem

CONSTANTS w1, w2, Parts, Vals, Small
VARIABLE part

SomeVals == {<<>>, <<"a">>, <<"a", "b">>, <<"a", "a", "b", "b">>}
SmallVals == {<<>>, <<"a">>, <<"b", "a">>}

\* Expressions with vectors of vals, and of Small in those they consist of.
Atoms(names) == [i \in DOMAIN names |-> Atom(names[i])]
Leaves(vals, scope) ==
    {Program(op, Atoms(v), <<>>, 0) : op \in {"values", "list-values"}, v \in vals}
        \cup {Program(op, Atoms(v), <<>>, 0) : op \in {"apply", "misapply"}, v \in vals \ {<<>>}}
        \cup {Program("throw", Atoms(v), <<>>, k) : v \in vals, k \in 1 .. scope}
RECURSIVE ProgramsOf(_, _, _)
ProgramsOf(depth, vals, scope) ==
    Leaves(vals, scope) \cup
        IF depth = 0 THEN {}
        ELSE {Program("call-with-values", <<>>, <<p>>, 0) : p \in ProgramsOf(depth - 1, Small, scope)}
               \cup {Program("call/cc", <<>>, <<p>>, 0) : p \in ProgramsOf(depth - 1, Small, scope + 1)}
               \cup {Program("begin", <<>>, <<p, q>>, 0) : p \in ProgramsOf(depth - 1, Small, scope),
                                                           q \in Leaves(Small, scope)}

\* The first thread runs each of the programs, the second one something simple.
Listing == Program("list-values", Atoms(<<"a", "b">>), <<>>, 0)
Beside == {Program("apply", Atoms(<<"a", "b", "a">>), <<>>, 0), Program("values", Atoms(<<"a">>), <<>>, 0),
           Program("call-with-values", <<>>, <<Listing>>, 0)}
SomeExpressions ==
    [n \in 0 .. 2 |-> [scope \in 0 .. 2 - n |->
        ProgramsOf(n, IF n = 2 THEN Vals ELSE Small, scope) \cup (IF n = 2 THEN Beside ELSE {Listing})]]
Pairings == {[t1 |-> p, t2 |-> q] : p \in ProgramsOf(2, Vals, 0), q \in Beside}
ASSUME PairingsAssumption == Pairings \subseteq [Threads -> Expressions[Nesting][0]]

ControlInit ==
    /\ part \in Parts /\ Init
    /\ \/ part = "calls" /\ programs \in Pairings
       \/ part # "calls" /\ programs = [t1 |-> Listing, t2 |-> Listing]
    /\ Start
    /\ part # "calls" => current = "t1"
ControlNext ==
    \/ part = "calls" /\ CallNext /\ UNCHANGED <<vars, programs, part>>
    \/ part = "delimited" /\ Next /\ UNCHANGED <<systemVars, part>>
ControlSpec == ControlInit /\ [][ControlNext]_<<vars, systemVars, part>>

-----------------------------------------------------------------------------
\* FramesOf means what the filter of the library does.
UpTo3(S) == UNION { [1..n -> S] : n \in 0..3 }
ASSUME FramesAssumption ==
    \A p \in UpTo3(Frame \cup {Mark}), frames \in UpTo3(Frame) :
        FramesOf(p, frames) <=> frames = SelectSeq(p, LAMBDA x : x # Mark)
=============================================================================
