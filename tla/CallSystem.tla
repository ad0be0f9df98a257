------------------------------- MODULE CallSystem -------------------------------
(***************************************************************************)
(* Programs for Calls, and what an expression of them means.               *)
(***************************************************************************)
EXTENDS Calls

CONSTANTS
    Names,              \* of atoms
    Nesting,            \* how deep expressions are nested
    Expressions         \* by how deep they are nested and how many continuations are in scope

VARIABLE programs       \* of each thread
systemVars == <<callVars, programs>>

Levels == 0 .. Nesting
Scopes(n) == 0 .. Nesting - n         \* every call/cc adds one continuation to the scope
Vectors == Seq({Atom(a) : a \in Names})

\* The expressions there are: those that call procedures with atoms, and those
\* that consist of one or two expressions of a level less.
IsCall(p, scope) ==
    /\ p.vals \in Vectors
    /\ \/ p.op \in {"values", "list-values"}
       \/ p.op \in {"apply", "misapply"} /\ p.vals # <<>>
       \/ p.op = "throw" /\ p.k \in 1 .. scope
IsNested(p, below, belowCC) ==
    \/ p.op = "call-with-values" /\ p.sub \in [1 .. 1 -> below]
    \/ p.op = "call/cc" /\ p.sub \in [1 .. 1 -> belowCC]
    \/ p.op = "begin" /\ p.sub \in [1 .. 2 -> below]

ASSUME NamesAssumption == Names \cap (Closures \cup {"list"}) = {}
ASSUME NestingAssumption == Nesting \in Nat
ASSUME ExpressionsAssumption ==
    \A n \in Levels : \A scope \in Scopes(n) : \A p \in Expressions[n][scope] :
        \/ IsCall(p, scope) /\ p.sub = <<>>
        \/ n > 0 /\ IsNested(p, Expressions[n - 1][scope], Expressions[n - 1][scope + 1])

Start ==
    /\ call = [t \in Threads |-> <<Code(programs[t], <<>>), Primitive("halt")>>]
    /\ result = [t \in Threads |-> Unfinished]
    /\ current \in Threads /\ free = StackWords /\ faked = FALSE /\ pending = FALSE /\ demand = 0
CallInit == programs \in [Threads -> Expressions[Nesting][0]] /\ Start
CallSpec == CallInit /\ [][CallNext /\ UNCHANGED programs]_systemVars

-----------------------------------------------------------------------------
Programs == UNION { UNION { Expressions[n][scope] : scope \in Scopes(n) } : n \in Levels }

\* What a program comes to: it returns (to = 0), fails (to = -1), or leaves for
\* the to-th of the continuations it has captured, whose kinds are many.
Comes(to, vals) == [to |-> to, vals |-> vals]
Returned(vals, manyWanted) == IF manyWanted THEN vals ELSE <<First(vals)>>
ComesBack(vals, manyWanted) == Comes(0, Returned(vals, manyWanted))
Error == Comes(-1, <<>>)
MeaningOf(p, meaning) ==
    [manyWanted \in BOOLEAN |-> [many \in Seq(BOOLEAN) |->
        CASE p.op \in {"values", "list-values", "apply"} -> ComesBack(p.vals, manyWanted)
          [] p.op = "misapply" -> Error
          [] p.op = "throw" -> IF many[p.k] \/ Len(p.vals) = 1 THEN Comes(p.k, p.vals) ELSE Error
          [] p.op = "call-with-values" ->
                 LET r == meaning[p.sub[1]][TRUE][many]
                 IN  IF r.to = 0 THEN ComesBack(<<Listed(r.vals)>>, manyWanted) ELSE r
          [] p.op = "call/cc" ->
                 LET r == meaning[p.sub[1]][manyWanted][Append(many, manyWanted)]
                 IN  IF r.to = Len(many) + 1 THEN Comes(0, r.vals) ELSE r
          [] p.op = "begin" ->
                 LET r == meaning[p.sub[1]][FALSE][many]
                 IN  IF r.to = 0 THEN meaning[p.sub[2]][manyWanted][many] ELSE r]]
Meaning[p \in Programs] == MeaningOf(p, Meaning)

\* The arguments, the procedure and its continuation, that the calls of C_apply
\* and C_apply_values in a program make vectors of.
Asked(p) ==
    CASE p.op = "apply" -> {2 + Len(p.vals)}
      [] p.op = "list-values" -> {1 + Len(p.vals)}
      [] OTHER -> {}
SizesOf(p, sizes) == Asked(p) \cup UNION {sizes[p.sub[i]] : i \in DOMAIN p.sub}
Sizes[p \in Programs] == SizesOf(p, Sizes)

-----------------------------------------------------------------------------
\* A program of apply, values, call-with-values and call/cc comes to what its
\* expressions mean, whatever is collected and whichever threads run in between.
MeaningKept ==
    \A t \in Threads :
        result[t] \notin {Unfinished, Overflow} =>
            LET r == Meaning[programs[t]][FALSE][<<>>]
            IN  result[t] = IF r.to = -1 THEN Failed ELSE Outcome("values", r.vals)

\* A call has too many arguments only when an empty stack has no room for them.
OverflowIsReal ==
    \A t \in Threads : result[t] = Overflow => \E n \in Sizes[programs[t]] : n >= StackWords
=============================================================================
