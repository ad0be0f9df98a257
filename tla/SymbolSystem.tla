----------------------------- MODULE SymbolSystem -----------------------------
(***************************************************************************)
(* The symbol tables with the program's view of them: what each name is    *)
(* bound to, and which of the symbols it holds were interned.              *)
(***************************************************************************)
EXTENDS SymbolTable

VARIABLES
    bound,      \* names the program has set a variable of
    given,      \* and names it has given properties: name and property
    interned    \* for each symbol it got by its name: the kind of table

MeaningInit == bound = {} /\ given = {} /\ interned = [id \in Ids |-> "none"]
SymbolSystemInit == SymbolInit /\ MeaningInit
symbolVars == <<table, symbol, refs, literals, young, bound, given, interned>>

\* The program's view follows what the step did to the symbols it refers to.
Interned(id) == interned[id] = "symbol"
Meant(id) == symbol[id].name
MeaningNext ==
    \/ \E t \in Tables, name \in Names :
           /\ Room
           /\ Intern(t, name) \/ HIntern(t, name) \/ Find(t, name)
           /\ interned' = [id \in Ids |-> IF id \in (refs' \cup literals') \ (refs \cup literals) THEN t ELSE interned[id]]
           /\ UNCHANGED <<bound, given>>
    \/ \E name \in Names : MakeSymbol(name) /\ UNCHANGED <<bound, given>>
           /\ interned' = [id \in Ids |-> IF id \in refs' \ refs THEN "none" ELSE interned[id]]
    \/ \E id \in refs :
           /\ \/ Forget(id) /\ UNCHANGED <<bound, given>>
              \/ /\ Mutable(id) /\ SetGlobal(id)
                 /\ bound' = bound \cup (IF Interned(id) THEN {Meant(id)} ELSE {}) /\ UNCHANGED given
              \/ \E p \in Props :
                     /\ Mutable(id) /\ PutProp(id, p)
                     /\ given' = given \cup (IF Interned(id) THEN {<<Meant(id), p>>} ELSE {}) /\ UNCHANGED bound
              \/ \E p \in Props :
                     /\ Mutable(id) /\ RemProp(id, p)
                     /\ given' = given \ (IF Interned(id) THEN {<<Meant(id), p>>} ELSE {}) /\ UNCHANGED bound
              \/ \E ps \in {<<>>} \cup {<<p>> : p \in Props} :
                     /\ Mutable(id) /\ SetPlist(id, ps)
                     /\ given' = IF Interned(id)
                                 THEN {g \in given : g[1] # Meant(id)} \cup {<<Meant(id), p>> : p \in ToSet(ps)}
                                 ELSE given
                     /\ UNCHANGED bound
           /\ interned' = [i \in Ids |-> IF i \in refs' \cup literals THEN interned[i] ELSE "none"]
    \/ /\ TableLoad \/ Collect(TRUE) \/ Collect(FALSE)
       /\ UNCHANGED <<bound, given, interned>>
SymbolSpec == SymbolSystemInit /\ [][MeaningNext]_symbolVars

-----------------------------------------------------------------------------
\* A variable keeps its value and a symbol its properties, though the program
\* has let go of the symbol and the collector has run: who interns the name
\* again finds them.
Remembers(name) ==
    LET id == Lookup("symbol", name).symbol
    IN  IF id = Broken THEN name \notin bound /\ \A p \in Props : <<name, p>> \notin given
        ELSE /\ (symbol[id].value # Unbound) <=> (name \in bound)
             /\ \A p \in Props : GetProp(id, p) <=> <<name, p>> \in given
NothingForgotten == \A name \in Names : Remembers(name)

\* There is one symbol of a name: what the program has got by interning the
\* name is what it gets by interning it again, and no chain has two.
OneSymbolPerName ==
    /\ \A id \in refs \cup literals :
           interned[id] # "none" => Lookup(interned[id], symbol[id].name).symbol = id
    /\ \A t \in Tables, name \in Names : Cardinality(Hits(Chain(t, name), name)) <= 1

\* There is one symbol of a name, and its value and properties are found again
\* though the program has let go of it and the collector has run.
SymbolsPersist == NothingForgotten /\ OneSymbolPerName

\* A symbol that nobody refers to, with neither value nor properties, is gone
\* after a major collection, and broken buckets are the only ones that stay.
GarbageSymbolsGone ==
    Collect(TRUE) => \A id \in Ids :
        (id \notin refs \cup literals /\ ~Persistable(symbol[id]) /\ ~symbol[id].permanent)
            => \A t \in Tables, k \in Keys : \A i \in DOMAIN table'[t][k] : table'[t][k][i].symbol # id
GarbageSymbolsGo == [][GarbageSymbolsGone]_symbolVars
=============================================================================
