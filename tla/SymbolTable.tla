------------------------------ MODULE SymbolTable ------------------------------
(***************************************************************************)
(* The symbol tables of runtime.c.  A bucket holds its symbol weakly until *)
(* the symbol has something to lose: a value, properties, or a place in    *)
(* compiled code.  The collector breaks a weak bucket whose symbol nothing *)
(* else refers to, and whoever walks along the chain next unlinks it.      *)
(***************************************************************************)
EXTENDS Integers, Sequences, FiniteSets, SequencesExt

CONSTANTS
    Names, Hash,            \* hash_string: in which chain a name is
    Unbound, Value, Props,  \* a value of variables, and names of properties
    MaxSymbols              \* bound of the symbols at one time

VARIABLES
    table,      \* of each kind of table: the chains
    symbol,     \* symbol objects by number: name, value, plist, permanent name
    refs,       \* symbols the program refers to
    literals,   \* symbols in literal frames
    young       \* symbols in the nursery

ASSUME SymbolAssumption == MaxSymbols \in Nat /\ Value # Unbound

Tables == {"symbol", "keyword"}
Ids == 1 .. MaxSymbols
Broken == 0                                     \* C_SCHEME_BROKEN_WEAK_PTR
Nobody == [name |-> "", value |-> Unbound, plist |-> <<>>, permanent |-> FALSE, keyword |-> FALSE]
Bucket(id, weak) == [symbol |-> id, weak |-> weak]
Keys == {Hash[n] : n \in Names}
Chain(t, name) == table[t][Hash[name]]

SymbolInit ==
    /\ table = [t \in Tables |-> [k \in Keys |-> <<>>]]
    /\ symbol = [id \in Ids |-> Nobody]
    /\ refs = {} /\ literals = {} /\ young = {}

Buckets == UNION {ToSet(table[t][k]) : t \in Tables, k \in Keys}
Strong == {b.symbol : b \in {c \in Buckets : ~c.weak}}
Known == {b.symbol : b \in Buckets} \ {Broken}
InUse == refs \cup literals \cup Strong         \* what the collector finds alive
Free ==                 \* where the next symbol is made
    LET none == Ids \ (InUse \cup Known) IN {id \in none : \A other \in none : id <= other}

\* lookup: the first bucket with the name; broken ones before it are unlinked.
Hits(chain, name) ==
    {i \in DOMAIN chain : chain[i].symbol # Broken /\ symbol[chain[i].symbol].name = name}
Kept(s, places) ==      \* the elements of s at these places, in their order
    LET kept[n \in 0 .. Len(s)] ==
            IF n = 0 THEN <<>> ELSE IF n \in places THEN Append(kept[n - 1], s[n]) ELSE kept[n - 1]
    IN  kept[Len(s)]
Unbroken(chain) == {i \in DOMAIN chain : chain[i].symbol # Broken}
Tidied(chain) == Kept(chain, Unbroken(chain))
Found(chain, name) ==
    LET at == IF Hits(chain, name) = {} THEN Len(chain) + 1
              ELSE CHOOSE i \in Hits(chain, name) : \A j \in Hits(chain, name) : i <= j
    IN  [symbol |-> IF at > Len(chain) THEN Broken ELSE chain[at].symbol,
         chain |-> Kept(chain, Unbroken(chain) \cup at .. Len(chain))]
Lookup(t, name) == Found(Chain(t, name), name)
Linked(t, name, chain) == [table EXCEPT ![t][Hash[name]] = chain]

\* add_symbol, after a lookup that has left the chain so
Added(t, name, chain, id, permanent) ==
    /\ table' = Linked(t, name, <<Bucket(id, ~permanent)>> \o chain)
    /\ symbol' = [symbol EXCEPT ![id] = [name |-> name, permanent |-> permanent, keyword |-> t = "keyword",
                                         value |-> Unbound, plist |-> <<>>]]

\* C_i_persist_symbol, in every table
PersistedIn(tables, id) ==
    [t \in Tables |-> [k \in Keys |-> [i \in DOMAIN tables[t][k] |->
        IF tables[t][k][i].symbol = id THEN Bucket(id, FALSE) ELSE tables[t][k][i]]]]
Persisted(id) == PersistedIn(table, id)

\* C_i_unpersist_symbol: of what nothing would be lost
Persistable(s) == (s.value # Unbound \/ s.plist # <<>>) /\ ~s.keyword
UnpersistedAlways(id, s) ==     \* a mutant: the value does not count
    IF s.plist # <<>> \/ s.permanent THEN table
    ELSE [t \in Tables |-> [k \in Keys |-> [i \in DOMAIN table[t][k] |->
             IF table[t][k][i].symbol = id THEN Bucket(id, TRUE) ELSE table[t][k][i]]]]
UnpersistedNever(id, s) == table        \* a mutant: what was held strongly stays so
Unpersisted(id, s) ==
    IF Persistable(s) \/ s.permanent THEN table
    ELSE [t \in Tables |-> [k \in Keys |-> [i \in DOMAIN table[t][k] |->
             IF table[t][k][i].symbol = id THEN Bucket(id, TRUE) ELSE table[t][k][i]]]]

-----------------------------------------------------------------------------
\* C_string_to_symbol, C_string_to_keyword, C_intern_in
Intern(t, name) ==
    LET found == Lookup(t, name)
    IN  IF found.symbol # Broken
        THEN /\ table' = Linked(t, name, found.chain) /\ refs' = refs \cup {found.symbol}
             /\ UNCHANGED <<symbol, literals, young>>
        ELSE \E id \in Free :
                 /\ Added(t, name, found.chain, id, FALSE)
                 /\ refs' = refs \cup {id} /\ young' = young \cup {id} /\ UNCHANGED literals

\* C_h_intern, C_h_intern_kw: for a literal frame, with a static name, out of the nursery
HIntern(t, name) ==
    LET found == Lookup(t, name)
        id == found.symbol
    IN  IF id # Broken
        THEN /\ literals' = literals \cup {id}
             /\ symbol' = [symbol EXCEPT ![id].permanent = TRUE]
             /\ table' = IF symbol[id].permanent THEN Linked(t, name, found.chain)
                         ELSE PersistedIn(Linked(t, name, found.chain), id)
             /\ UNCHANGED <<refs, young>>
        ELSE \E new \in Free :
                 /\ Added(t, name, found.chain, new, TRUE)
                 /\ literals' = literals \cup {new} /\ UNCHANGED <<refs, young>>

\* C_find_symbol, C_find_keyword, intern0, C_lookup_symbol: nothing is made
Find(t, name) ==
    LET found == Lookup(t, name)
    IN  /\ table' = Linked(t, name, found.chain)
        /\ refs' = refs \cup ({found.symbol} \ {Broken}) /\ UNCHANGED <<symbol, literals, young>>

\* string->uninterned-symbol, gensym
MakeSymbol(name) ==
    \E id \in Free :
        /\ symbol' = [symbol EXCEPT ![id] = [Nobody EXCEPT !.name = name]]
        /\ refs' = refs \cup {id} /\ young' = young \cup {id} /\ UNCHANGED <<table, literals>>

\* set! of a toplevel variable in interpreted code
SetGlobal(id) ==
    /\ table' = Persisted(id)
    /\ symbol' = [symbol EXCEPT ![id].value = Value]
    /\ UNCHANGED <<refs, literals, young>>

\* put!, get and remprop!
PropAt(id, prop) == {i \in DOMAIN symbol[id].plist : symbol[id].plist[i] = prop}
GetProp(id, prop) == PropAt(id, prop) # {}
PutProp(id, prop) ==
    /\ table' = IF symbol[id].plist = <<>> THEN Persisted(id) ELSE table
    /\ symbol' = IF GetProp(id, prop) THEN symbol
                 ELSE [symbol EXCEPT ![id].plist = <<prop>> \o @]
    /\ UNCHANGED <<refs, literals, young>>
RemProp(id, prop) ==
    LET s == [symbol[id] EXCEPT !.plist = Kept(@, DOMAIN @ \ PropAt(id, prop))]
    IN  /\ symbol' = [symbol EXCEPT ![id] = s]
        /\ table' = IF s.plist = <<>> THEN Unpersisted(id, s) ELSE table
        /\ UNCHANGED <<refs, literals, young>>
\* the setter of symbol-plist
SetPlist(id, plist) ==
    LET s == [symbol[id] EXCEPT !.plist = plist]
    IN  /\ symbol' = [symbol EXCEPT ![id] = s]
        /\ table' = IF plist = <<>> THEN Unpersisted(id, s) ELSE Persisted(id)
        /\ UNCHANGED <<refs, literals, young>>

\* compute_symbol_table_load walks over all chains of the table of symbols.
TableLoad ==
    /\ table' = [table EXCEPT !["symbol"] = [k \in Keys |-> Tidied(@[k])]]
    /\ UNCHANGED <<symbol, refs, literals, young>>

\* update_weak_pairs, for the symbols a collection looks at
BreakWeak(dead) ==
    [t \in Tables |-> [k \in Keys |-> [i \in DOMAIN table[t][k] |->
        IF table[t][k][i].symbol \in dead /\ table[t][k][i].weak THEN Bucket(Broken, TRUE)
        ELSE table[t][k][i]]]]
Collect(major) ==
    LET dead == (IF major THEN Ids ELSE young) \ InUse
    IN  /\ table' = BreakWeak(dead)
        /\ symbol' = [id \in Ids |-> IF id \in dead THEN Nobody ELSE symbol[id]]
        /\ young' = {} /\ UNCHANGED <<refs, literals>>
Forget(id) == refs' = refs \ {id} /\ UNCHANGED <<table, symbol, literals, young>>

Mutable(id) == ~symbol[id].keyword              \* ##sys#check-symbol
Room == \A t \in Tables, k \in Keys : Len(table[t][k]) <= MaxSymbols
=============================================================================
