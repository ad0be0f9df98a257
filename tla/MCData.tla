-------------------------------- MODULE MCData --------------------------------
(***************************************************************************)
(* Small instances of the five models of data: strings, number vectors and *)
(* locatives, lists, symbols, and the literals of compiled code.  They     *)
(* share nothing; a behaviour is one of one of them, the part, while the   *)
(* others stand still.                                                     *)
(***************************************************************************)
EXTENDS LiteralSystem, SymbolSystem

\* Strings.  Each table has a letter of one byte and one that grows or shrinks
\* when its case changes, and two codes that are folded to several.
CONSTANTS Lowermap, Uppermap, Fold1, Fold2, Codes, Others, MaxText, RawBytes, MaxRaw, Oddities
VARIABLES s, text, clean, raw
stringVars == <<s, text, clean, raw>>
S == INSTANCE StringSystem

SmallLowermap == (65 :> 97) @@ (570 :> 11365)
SmallUppermap == (97 :> 65) @@ (575 :> 11390)
SmallFold1 == (65 :> 97) @@ (570 :> 11365)
SmallFold2 == (912 :> <<953, 776, 769>>) @@ (223 :> <<115, 115>>)
Stray(byte) == 56320 + byte         \* a byte that is no UTF-8 stands for itself
SomeCodes == {65, 128512}
SomeTexts == {<<>>, <<912, Stray(159)>>, <<953, 776, 769>>, <<575, 570>>,
              <<223, Stray(195)>>}

-----------------------------------------------------------------------------
\* Vectors, of bytes of two bits.
CONSTANTS ByteBits, Floating, Bytes, Numbers, Addresses, MaxWrites
VARIABLES buffer, slots, where, loc, aim, writes
vectorVars == <<buffer, slots, where, loc, aim, writes>>
V == INSTANCE VectorSystem

NineBytes == <<1, 2, 3, 0, 3, 1, 0, 2, 1>>
Edges == UNION {{2 ^ b, 2 ^ b - 1, -(2 ^ b), -(2 ^ b) - 1} : b \in {1, 2, 3, 4, 7, 8, 14, 15, 16}}
EdgeNumbers == Edges \cup {0, Floating}

-----------------------------------------------------------------------------
\* Lists, of three pairs and two flonums.
CONSTANTS Nil, F1, F2, P1, P2, P3, Keyword, Flonums, Pairs
VARIABLE heap
L == INSTANCE ListSystem
Symmetry == Permutations(Pairs)

-----------------------------------------------------------------------------
\* Symbols, whose names are all in one chain.
OneChain == [n \in Names |-> 1]

-----------------------------------------------------------------------------
\* Literals.  With sizes to base 2 a block of eight slots is already too large.
Ratnum == Block("ratnum", <<Leaf("fixnum", <<-5>>), Leaf("fixnum", <<3>>)>>)
SmallAtoms ==
    {Leaf("fixnum", <<n>>) : n \in {-8, -5, -4, 3, 300}}
        \cup {Leaf("integer", <<-70000>>), Leaf("flonum", <<46>>)}
        \cup {Leaf("boolean", <<0>>), Leaf("boolean", <<1>>), Leaf("char", <<7>>), Leaf("char", <<8>>)}
        \cup {Leaf("null", <<>>), Leaf("eof", <<>>), Leaf("void", <<>>)}
        \cup {Leaf("symbol", <<>>), Leaf("symbol", <<2>>), Leaf("keyword", <<1, 1>>)}
        \cup {Leaf("string", <<>>), Leaf("string", <<0, 254>>), Leaf("bytevector", <<>>)}
        \cup {Leaf("bytevector", <<255, 6, 1>>), Leaf("lambdainfo", <<40, 41>>)}
        \cup {Ratnum, Block("cplxnum", <<Leaf("fixnum", <<300>>), Ratnum>>)}
SmallFillers == {Leaf("symbol", <<2>>), Leaf("fixnum", <<-5>>), Leaf("string", <<0, 254>>)}

-----------------------------------------------------------------------------
CONSTANT Parts
VARIABLE part
dataVars == <<stringVars, vectorVars, heap, symbolVars, literalVars, part>>

DataInit ==
    /\ part \in Parts
    /\ S!StringInit /\ V!VectorInit /\ L!ListInit /\ SymbolSystemInit /\ LiteralInit
    /\ part # "literals" => literal = Leaf("null", <<>>)

StringStep == part = "strings" /\ S!StringNext /\ UNCHANGED <<vectorVars, heap, symbolVars, literalVars, part>>
VectorStep == part = "vectors" /\ V!VectorNext /\ UNCHANGED <<stringVars, heap, symbolVars, literalVars, part>>
ListStep == part = "lists" /\ L!ListNext /\ UNCHANGED <<stringVars, vectorVars, symbolVars, literalVars, part>>
SymbolStep == part = "symbols" /\ MeaningNext /\ UNCHANGED <<stringVars, vectorVars, heap, literalVars, part>>
LiteralStep == part = "literals" /\ LiteralNext /\ UNCHANGED <<stringVars, vectorVars, heap, symbolVars, part>>
Steps == StringStep \/ VectorStep \/ ListStep \/ SymbolStep \/ LiteralStep

\* Any state can be the one the program stops in: what it would see there is
\* asked then.
Stop == part # "none" /\ part' = "none" /\ UNCHANGED <<stringVars, vectorVars, heap, symbolVars, literalVars>>
DataNext == Steps \/ Stop
DataSpec == DataInit /\ [][DataNext]_dataVars

-----------------------------------------------------------------------------
\* A string holds the characters the program has put into it, knows how many,
\* and finds each of them wherever the last lookup was; what changes its case
\* has room for it (utf.c, and the string procedures of library.scm).
StringsHoldText == [][Stop /\ part = "strings" => S!TextKept /\ S!QueriesRight /\ S!CaseFits]_dataVars

\* Strings are ordered as their codes are, and without case as their foldings;
\* and on any bytes the counters of utf.c agree with its decoder, which loses
\* nothing.
TextIsUnderstood == [][Stop /\ part = "strings" => S!ComparisonsRight /\ S!CountersAgree]_dataVars

\* A store into a vector of numbers succeeds exactly for an index and a number
\* that fit, and changes that element only (srfi-4.scm, runtime.c); a locative
\* reads and writes the element it was made for, wherever the collector has put
\* the object, or says that the object is gone.
VectorsAreExact == [][Stop /\ part = "vectors" => V!StoresExactly /\ V!LocativesAgree]_dataVars

\* list?, length, list-tail, equal?, memq, assq, their kin and get-keyword say
\* of any graph of pairs what it is, and return unless it is circular; only
\* get-keyword does not of some lists that end in an atom on the heap, either.
ListsAreKnown ==
    [][Stop /\ part = "lists" =>
           L!ListsAreMeasured /\ L!EqualIsSound /\ L!FoundFirst /\ L!KeywordsFound]_dataVars

\* A constant is, when the unit runs, what it was when the unit was compiled,
\* and takes no more words than were reserved for it, and one for every ratnum
\* and cplxnum in it, which literal-size forgets (c-backend.scm, decode_literal).
ConstantsSurvive == [][Stop /\ part = "literals" => LiteralsSurvive]_dataVars
=============================================================================
