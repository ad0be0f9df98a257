----------------------------- MODULE LiteralSystem -----------------------------
(***************************************************************************)
(* The constants a program can hold: atoms, and the pairs, vectors and     *)
(* records that the reader builds of them step by step.                    *)
(***************************************************************************)
EXTENDS Literals, TLC

CONSTANTS Atoms,                \* immediates, byteblocks and numbers
          Fillers,              \* those that stand beside a smaller literal in a block
          Sizes, MaxObjects     \* slots of a block, objects of a literal
VARIABLES literal, objects
literalVars == <<literal, objects>>

LiteralInit == literal \in Atoms /\ objects = 1
Block(kind, parts) == [kind |-> kind, n |-> <<>>, parts |-> parts]
MakePair ==
    \E a \in Fillers :
        literal' \in {Block("pair", <<a, literal>>), Block("pair", <<literal, a>>), Block("pair", <<literal, literal>>)}
MakeVector ==
    \E size \in Sizes, a \in Fillers : \E at \in {0, 1, size} :
        literal' = Block("vector", [i \in 1 .. size |-> IF i = at THEN literal ELSE a])
MakeRecord ==
    \E a \in Fillers, size \in Sizes :
        literal' = Block("structure", <<a>> \o [i \in 1 .. size |-> literal])
LiteralNext ==
    /\ objects < MaxObjects /\ objects' = objects + 1
    /\ MakePair \/ MakeVector \/ MakeRecord

-----------------------------------------------------------------------------
\* The numbers in a literal whose header literal-size does not count.
RECURSIVE Uncounted(_)
Uncounted(lit) ==
    FoldLeft(LAMBDA n, part : n + Uncounted(part), IF lit.kind \in Fractions THEN 1 ELSE 0, lit.parts)

\* A constant of the program is, when the unit runs, what it was when the unit
\* was compiled, or the compiler has refused it; its words are among those
\* reserved for it, but for one of every ratnum and every cplxnum in it.  Only a
\* symbol of its own is never written this way.
LiteralsSurvive ==
    LET code == Encode(literal)
        d == Decode(code)
    IN  IF literal.kind \in {"symbol", "keyword"} THEN code # Refused => d.object = Panic
        ELSE code # Refused => /\ d.object = literal
                               /\ d.pos = Len(code) + 1
                               /\ d.words <= LiteralSize(literal) + Uncounted(literal)
=============================================================================
