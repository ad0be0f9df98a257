----------------------------- MODULE MCNumbers -----------------------------
(* Operands made of the digits at which a word, a halfdigit or a sign turns. *)
EXTENDS NumberSystem

MCMinExp == -5
MCShifts == {-17, -16, -12, -9, -8, -6, -3, -1, 0, 1, 5, 6, 8, 11}
MCBuilds == {<<6, 9>>, <<8, 5>>}

Corner(w) == IF w = 6 THEN {0, 1, 31, 32, 63} ELSE {0, 127, 255}
Edges(w) == {0, 2^(w \div 2) - 1, 2^w - 1}
Signed2(S) == S \cup {-n : n \in S}
One(w) == 0 .. 2 \cup {5, 7, 2^(w \div 2) - 1, 2^(w \div 2), 2^(w - 2) - 1, 2^(w - 2),
                       2^(w - 1) - 1, 2^(w - 1), 2^w - 1}
Two(w) == {a + b * 2^w : a \in Corner(w), b \in Corner(w) \ {0}}
Three(w) == {a + b * 2^w + c * 4^w : a \in Edges(w), b \in Edges(w), c \in {1, 2^(w - 1), 2^w - 1}}
Four(w) == IF 4 * w > 24 THEN {}
           ELSE {a + b * 2^w + c * 4^w + d * 8^w :
                     a \in {0, 2^w - 1}, b \in Edges(w), c \in {0, 2^w - 1}, d \in {1, 2^w - 1}}
Five(w) == IF 5 * w > 30 THEN {}
           ELSE {a + b * 2^w + c * 4^w + d * 8^w + e * 16^w :
                     a \in {0, 2^w - 1}, b \in {0, 2^w - 1}, c \in {0, 2^w - 1},
                     d \in {2^(w - 1), 2^w - 1}, e \in {1, 7}}
MCShort(w) == Signed2(One(w)) \cup Signed2(Two(w))
MCLong(w) == Signed2(One(w) \cup Two(w)) \cup Three(w) \cup {-n : n \in Three(w)}
                 \cup Four(w) \cup Five(w)
MCRatios(w) == {<<1, 2>>, <<-1, 3>>, <<2, 5>>, <<-2, 5>>, <<7, 3>>, <<5, 4>>,
                <<2^(w - 2) + 1, 2^(w - 2)>>, <<-(2^w - 1), 2^w>>, <<2^w + 1, 6>>,
                <<513, 2>>, <<33, 2>>}
MCDoubles == {<<0, 0>>, <<1, 0>>, <<-1, 0>>, <<1, -1>>, <<-5, -2>>, <<3, 4>>, <<-1, 6>>, <<31, 7>>,
              <<15, -5>>, <<1, -8>>, <<3, -1>>, <<-7, -1>>}
MCChained(w) == {Fix(0), Fix(-1), Fix(2^(w - 2) - 1), Big(FALSE, <<2^w - 1>>), Big(TRUE, <<0, 1>>),
                 Rat(Fix(1), Fix(2)), Flo(1, -1), Flo(-1, 0), Flo(1, w - 2), NaN}
=============================================================================
