------------------------------ MODULE MCFltIn ------------------------------
(* Small instance: a USHORT of 3 bits, so a mantissa of 15; a double of 12    *)
(* bits with 8 bits of precision; mantissas of 3 digits, exponents up to 10.  *)
EXTENDS FltIn, KStrToD, TLC
CONSTANTS t1, t2

Joined(heads, middles, tails) == {h \o m \o e : h \in heads, m \in middles, e \in tails}
UpTo(chars, n) == UNION {[1..k -> chars] : k \in 0..n}

\* The grammar: every short mantissa with every kind of sign and exponent.
Heads == {<<>>, <<Blank>>, <<Minus>>, <<Blank, Plus>>}
Tails == {<<>>, <<Other>>, <<Exp>>, <<Exp, Minus>>, <<Exp, 5>>, <<Exp, Plus, 0, 1>>,
          <<Exp, 0, 2>>, <<Exp, Minus, 0>>, <<Exp, Minus, 9, 9>>, <<Exp, Minus, 2>>, <<Exp, 9, 9, 9>>, <<Exp, Exp>>, <<Point>>}
GrammarTexts == Joined(Heads, UpTo({0, 6, Point}, 3), Tails)

\* The arithmetic: mantissas of three digits, from below the least double to above the largest.
Mantissas == {<<a, b, d>> : a \in {1, 2, 5, 7, 9}, b \in 0..9, d \in {0, 3}}
Powers == {<<>>, <<Exp, 1>>, <<Exp, 8>>, <<Exp, 1, 0>>, <<Exp, Minus, 1, 0>>}
          \cup {<<Exp, Minus, k>> : k \in 1..9}
NumberTexts == Joined({<<>>}, Mantissas, Powers)

\* Mantissas longer than the buffers, some with zeros in front, with a point at any place.
LongTexts == {SubSeq(m, 1, k) \o <<Point>> \o SubSeq(m, k + 1, 5) :
                  k \in 0..5, m \in {<<z, 0, a, b, 5>> : z \in {0, 6}, a \in {0, 4, 9}, b \in {0, 4, 9}}}

\* Exponents at the ends of an int of kstrtod, from which the point and the digits left
\* out take them over the end.
LimitTexts == Joined({<<>>, <<Minus>>},
                     {<<6>>, <<0>>, <<0, Point, 6>>, <<Point, 0, 6>>, <<6, 6, 6, 6, 6>>},
                     {<<Exp>> \o pm \o <<2, 5, d>> : pm \in {<<>>, <<Minus>>}, d \in 3..7})

\* Two callers at once.
ShortTexts == {<<6>>, <<0, Point, 1>>, <<9, 9, 9, 9>>, <<1, 0, 0>>, <<Other>>}

MCTexts == {t1 :> s : s \in GrammarTexts \cup NumberTexts \cup LongTexts \cup LimitTexts}
           \cup {t1 :> s @@ t2 :> r : s \in ShortTexts, r \in ShortTexts}

\* kstrtod, a function of the string alone, reads the same strings: it takes the number a
\* string starts with, and its exponent up to the ends of an int (strtod.c:20-246).
StrToDReadsNumber ==
    (\A t \in Threads : state[t] = "idle") => \A t \in DOMAIN text : ReadsNumber(text[t])
=============================================================================
