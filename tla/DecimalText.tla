---------------------------- MODULE DecimalText ----------------------------
(***************************************************************************)
(* Decimal numbers as texts: the reference the scanners of fltintrn.c and  *)
(* strtod.c are checked against.  A character is a digit 0..9 or one of    *)
(* the classes below.                                                      *)
(***************************************************************************)
EXTENDS Integers, Sequences

Blank == 10
Plus == 11
Minus == 12
Point == 13
Exp == 14
Other == 15
Char == 0..15
IsDigit(ch) == ch \in 0..9

\* A part of a text is given by its first and its last index.
AllDigits(s, i, j) == \A k \in i..j : IsDigit(s[k])

Mantissa(s, i, j) ==
    \/ j >= i /\ AllDigits(s, i, j)
    \/ \E k \in i..j : j > i /\ s[k] = Point /\ AllDigits(s, i, k - 1) /\ AllDigits(s, k + 1, j)

SignWidth(s, i) == IF i <= Len(s) /\ s[i] \in {Plus, Minus} THEN 1 ELSE 0

Exponent(s, i, j) ==
    /\ j > i /\ s[i] = Exp
    /\ j > i + SignWidth(s, i + 1) /\ AllDigits(s, i + 1 + SignWidth(s, i + 1), j)

AfterBlanks(s) == CHOOSE i \in 1..Len(s) + 1 :
    /\ \A k \in 1..i - 1 : s[k] = Blank
    /\ i <= Len(s) => s[i] # Blank
Start(s) == AfterBlanks(s) + SignWidth(s, AfterBlanks(s))

\* Where a mantissa, and a whole number, may end; the longest is the one meant.
MantissaEnds(s) == {j \in Start(s)..Len(s) : Mantissa(s, Start(s), j)}
NumberEnds(s) == MantissaEnds(s) \cup
    {j \in Start(s)..Len(s) : \E k \in MantissaEnds(s) : Exponent(s, k + 1, j)}
IsNumber(s) == NumberEnds(s) # {}
Longest(ends) == CHOOSE j \in ends : \A k \in ends : k <= j

\* The powers of ten.
Ten[n \in Nat] == IF n = 0 THEN 1 ELSE 10 * Ten[n - 1]

\* Its value is (-1)^sign * digits * 10^exponent.
Spelled(s, i, j) ==
    LET n[k \in i - 1..j] == IF k < i THEN 0
                             ELSE IF IsDigit(s[k]) THEN 10 * n[k - 1] + s[k] ELSE n[k - 1]
    IN  n[j]
MantissaEnd(s) == Longest(MantissaEnds(s))
HasExponent(s) == Longest(NumberEnds(s)) > MantissaEnd(s)
ExponentField(s) ==
    IF ~HasExponent(s) THEN 0
    ELSE LET i == MantissaEnd(s) + 2
             n == Spelled(s, i, Longest(NumberEnds(s)))
         IN  IF s[i] = Minus THEN -n ELSE n
FractionDigits(s) ==
    LET points == {k \in Start(s)..MantissaEnd(s) : s[k] = Point} IN
    IF points = {} THEN 0 ELSE MantissaEnd(s) - CHOOSE k \in points : TRUE
ValueSign(s) == IF Start(s) > 1 /\ s[Start(s) - 1] = Minus THEN 1 ELSE 0
ValueDigits(s) == Spelled(s, Start(s), MantissaEnd(s))
ValueExponent(s) == ExponentField(s) - FractionDigits(s)
\* Digits from the first that is not zero.
SignificantDigits(s) ==
    LET first == {k \in Start(s)..MantissaEnd(s) : s[k] \in 1..9} IN
    IF first = {} THEN 0
    ELSE LET f == CHOOSE k \in first : \A m \in first : k <= m IN
         MantissaEnd(s) - f + 1 - (IF \E k \in f..MantissaEnd(s) : s[k] = Point THEN 1 ELSE 0)
=============================================================================
