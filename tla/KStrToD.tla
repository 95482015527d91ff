------------------------------ MODULE KStrToD ------------------------------
(***************************************************************************)
(* kstrtod of kcrt/strtod.c as a function of the string: what it stores in *)
(* *_EndPtr, whether it stores ERANGE in errno, and the fraction and the   *)
(* decimal exponent its double arithmetic puts together.  Here Exp stands  *)
(* for E and e.                                                            *)
(***************************************************************************)
EXTENDS DecimalText, FiniteSets

CONSTANTS
    HALF,             \* digits collected in one int (9)
    INT_BITS,         \* bits of an int (32)
    maxExponent,      \* greatest decimal exponent used (511)
    POWERS,           \* entries of powersOf10 (9)
    DBL_MAX_10_EXP    \* greatest power of ten that is a double (308)

IntMax == 2^(INT_BITS - 1) - 1
ASSUME HalfAssumption == HALF \in Nat \ {0} /\ 10^HALF - 1 <= IntMax

Wrap(n) == ((n + IntMax + 1) % 2^INT_BITS) - (IntMax + 1)

\* The string ends with a character that is no part of a number.
At(s, i) == IF i <= Len(s) THEN s[i] ELSE Other
\* The first index from i on that is not one of the characters.
Skip(s, i, chars) == CHOOSE j \in i..Len(s) + 1 :
    At(s, j) \notin chars /\ \A k \in i..j - 1 : At(s, k) \in chars
SkipSign(s, i) == IF At(s, i) \in {Minus, Plus} THEN i + 1 ELSE i

Mantissa0(s) == SkipSign(s, Skip(s, 1, {Blank}))
\* Digits with one point among them; a second point ends them.
pExp(s) ==
    LET point == Skip(s, Mantissa0(s), 0..9) IN
    IF At(s, point) = Point THEN Skip(s, point + 1, 0..9) ELSE point
Digits(s) == SelectSeq(SubSeq(s, Mantissa0(s), pExp(s) - 1), IsDigit)
decPt(s) == Skip(s, Mantissa0(s), 0..9) - Mantissa0(s)

\* Only the first 2 * HALF digits are read, zeros in front included.
mantSize(s) == IF Len(Digits(s)) > 2 * HALF THEN 2 * HALF ELSE Len(Digits(s))

\* Mutant: the digits left out count as read.
fracExpOfAll(s) == decPt(s) - Len(Digits(s))

fracExp(s) == decPt(s) - mantSize(s)

\* An int collects digits; one for the first of them and one for the last HALF.
Collected(ds) == LET n[i \in 0..Len(ds)] == IF i = 0 THEN 0 ELSE 10 * n[i - 1] + ds[i] IN n[Len(ds)]
fraction(s) ==
    LET n == mantSize(s)
        k == IF n > HALF THEN n - HALF ELSE 0
        frac1 == Collected(SubSeq(Digits(s), 1, k))
        frac2 == Collected(SubSeq(Digits(s), k + 1, n))
    IN  10^HALF * frac1 + frac2

\* The exponent field: the letter and the sign are taken also without a digit behind.
ExpDigits(s) == IF At(s, pExp(s)) = Exp THEN SkipSign(s, pExp(s) + 1) ELSE pExp(s)
ExpEnd(s) == IF At(s, pExp(s)) = Exp THEN Skip(s, ExpDigits(s), 0..9) ELSE pExp(s)
expField(s) ==
    LET n[i \in ExpDigits(s) - 1..ExpEnd(s) - 1] ==
            IF i < ExpDigits(s) THEN 0 ELSE Wrap(Wrap(10 * n[i - 1]) + s[i])
    IN  n[ExpEnd(s) - 1]
exp(s) == IF At(s, pExp(s) + 1) = Minus /\ ExpDigits(s) > pExp(s)
          THEN Wrap(fracExp(s) - expField(s)) ELSE Wrap(fracExp(s) + expField(s))
\* exp = -exp: the least int has no opposite and stays negative.
magnitude(n) == IF n < 0 THEN Wrap(-n) ELSE n
clamped(n) == IF n > maxExponent THEN maxExponent ELSE n

\* The loop shifts exp to the right, one entry of powersOf10 for a bit, until it is 0:
\* it leaves the table if the bits outnumber the entries, and a negative exp stays negative.
LeavesTable(n) == n \div 2^POWERS # 0

\* dblExp is infinite from the first power of ten that is no double on.
Product(frac, negative, n) ==
    IF n <= DBL_MAX_10_EXP THEN "finite"
    ELSE IF negative THEN "zero"
    ELSE IF frac = 0 THEN "NaN" ELSE "inf"

\* What is read behind the table is undefined, and *_EndPtr is not stored (here 0).
Scaled(frac, e, n, end) ==
    [fraction |-> frac, exp |-> IF e < 0 THEN -n ELSE n,
     class |-> IF LeavesTable(n) THEN "runaway" ELSE Product(frac, e < 0, n),
     ERANGE |-> magnitude(e) > maxExponent, EndPtr |-> IF LeavesTable(n) THEN 0 ELSE end]
kstrtod(s) ==
    IF mantSize(s) = 0
    THEN [fraction |-> 0, exp |-> 0, class |-> "finite", ERANGE |-> FALSE, EndPtr |-> 1]
    ELSE CHOOSE r \in {Scaled(frac, e, clamped(magnitude(e)), ExpEnd(s)) :
                          frac \in {fraction(s)}, e \in {exp(s)}} : TRUE
sign(s) == IF Mantissa0(s) > 1 /\ s[Mantissa0(s) - 1] = Minus THEN 1 ELSE 0

-----------------------------------------------------------------------------
(* Against the reference *)

MantissaDigits(s) == Cardinality({k \in Start(s)..MantissaEnd(s) : IsDigit(s[k])})
Dropped(s) == IF MantissaDigits(s) > 2 * HALF THEN MantissaDigits(s) - 2 * HALF ELSE 0
DanglingExponent(s) ==
    LET e == Longest(NumberEnds(s)) + 1 IN
    IF ~HasExponent(s) /\ At(s, e) = Exp THEN 1 + SignWidth(s, e + 1) ELSE 0

InInt(n) == n \in -IntMax..IntMax
\* What is used of an exponent: at most maxExponent, up or down.
InBounds(n) == n \in -maxExponent..maxExponent
NearestInBounds(n) == IF InBounds(n) THEN n ELSE IF n < 0 THEN -maxExponent ELSE maxExponent

\* kstrtod takes the longest number the string starts with, and a letter E that no
\* digit follows; its fraction is that number's digits, exactly with up to 2 * HALF of
\* them, else cut off behind those.  While the exponent field, and its sum with the places
\* behind the point and the digits left out, are ints with an opposite, the exponent is the
\* number's and one out of bounds sets ERANGE.  Beyond that ints wrap (strtod.c:184-195), and
\* the loop over powersOf10 leaves the table exactly if the sum wraps to the least int.
ReadsNumber(s) ==
    \A r \in {kstrtod(s)} :
        IF ~IsNumber(s) THEN r.EndPtr = 1 /\ r.fraction = 0 /\ ~r.ERANGE
        ELSE /\ sign(s) = ValueSign(s)
             /\ r.fraction * 10^Dropped(s) <= ValueDigits(s)
             /\ ValueDigits(s) < (r.fraction + 1) * 10^Dropped(s)
             /\ \A exponent \in {ValueExponent(s) + Dropped(s)} :
                  /\ r.class = "runaway" <=> Wrap(exponent) = -IntMax - 1
                  /\ InInt(ExponentField(s)) /\ InInt(exponent) =>
                        /\ r.EndPtr = Longest(NumberEnds(s)) + 1 + DanglingExponent(s)
                        /\ r.exp = NearestInBounds(exponent) /\ r.ERANGE = ~InBounds(exponent)
=============================================================================
