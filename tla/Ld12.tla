-------------------------------- MODULE Ld12 --------------------------------
(***************************************************************************)
(* The arithmetic of kcrt/fltintrn.c on its 12-byte long double, and the   *)
(* conversion to double, at a reduced width.                               *)
(*                                                                         *)
(* A USHORT has H bits and a ULONG 2H.  A _ULDBL12 is [sign, exp, man]     *)
(* with a mantissa of 5H bits and the binary point behind its first bit; a *)
(* "12-byte integer" has 6H bits, word by word Lo, Med, Hi.  The width of  *)
(* the exponent is a constant of its own.                                  *)
(***************************************************************************)
EXTENDS Integers, Sequences

CONSTANTS
    H,             \* bits of a USHORT (16 in the code)
    LD_BIAS,       \* exponent bias of the long double (0x3fff)
    LD_MAXEXP,     \* its greatest biased exponent (0x7fff)
    precision,     \* bits of the mantissa of the double, the first one too (53)
    exp_width      \* bits of its exponent (11)

B == 2^H
W == B * B

\* (B is positive for every H: said for the provers, which know no law of powers.)
ASSUME WidthAssumption == H \in Nat \ {0} /\ B \in Nat \ {0}

LD_BIASM1 == LD_BIAS - 1

\* The FpFormatDescriptor DoubleFormat.
max_exp == 2^(exp_width - 1)
bias == max_exp - 1
min_exp == -bias

\* How often a C loop goes round: Test(n) is its condition after n turns.
LoopBound == 2 * LD_MAXEXP
Turns(Test(_)) == CHOOSE n \in 0..LoopBound : ~Test(n) /\ \A m \in 0..n - 1 : Test(m)

\* F(x), with x computed once however often F uses it (TLC evaluates a definition by name).
Once(F(_), x) == CHOOSE r \in {F(v) : v \in {x}} : TRUE

-----------------------------------------------------------------------------
(* 12-byte integers *)

Lo(x) == x % W
Med(x) == (x \div W) % W
Hi(x) == x \div (W * W)
Join(lo, med, hi) == lo + W * med + W * W * hi
UShort(x, i) == (x \div B^i) % B

addl(x, y) ==
    LET r == (x + y) % W IN
    [sum |-> r, carry |-> IF r < x \/ r < y THEN 1 ELSE 0]

add_12(x, y) ==
    LET c0 == addl(Lo(x), Lo(y))
        c1 == addl(Med(x), c0.carry)
        c2 == addl(c1.sum, Med(y))
    IN  Join(c0.sum, c2.sum, (Hi(x) + c1.carry + c2.carry + Hi(y)) % W)

\* One shift by one bit; the bit that leaves the integer is lost.
shl_12(x) == (2 * x) % (W * W * W)
\* n of them.
ShlTimes(x, n) == IF n < 6 * H THEN (x % 2^(6 * H - n)) * 2^n ELSE 0
shr_12(x, n) == IF n < 6 * H THEN x \div 2^n ELSE 0

-----------------------------------------------------------------------------
(* _ULDBL12 *)

Zero12 == [sign |-> 0, exp |-> 0, man |-> 0]
Inf12(sign) == [sign |-> sign, exp |-> LD_MAXEXP, man |-> B^5 \div 2]

\* One decimal digit more.
timesTen(x) == shl_12(add_12(shl_12(shl_12(x)), x))
AppendDigit(x, digit) == Once(LAMBDA y : add_12(y, digit), timesTen(x))

\* The integer as a mantissa: shifted, by words and then by bits, until its first bit
\* is set.  It does not end for zero.
mtold12(x) ==
    LET shift == Once(LAMBDA bits : bits + Turns(LAMBDA n : UShort(ShlTimes(x, bits + n), 4) < B \div 2),
                      H * Turns(LAMBDA n : Hi(ShlTimes(x, H * n)) = 0))
    IN  Once(LAMBDA n : [sign |-> 0, exp |-> LD_BIASM1 + 5 * H - n, man |-> ShlTimes(x, n) % B^5], shift)

\* Mutant: the carry of a product is lost.
AddProductNoCarry(t, i, prod) ==
    LET r == addl(t[i] + B * t[i + 1], prod) IN
    [t EXCEPT ![i] = r.sum % B, ![i + 1] = r.sum \div B]

\* Adds one product to the ULONG at USHORT i of the 6 USHORTs of tempman; the
\* carry goes to the USHORT behind.  t[6] is the USHORT behind tempman.
AddProduct(t, i, prod) ==
    LET r == addl(t[i] + B * t[i + 1], prod) IN
    [t EXCEPT ![i] = r.sum % B, ![i + 1] = r.sum \div B, ![i + 2] = (@ + r.carry) % B]

\* The products of the upper half of the long multiplication, column by column.
tempman(x, y) ==
    LET pairs == << <<0, 0>>, <<0, 1>>, <<0, 2>>, <<0, 3>>, <<0, 4>>, <<1, 1>>, <<1, 2>>,
                    <<1, 3>>, <<1, 4>>, <<2, 2>>, <<2, 3>>, <<2, 4>>, <<3, 3>>, <<3, 4>>, <<4, 4>> >>
        after[n \in 0..15] ==
            IF n = 0 THEN [i \in 0..6 |-> 0]
            ELSE Once(LAMBDA t : AddProduct(t, pairs[n][1],
                            UShort(x, pairs[n][2]) * UShort(y, 4 - pairs[n][2] + pairs[n][1])),
                      after[n - 1])
    IN  after[15]

\* tempman shifted until its first bit is set or the exponent has run out; a
\* number that is too small is shifted right, and what falls out is remembered.
Normalize(t, expsum) ==
    LET shiftedLeft(left) == [x |-> ShlTimes(t, left), expn |-> expsum - left]
        shiftedRight(x, right) ==
            LET y == shr_12(x, right)
                sticky == x # ShlTimes(y, right)
            IN  [x |-> IF sticky /\ y % 2 = 0 THEN y + 1 ELSE y, expn |-> 0]
    IN  Once(LAMBDA left : IF expsum > left THEN shiftedLeft(left)
                           ELSE shiftedRight(ShlTimes(t, left), left - expsum + 1),
             Turns(LAMBDA n : expsum - n > 0 /\ Hi(ShlTimes(t, n)) < W \div 2))

\* Rounds to the nearest mantissa of 5H bits, a tie to the even one.
RoundTempman(r) ==
    LET up  == Lo(r.x) % B > B \div 2 \/ Lo(r.x) % (2 * B) = B + B \div 2
        man == r.x \div B
    IN  IF ~up THEN [man |-> man, expn |-> r.expn]
        ELSE IF man = B^5 - 1 THEN [man |-> B^5 \div 2, expn |-> r.expn + 1]
        ELSE [man |-> man + 1, expn |-> r.expn]

Join6(t) == t[0] + B * t[1] + W * (t[2] + B * t[3]) + W * W * (t[4] + B * t[5])

ld12mul(px, py) ==
    LET sign == (px.sign + py.sign) % 2
        \* A denormal has been shifted right once.
        denormals == (IF px.exp = 0 THEN 1 ELSE 0) + (IF py.exp = 0 THEN 1 ELSE 0)
        expsum == px.exp + py.exp + denormals - LD_BIASM1
        product(t) == Once(RoundTempman, Once(LAMBDA x : Normalize(x, expsum), Join6(t)))
        packed(r) == IF r.expn >= LD_MAXEXP THEN Inf12(sign)
                     ELSE [sign |-> sign, exp |-> r.expn, man |-> r.man]
    IN  IF \/ LD_MAXEXP \in {px.exp, py.exp}
           \/ px.exp + py.exp > LD_MAXEXP + LD_BIASM1
        THEN Inf12(sign)
        ELSE IF px.exp + py.exp <= LD_BIASM1 - (4 * H - 1) THEN Zero12
        ELSE IF px.exp = 0 /\ px.man = 0 THEN Zero12
        ELSE IF py.exp = 0 /\ py.man = 0 THEN Zero12
        ELSE Once(packed, Once(product, tempman(px.man, py.man)))

-----------------------------------------------------------------------------
(* Powers of ten *)

\* 10^n, n # 0, to 5H bits.  The remainder of the long division gives one bit
\* of the quotient after the other, for the negative powers.
Pow10Exact(n) ==
    LET d == 10^(IF n < 0 THEN -n ELSE n)
        e == CHOOSE k \in 0..31 : d \div 2^k = 1
        drop == IF e < 5 * H THEN 0 ELSE e - 5 * H + 1
        whole == IF drop = 0 THEN d * 2^(5 * H - 1 - e) ELSE (d + 2^(drop - 1)) \div 2^drop
        bit[k \in 0..5 * H - 1] ==
            IF k = 0 THEN [q |-> 1, r |-> 2 * 2^e - d]
            ELSE Once(LAMBDA p : IF 2 * p.r >= d THEN [q |-> 2 * p.q + 1, r |-> 2 * p.r - d]
                                                 ELSE [q |-> 2 * p.q, r |-> 2 * p.r],
                      bit[k - 1])
        part == bit[5 * H - 1]
    IN  IF n > 0 THEN [sign |-> 0, exp |-> LD_BIAS + e, man |-> whole]
        ELSE [sign |-> 0, exp |-> LD_BIAS - e - 1,
              man |-> IF 2 * part.r >= d THEN part.q + 1 ELSE part.q]

\* The tables _pow10pos_my and _pow10neg_my: 10^(last3 * 8^group), stored with
\* MANLO already rounded by the USHORT behind it.
pow10(n) == Once(LAMBDA x : IF x.man % B >= B \div 2 THEN [x EXCEPT !.man = @ + B] ELSE x,
                 Pow10Exact(n))
Pow10Table == {[power |-> n, ld12 |-> pow10(n)] : n \in {i * s : i \in 1..8, s \in {1, -1}}}
Entry(n) == (CHOOSE r \in Pow10Table : r.power = n).ld12

\* Takes back that rounding, in MANLO alone.
Unround(x) ==
    LET manlo(m) == (m \div B) % W IN
    [x EXCEPT !.man = IF @ % B >= B \div 2 THEN @ - B * manlo(@) + B * ((manlo(@) - 1) % W) ELSE @]

\* Without mult12 the USHORT behind the 64 bits of the mantissa is dropped first.
DropXT(x) == [x EXCEPT !.man = @ - (@ % B)]

-----------------------------------------------------------------------------
(* The conversion to double: the mantissa as three ULONGs, first bit first. *)

ManBits == 6 * H
\* The weight of bit nbit, bit 0 being the first.
Bit(nbit) == 2^(ManBits - 1 - nbit)

\* The bits behind nbit are zero; nbit itself is not looked at.
ZeroTail(man, nbit) == man % Bit(nbit) = 0

IncMan(man, nbit) ==
    LET r == man + Bit(nbit) IN
    [man |-> r % 2^ManBits, carry |-> r \div 2^ManBits]

\* The round bit itself stays in the mantissa.
RoundMan(man) ==
    LET rndbit == precision
        r == IF (man \div Bit(rndbit)) % 2 = 1 /\ ~ZeroTail(man, rndbit + 1)
             THEN IncMan(man, precision - 1) ELSE [man |-> man, carry |-> 0]
    IN  [man |-> r.man - (r.man % Bit(rndbit)), carry |-> r.carry]

ShrMan(man, n) == man \div 2^n

\* The double whose first 4H bits are man with sign and exponent put in.
FracBits == 4 * H - 1 - exp_width
Assemble(sign, bexp, man) ==
    LET top == man \div W IN
    [sign |-> sign, frac |-> top % 2^FracBits,
     exp |-> IF bexp % 2 = 0 THEN bexp + top \div 2^FracBits ELSE bexp]

\* What _ld12cvt may return: the double and the status.  For zero it looks at a
\* mantissa nothing has been stored in, so the status may be either.
ld12cvt(x) ==
    LET unbiased == x.exp - LD_BIAS
        saved == x.man * B
        first == RoundMan(saved)
        exponent == unbiased + first.carry
        again == RoundMan(ShrMan(saved, min_exp - exponent))
        Result(bexp, man, status) == {[d |-> Assemble(x.sign, bexp, man), status |-> status]}
    IN  IF x.exp = 0
        THEN Result(0, 0, "OK") \cup Result(0, 0, "UNDERFLOW")
        ELSE IF exponent < min_exp - precision THEN Result(0, 0, "UNDERFLOW")
        ELSE IF exponent <= min_exp
        THEN Result(0, ShrMan(again.man, exp_width + 1), "UNDERFLOW")
        ELSE IF exponent >= max_exp
        THEN Result(max_exp + bias, ShrMan(Bit(0), exp_width), "OVERFLOW")
        ELSE Result(exponent + bias, ShrMan(first.man % Bit(0), exp_width), "OK")
=============================================================================
