------------------------------- MODULE FltIn -------------------------------
(***************************************************************************)
(* _fltin of kcrt/fltintrn.c, called by several threads: the scanner       *)
(* __strgtold12_my, one action per state and character, the rounding of    *)
(* the digits, the arithmetic of Ld12, and the struct the caller reads.    *)
(* Two objects are static, so all calls share them: the digit buffer `buf' *)
(* and the result `ret'.                                                   *)
(*                                                                         *)
(* In a text Exp stands for E, e, D and d, Blank for the white characters. *)
(***************************************************************************)
EXTENDS Ld12, DecimalText

CONSTANTS
    Threads,
    Texts,             \* functions from the threads that call to their strings
    LD_MAX_MAN_LEN,    \* decimal digits of a mantissa (24)
    TMAX10             \* greatest decimal exponent (5200); TMIN10 is -TMAX10

ASSUME DigitsAssumption == LD_MAX_MAN_LEN \in Nat \ {0} /\ TMAX10 \in Nat

\* The digits kept fit into the 12 bytes of man (10^24 < 2^96).
ASSUME DigitsFit == Ten[LD_MAX_MAN_LEN] < W * W * W

ASSUME TextsAssumption == \A text \in Texts :
    /\ DOMAIN text \subseteq Threads
    /\ \A t \in DOMAIN text : text[t] \in Seq(Char)

VARIABLES
    text,        \* what each thread that calls asks to be read
    state,       \* place of each thread
    p,           \* its next character
    manlen,      \* digits it has put into buf
    buf,         \* shared: the digits of the mantissa
    loc,         \* its other local variables
    ret,         \* shared: the struct _fltin returns a pointer to
    got,         \* what the caller has read from there
    overlapped   \* history: threads whose call ran at the same time as another

vars == <<text, state, p, manlen, buf, loc, ret, got, overlapped>>

NoDouble == [sign |-> 0, exp |-> 0, frac |-> 0]
Locals == [savedp |-> 1, found_digit |-> FALSE, man_sign |-> 0, exp_sign |-> 1,
           exp_adj |-> 0, longpow |-> 0, byte |-> 0, nread |-> 0, man |-> 0,
           pow |-> 0, mulpow |-> 0, group |-> 1, ld12 |-> Zero12, flags |-> {}, x |-> NoDouble]

Scanning == {"S_WHITE", "S_INIT", "S_EAT0L", "S_SIGNM", "S_GETL", "S_GETR", "S_POINT", "S_E",
             "S_SIGNE", "S_EAT0E", "S_GETE"}
Computing == {"S_END", "round", "roundup", "strip", "digits", "pow", "multiply", "convert",
              "flags", "nbytes", "dval", "return"}
Active(t) == state[t] \in Scanning \cup Computing

Init ==
    /\ text \in Texts
    /\ state = [t \in Threads |-> "idle"]
    /\ p = [t \in Threads |-> 1]
    /\ manlen = [t \in Threads |-> 0]
    /\ buf = [i \in 0..LD_MAX_MAN_LEN |-> 0]
    /\ loc = [t \in Threads |-> Locals]
    /\ ret = [flags |-> {}, nbytes |-> 0, dval |-> NoDouble]
    /\ got = [t \in Threads |-> ret]
    /\ overlapped = {}

\* The character at p; the string ends with one that is no part of a number.
c(t) == IF p[t] <= Len(text[t]) THEN text[t][p[t]] ELSE Other
IsNzDigit(ch) == ch \in 1..9

Goto(t, s, n) == state' = [state EXCEPT ![t] = s] /\ p' = [p EXCEPT ![t] = n]
\* The character is taken; it stays for the next state (the code's p--).
Take(t, s) == Goto(t, s, p[t] + 1)
Leave(t, s) == Goto(t, s, p[t])
Unscanned == <<text, manlen, buf, ret, got, overlapped>>

Call(t) ==
    /\ state[t] = "idle" /\ t \in DOMAIN text
    /\ Leave(t, "S_WHITE")
    /\ overlapped' = IF \E u \in Threads : Active(u)
                     THEN overlapped \cup {t} \cup {u \in Threads : Active(u)} ELSE overlapped
    /\ UNCHANGED <<text, manlen, buf, loc, ret, got>>

-----------------------------------------------------------------------------
(* __strgtold12_my: the states of the scanner *)

White(t) ==
    /\ state[t] = "S_WHITE"
    /\ \/ c(t) = Blank /\ Take(t, "S_WHITE")
       \/ c(t) # Blank /\ Leave(t, "S_INIT")
    /\ UNCHANGED <<Unscanned, loc>>

S_INIT(t) ==
    /\ state[t] = "S_INIT"
    /\ \/ IsNzDigit(c(t)) /\ Leave(t, "S_GETL") /\ UNCHANGED loc
       \/ c(t) = 0 /\ Take(t, "S_EAT0L") /\ UNCHANGED loc
       \/ /\ c(t) \in {Plus, Minus} /\ Take(t, "S_SIGNM")
          /\ loc' = [loc EXCEPT ![t].man_sign = IF c(t) = Minus THEN 1 ELSE 0]
       \/ c(t) = Point /\ Take(t, "S_POINT") /\ UNCHANGED loc
       \/ c(t) \in {Blank, Exp, Other} /\ Leave(t, "S_END") /\ UNCHANGED loc
    /\ UNCHANGED Unscanned

\* Mutant: zeros in front of the mantissa are stored.
S_EAT0LStores(t) ==
    /\ state[t] = "S_EAT0L"
    /\ loc' = [loc EXCEPT ![t].found_digit = TRUE]
    /\ \/ IsDigit(c(t)) /\ Leave(t, "S_GETL")
       \/ c(t) = Exp /\ Take(t, "S_E")
       \/ c(t) = Point /\ Take(t, "S_GETR")
       \/ c(t) \in {Blank, Plus, Minus, Other} /\ Leave(t, "S_END")
    /\ UNCHANGED Unscanned

S_EAT0L(t) ==
    /\ state[t] = "S_EAT0L"
    /\ loc' = [loc EXCEPT ![t].found_digit = TRUE]
    /\ \/ IsNzDigit(c(t)) /\ Leave(t, "S_GETL")
       \/ c(t) = 0 /\ Take(t, "S_EAT0L")
       \/ c(t) = Exp /\ Take(t, "S_E")
       \/ c(t) = Point /\ Take(t, "S_GETR")
       \/ c(t) \in {Blank, Plus, Minus, Other} /\ Leave(t, "S_END")
    /\ UNCHANGED Unscanned

\* Without a number the scan goes back to the start of the string.
S_SIGNM(t) ==
    /\ state[t] = "S_SIGNM"
    /\ \/ IsNzDigit(c(t)) /\ Leave(t, "S_GETL")
       \/ c(t) = 0 /\ Take(t, "S_EAT0L")
       \/ c(t) = Point /\ Take(t, "S_POINT")
       \/ c(t) \in {Blank, Plus, Minus, Exp, Other} /\ Goto(t, "S_END", loc[t].savedp)
    /\ UNCHANGED <<Unscanned, loc>>

\* Mutant: the character behind the point is taken unseen.
S_POINTTakes(t) ==
    /\ state[t] = "S_POINT"
    /\ Take(t, "S_GETR")
    /\ UNCHANGED <<Unscanned, loc>>

S_POINT(t) ==
    /\ state[t] = "S_POINT"
    /\ \/ IsDigit(c(t)) /\ Leave(t, "S_GETR")
       \/ ~IsDigit(c(t)) /\ Goto(t, "S_END", loc[t].savedp)
    /\ UNCHANGED <<Unscanned, loc>>

\* Digits beyond the buffer only count.
StoreDigit(t, adjStored, adjDropped) ==
    LET room == manlen[t] < LD_MAX_MAN_LEN + 1 IN
    /\ manlen' = IF room THEN [manlen EXCEPT ![t] = @ + 1] ELSE manlen
    /\ buf' = IF room THEN [buf EXCEPT ![manlen[t]] = c(t)] ELSE buf
    /\ loc' = [loc EXCEPT ![t].found_digit = TRUE,
                          ![t].exp_adj = @ + (IF room THEN adjStored ELSE adjDropped)]

S_GETL(t) ==
    /\ state[t] = "S_GETL"
    /\ \/ /\ IsDigit(c(t)) /\ Take(t, "S_GETL")
          /\ StoreDigit(t, 0, 1)
       \/ /\ ~IsDigit(c(t))
          /\ \/ c(t) = Point /\ Take(t, "S_GETR")
             \/ c(t) = Exp /\ Take(t, "S_E")
             \/ c(t) \notin {Point, Exp} /\ Leave(t, "S_END")
          /\ loc' = [loc EXCEPT ![t].found_digit = TRUE]
          /\ UNCHANGED <<manlen, buf>>
    /\ UNCHANGED <<text, ret, got, overlapped>>

\* Zeros in front of the first digit that counts are not stored.
S_GETR(t) ==
    /\ state[t] = "S_GETR"
    /\ \/ /\ c(t) = 0 /\ manlen[t] = 0 /\ Take(t, "S_GETR")
          /\ loc' = [loc EXCEPT ![t].found_digit = TRUE, ![t].exp_adj = @ - 1]
          /\ UNCHANGED <<manlen, buf>>
       \/ /\ IsDigit(c(t)) /\ ~(c(t) = 0 /\ manlen[t] = 0) /\ Take(t, "S_GETR")
          /\ StoreDigit(t, -1, 0)
       \/ /\ ~IsDigit(c(t))
          /\ \/ c(t) = Exp /\ Take(t, "S_E")
             \/ c(t) # Exp /\ Leave(t, "S_END")
          /\ loc' = [loc EXCEPT ![t].found_digit = TRUE]
          /\ UNCHANGED <<manlen, buf>>
    /\ UNCHANGED <<text, ret, got, overlapped>>

\* Mutant: when no exponent follows, the scan stays behind the letter.
S_EKeepsLetter(t) ==
    /\ state[t] = "S_E"
    /\ \/ IsNzDigit(c(t)) /\ Leave(t, "S_GETE") /\ UNCHANGED loc
       \/ c(t) = 0 /\ Take(t, "S_EAT0E") /\ UNCHANGED loc
       \/ c(t) \in {Plus, Minus} /\ Take(t, "S_SIGNE") /\ UNCHANGED loc
       \/ c(t) \in {Blank, Point, Exp, Other} /\ Leave(t, "S_END") /\ UNCHANGED loc
    /\ UNCHANGED Unscanned

\* savedp points to the letter: without an exponent the scan goes back there.
S_E(t) ==
    /\ state[t] = "S_E"
    /\ \/ /\ IsNzDigit(c(t)) /\ Leave(t, "S_GETE")
          /\ loc' = [loc EXCEPT ![t].savedp = p[t] - 1]
       \/ /\ c(t) = 0 /\ Take(t, "S_EAT0E")
          /\ loc' = [loc EXCEPT ![t].savedp = p[t] - 1]
       \/ /\ c(t) \in {Plus, Minus} /\ Take(t, "S_SIGNE")
          /\ loc' = [loc EXCEPT ![t].savedp = p[t] - 1,
                                ![t].exp_sign = IF c(t) = Minus THEN -1 ELSE @]
       \/ /\ c(t) \in {Blank, Point, Exp, Other} /\ Goto(t, "S_END", p[t] - 1)
          /\ loc' = [loc EXCEPT ![t].savedp = p[t] - 1]
    /\ UNCHANGED Unscanned

S_SIGNE(t) ==
    /\ state[t] = "S_SIGNE"
    /\ \/ IsNzDigit(c(t)) /\ Leave(t, "S_GETE")
       \/ c(t) = 0 /\ Take(t, "S_EAT0E")
       \/ ~IsDigit(c(t)) /\ Goto(t, "S_END", loc[t].savedp)
    /\ UNCHANGED <<Unscanned, loc>>

S_EAT0E(t) ==
    /\ state[t] = "S_EAT0E"
    /\ \/ c(t) = 0 /\ Take(t, "S_EAT0E")
       \/ IsNzDigit(c(t)) /\ Leave(t, "S_GETE")
       \/ ~IsDigit(c(t)) /\ Leave(t, "S_END")
    /\ UNCHANGED <<Unscanned, loc>>

\* Mutant: the exponent grows with every digit.
S_GETEUnbounded(t) ==
    /\ state[t] = "S_GETE"
    /\ \/ /\ IsDigit(c(t)) /\ Take(t, "S_GETE")
          /\ loc' = [loc EXCEPT ![t].longpow = 10 * @ + c(t)]
       \/ ~IsDigit(c(t)) /\ Leave(t, "S_END") /\ UNCHANGED loc
    /\ UNCHANGED Unscanned

\* An exponent above TMAX10 stays TMAX10 + 1, further digits are eaten.
S_GETE(t) ==
    /\ state[t] = "S_GETE"
    /\ \/ /\ IsDigit(c(t)) /\ Take(t, "S_GETE")
          /\ LET n == 10 * loc[t].longpow + c(t) IN
             loc' = [loc EXCEPT ![t].longpow = IF n > TMAX10 \/ @ > TMAX10 THEN TMAX10 + 1 ELSE n]
       \/ ~IsDigit(c(t)) /\ Leave(t, "S_END") /\ UNCHANGED loc
    /\ UNCHANGED Unscanned

Scan(t) ==
    \/ White(t) \/ S_INIT(t) \/ S_EAT0L(t) \/ S_SIGNM(t) \/ S_GETL(t) \/ S_GETR(t)
    \/ S_POINT(t) \/ S_E(t) \/ S_SIGNE(t) \/ S_EAT0E(t) \/ S_GETE(t)

-----------------------------------------------------------------------------
(* __strgtold12_my: the result *)

To(t, s) == state' = [state EXCEPT ![t] = s]

\* p stays where the scan ended: it is *p_end_ptr.
S_END(t) ==
    /\ state[t] = "S_END"
    /\ \/ ~loc[t].found_digit /\ To(t, "flags") /\ loc' = [loc EXCEPT ![t].flags = {"NODIGITS"}]
       \/ /\ loc[t].found_digit /\ UNCHANGED loc
          /\ \/ manlen[t] > LD_MAX_MAN_LEN /\ To(t, "round")
             \/ manlen[t] \in 1..LD_MAX_MAN_LEN /\ To(t, "strip")
             \/ manlen[t] = 0 /\ To(t, "convert")
    /\ UNCHANGED <<text, p, manlen, buf, ret, got, overlapped>>

\* Mutant: the digit that is dropped does not count in the exponent.
RoundForgetsExponent(t) ==
    /\ state[t] = "round"
    /\ \/ buf[LD_MAX_MAN_LEN - 1] >= 5 /\ To(t, "roundup")
       \/ buf[LD_MAX_MAN_LEN - 1] < 5 /\ To(t, "strip")
    /\ manlen' = [manlen EXCEPT ![t] = LD_MAX_MAN_LEN]
    /\ loc' = [loc EXCEPT ![t].byte = buf[LD_MAX_MAN_LEN - 1]]
    /\ UNCHANGED <<text, p, buf, ret, got, overlapped>>

\* One digit too many: it is dropped, and the last digit kept goes up by one if it
\* is itself 5 or more (9 becomes 10).
Round(t) ==
    /\ state[t] = "round"
    /\ \/ buf[LD_MAX_MAN_LEN - 1] >= 5 /\ To(t, "roundup")
       \/ buf[LD_MAX_MAN_LEN - 1] < 5 /\ To(t, "strip")
    /\ manlen' = [manlen EXCEPT ![t] = LD_MAX_MAN_LEN]
    /\ loc' = [loc EXCEPT ![t].exp_adj = @ + 1, ![t].byte = buf[LD_MAX_MAN_LEN - 1]]
    /\ UNCHANGED <<text, p, buf, ret, got, overlapped>>

\* The increment uses the byte that was tested or reads it again.
RoundUp(t) ==
    /\ state[t] = "roundup" /\ To(t, "strip")
    /\ \E byte \in {loc[t].byte, buf[LD_MAX_MAN_LEN - 1]} :
          buf' = [buf EXCEPT ![LD_MAX_MAN_LEN - 1] = byte + 1]
    /\ UNCHANGED <<text, p, manlen, loc, ret, got, overlapped>>

\* Mutant: the loop looks at the same digit for ever.
StripStays(t) ==
    /\ state[t] = "strip"
    /\ buf[manlen[t] - 1] # 0 /\ To(t, "digits")
    /\ UNCHANGED <<text, p, manlen, buf, loc, ret, got, overlapped>>

\* Trailing zeros: the loop has no other test than the digit.
Strip(t) ==
    /\ state[t] = "strip"
    /\ \/ /\ buf[manlen[t] - 1] = 0 /\ UNCHANGED state
          /\ manlen' = [manlen EXCEPT ![t] = @ - 1]
          /\ loc' = [loc EXCEPT ![t].exp_adj = @ + 1]
       \/ buf[manlen[t] - 1] # 0 /\ To(t, "digits") /\ UNCHANGED <<manlen, loc>>
    /\ UNCHANGED <<text, p, buf, ret, got, overlapped>>

\* __mtold12_my reads the digits from the buffer one by one into the integer man.
ReadDigit(t) ==
    /\ state[t] = "digits"
    /\ \/ /\ loc[t].nread < manlen[t] /\ UNCHANGED state
          /\ loc' = [loc EXCEPT ![t].man = AppendDigit(@, buf[loc[t].nread]), ![t].nread = @ + 1]
       \/ loc[t].nread = manlen[t] /\ To(t, "pow") /\ UNCHANGED loc
    /\ UNCHANGED <<text, p, manlen, buf, ret, got, overlapped>>

\* The decimal exponent, tested against TMAX10 and TMIN10.
Pow(t) ==
    LET pow == loc[t].exp_sign * loc[t].longpow + loc[t].exp_adj
        man == mtold12(loc[t].man)
        Set(s, x, flags, left) ==
            /\ To(t, s)
            /\ loc' = [loc EXCEPT ![t].ld12 = x, ![t].pow = pow, ![t].mulpow = left, ![t].flags = flags]
    IN
    /\ state[t] = "pow"
    /\ \/ pow > TMAX10 /\ Set("convert", Inf12(0), {"OVERFLOW"}, 0)
       \/ pow < -TMAX10 /\ Set("convert", Zero12, {"UNDERFLOW"}, 0)
       \/ pow = 0 /\ Set("convert", man, {}, 0)
       \/ pow \in -TMAX10..TMAX10 \ {0} /\ Set("multiply", DropXT(man), {}, pow)
    /\ UNCHANGED <<text, p, manlen, buf, ret, got, overlapped>>

\* __multtenpow12_my: one turn for every three bits of the power.
Signed(t, n) == IF loc[t].mulpow < 0 THEN -n ELSE n
last3(t) == Signed(t, loc[t].mulpow) % 8

\* Mutant: every turn uses the first seven powers.
FirstPowers(t) == Unround(Entry(Signed(t, last3(t))))

factor(t) == Unround(Entry(Signed(t, last3(t) * loc[t].group)))
Multiply(t) ==
    /\ state[t] = "multiply"
    /\ \/ /\ loc[t].mulpow # 0 /\ UNCHANGED state
          /\ loc' = [loc EXCEPT
                 ![t].ld12 = IF last3(t) = 0 THEN @
                             ELSE Once(LAMBDA y : ld12mul(loc[t].ld12, y), factor(t)),
                 ![t].mulpow = Signed(t, Signed(t, @) \div 8),
                 ![t].group = 8 * @]
       \/ loc[t].mulpow = 0 /\ To(t, "convert") /\ UNCHANGED loc
    /\ UNCHANGED <<text, p, manlen, buf, ret, got, overlapped>>

-----------------------------------------------------------------------------
(* _fltin *)

\* The sign is put in, _ld12tod converts.
Convert(t) ==
    /\ state[t] = "convert" /\ To(t, "flags")
    /\ \E r \in ld12cvt([loc[t].ld12 EXCEPT !.sign = (@ + loc[t].man_sign) % 2]) :
          loc' = [loc EXCEPT ![t].x = r.d, ![t].flags = @ \cup ({r.status} \ {"OK"})]
    /\ UNCHANGED <<text, p, manlen, buf, ret, got, overlapped>>

StoreFlags(t) ==
    /\ state[t] = "flags" /\ To(t, "nbytes")
    /\ ret' = [ret EXCEPT !.flags = loc[t].flags]
    /\ UNCHANGED <<text, p, manlen, buf, loc, got, overlapped>>

StoreNbytes(t) ==
    /\ state[t] = "nbytes" /\ To(t, "dval")
    /\ ret' = [ret EXCEPT !.nbytes = p[t] - 1]
    /\ UNCHANGED <<text, p, manlen, buf, loc, got, overlapped>>

StoreDval(t) ==
    /\ state[t] = "dval" /\ To(t, "return")
    /\ ret' = [ret EXCEPT !.dval = loc[t].x]
    /\ UNCHANGED <<text, p, manlen, buf, loc, got, overlapped>>

\* The caller takes what it wants from the struct.
ReadResult(t) ==
    /\ state[t] = "return" /\ To(t, "done")
    /\ got' = [got EXCEPT ![t] = ret]
    /\ UNCHANGED <<text, p, manlen, buf, loc, ret, overlapped>>

Compute(t) ==
    \/ S_END(t) \/ Round(t) \/ RoundUp(t) \/ Strip(t) \/ ReadDigit(t) \/ Pow(t) \/ Multiply(t)
    \/ Convert(t) \/ StoreFlags(t) \/ StoreNbytes(t) \/ StoreDval(t) \/ ReadResult(t)

Step(t) == Scan(t) \/ Compute(t)
Next == \E t \in Threads : Call(t) \/ Step(t)

Spec == Init /\ [][Next]_vars
\* A thread inside a call is scheduled.
FairSpec == Spec /\ \A t \in Threads : WF_vars(Step(t))

-----------------------------------------------------------------------------
(* Properties *)

TypeOK ==
    /\ state \in [Threads -> {"idle", "done"} \cup Scanning \cup Computing]
    /\ \A t \in Threads : t \notin DOMAIN text => state[t] = "idle"
    /\ p \in [Threads -> Nat \ {0}]
    /\ manlen \in [Threads -> 0..LD_MAX_MAN_LEN + 1]
    /\ buf \in [0..LD_MAX_MAN_LEN -> Nat]
    /\ DOMAIN loc = Threads
    /\ \A t \in Threads :
          /\ loc[t].found_digit \in BOOLEAN
          /\ loc[t].savedp \in Nat \ {0}
          /\ loc[t].exp_adj \in Int /\ loc[t].longpow \in 0..TMAX10 + 1
          /\ loc[t].byte \in Nat /\ loc[t].nread \in Nat /\ loc[t].man \in 0..W * W * W - 1
    /\ overlapped \subseteq Threads

\* The scan never reads behind the terminator of the string, whichever states it
\* goes back and forth between (the p-- and p = savedp of fltintrn.c:615-835).
ReadsInside == \A t \in Threads : state[t] \in Scanning => p[t] <= Len(text[t]) + 1

\* "there is at least one non-zero digit" (fltintrn.c:867): although calls overwrite
\* each other's digits in the static buffer, the loop over trailing zeros ends inside
\* it, and the first digit __mtold12_my reads is not zero.  (A mantissa of zero would
\* let its shift loop run for ever: mtold12 has no value there, and TLC would stop.)
NonZeroDigit == \A t \in Threads :
    /\ state[t] = "strip" => manlen[t] > 0
    /\ state[t] \in {"strip", "digits"} => buf[0] # 0

Scanned(t) == state[t] \in Computing \cup {"done"}

\* The scan takes the longest number the string starts with and nothing else; calls
\* at the same time do not disturb it.
EndPtrBehindNumber == \A t \in Threads : Scanned(t) =>
    IF IsNumber(text[t]) THEN p[t] = Longest(NumberEnds(text[t])) + 1 /\ loc[t].found_digit
    ELSE p[t] \in {1, AfterBlanks(text[t])} /\ ~loc[t].found_digit

Abs(n) == IF n < 0 THEN -n ELSE n
InRange(t) == loc[t].longpow <= TMAX10

\* Digits and exponent given to the arithmetic are the number the text writes: exactly
\* when its digits fit into the buffer, else within one unit of the last digit kept.
\* So every digit has gone through exp_adj once: dropped, behind the point, stripped.
DigitsAreTheNumber == \A t \in Threads \ overlapped :
    state[t] \in {"multiply", "convert"} /\ loc[t].nread > 0 /\ InRange(t) =>
        LET s == text[t]
            scale == loc[t].pow - ValueExponent(s)
            dropped == SignificantDigits(s) - LD_MAX_MAN_LEN
            error == Abs(loc[t].man * Ten[scale] - ValueDigits(s))
        IN  /\ scale >= 0
            /\ IF dropped <= 0 THEN error = 0 ELSE error <= Ten[dropped]

\* Each multiplication by a power of ten is right to some units in the last of the 80
\* bits, although the lower half of the products is never computed, and no carry
\* leaves the 12 bytes ("roffs should be less than 8 in this case", fltintrn.c:438).
MulErrorUnits == 8
MulNearlyExact ==
    [][\A t \in Threads : Multiply(t) /\ loc[t].mulpow # 0 /\ last3(t) # 0 =>
        LET x == loc[t].ld12
            y == factor(t)
            r == loc'[t].ld12
            normal(e) == IF e = 0 THEN 1 ELSE e
            ulp == 2^(normal(r.exp) - normal(x.exp) - y.exp + LD_BIAS + 5 * H - 1)
        IN  /\ tempman(x.man, y.man)[6] = 0
            /\ r \notin {Inf12(0), Zero12} =>
                  Abs(r.man * ulp - x.man * y.man) <= MulErrorUnits * ulp]_vars

-----------------------------------------------------------------------------
(* What a double means: DoubleMan * 2^DoubleExp *)

IsInf(d) == d.exp = max_exp + bias
DoubleMan(d) == IF d.exp = 0 THEN d.frac ELSE 2^(precision - 1) + d.frac
DoubleExp(d) == (IF d.exp = 0 THEN 1 ELSE d.exp) - bias - (precision - 1)

\* In the branch for denormals the mantissa is rounded a second time.
Denormal(x) ==
    LET exponent == x.exp - LD_BIAS + RoundMan(x.man * B).carry IN
    x.exp # 0 /\ exponent \in min_exp - precision..min_exp
SecondRound(x) ==
    RoundMan(ShrMan(x.man * B, min_exp - (x.exp - LD_BIAS + RoundMan(x.man * B).carry)))
CarryLost(x) == Denormal(x) /\ RoundMan(x.man * B).carry = 1

\* "need not check for carry" (fltintrn.c:1219).
SecondRoundHasNoCarry == \A t \in Threads :
    state[t] = "convert" /\ Denormal(loc[t].ld12) => SecondRound(loc[t].ld12).carry = 0

\* 10^PowLarge is above the largest double; mantissas times 10^PowSmall are below half
\* of the least one.
Largest == (2^precision - 1) * 2^(max_exp - precision)
PowLarge == Turns(LAMBDA n : 10^n <= Largest)
PowSmall == -(LD_MAX_MAN_LEN + Turns(LAMBDA n : 10^n <= 2^(bias + precision - 1)))

\* A call that ran alone, with a mantissa that fits into the buffer, gives its caller
\* the number in the text within one unit in the last place of the double, an
\* infinity only above the largest double, and zero for what is too small.
Own(t) == state[t] = "done" /\ t \notin overlapped /\ loc[t].nread > 0 /\ InRange(t)
          /\ SignificantDigits(text[t]) <= LD_MAX_MAN_LEN
NearestDouble == \A t \in Threads : Own(t) /\ ~CarryLost(loc[t].ld12) =>
    LET d == got[t].dval
        pow == loc[t].pow
        digits == loc[t].man
        \* Both sides times what makes them integers.
        up == 10^(IF pow < 0 THEN -pow ELSE 0)
        two == IF DoubleExp(d) < 0 THEN 2^(-DoubleExp(d)) ELSE 1
        value == digits * 10^(IF pow > 0 THEN pow ELSE 0) * two
        error == Abs(DoubleMan(d) * (IF DoubleExp(d) > 0 THEN 2^DoubleExp(d) ELSE 1) * up - value)
    IN  IF pow >= PowLarge THEN IsInf(d)
        ELSE IF pow <= PowSmall THEN DoubleMan(d) = 0
        ELSE IF IsInf(d) THEN (IF pow > 0 THEN digits * 10^pow > Largest ELSE digits > Largest * 10^(-pow))
        ELSE d.sign = ValueSign(text[t]) /\ error <= up

\* Every call returns, also while others write into the same buffer.
CallReturns == \A t \in Threads : state[t] = "S_WHITE" ~> state[t] = "done"
=============================================================================
