------------------------------ MODULE StrToLL ------------------------------
(***************************************************************************)
(* strtoll of kcrt/strtoll.c, one action per loop turn or test, with a     *)
(* long long of Word values.  A character is its digit value 0..35 (letters *)
(* of either case are 10..35, so x is 33), or Space, Minus, Plus or End    *)
(* (anything else that ends a number).                                     *)
(***************************************************************************)
EXTENDS Integers, Sequences

CONSTANTS Word,     \* 2^64: the values of long long
          Digit,    \* digit values that occur
          Bases,    \* bases asked for
          MaxLen    \* bound on the length of the strings

ASSUME WordAssumption == Word \in Nat /\ Word > 2 /\ Word % 2 = 0
ASSUME DigitAssumption ==
    Digit \subseteq 0..35 /\ Bases \subseteq {0} \cup (2..36) /\ MaxLen \in Nat

X == 33
Space == 40
Minus == 41
Plus == 42
End == 43

LLONG_MAX == (Word \div 2) - 1
LLONG_MIN == -(Word \div 2)
\* What a long long holds after an operation whose result is n.
Wrap(n) == ((n - LLONG_MIN) % Word) + LLONG_MIN
\* C's / and %, which round toward zero.
Quot(n, d) == IF n < 0 THEN -((-n) \div d) ELSE n \div d
Rem(n, d) == n - d * Quot(n, d)

VARIABLES
    nptr,      \* the string, ended by End
    pc,
    s,         \* index of the character c was read from
    neg, base,
    acc, any,
    errno,     \* ERANGE has been set
    endptr     \* index *endptr ends up at; 1 is nptr itself

vars == <<nptr, pc, s, neg, base, acc, any, errno, endptr>>

Strings == {Append(str, End) : str \in UNION {[1..n -> Digit \cup {Space, Minus, Plus}] : n \in 0..MaxLen}}

Init ==
    /\ nptr \in Strings /\ base \in Bases
    /\ pc = "space" /\ s = 1
    /\ neg = FALSE /\ acc = 0 /\ any = 0 /\ errno = FALSE /\ endptr = 0

c == nptr[s]

SkipSpace ==
    /\ pc = "space"
    /\ IF c = Space THEN s' = s + 1 /\ UNCHANGED pc ELSE pc' = "sign" /\ UNCHANGED s
    /\ UNCHANGED <<nptr, neg, base, acc, any, errno, endptr>>

Sign ==
    /\ pc = "sign"
    /\ neg' = (c = Minus)
    /\ s' = IF c \in {Minus, Plus} THEN s + 1 ELSE s
    /\ pc' = "prefix"
    /\ UNCHANGED <<nptr, base, acc, any, errno, endptr>>

\* Mutant: a leading zero counts as 0x.
PrefixZero ==
    LET hex == base \in {0, 16} /\ c = 0 IN
    /\ pc = "prefix"
    /\ s' = IF hex THEN s + 2 ELSE s
    /\ base' = IF hex THEN 16 ELSE IF base # 0 THEN base ELSE 10
    /\ pc' = "digits"
    /\ UNCHANGED <<nptr, neg, acc, any, errno, endptr>>

Prefix ==
    LET hex == base \in {0, 16} /\ c = 0 /\ nptr[s + 1] = X IN
    /\ pc = "prefix"
    /\ s' = IF hex THEN s + 2 ELSE s
    /\ base' = IF hex THEN 16 ELSE IF base # 0 THEN base ELSE IF c = 0 THEN 8 ELSE 10
    /\ pc' = "digits"
    /\ UNCHANGED <<nptr, neg, acc, any, errno, endptr>>

\* `-(long long)LLONG_MIN' does not fit and is LLONG_MIN again.
limit == IF neg THEN Wrap(-LLONG_MIN) ELSE LLONG_MAX
cutoff == Quot(limit, base)
\* Mutants: the last digit is compared with >=; not compared at all.
cutlimTight == Rem(limit, base) - 1
cutlimLoose == base
cutlim == Rem(limit, base)

IsDigit == c < base      \* the other characters are above 35

TakeDigit ==
    /\ pc = "digits" /\ IsDigit
    /\ IF any < 0 \/ acc > cutoff \/ (acc = cutoff /\ c > cutlim)
       THEN any' = -1 /\ UNCHANGED acc
       ELSE any' = 1 /\ acc' = Wrap(Wrap(acc * base) + c)
    /\ s' = s + 1
    /\ UNCHANGED <<nptr, pc, neg, base, errno, endptr>>

\* Mutant: a number out of range leaves endptr at the start.
EndInRange == IF any > 0 THEN s ELSE 1
EndAt == IF any # 0 THEN s ELSE 1

Finish ==
    /\ pc = "digits" /\ ~IsDigit
    /\ acc' = IF any < 0 THEN (IF neg THEN LLONG_MIN ELSE LLONG_MAX)
              ELSE IF neg THEN Wrap(-acc) ELSE acc
    /\ errno' = (any < 0)
    /\ endptr' = EndAt
    /\ pc' = "done"
    /\ UNCHANGED <<nptr, s, neg, base, any>>

Next == SkipSpace \/ Sign \/ Prefix \/ TakeDigit \/ Finish

Spec == Init /\ [][Next]_vars

-----------------------------------------------------------------------------
(* Properties *)

TypeOK ==
    /\ pc \in {"space", "sign", "prefix", "digits", "done"}
    /\ s \in DOMAIN nptr
    /\ neg \in BOOLEAN /\ errno \in BOOLEAN
    /\ base \in Bases \cup {8, 10, 16}
    /\ acc \in LLONG_MIN..LLONG_MAX /\ any \in {-1, 0, 1}
    /\ endptr \in 0..Len(nptr)

\* The reference: where the digits start, by the grammar of the comment at
\* strtoll.c:17-21, and the number they write.
Body ==
    LET first == CHOOSE i \in DOMAIN nptr :
                    nptr[i] # Space /\ \A j \in 1..i - 1 : nptr[j] = Space IN
    IF nptr[first] \in {Minus, Plus} THEN first + 1 ELSE first
FirstDigit == IF base = 16 /\ nptr[Body] = 0 /\ nptr[Body + 1] = X THEN Body + 2 ELSE Body
NumberTo(end) ==
    LET value[i \in FirstDigit..Len(nptr)] ==
            IF i = FirstDigit THEN 0 ELSE value[i - 1] * base + nptr[i - 1]
    IN value[end]
Number == NumberTo(s)

\* A number without minus sign is converted exactly when it fits, and is
\* LLONG_MAX with ERANGE when it does not.
NonNegativeExact ==
    pc = "done" /\ ~neg =>
        IF Number <= LLONG_MAX THEN acc = Number /\ ~errno ELSE acc = LLONG_MAX /\ errno

\* The conversion takes all the digits there are, and *endptr is just behind
\* them, or at the start of the string if there is none.
EndptrAfterDigits ==
    pc = "done" =>
        /\ \A i \in FirstDigit..s - 1 : nptr[i] < base
        /\ nptr[s] >= base
        /\ endptr = IF s > FirstDigit THEN s ELSE 1

\* The multiplication and addition of a digit never overflow: the cutoff test
\* stops them in time.
NoOverflow ==
    [][TakeDigit /\ any' = 1 => acc' = acc * base + c]_vars

\* "cutlim to either 7 (neg==0) or 8 (neg==1)" (strtoll.c:51): a negative number
\* is out of range only below LLONG_MIN.
NegativeExact ==
    pc = "done" /\ neg =>
        IF -Number >= LLONG_MIN THEN acc = -Number /\ ~errno ELSE acc = LLONG_MIN /\ errno
=============================================================================
