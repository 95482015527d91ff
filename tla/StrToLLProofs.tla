--------------------------- MODULE StrToLLProofs ---------------------------
(***************************************************************************)
(* Proofs about StrToLL, for every string, every base and every width of a *)
(* long long: no step leaves the string or overflows, all digits are       *)
(* taken, and a number without a minus sign is converted exactly.          *)
(***************************************************************************)
EXTENDS StrToLL, SequenceTheorems, WellFoundedInduction, TLAPS

LEMMA Negation == \A n \in Int : -n = 0 - n
OBVIOUS

USE WordAssumption, DigitAssumption

-----------------------------------------------------------------------------
(* Arithmetic *)

Half == Word \div 2

LEMMA HalfWord == Half \in Nat /\ Half > 1 /\ Word = 2 * Half
BY DEF Half

LEMMA Limits == LLONG_MAX = Half - 1 /\ LLONG_MIN = -Half
BY DEF LLONG_MAX, LLONG_MIN, Half

LEMMA WrapType == ASSUME NEW n \in Int PROVE Wrap(n) \in LLONG_MIN..LLONG_MAX
<1> DEFINE m == n - LLONG_MIN
<1>1. m \in Int  BY HalfWord, Limits
<1>2. m % Word \in 0..Word - 1  BY <1>1
<1> QED  BY <1>2, HalfWord, Limits DEF Wrap

LEMMA WrapExact == ASSUME NEW n \in LLONG_MIN..LLONG_MAX PROVE Wrap(n) = n
<1> DEFINE m == n - LLONG_MIN
<1>1. m \in 0..Word - 1  BY HalfWord, Limits
<1>2. m % Word = m  BY <1>1
<1> QED  BY <1>2, HalfWord, Limits DEF Wrap

\* What the cutoff test compares with.
LEMMA Division ==
    ASSUME NEW n \in Nat, NEW d \in Nat, d > 0
    PROVE  n \div d \in Nat /\ n = d * (n \div d) + (n % d) /\ n % d \in 0..d - 1
<1> DEFINE q == n \div d
<1> DEFINE m == n % d
<1>1. q \in Int /\ m \in 0..d - 1 /\ n = d * q + m  OBVIOUS
<1> HIDE DEF q, m
<1>2. q < 0 => d * q <= -d
  <2> SUFFICES ASSUME q < 0 PROVE d * q <= -d
    OBVIOUS
  <2>1. PICK k \in Nat : q = -1 - k  BY <1>1
  <2>2. d * q = -d - d * k /\ d * k \in Nat  BY <2>1
  <2> QED  BY <2>2
<1>3. q \in Nat  BY <1>1, <1>2
<1> QED  BY <1>1, <1>3 DEF q, m

\* A number below the quotient still has room for another digit, one above has not.
LEMMA DigitFits ==
    ASSUME NEW a \in Nat, NEW q \in Nat, NEW d \in Nat, NEW r \in 0..d - 1, NEW x \in 0..d - 1,
           d > 0
    PROVE  a * d + x <= d * q + r <=> a < q \/ (a = q /\ x <= r)
<1>1. CASE a < q
  <2>1. PICK k \in Nat : q = a + 1 + k  BY <1>1
  <2>2. d * q = a * d + d + d * k /\ d * k >= 0 /\ a * d \in Nat  BY <2>1
  <2> QED  BY <1>1, <2>2
<1>2. CASE a = q
  <2>1. d * q = a * d /\ a * d \in Nat BY <1>2
  <2> QED BY <1>2, <2>1
<1>3. CASE a > q
  <2>1. PICK k \in Nat : a = q + 1 + k  BY <1>3
  <2>2. a * d = d * q + d + d * k /\ d * k >= 0 /\ d * q \in Nat  BY <2>1
  <2> QED  BY <1>3, <2>2
<1> QED  BY <1>1, <1>2, <1>3

\* Another digit makes no number smaller.
LEMMA Grows ==
    ASSUME NEW n \in Nat, NEW d \in Nat, d > 0, NEW x \in Nat
    PROVE  n * d + x \in Nat /\ n * d + x >= n
<1>1. PICK k \in Nat : d = 1 + k  OBVIOUS
<1>2. n * d = n + n * k /\ n * k \in Nat  BY <1>1
<1> QED  BY <1>2

-----------------------------------------------------------------------------
(* The value of the digits *)

LEMMA LeastNat ==
    ASSUME NEW T \in SUBSET Nat, T # {}
    PROVE  \E n \in T : \A m \in T : ~(m < n)
<1> DEFINE R == OpToRel(<, Nat)
<1>1. IsWellFoundedOn(R, Nat)  BY NatLessThanWellFounded
<1>2. \E n \in T : \A m \in T : ~(<<m, n>> \in R)
  <2> HIDE DEF R
  <2> QED  BY <1>1, WFMin
<1> QED  BY <1>2 DEF OpToRel

\* Horner's scheme over the digits p[first..last-1] has a solution: the least length
\* without one would extend a solution of the length before.
Horner(v, first, last, d, p) ==
    v = [i \in first..last |-> IF i = first THEN 0 ELSE v[i - 1] * d + p[i - 1]]

LEMMA HornerExists ==
    ASSUME NEW first \in Nat, NEW last \in Nat, NEW d \in Nat,
           NEW p \in [first..last -> Nat]
    PROVE  \E v \in [first..last -> Nat] : Horner(v, first, last, d, p)
<1> USE DEF Horner
<1> DEFINE Solves(v, k) ==
        /\ v \in [first..first + k -> Nat]
        /\ v[first] = 0
        /\ \A i \in first + 1..first + k : v[i] = v[i - 1] * d + p[i - 1]
<1> DEFINE T == {k \in Nat : first + k <= last /\ ~\E v : Solves(v, k)}
<1>1. T = {}
  <2> SUFFICES ASSUME T # {} PROVE FALSE
    OBVIOUS
  <2>1. PICK k \in T : \A m \in T : ~(m < k)
    <3>1. T \in SUBSET Nat  OBVIOUS
    <3> HIDE DEF T
    <3> QED  BY <3>1, LeastNat
  <2>2. CASE k = 0
    <3>1. Solves([i \in first..first |-> 0], 0)  OBVIOUS
    <3> QED  BY <2>1, <2>2, <3>1
  <2>3. CASE k # 0
    <3>1. k - 1 \in Nat /\ first + (k - 1) <= last  BY <2>1, <2>3
    <3>2. PICK v : Solves(v, k - 1)
      <4> HIDE DEF Solves
      <4>1. k - 1 \notin T
        <5>1. k \in Nat  OBVIOUS
        <5> HIDE DEF T
        <5> QED  BY <2>1, <3>1, <5>1
      <4> QED  BY <3>1, <4>1
    <3> DEFINE j == first + k
    <3> DEFINE w == [i \in first..j |-> IF i = j THEN v[j - 1] * d + p[j - 1] ELSE v[i]]
    <3>3. /\ first..first + (k - 1) = first..j - 1 /\ first < j /\ j \in Nat
          /\ j - 1 \in first..last /\ j - 1 \in first..j - 1
      BY <2>1, <2>3
    <3>4. v[j - 1] * d + p[j - 1] \in Nat
      <4> DEFINE a == v[j - 1]
      <4> DEFINE b == p[j - 1]
      <4>1. a \in Nat /\ b \in Nat  BY <3>2, <3>3
      <4> HIDE DEF a, b
      <4>2. a * d + b \in Nat  BY <4>1
      <4> QED  BY <4>2 DEF a, b
    <3>5. w \in [first..j -> Nat]
      <4>1. \A i \in first..j : i # j => v[i] \in Nat  BY <3>2, <3>3
      <4> QED  BY <3>4, <4>1
    <3>6. w[first] = 0  BY <3>2, <3>3
    <3>7. ASSUME NEW i \in first + 1..j PROVE w[i] = w[i - 1] * d + p[i - 1]
      <4>1. CASE i = j  BY <3>3, <4>1
      <4>2. CASE i # j
        <5>1. i \in first + 1..first + (k - 1) /\ i - 1 # j /\ i - 1 \in first..j  BY <3>3, <4>2
        <5> QED  BY <3>2, <4>2, <5>1
      <4> QED  BY <4>1, <4>2
    <3>8. Solves(w, k)
      <4> HIDE DEF w
      <4> QED  BY <3>5, <3>6, <3>7
    <3> QED  BY <2>1, <3>8
  <2> QED  BY <2>2, <2>3
<1>2. CASE last < first
  <2> DEFINE e == [i \in first..last |-> 0]
  <2>1. e = [i \in first..last |-> IF i = first THEN 0 ELSE e[i - 1] * d + p[i - 1]]
    BY <1>2
  <2> QED  BY <1>2, <2>1
<1>3. CASE first <= last
  <2> DEFINE k == last - first
  <2>1. k \in Nat /\ first + k = last  BY <1>3
  <2>2. PICK v : Solves(v, k)
    <3> HIDE DEF Solves, k
    <3>1. k \notin T
      <4> HIDE DEF T
      <4> QED  BY <1>1
    <3>2. first + k <= last  BY <2>1
    <3> QED  BY <2>1, <3>1, <3>2
  <2>3. v = [i \in first..last |-> IF i = first THEN 0 ELSE v[i - 1] * d + p[i - 1]]
    <3>1. v \in [first..last -> Nat] /\ v[first] = 0
          /\ \A i \in first + 1..last : v[i] = v[i - 1] * d + p[i - 1]
      BY <2>1, <2>2
    <3>2. \A i \in first..last : v[i] = IF i = first THEN 0 ELSE v[i - 1] * d + p[i - 1]
      BY <3>1
    <3> QED  BY <3>1, <3>2
  <2> QED  BY <2>1, <2>2, <2>3
<1>4. last < first \/ first <= last  OBVIOUS
<1> QED  BY <1>2, <1>3, <1>4, Zenon

-----------------------------------------------------------------------------
(* The strings *)

Char == Digit \cup {Space, Minus, Plus}

StringOK ==
    /\ nptr \in Seq(Int) /\ Len(nptr) \in Nat \ {0}
    /\ nptr[Len(nptr)] = End
    /\ \A i \in 1..Len(nptr) - 1 : nptr[i] \in Char

LEMMA CharType ==
    /\ \A x \in Char : x \in 0..43 /\ x \in Nat /\ x # End
    /\ \A x \in Char : x \in 0..35 \/ x \in {Space, Minus, Plus}
BY DEF Char, Space, Minus, Plus, End

LEMMA StringType ==
    ASSUME StringOK, NEW i \in DOMAIN nptr
    PROVE  /\ i \in 1..Len(nptr)
           /\ nptr[i] \in 0..43 /\ nptr[i] \in Nat
           /\ nptr[i] # End => i + 1 \in DOMAIN nptr /\ nptr[i] \in Char
<1>1. i \in 1..Len(nptr) /\ i \in Nat  BY DEF StringOK
<1>2. CASE i = Len(nptr)  BY <1>1, <1>2 DEF StringOK, End
<1>3. CASE i # Len(nptr)
  <2>1. nptr[i] \in Char /\ i + 1 \in DOMAIN nptr  BY <1>1, <1>3 DEF StringOK
  <2> QED  BY <1>1, <2>1, CharType, Zenon
<1> QED  BY <1>2, <1>3

LEMMA InitString == Init => StringOK
<1> SUFFICES ASSUME Init PROVE StringOK
  OBVIOUS
<1>1. PICK n \in 0..MaxLen : \E str \in [1..n -> Char] : nptr = Append(str, End)
  BY DEF Init, Strings, Char
<1>2. PICK str \in [1..n -> Char] : nptr = Append(str, End)  BY <1>1
<1>3. \A x \in Char : x \in Int  BY CharType
<1>4. n \in Nat /\ End \in Int  BY DEF End
<1>5. str \in Seq(Int) /\ Len(str) = n
  <2>1. str \in [1..n -> Int]  BY <1>3
  <2> QED  BY <1>4, <2>1, SeqDef
<1>6. /\ nptr \in Seq(Int) /\ Len(nptr) = n + 1 /\ nptr[n + 1] = End
      /\ \A i \in 1..n : nptr[i] = str[i]
  BY <1>2, <1>4, <1>5
<1> QED  BY <1>4, <1>6 DEF StringOK

-----------------------------------------------------------------------------
(* The inductive invariant *)

RealBase == base \in 2..36

\* Where the conversion stands, for each place in the code.
AtSpace == pc \in {"space", "sign"} =>
    /\ \A i \in 1..s - 1 : nptr[i] = Space
    /\ base \in Bases
    /\ pc = "sign" => nptr[s] # Space
AtBody == pc = "prefix" => s = Body /\ base \in Bases
AtDigits == pc \in {"digits", "done"} =>
    /\ RealBase
    /\ Body \in DOMAIN nptr /\ FirstDigit \in DOMAIN nptr /\ FirstDigit <= s
    /\ \A i \in FirstDigit..s - 1 : nptr[i] < base
    /\ any = 0 <=> s = FirstDigit

\* A number with a minus sign is cut off at its first digit (see NegativeExact), and
\* never takes one.
Accumulated ==
    /\ pc \in {"space", "sign", "prefix"} => acc = 0 /\ any = 0
    /\ pc = "digits" /\ ~neg =>
          /\ acc \in 0..LLONG_MAX
          /\ any >= 0 => acc = Number
          /\ any < 0 => Number > LLONG_MAX
    /\ pc = "digits" /\ neg => acc = 0 /\ any <= 0

\* What becomes of a number with a minus sign: it is LLONG_MIN and out of range as soon
\* as it has a digit, whatever the digit is.
NegativeLost ==
    pc = "done" /\ neg =>
        IF s = FirstDigit THEN acc = 0 /\ ~errno ELSE acc = LLONG_MIN /\ errno

IInv ==
    /\ TypeOK /\ StringOK
    /\ AtSpace /\ AtBody /\ AtDigits /\ Accumulated
    /\ NonNegativeExact /\ NegativeLost /\ EndptrAfterDigits

LEMMA InitIInv == Init => IInv
<1> SUFFICES ASSUME Init PROVE IInv
  OBVIOUS
<1>1. StringOK  BY InitString
<1>2. TypeOK
  <2>1. 1 \in DOMAIN nptr /\ 0 \in 0..Len(nptr) /\ 0 \in LLONG_MIN..LLONG_MAX
    BY <1>1, HalfWord, Limits DEF StringOK
  <2> QED  BY <2>1 DEF Init, TypeOK
<1>3. AtSpace /\ AtBody /\ AtDigits /\ Accumulated
      /\ NonNegativeExact /\ NegativeLost /\ EndptrAfterDigits
  BY DEF Init, AtSpace, AtBody, AtDigits, Accumulated, NonNegativeExact, NegativeLost, EndptrAfterDigits
<1> QED  BY <1>1, <1>2, <1>3 DEF IInv

\* Body depends on the string only, FirstDigit on the base too.
LEMMA SameDigits ==
    /\ UNCHANGED nptr => Body' = Body /\ (StringOK => StringOK')
    /\ UNCHANGED <<nptr, base>> => FirstDigit' = FirstDigit
<1>1. UNCHANGED nptr => Body' = Body /\ (StringOK => StringOK')  BY DEF Body, StringOK
<1>2. UNCHANGED <<nptr, base>> => FirstDigit' = FirstDigit  BY <1>1 DEF FirstDigit
<1> QED  BY <1>1, <1>2

LEMMA SkipSpaceStep == IInv /\ SkipSpace => IInv'
<1> SUFFICES ASSUME IInv, SkipSpace PROVE IInv'
  OBVIOUS
<1>1. /\ UNCHANGED <<nptr, neg, base, acc, any, errno, endptr>> /\ pc = "space" /\ s \in DOMAIN nptr
      /\ \/ c = Space /\ s' = s + 1 /\ UNCHANGED pc
         \/ c # Space /\ pc' = "sign" /\ UNCHANGED s
  BY DEF SkipSpace, IInv, TypeOK
<1>2. s' \in DOMAIN nptr /\ s \in Nat
  BY <1>1, StringType DEF IInv, c, Space, End
<1>3. TypeOK'  BY <1>1, <1>2 DEF IInv, TypeOK
<1>4. StringOK'  BY <1>1, SameDigits DEF IInv
<1>5. AtSpace'
  <2>1. \A i \in 1..s' - 1 : nptr[i] = Space  BY <1>1, <1>2 DEF IInv, AtSpace, c
  <2> QED  BY <1>1, <2>1 DEF IInv, AtSpace, c
<1>6. AtBody' /\ AtDigits' /\ Accumulated' /\ NonNegativeExact' /\ NegativeLost' /\ EndptrAfterDigits'
  BY <1>1 DEF IInv, AtBody, AtDigits, Accumulated, NonNegativeExact, NegativeLost, EndptrAfterDigits
<1> QED  BY <1>3, <1>4, <1>5, <1>6 DEF IInv

\* The first character that is no space.
LEMMA BodyIs ==
    ASSUME StringOK, s \in DOMAIN nptr, nptr[s] # Space, \A i \in 1..s - 1 : nptr[i] = Space
    PROVE  Body = IF nptr[s] \in {Minus, Plus} THEN s + 1 ELSE s
<1> DEFINE Good(i) == nptr[i] # Space /\ \A j \in 1..i - 1 : nptr[j] = Space
<1> DEFINE first == CHOOSE i \in DOMAIN nptr : Good(i)
<1>1. \A i \in DOMAIN nptr : i \in Nat /\ i >= 1  BY StringType
<1>2. \A i \in DOMAIN nptr : Good(i) => i = s
  <2> SUFFICES ASSUME NEW i \in DOMAIN nptr, Good(i) PROVE i = s
    OBVIOUS
  <2>1. i \in Nat /\ i >= 1 /\ s \in Nat /\ s >= 1  BY <1>1
  <2>2. i < s => FALSE  BY <2>1
  <2>3. s < i => FALSE  BY <2>1
  <2> QED  BY <2>1, <2>2, <2>3
<1>3. Good(s)  OBVIOUS
<1>4. first = s
  <2> HIDE DEF Good
  <2> QED  BY <1>2, <1>3
<1> QED  BY <1>4 DEF Body

LEMMA SignStep == IInv /\ Sign => IInv'
<1> SUFFICES ASSUME IInv, Sign PROVE IInv'
  OBVIOUS
<1>1. /\ UNCHANGED <<nptr, base, acc, any, errno, endptr>> /\ pc = "sign" /\ pc' = "prefix"
      /\ s \in DOMAIN nptr /\ neg' \in BOOLEAN
      /\ s' = IF nptr[s] \in {Minus, Plus} THEN s + 1 ELSE s
  BY DEF Sign, IInv, TypeOK, c
<1>2. s' \in DOMAIN nptr
  BY <1>1, StringType DEF IInv, Minus, Plus, End
<1>3. TypeOK'  BY <1>1, <1>2 DEF IInv, TypeOK
<1>4. StringOK'  BY <1>1, SameDigits DEF IInv
<1>5. s' = Body  BY <1>1, BodyIs DEF IInv, AtSpace
<1>6. AtBody'  BY <1>1, <1>5, SameDigits DEF IInv, AtBody, AtSpace
<1>7. AtSpace' /\ AtDigits' /\ Accumulated' /\ NonNegativeExact' /\ NegativeLost' /\ EndptrAfterDigits'
  BY <1>1 DEF IInv, AtSpace, AtDigits, Accumulated, NonNegativeExact, NegativeLost, EndptrAfterDigits
<1> QED  BY <1>3, <1>4, <1>6, <1>7 DEF IInv

\* The recursion that defines the value of the digits.
LEMMA NumberSteps ==
    ASSUME StringOK, RealBase, FirstDigit \in DOMAIN nptr
    PROVE  /\ NumberTo(FirstDigit) = 0
           /\ \A i \in FirstDigit..Len(nptr) - 1 :
                 NumberTo(i + 1) = NumberTo(i) * base + nptr[i]
           /\ \A i \in FirstDigit..Len(nptr) : NumberTo(i) \in Nat
<1> DEFINE first == FirstDigit
<1> DEFINE last == Len(nptr)
<1> DEFINE p == [i \in first..last |-> nptr[i]]
<1> DEFINE F(v) == [i \in first..last |-> IF i = first THEN 0 ELSE v[i - 1] * base + nptr[i - 1]]
<1>1. first \in 1..last /\ last \in Nat /\ base \in Nat  BY DEF StringOK, RealBase
<1>2. p \in [first..last -> Nat]
  <2>1. \A i \in first..last : i \in DOMAIN nptr  BY <1>1 DEF StringOK
  <2>2. ASSUME NEW i \in first..last PROVE nptr[i] \in Nat
    <3>1. i \in DOMAIN nptr  BY <2>1
    <3> QED  BY <3>1, StringType, Zenon
  <2> QED  BY <2>2
<1>3. \E v \in [first..last -> Nat] : v = F(v)
  <2> HIDE DEF first, last
  <2>1. PICK v \in [first..last -> Nat] : Horner(v, first, last, base, p)
    <3> HIDE DEF p
    <3>1. first \in Nat /\ last \in Nat  BY <1>1
    <3> QED  BY <1>1, <1>2, <3>1, HornerExists
  <2>2. \A i \in first..last : i # first => p[i - 1] = nptr[i - 1]  BY <1>1
  <2>3. v = F(v)  BY <2>1, <2>2 DEF Horner
  <2> QED  BY <2>3
<1> DEFINE w == CHOOSE v : v = F(v)
<1>4. w = F(w)
  <2> HIDE DEF F
  <2> QED  BY <1>3
<1>5. \A i : NumberTo(i) = w[i]  BY DEF NumberTo
<1> HIDE DEF w
<1>6. /\ w[first] = 0
      /\ \A i \in first..last - 1 : w[i + 1] = w[i] * base + nptr[i]
  <2> HIDE DEF first, last
  <2>1. first \in first..last /\ \A i \in first..last - 1 : i + 1 \in first..last /\ i + 1 # first
        /\ (i + 1) - 1 = i
    BY <1>1
  <2>2. \A i \in first..last : w[i] = F(w)[i]  BY <1>4
  <2> QED  BY <2>1, <2>2
<1>7. \A i \in first..last : w[i] \in Nat
  <2> DEFINE T == {i \in first..last : w[i] \notin Nat}
  <2> SUFFICES ASSUME T # {} PROVE FALSE
    OBVIOUS
  <2>1. PICK i \in T : \A j \in T : ~(j < i)
    <3>1. T \in SUBSET Nat  BY <1>1
    <3> HIDE DEF T
    <3> QED  BY <3>1, LeastNat
  <2> HIDE DEF first, last
  <2>2. i # first  BY <1>6, <2>1
  <2>3. i - 1 \in first..last - 1 /\ i - 1 \in first..last /\ i - 1 \notin T /\ (i - 1) + 1 = i
    BY <1>1, <2>1, <2>2
  <2>4. w[i] = w[i - 1] * base + nptr[i - 1]  BY <1>6, <2>3
  <2>5. w[i - 1] \in Nat /\ nptr[i - 1] \in Nat  BY <1>2, <2>3
  <2>6. w[i] \in Nat  BY <1>1, <2>4, <2>5
  <2> QED  BY <2>1, <2>6
<1> QED  BY <1>5, <1>6, <1>7

LEMMA PrefixStep == IInv /\ Prefix => IInv'
<1> SUFFICES ASSUME IInv, Prefix PROVE IInv'
  OBVIOUS
<1> DEFINE hex == base \in {0, 16} /\ nptr[s] = 0 /\ nptr[s + 1] = X
<1>1. /\ UNCHANGED <<nptr, neg, acc, any, errno, endptr>> /\ pc = "prefix" /\ pc' = "digits"
      /\ s' = (IF hex THEN s + 2 ELSE s)
      /\ base' = (IF hex THEN 16 ELSE IF base # 0 THEN base ELSE IF nptr[s] = 0 THEN 8 ELSE 10)
      /\ s \in DOMAIN nptr /\ s = Body /\ base \in Bases /\ acc = 0 /\ any = 0
  BY DEF Prefix, IInv, TypeOK, AtBody, Accumulated, c
<1> HIDE DEF hex
<1>2. s' \in DOMAIN nptr
  <2>1. CASE hex
    <3>1. s + 1 \in DOMAIN nptr  BY <1>1, <2>1, StringType DEF IInv, hex, End
    <3>2. s + 1 + 1 \in DOMAIN nptr  BY <2>1, <3>1, StringType DEF IInv, hex, X, End
    <3>3. s \in Nat  BY <1>1, StringType DEF IInv
    <3> QED  BY <1>1, <2>1, <3>2, <3>3
  <2> QED  BY <1>1, <2>1
<1>3. base' \in 2..36 /\ base' \in Bases \cup {8, 10, 16}  BY <1>1
<1>4. Body' = s /\ s \in Nat
  <2>1. Body' = Body  BY <1>1, SameDigits
  <2>2. s \in Nat  BY <1>1, StringType DEF IInv
  <2> QED  BY <1>1, <2>1, <2>2
<1>5. FirstDigit' = s'
  <2>1. CASE hex  BY <1>1, <1>4, <2>1 DEF FirstDigit, hex
  <2>2. CASE ~hex
    <3>1. base' = 16 => base = 16  BY <1>1, <2>2
    <3> QED  BY <1>1, <1>4, <2>2, <3>1 DEF FirstDigit, hex
  <2> QED  BY <2>1, <2>2
<1>6. TypeOK'  BY <1>1, <1>2, <1>3 DEF IInv, TypeOK
<1>7. StringOK'  BY <1>1, SameDigits DEF IInv
<1>8. s' \in Nat  BY <1>1, <1>4
<1>9. AtDigits'
  BY <1>1, <1>2, <1>3, <1>4, <1>5, <1>8 DEF AtDigits, RealBase
<1>10. Number' = 0
  <2>1. NumberTo(FirstDigit)' = 0
    <3>1. StringOK' /\ RealBase' /\ (FirstDigit \in DOMAIN nptr)'
      BY <1>1, <1>2, <1>3, <1>5, <1>7 DEF RealBase
    <3>2. (StringOK /\ RealBase /\ FirstDigit \in DOMAIN nptr => NumberTo(FirstDigit) = 0)'
      BY NumberSteps, PTL
    <3> QED  BY <3>1, <3>2
  <2> QED  BY <1>5, <2>1 DEF Number, NumberTo
<1>11. Accumulated'  BY <1>1, <1>10, HalfWord, Limits DEF Accumulated
<1>12. AtSpace' /\ AtBody' /\ NonNegativeExact' /\ NegativeLost' /\ EndptrAfterDigits'
  BY <1>1 DEF AtSpace, AtBody, NonNegativeExact, NegativeLost, EndptrAfterDigits
<1> QED  BY <1>6, <1>7, <1>9, <1>11, <1>12 DEF IInv

\* The cutoff test of a number without minus sign: the digit fits exactly if it passes.
LEMMA PositiveCutoff ==
    ASSUME RealBase, ~neg, acc \in 0..LLONG_MAX, c \in 0..base - 1
    PROVE  acc * base + c <= LLONG_MAX <=> ~(acc > cutoff \/ (acc = cutoff /\ c > cutlim))
<1> DEFINE q == LLONG_MAX \div base
<1> DEFINE m == LLONG_MAX % base
<1>1. LLONG_MAX \in Nat /\ base \in Nat /\ base > 0 /\ acc \in Nat
  BY HalfWord, Limits DEF RealBase
<1>2. q \in Nat /\ m \in 0..base - 1 /\ LLONG_MAX = base * q + m  BY <1>1, Division
<1>3. cutoff = q /\ cutlim = LLONG_MAX - base * q
  BY <1>1 DEF cutoff, cutlim, limit, Quot, Rem
<1> HIDE DEF q, m
<1>4. base * q \in Nat  BY <1>1, <1>2
<1>5. cutlim = m  BY <1>2, <1>3, <1>4
<1>6. acc * base + c <= base * q + m <=> acc < q \/ (acc = q /\ c <= m)
  BY <1>1, <1>2, DigitFits
<1>7. c \in Int /\ m \in Int  BY <1>2, RealBase DEF RealBase
<1> QED  BY <1>1, <1>2, <1>3, <1>5, <1>6, <1>7

\* A number with a minus sign fails the test at once: its cutoff is not positive.
LEMMA NegativeCutoff ==
    ASSUME RealBase, neg, acc = 0, c \in 0..base - 1
    PROVE  acc > cutoff \/ (acc = cutoff /\ c > cutlim)
<1> DEFINE q == Half \div base
<1> DEFINE m == Half % base
<1>1. Half \in Nat /\ base \in Nat /\ base > 0 /\ Half > 0  BY HalfWord DEF RealBase
<1>2. q \in Nat /\ m \in 0..base - 1 /\ Half = base * q + m  BY <1>1, Division
<1>3. limit = -Half
  <2>1. -LLONG_MIN = Half /\ LLONG_MIN = -Half  BY Limits, HalfWord
  <2>2. (2 * Half) % Word = 0  BY HalfWord
  <2>3. Half - LLONG_MIN = 2 * Half  BY Limits, HalfWord
  <2> QED  BY <2>1, <2>2, <2>3, HalfWord DEF limit, Wrap
<1>4. cutoff = -q /\ cutlim = -Half - base * (-q)
  BY <1>1, <1>3 DEF cutoff, cutlim, Quot, Rem
<1> HIDE DEF q, m
<1>5. CASE q > 0  BY <1>2, <1>4, <1>5
<1>6. CASE q = 0
  <2>0. -q = 0
    <3>1. q \in Int  BY <1>2
    <3>2. -q = 0 - q  BY <3>1, Negation, Zenon
    <3>3. 0 - q = 0  BY <1>6, <3>1
    <3> QED  BY <3>2, <3>3, Zenon
  <2>1. cutoff = 0  BY <1>4, <2>0
  <2>2. base * (-q) = 0  BY <1>1, <2>0
  <2>3. cutlim = -Half - 0  BY <1>4, <2>2
  <2>4. cutlim < 0 /\ cutlim \in Int  BY <1>1, <2>3
  <2> QED  BY <2>1, <2>4
<1> QED  BY <1>2, <1>5, <1>6

LEMMA TakeDigitStep == IInv /\ TakeDigit => IInv' /\ (any' = 1 => acc' = acc * base + c)
<1> SUFFICES ASSUME IInv, TakeDigit PROVE IInv' /\ (any' = 1 => acc' = acc * base + c)
  OBVIOUS
<1> DEFINE cut == any < 0 \/ acc > cutoff \/ (acc = cutoff /\ c > cutlim)
<1> DEFINE next == acc * base + c
<1>1. /\ UNCHANGED <<nptr, pc, neg, base, errno, endptr>> /\ pc = "digits"
      /\ s \in DOMAIN nptr /\ c = nptr[s] /\ c < base /\ s' = s + 1
      /\ RealBase /\ base \in Nat /\ FirstDigit \in DOMAIN nptr /\ any \in {-1, 0, 1}
      /\ neg \in BOOLEAN
      /\ IF cut THEN any' = -1 /\ UNCHANGED acc
         ELSE any' = 1 /\ acc' = Wrap(Wrap(acc * base) + c)
  BY DEF TakeDigit, IsDigit, IInv, TypeOK, AtDigits, RealBase, c
<1>2. s \in Nat /\ c \in Nat /\ c \in 0..base - 1 /\ FirstDigit \in Nat
  <2>1. c \in Nat /\ s \in Nat /\ FirstDigit \in Nat  BY <1>1, StringType DEF IInv
  <2> QED  BY <1>1, <2>1
<1>3. s' \in DOMAIN nptr
  <2>1. c # End  BY <1>1 DEF RealBase, End
  <2> QED  BY <1>1, <2>1, StringType DEF IInv
<1>4. Number' = Number * base + c /\ Number \in Nat
  <2>1. Number' = NumberTo(s + 1)  BY <1>1, SameDigits DEF Number, NumberTo
  <2>2. s \in FirstDigit..Len(nptr) - 1 /\ s \in FirstDigit..Len(nptr)
    <3>1. s + 1 <= Len(nptr) /\ Len(nptr) \in Nat  BY <1>1, <1>2, <1>3 DEF IInv, StringOK
    <3>2. FirstDigit <= s  BY <1>1 DEF IInv, AtDigits
    <3> QED  BY <1>2, <3>1, <3>2
  <2> QED  BY <1>1, <2>1, <2>2, NumberSteps DEF IInv, Number
<1>5. Number' >= Number /\ Number' \in Nat
  BY <1>1, <1>2, <1>4, Grows DEF RealBase
<1>6. Accumulated' /\ acc' \in LLONG_MIN..LLONG_MAX /\ any' \in {-1, 1}
      /\ (any' = 1 => acc' = acc * base + c)
  <2>1. CASE cut
    <3>1. any' = -1 /\ acc' = acc  BY <1>1, <2>1
    <3>2. ~neg => Number' > LLONG_MAX
      <4> SUFFICES ASSUME ~neg PROVE Number' > LLONG_MAX
        OBVIOUS
      <4>1. acc \in 0..LLONG_MAX /\ LLONG_MAX \in Nat
        BY <1>1, HalfWord, Limits DEF IInv, Accumulated
      <4>2. CASE any < 0
        <5>1. Number > LLONG_MAX  BY <1>1, <4>2 DEF IInv, Accumulated
        <5> QED  BY <1>4, <1>5, <4>1, <5>1
      <4>3. CASE any >= 0
        <5>1. acc = Number  BY <1>1, <4>3 DEF IInv, Accumulated
        <5>2. ~(acc * base + c <= LLONG_MAX)
          BY <1>1, <1>2, <2>1, <4>1, <4>3, PositiveCutoff
        <5> QED  BY <1>4, <1>5, <4>1, <5>1, <5>2
      <4> QED  BY <1>1, <4>2, <4>3
    <3>3. Accumulated'  BY <1>1, <3>1, <3>2 DEF IInv, Accumulated
    <3>4. acc' \in LLONG_MIN..LLONG_MAX  BY <3>1 DEF IInv, TypeOK
    <3> QED  BY <3>1, <3>3, <3>4
  <2>2. CASE ~cut
    <3>1. any' = 1 /\ acc' = Wrap(Wrap(acc * base) + c) /\ any >= 0  BY <1>1, <2>2
    <3>2. ~neg
      <4>1. neg => acc = 0  BY <1>1 DEF IInv, Accumulated
      <4> QED  BY <1>1, <1>2, <2>2, <4>1, NegativeCutoff
    <3>3. acc \in 0..LLONG_MAX /\ acc = Number  BY <1>1, <3>1, <3>2 DEF IInv, Accumulated
    <3>4. next <= LLONG_MAX  BY <1>1, <1>2, <2>2, <3>2, <3>3, PositiveCutoff
    <3>5. acc * base \in Nat /\ next \in Nat  BY <1>1, <1>2, <3>3
    <3>6. acc * base \in LLONG_MIN..LLONG_MAX /\ next \in LLONG_MIN..LLONG_MAX
      BY <1>2, <3>4, <3>5, HalfWord, Limits
    <3>7. acc' = next  BY <3>1, <3>6, WrapExact
    <3>8. Number' = next  BY <1>4, <3>3
    <3>9. Accumulated'
      BY <1>1, <3>1, <3>2, <3>4, <3>5, <3>7, <3>8 DEF Accumulated
    <3> QED  BY <3>1, <3>6, <3>7, <3>9
  <2> QED  BY <2>1, <2>2
<1>7. TypeOK'  BY <1>1, <1>3, <1>6 DEF IInv, TypeOK
<1>8. StringOK'  BY <1>1, SameDigits DEF IInv
<1>9. AtDigits'
  <2>1. UNCHANGED <<Body, FirstDigit>>  BY <1>1, SameDigits
  <2>2. FirstDigit <= s /\ \A i \in FirstDigit..s - 1 : nptr[i] < base
    BY <1>1 DEF IInv, AtDigits
  <2>3. \A i \in FirstDigit..s' - 1 : nptr[i] < base
    BY <1>1, <1>2, <2>2
  <2> QED  BY <1>1, <1>2, <1>6, <2>1, <2>2, <2>3 DEF IInv, AtDigits, RealBase
<1>10. AtSpace' /\ AtBody' /\ NonNegativeExact' /\ NegativeLost' /\ EndptrAfterDigits'
  BY <1>1 DEF AtSpace, AtBody, NonNegativeExact, NegativeLost, EndptrAfterDigits
<1> QED  BY <1>6, <1>7, <1>8, <1>9, <1>10 DEF IInv

LEMMA FinishStep == IInv /\ Finish => IInv'
<1> SUFFICES ASSUME IInv, Finish PROVE IInv'
  OBVIOUS
<1>1. /\ UNCHANGED <<nptr, s, neg, base, any>> /\ pc = "digits" /\ pc' = "done"
      /\ acc' = IF any < 0 THEN (IF neg THEN LLONG_MIN ELSE LLONG_MAX)
                ELSE IF neg THEN Wrap(-acc) ELSE acc
      /\ errno' = (any < 0) /\ endptr' = (IF any # 0 THEN s ELSE 1)
      /\ s \in DOMAIN nptr /\ ~(nptr[s] < base) /\ RealBase /\ any \in {-1, 0, 1}
      /\ neg \in BOOLEAN
  BY DEF Finish, EndAt, IsDigit, IInv, TypeOK, AtDigits, c
<1>2. s \in 1..Len(nptr) /\ nptr[s] \in Nat /\ Len(nptr) \in Nat
  BY <1>1, StringType DEF IInv, StringOK
<1>3. acc \in LLONG_MIN..LLONG_MAX /\ LLONG_MIN \in Int /\ LLONG_MAX \in Nat /\ LLONG_MIN <= LLONG_MAX
  BY HalfWord, Limits DEF IInv, TypeOK
<1>4. acc' \in LLONG_MIN..LLONG_MAX
  <2>1. -acc \in Int  BY <1>3
  <2> QED  BY <1>1, <1>3, <2>1, WrapType
<1>5. TypeOK'  BY <1>1, <1>2, <1>4 DEF IInv, TypeOK
<1>6. StringOK'  BY <1>1, SameDigits DEF IInv
<1>7. UNCHANGED <<Body, FirstDigit, Number>>
  BY <1>1, SameDigits DEF Number, NumberTo
<1>8. AtDigits'  BY <1>1, <1>7 DEF IInv, AtDigits, RealBase
<1>9. EndptrAfterDigits'
  <2>1. /\ \A i \in FirstDigit..s - 1 : nptr[i] < base
        /\ FirstDigit <= s /\ FirstDigit \in DOMAIN nptr
        /\ any = 0 <=> s = FirstDigit
    BY <1>1 DEF IInv, AtDigits
  <2>2. FirstDigit \in Nat
    <3>1. StringOK  BY DEF IInv
    <3>2. FirstDigit \in DOMAIN nptr  BY <2>1
    <3>3. FirstDigit \in 1..Len(nptr)  BY <3>1, <3>2, StringType, Zenon
    <3> QED  BY <3>3
  <2>3. nptr[s] >= base  BY <1>1, <1>2 DEF RealBase
  <2>4. endptr' = IF s > FirstDigit THEN s ELSE 1  BY <1>1, <1>2, <2>1, <2>2
  <2> QED  BY <1>1, <1>7, <2>1, <2>3, <2>4 DEF EndptrAfterDigits
<1>10. NonNegativeExact'
  <2>1. ~neg /\ any >= 0 => acc = Number /\ acc \in 0..LLONG_MAX  BY <1>1 DEF IInv, Accumulated
  <2>2. ~neg /\ any < 0 => Number > LLONG_MAX  BY <1>1 DEF IInv, Accumulated
  <2>3. Number \in Nat
    <3>1. s \in FirstDigit..Len(nptr) /\ FirstDigit \in DOMAIN nptr
      <4>1. FirstDigit <= s /\ FirstDigit \in DOMAIN nptr  BY <1>1 DEF IInv, AtDigits
      <4>2. FirstDigit \in Nat  BY <4>1, StringType DEF IInv
      <4> QED  BY <1>2, <4>1, <4>2
    <3> QED  BY <1>1, <3>1, NumberSteps DEF IInv, Number
  <2>4. CASE neg  BY <1>1, <2>4 DEF NonNegativeExact
  <2>5. CASE ~neg /\ any < 0
    <3>1. acc' = LLONG_MAX  BY <1>1, <2>5
    <3>2. errno' = TRUE  BY <1>1, <2>5
    <3>3. ~(Number <= LLONG_MAX)  BY <1>3, <2>2, <2>3, <2>5
    <3> QED  BY <1>7, <3>1, <3>2, <3>3 DEF NonNegativeExact, LLONG_MAX
  <2>6. CASE ~neg /\ any >= 0
    <3>1. acc' = Number /\ errno' = FALSE /\ Number <= LLONG_MAX
      BY <1>1, <1>3, <2>1, <2>6
    <3> QED  BY <1>7, <3>1 DEF NonNegativeExact, LLONG_MAX
  <2> QED  BY <1>1, <2>4, <2>5, <2>6
<1>11. NegativeLost'
  <2> SUFFICES ASSUME neg
               PROVE IF s = FirstDigit THEN acc' = 0 /\ ~errno' ELSE acc' = LLONG_MIN /\ errno'
    BY <1>1, <1>7, Zenon DEF NegativeLost, LLONG_MIN
  <2>1. acc = 0 /\ any <= 0 /\ (any = 0 <=> s = FirstDigit)
    BY <1>1 DEF IInv, Accumulated, AtDigits
  <2>2. CASE any = 0
    <3>1. -acc = 0
      <4>1. -acc = 0 - acc  BY <1>3, Negation
      <4> QED  BY <2>1, <4>1
    <3>2. 0 \in LLONG_MIN..LLONG_MAX  BY HalfWord, Limits
    <3>3. acc' = 0  BY <1>1, <2>2, <3>1, <3>2, WrapExact
    <3>4. ~errno'
      <4>1. errno' <=> any < 0  BY <1>1
      <4> QED  BY <2>2, <4>1
    <3> QED  BY <2>1, <2>2, <3>3, <3>4
  <2>3. CASE any < 0
    <3>1. acc' = LLONG_MIN  BY <1>1, <2>3
    <3>2. errno' = TRUE  BY <1>1, <2>3
    <3>3. any # 0  BY <1>1, <2>3
    <3> QED  BY <2>1, <3>1, <3>2, <3>3, Zenon
  <2> QED  BY <1>1, <2>1, <2>2, <2>3
<1>12. AtSpace' /\ AtBody' /\ Accumulated'
  BY <1>1 DEF AtSpace, AtBody, Accumulated
<1> QED  BY <1>5, <1>6, <1>8, <1>9, <1>10, <1>11, <1>12 DEF IInv

LEMMA NextIInv == IInv /\ [Next]_vars => IInv'
<1> SUFFICES ASSUME IInv, [Next]_vars PROVE IInv'
  OBVIOUS
<1>1. CASE Next
  BY <1>1, SkipSpaceStep, SignStep, PrefixStep, TakeDigitStep, FinishStep DEF Next
<1>2. CASE UNCHANGED vars
  <2>1. UNCHANGED <<nptr, pc, s, neg, base, acc, any, errno, endptr>>  BY <1>2 DEF vars
  <2>2. UNCHANGED <<Body, FirstDigit, Number>> /\ StringOK'
    BY <2>1, SameDigits DEF Number, NumberTo, IInv
  <2> QED
    BY <2>1, <2>2 DEF IInv, TypeOK, AtSpace, AtBody, AtDigits, RealBase, Accumulated,
                      NonNegativeExact, NegativeLost, EndptrAfterDigits
<1> QED  BY <1>1, <1>2

\* The inductive invariant: what of the number has been read is what acc and any say.
THEOREM Invariant == Spec => []IInv
BY InitIInv, NextIInv, PTL DEF Spec

\* strtoll never reads behind the end of the string, and its accumulator stays a long
\* long, for every width, base and string (strtoll.c:28-92).
THEOREM TypeCorrect == Spec => []TypeOK
<1>1. IInv => TypeOK  BY DEF IInv
<1> QED  BY <1>1, Invariant, PTL

\* A number without minus sign is converted to what its digits say, by Horner's scheme,
\* when it fits, and is LLONG_MAX with ERANGE when not (strtoll.c:66-88).
THEOREM PositiveNumbersExact == Spec => []NonNegativeExact
<1>1. IInv => NonNegativeExact  BY DEF IInv
<1> QED  BY <1>1, Invariant, PTL

\* The other half of strtoll.c:51 the code gets wrong for every width and base: limit is
\* LLONG_MIN and not its opposite, the cutoff test is met by any digit, and every number
\* with a minus sign comes back as LLONG_MIN with ERANGE (strtoll.c:60-88).
THEOREM NegativeNumbersLost == Spec => []NegativeLost
<1>1. IInv => NegativeLost  BY DEF IInv
<1> QED  BY <1>1, Invariant, PTL

\* All the digits there are have been taken, also those of a number that does not fit,
\* and *endptr is behind them (strtoll.c:66-91).
THEOREM AllDigitsTaken == Spec => []EndptrAfterDigits
<1>1. IInv => EndptrAfterDigits  BY DEF IInv
<1> QED  BY <1>1, Invariant, PTL

\* The cutoff test lets through no digit that would overflow the accumulator, for every
\* base and every width of a long long (strtoll.c:60-81).
THEOREM DigitsNeverOverflow == Spec => NoOverflow
<1>1. IInv /\ [Next]_vars => [TakeDigit /\ any' = 1 => acc' = acc * base + c]_vars
  BY TakeDigitStep
<1> QED  BY InitIInv, NextIInv, <1>1, PTL DEF Spec, NoOverflow
=============================================================================
