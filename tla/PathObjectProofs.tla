-------------------------- MODULE PathObjectProofs --------------------------
(***************************************************************************)
(* Proofs about PathObject and the operators of CppPath, for paths of any  *)
(* length over any names: sanitize() keeps the place a path leads to and   *)
(* gives it one spelling, and up(), equivalent() and path_sanitize() do    *)
(* what they are for.                                                      *)
(***************************************************************************)
EXTENDS PathObject, SequenceTheorems, WellFoundedInduction, TLAPS

-----------------------------------------------------------------------------
(* Induction: every nonempty set of numbers has a least element, so a set   *)
(* of paths that holds the empty one and is closed under Append holds all.  *)

LEMMA LeastNat ==
    ASSUME NEW T \in SUBSET Nat, T # {}
    PROVE  \E n \in T : \A m \in T : ~(m < n)
<1> DEFINE R == OpToRel(<, Nat)
<1>1. IsWellFoundedOn(R, Nat)  BY NatLessThanWellFounded
<1>2. \E n \in T : \A m \in T : ~(<<m, n>> \in R)
  <2> HIDE DEF R
  <2> QED  BY <1>1, WFMin
<1> QED  BY <1>2 DEF OpToRel

LEMMA IndexInduction ==
    ASSUME NEW T \in SUBSET Nat, 0 \in T, \A n \in T : n + 1 \in T
    PROVE  T = Nat
<1>1. ASSUME Nat \ T # {} PROVE FALSE
  <2>1. PICK n \in Nat \ T : \A m \in Nat \ T : ~(m < n)  BY <1>1, LeastNat
  <2>2. n # 0  BY <2>1
  <2>3. n - 1 \in Nat  BY <2>1, <2>2
  <2>4. n - 1 \in T  BY <2>1, <2>3
  <2>5. (n - 1) + 1 \in T  BY <2>4
  <2> QED  BY <2>1, <2>5
<1> QED  BY <1>1, Zenon

LEMMA SeqInduction ==
    ASSUME NEW S, NEW T \in SUBSET Seq(S), <<>> \in T,
           \A p \in T : \A x \in S : Append(p, x) \in T
    PROVE  T = Seq(S)
<1> DEFINE L == {n \in Nat : \A p \in Seq(S) : Len(p) = n => p \in T}
<1>1. 0 \in L
  <2> SUFFICES ASSUME NEW p \in Seq(S), Len(p) = 0 PROVE p \in T
    OBVIOUS
  <2>1. p = <<>>  BY EmptySeq
  <2> QED  BY <2>1
<1>2. ASSUME NEW n \in L PROVE n + 1 \in L
  <2> SUFFICES ASSUME NEW p \in Seq(S), Len(p) = n + 1 PROVE p \in T
    OBVIOUS
  <2>1. p # <<>>  BY EmptySeq
  <2>2. PICK q \in Seq(S), x \in S : p = Append(q, x)  BY <2>1, SequenceEmptyOrAppend
  <2>3. Len(q) = n  BY <2>2, AppendProperties, LenProperties
  <2> QED  BY <2>2, <2>3
<1>3. L = Nat
  <2> HIDE DEF L
  <2>1. L \in SUBSET Nat  BY DEF L
  <2> QED  BY <1>1, <1>2, <2>1, IndexInduction
<1> QED  BY <1>3, LenProperties

-----------------------------------------------------------------------------
(* Loops over a path: f[i] is what g has made of a after i segments.        *)

Loop(f, g, a, p) == f[0] = a /\ \A i \in 1..Len(p) : f[i] = g[<<f[i - 1], p[i]>>]

LEMMA LoopExists ==
    ASSUME NEW D, NEW S, NEW a \in D, NEW g \in [D \X S -> D], NEW p \in Seq(S)
    PROVE  \E f \in [0..Len(p) -> D] : Loop(f, g, a, p)
<1> DEFINE T == {q \in Seq(S) : \E f \in [0..Len(q) -> D] : Loop(f, g, a, q)}
<1>1. <<>> \in T
  <2> DEFINE f == [i \in 0..0 |-> a]
  <2>1. f \in [0..Len(<<>>) -> D] /\ Loop(f, g, a, <<>>)  BY DEF Loop
  <2> QED  BY <2>1
<1>2. ASSUME NEW q \in T, NEW x \in S PROVE Append(q, x) \in T
  <2> DEFINE n == Len(q)
  <2> DEFINE r == Append(q, x)
  <2>1. n \in Nat /\ r \in Seq(S) /\ Len(r) = n + 1 /\ r[n + 1] = x
        /\ \A i \in 1..n : r[i] = q[i]
    BY AppendProperties, LenProperties
  <2>2. PICK f \in [0..n -> D] : Loop(f, g, a, q)  OBVIOUS
  <2>3a. \A i \in 1..n : f[i] = g[<<f[i - 1], q[i]>>]  BY <2>2 DEF Loop
  <2> HIDE DEF n, r
  <2> DEFINE h == [i \in 0..n + 1 |-> IF i = n + 1 THEN g[<<f[n], x>>] ELSE f[i]]
  <2>3. h \in [0..n + 1 -> D]
    <3>1. g[<<f[n], x>>] \in D  BY <2>1
    <3> QED  BY <2>1, <3>1
  <2>4. h[0] = a  BY <2>1, <2>2 DEF Loop
  <2>5. ASSUME NEW i \in 1..n + 1 PROVE h[i] = g[<<h[i - 1], r[i]>>]
    <3>0. \A j \in 0..n + 1 : h[j] = IF j = n + 1 THEN g[<<f[n], x>>] ELSE f[j]
      OBVIOUS
    <3> HIDE DEF h
    <3>1. CASE i = n + 1
      <4>1. i \in 0..n + 1 /\ i - 1 = n /\ n \in 0..n + 1 /\ n # n + 1  BY <2>1, <3>1
      <4>2. h[i] = g[<<f[n], x>>] /\ h[i - 1] = f[n]  BY <3>0, <3>1, <4>1
      <4> QED  BY <2>1, <3>1, <4>2
    <3>2. CASE i # n + 1
      <4>1. i \in 1..n /\ i \in 0..n + 1 /\ i - 1 \in 0..n + 1 /\ i - 1 # n + 1
        BY <2>1, <3>2
      <4>2. f[i] = g[<<f[i - 1], q[i]>>]  BY <2>3a, <4>1
      <4>3. h[i] = f[i] /\ h[i - 1] = f[i - 1]  BY <3>0, <3>2, <4>1
      <4>4. r[i] = q[i]  BY <2>1, <4>1
      <4> QED  BY <4>2, <4>3, <4>4
    <3> QED  BY <3>1, <3>2
  <2> HIDE DEF h
  <2>6. Loop(h, g, a, r)  BY <2>1, <2>4, <2>5 DEF Loop
  <2> QED  BY <2>1, <2>3, <2>6 DEF n, r
<1>3. T = Seq(S)
  <2> HIDE DEF T
  <2>1. T \in SUBSET Seq(S)  BY DEF T
  <2> QED  BY <1>1, <1>2, <2>1, SeqInduction
<1> QED  BY <1>3

\* Two loops that start alike agree as far as their paths do.
LEMMA LoopsAgree ==
    ASSUME NEW f, NEW h, NEW g, NEW a, NEW p, NEW q, NEW n \in Nat,
           Loop(f, g, a, p), Loop(h, g, a, q), Len(p) \in Nat, Len(q) \in Nat,
           n <= Len(p), n <= Len(q), \A i \in 1..n : p[i] = q[i]
    PROVE  f[n] = h[n]
<1> DEFINE T == {i \in Nat : i <= n => f[i] = h[i]}
<1>1. 0 \in T  BY DEF Loop
<1>2. ASSUME NEW i \in T PROVE i + 1 \in T
  <2> SUFFICES ASSUME i + 1 <= n PROVE f[i + 1] = h[i + 1]
    OBVIOUS
  <2>1. f[i] = h[i] /\ i \in Nat /\ i + 1 \in 1..n /\ (i + 1) - 1 = i  OBVIOUS
  <2>2. i + 1 \in 1..Len(p) /\ i + 1 \in 1..Len(q)  BY <2>1
  <2>3. f[i + 1] = g[<<f[i], p[i + 1]>>] /\ h[i + 1] = g[<<h[i], q[i + 1]>>]
    BY <2>1, <2>2 DEF Loop
  <2> QED  BY <2>1, <2>3
<1>3. T = Nat
  <2> HIDE DEF T
  <2>1. T \in SUBSET Nat  BY DEF T
  <2> QED  BY <1>1, <1>2, <2>1, IndexInduction
<1> QED  BY <1>3

\* Whatever function satisfies the equation of a loop stays in the loop's range.
LEMMA LoopType ==
    ASSUME NEW D, NEW S, NEW g \in [D \X S -> D], NEW p \in Seq(S), NEW h,
           h[0] \in D,
           \A i \in 1..Len(p) : h[i - 1] \in D => h[i] = g[<<h[i - 1], p[i]>>]
    PROVE  (\A i \in 0..Len(p) : h[i] \in D) /\ Loop(h, g, h[0], p)
<1> DEFINE T == {i \in Nat : i <= Len(p) => h[i] \in D}
<1>1. Len(p) \in Nat /\ \A i \in 1..Len(p) : p[i] \in S  BY LenProperties, ElementOfSeq
<1>2. 0 \in T  OBVIOUS
<1>3. ASSUME NEW i \in T PROVE i + 1 \in T
  <2> SUFFICES ASSUME i + 1 <= Len(p) PROVE h[i + 1] \in D
    OBVIOUS
  <2>1. i \in Nat /\ i + 1 \in 1..Len(p) /\ (i + 1) - 1 = i /\ h[i] \in D  BY <1>1
  <2>2. h[i + 1] = g[<<h[i], p[i + 1]>>] /\ p[i + 1] \in S  BY <1>1, <2>1
  <2> QED  BY <2>1, <2>2
<1>4. T = Nat
  <2> HIDE DEF T
  <2>1. T \in SUBSET Nat  BY DEF T
  <2> QED  BY <1>2, <1>3, <2>1, IndexInduction
<1>5. \A i \in 0..Len(p) : h[i] \in D  BY <1>1, <1>4
<1>6. ASSUME NEW i \in 1..Len(p) PROVE h[i] = g[<<h[i - 1], p[i]>>]
  <2>1. i - 1 \in 0..Len(p)  BY <1>1
  <2> QED  BY <1>5, <2>1
<1> HIDE DEF T
<1> QED  BY <1>5, <1>6 DEF Loop

-----------------------------------------------------------------------------
(* The two loops of CppPath, one segment at a time                          *)

LEMMA SegmentFacts ==
    /\ Blank \in Segment /\ "." \in Segment /\ ".." \in Segment /\ FileName \subseteq Segment
    /\ \A x \in Segment : x \in {Blank, ".", ".."} <=> x \notin FileName
    /\ Blank # "." /\ Blank # ".."
<1>1. Blank # "." /\ Blank # ".."  BY DEF Blank
<1> QED  BY <1>1, FileNameAssumption DEF Segment

LEMMA FrontFacts ==
    ASSUME NEW S, NEW s \in Seq(S), s # <<>>
    PROVE  /\ Front(s) \in Seq(S) /\ Last(s) \in S /\ s = Append(Front(s), Last(s))
           /\ Len(Front(s)) = Len(s) - 1 /\ Len(s) > 0
           /\ \A i \in 1..Len(s) - 1 : Front(s)[i] = s[i]
<1>1. Len(s) \in Nat \ {0} /\ \A i \in 1..Len(s) : s[i] \in S  BY EmptySeq, ElementOfSeq
<1>2. /\ Front(s) \in Seq(S) /\ Len(Front(s)) = Len(s) - 1
      /\ \A i \in 1..Len(s) - 1 : Front(s)[i] = s[i]
  <2> DEFINE n == Len(s) - 1
  <2>1. n \in Nat /\ \A i \in 1..n : s[i] \in S  BY <1>1
  <2> HIDE DEF n
  <2>2. /\ SubSeq(s, 1, n) \in Seq(S)
        /\ Len(SubSeq(s, 1, n)) = IF 1 <= n THEN n - 1 + 1 ELSE 0
        /\ \A i \in 1..n - 1 + 1 : SubSeq(s, 1, n)[i] = s[1 + i - 1]
    BY <2>1, SubSeqProperties
  <2>3. Len(SubSeq(s, 1, n)) = n /\ \A i \in 1..n : SubSeq(s, 1, n)[i] = s[i]
    BY <2>1, <2>2
  <2> QED  BY <2>2, <2>3 DEF Front, n
<1>3. Last(s) \in S  BY <1>1 DEF Last
<1>4. s = Append(Front(s), Last(s))
  <2> DEFINE t == Append(Front(s), Last(s))
  <2>1. /\ t \in Seq(S) /\ Len(t) = Len(s)
        /\ \A i \in 1..Len(s) - 1 : t[i] = s[i]
        /\ t[Len(s)] = s[Len(s)]
    BY <1>1, <1>2, <1>3, AppendProperties DEF Last
  <2> HIDE DEF t
  <2>2. \A i \in 1..Len(s) : s[i] = t[i]  BY <1>1, <2>1
  <2>3. s = t  BY <2>1, <2>2, SeqEqual
  <2> QED  BY <2>3 DEF t
<1> QED  BY <1>1, <1>2, <1>3, <1>4

LEMMA FrontAppend ==
    ASSUME NEW S, NEW s \in Seq(S), NEW x \in S
    PROVE  Front(Append(s, x)) = s /\ Last(Append(s, x)) = x /\ Append(s, x) # <<>>
<1> DEFINE t == Append(s, x)
<1>1. t \in Seq(S) /\ t # <<>> /\ Len(t) = Len(s) + 1 /\ t[Len(s) + 1] = x
  BY AppendProperties
<1> HIDE DEF t
<1>2. Front(t) \in Seq(S) /\ Last(t) \in S /\ t = Append(Front(t), Last(t))
  BY <1>1, FrontFacts
<1>3. Last(t) = x  BY <1>1, LenProperties DEF Last
<1>4. s = Front(t)  BY <1>1, <1>2, <1>3, AppendInjective DEF t
<1> QED  BY <1>1, <1>3, <1>4 DEF t

LEMMA PruneType ==
    ASSUME NEW s \in Seq(Segment), NEW x \in Segment, NEW r \in BOOLEAN
    PROVE  Prune(s, x, r) \in Seq(Segment)
<1>1. s # <<>> => Front(s) \in Seq(Segment)  BY FrontFacts
<1>2. Append(s, x) \in Seq(Segment) /\ Append(s, "..") \in Seq(Segment)
  BY SegmentFacts, AppendProperties
<1> QED  BY <1>1, <1>2 DEF Prune

LEMMA EnterType ==
    ASSUME NEW s \in Seq(Segment), NEW x \in Segment
    PROVE  Enter(s, x) \in Seq(Segment)
<1>1. s # <<>> => Front(s) \in Seq(Segment)  BY FrontFacts
<1>2. Append(s, x) \in Seq(Segment)  BY AppendProperties
<1> QED  BY <1>1, <1>2 DEF Enter, Parent

PruneStep(r) == [y \in Seq(Segment) \X Segment |-> Prune(y[1], y[2], r)]
EnterStep == [y \in Seq(Segment) \X Segment |-> Enter(y[1], y[2])]

LEMMA PruneStepFacts ==
    ASSUME NEW r \in BOOLEAN
    PROVE  /\ PruneStep(r) \in [Seq(Segment) \X Segment -> Seq(Segment)]
           /\ \A s \in Seq(Segment), x \in Segment : PruneStep(r)[<<s, x>>] = Prune(s, x, r)
BY PruneType DEF PruneStep

LEMMA EnterStepFacts ==
    /\ EnterStep \in [Seq(Segment) \X Segment -> Seq(Segment)]
    /\ \A s \in Seq(Segment), x \in Segment : EnterStep[<<s, x>>] = Enter(s, x)
BY EnterType DEF EnterStep

LEMMA PrunedLoops ==
    ASSUME NEW r \in BOOLEAN, NEW p \in Seq(Segment)
    PROVE  \E h : /\ Loop(h, PruneStep(r), <<>>, p) /\ Pruned(p, r) = h[Len(p)]
                  /\ h[Len(p)] \in Seq(Segment)
<1> DEFINE D == Seq(Segment)
<1> DEFINE g == PruneStep(r)
<1> DEFINE F(h) == [i \in 0..Len(p) |-> IF i = 0 THEN <<>> ELSE Prune(h[i - 1], p[i], r)]
<1>1. <<>> \in D /\ Len(p) \in Nat /\ \A i \in 1..Len(p) : p[i] \in Segment
  BY LenProperties, ElementOfSeq, EmptySeq
<1>2. g \in [D \X Segment -> D] /\ \A s \in D, x \in Segment : g[<<s, x>>] = Prune(s, x, r)
  BY PruneStepFacts
<1> HIDE DEF g, D
<1>3. PICK f \in [0..Len(p) -> D] : Loop(f, g, <<>>, p)
  <2>1. p \in Seq(Segment)  OBVIOUS
  <2> QED  BY <1>1, <1>2, <2>1, LoopExists
<1>4. f = F(f)
  <2>1. ASSUME NEW i \in 0..Len(p) PROVE f[i] = F(f)[i]
    <3>1. CASE i = 0  BY <1>3, <3>1 DEF Loop
    <3>2. CASE i # 0
      <4>1. i \in 1..Len(p) /\ i - 1 \in 0..Len(p)  BY <1>1, <3>2
      <4>2. f[i - 1] \in D /\ p[i] \in Segment  BY <1>1, <1>3, <4>1
      <4>3. f[i] = g[<<f[i - 1], p[i]>>]  BY <1>3, <4>1 DEF Loop
      <4> QED  BY <1>2, <3>2, <4>2, <4>3
    <3> QED  BY <3>1, <3>2
  <2> QED  BY <2>1
<1> DEFINE h == CHOOSE h : h = F(h)
<1>5. h = F(h)
  <2> HIDE DEF F
  <2> QED  BY <1>4
<1>6. Pruned(p, r) = h[Len(p)]  BY DEF Pruned
<1> HIDE DEF h
<1>7. h[0] = <<>> /\ \A i \in 1..Len(p) : h[i] = Prune(h[i - 1], p[i], r)
  BY <1>1, <1>5
<1>8. \A i \in 1..Len(p) : h[i - 1] \in D => h[i] = g[<<h[i - 1], p[i]>>]
  BY <1>1, <1>2, <1>7
<1>9. (\A i \in 0..Len(p) : h[i] \in D) /\ Loop(h, g, <<>>, p)
  <2>1. p \in Seq(Segment)  OBVIOUS
  <2>2. <<>> \in D /\ h[0] = <<>> /\ g \in [D \X Segment -> D]  BY <1>1, <1>2, <1>7
  <2>3. h[0] \in D /\ g \in [D \X Segment -> D]  BY <2>2
  <2>4. (\A i \in 0..Len(p) : h[i] \in D) /\ Loop(h, g, h[0], p)
    BY <1>8, <2>1, <2>3, LoopType, Zenon
  <2> QED  BY <2>2, <2>4
<1> QED  BY <1>1, <1>6, <1>9 DEF g, D

LEMMA FollowLoops ==
    ASSUME NEW dir \in Seq(Segment), NEW p \in Seq(Segment)
    PROVE  \E h : /\ Loop(h, EnterStep, dir, p) /\ Follow(dir, p) = h[Len(p)]
                  /\ h[Len(p)] \in Seq(Segment)
<1> DEFINE D == Seq(Segment)
<1> DEFINE g == EnterStep
<1> DEFINE F(h) == [i \in 0..Len(p) |-> IF i = 0 THEN dir ELSE Enter(h[i - 1], p[i])]
<1>1. dir \in D /\ Len(p) \in Nat /\ \A i \in 1..Len(p) : p[i] \in Segment
  BY LenProperties, ElementOfSeq
<1>2. g \in [D \X Segment -> D] /\ \A s \in D, x \in Segment : g[<<s, x>>] = Enter(s, x)
  BY EnterStepFacts
<1> HIDE DEF g, D
<1>3. PICK f \in [0..Len(p) -> D] : Loop(f, g, dir, p)
  <2>1. p \in Seq(Segment)  OBVIOUS
  <2> QED  BY <1>1, <1>2, <2>1, LoopExists
<1>4. f = F(f)
  <2>1. ASSUME NEW i \in 0..Len(p) PROVE f[i] = F(f)[i]
    <3>1. CASE i = 0  BY <1>3, <3>1 DEF Loop
    <3>2. CASE i # 0
      <4>1. i \in 1..Len(p) /\ i - 1 \in 0..Len(p)  BY <1>1, <3>2
      <4>2. f[i - 1] \in D /\ p[i] \in Segment  BY <1>1, <1>3, <4>1
      <4>3. f[i] = g[<<f[i - 1], p[i]>>]  BY <1>3, <4>1 DEF Loop
      <4> QED  BY <1>2, <3>2, <4>2, <4>3
    <3> QED  BY <3>1, <3>2
  <2> QED  BY <2>1
<1> DEFINE h == CHOOSE h : h = F(h)
<1>5. h = F(h)
  <2> HIDE DEF F
  <2> QED  BY <1>4
<1>6. Follow(dir, p) = h[Len(p)]  BY DEF Follow
<1> HIDE DEF h
<1>7. h[0] = dir /\ \A i \in 1..Len(p) : h[i] = Enter(h[i - 1], p[i])
  BY <1>1, <1>5
<1>8. \A i \in 1..Len(p) : h[i - 1] \in D => h[i] = g[<<h[i - 1], p[i]>>]
  BY <1>1, <1>2, <1>7
<1>9. (\A i \in 0..Len(p) : h[i] \in D) /\ Loop(h, g, dir, p)
  <2>1. p \in Seq(Segment)  OBVIOUS
  <2>2. dir \in D /\ h[0] = dir /\ g \in [D \X Segment -> D]  BY <1>1, <1>2, <1>7
  <2>3. h[0] \in D /\ g \in [D \X Segment -> D]  BY <2>2
  <2>4. (\A i \in 0..Len(p) : h[i] \in D) /\ Loop(h, g, h[0], p)
    BY <1>8, <2>1, <2>3, LoopType, Zenon
  <2> QED  BY <2>2, <2>4
<1> QED  BY <1>1, <1>6, <1>9 DEF g, D

\* What the pruned segments are after one more segment.
LEMMA PrunedLaws ==
    ASSUME NEW r \in BOOLEAN
    PROVE  /\ Pruned(<<>>, r) = <<>>
           /\ \A p \in Seq(Segment), x \in Segment :
                 /\ Pruned(p, r) \in Seq(Segment)
                 /\ Pruned(Append(p, x), r) = Prune(Pruned(p, r), x, r)
<1>1. Pruned(<<>>, r) = <<>>
  <2>1. <<>> \in Seq(Segment) /\ Len(<<>>) = 0  BY EmptySeq
  <2>2. PICK h : Loop(h, PruneStep(r), <<>>, <<>>) /\ Pruned(<<>>, r) = h[Len(<<>>)]
    BY <2>1, PrunedLoops
  <2> QED  BY <2>1, <2>2 DEF Loop
<1>2. ASSUME NEW p \in Seq(Segment), NEW x \in Segment
      PROVE  /\ Pruned(p, r) \in Seq(Segment)
             /\ Pruned(Append(p, x), r) = Prune(Pruned(p, r), x, r)
  <2> DEFINE q == Append(p, x)
  <2> DEFINE n == Len(p)
  <2>1. /\ q \in Seq(Segment) /\ Len(q) = n + 1 /\ n \in Nat /\ q[n + 1] = x
        /\ \A i \in 1..n : p[i] = q[i]
    BY AppendProperties, LenProperties
  <2> HIDE DEF q, n
  <2>2. PICK h : Loop(h, PruneStep(r), <<>>, p) /\ Pruned(p, r) = h[n] /\ h[n] \in Seq(Segment)
    BY PrunedLoops DEF n
  <2>3. PICK f : Loop(f, PruneStep(r), <<>>, q) /\ Pruned(q, r) = f[n + 1]
    BY <2>1, PrunedLoops
  <2>4. f[n] = h[n]
    <3>1. Len(p) \in Nat /\ Len(q) \in Nat /\ n <= Len(p) /\ n <= Len(q)  BY <2>1 DEF n
    <3>2. \A i \in 1..n : q[i] = p[i]  BY <2>1
    <3> QED  BY <2>1, <2>2, <2>3, <3>1, <3>2, LoopsAgree
  <2>5. f[n + 1] = PruneStep(r)[<<f[n], x>>]
    <3>1. n + 1 \in 1..Len(q) /\ (n + 1) - 1 = n  BY <2>1
    <3>2. f[n + 1] = PruneStep(r)[<<f[(n + 1) - 1], q[n + 1]>>]  BY <2>3, <3>1 DEF Loop
    <3> QED  BY <2>1, <3>1, <3>2
  <2>6. PruneStep(r)[<<h[n], x>>] = Prune(h[n], x, r)  BY <2>2, PruneStepFacts
  <2> QED  BY <2>2, <2>3, <2>4, <2>5, <2>6 DEF q
<1> QED  BY <1>1, <1>2

LEMMA FollowLaws ==
    ASSUME NEW dir \in Seq(Segment)
    PROVE  /\ Follow(dir, <<>>) = dir
           /\ \A p \in Seq(Segment), x \in Segment :
                 /\ Follow(dir, p) \in Seq(Segment)
                 /\ Follow(dir, Append(p, x)) = Enter(Follow(dir, p), x)
<1>1. Follow(dir, <<>>) = dir
  <2>1. <<>> \in Seq(Segment) /\ Len(<<>>) = 0  BY EmptySeq
  <2>2. PICK h : Loop(h, EnterStep, dir, <<>>) /\ Follow(dir, <<>>) = h[Len(<<>>)]
    BY <2>1, FollowLoops
  <2> QED  BY <2>1, <2>2 DEF Loop
<1>2. ASSUME NEW p \in Seq(Segment), NEW x \in Segment
      PROVE  /\ Follow(dir, p) \in Seq(Segment)
             /\ Follow(dir, Append(p, x)) = Enter(Follow(dir, p), x)
  <2> DEFINE q == Append(p, x)
  <2> DEFINE n == Len(p)
  <2>1. /\ q \in Seq(Segment) /\ Len(q) = n + 1 /\ n \in Nat /\ q[n + 1] = x
        /\ \A i \in 1..n : p[i] = q[i]
    BY AppendProperties, LenProperties
  <2> HIDE DEF q, n
  <2>2. PICK h : Loop(h, EnterStep, dir, p) /\ Follow(dir, p) = h[n] /\ h[n] \in Seq(Segment)
    BY FollowLoops DEF n
  <2>3. PICK f : Loop(f, EnterStep, dir, q) /\ Follow(dir, q) = f[n + 1]
    BY <2>1, FollowLoops
  <2>4. f[n] = h[n]
    <3>1. Len(p) \in Nat /\ Len(q) \in Nat /\ n <= Len(p) /\ n <= Len(q)  BY <2>1 DEF n
    <3>2. \A i \in 1..n : q[i] = p[i]  BY <2>1
    <3> QED  BY <2>1, <2>2, <2>3, <3>1, <3>2, LoopsAgree
  <2>5. f[n + 1] = EnterStep[<<f[n], x>>]
    <3>1. n + 1 \in 1..Len(q) /\ (n + 1) - 1 = n  BY <2>1
    <3>2. f[n + 1] = EnterStep[<<f[(n + 1) - 1], q[n + 1]>>]  BY <2>3, <3>1 DEF Loop
    <3> QED  BY <2>1, <3>1, <3>2
  <2>6. EnterStep[<<h[n], x>>] = Enter(h[n], x)  BY <2>2, EnterStepFacts
  <2> QED  BY <2>2, <2>3, <2>4, <2>5, <2>6 DEF q
<1> QED  BY <1>1, <1>2

\* A path that is followed by another is followed where the first one leads to.
LEMMA FollowConcat ==
    ASSUME NEW dir \in Seq(Segment), NEW p \in Seq(Segment), NEW q \in Seq(Segment)
    PROVE  Follow(dir, p \o q) = Follow(Follow(dir, p), q)
<1> DEFINE T == {s \in Seq(Segment) : Follow(dir, p \o s) = Follow(Follow(dir, p), s)}
<1>0. Follow(dir, p) \in Seq(Segment)  BY FollowLaws, SegmentFacts
<1>1. <<>> \in T
  <2>1. p \o <<>> = p  BY ConcatEmptySeq
  <2> QED  BY <1>0, <2>1, FollowLaws, EmptySeq
<1>2. ASSUME NEW s \in T, NEW x \in Segment PROVE Append(s, x) \in T
  <2>1. Append(s, x) \in Seq(Segment) /\ p \o s \in Seq(Segment)
    BY AppendProperties, ConcatProperties
  <2>2. p \o Append(s, x) = Append(p \o s, x)
    <3>1. Append(s, x) = s \o <<x>> /\ Append(p \o s, x) = (p \o s) \o <<x>>
      BY <2>1, AppendIsConcat
    <3>2. <<x>> \in Seq(Segment)  OBVIOUS
    <3> QED  BY <3>1, <3>2, ConcatAssociative
  <2>3. Follow(dir, Append(p \o s, x)) = Enter(Follow(dir, p \o s), x)
    <3> DEFINE t == p \o s
    <3>1. t \in Seq(Segment) /\ x \in Segment /\ dir \in Seq(Segment)  BY <2>1
    <3> HIDE DEF T, t
    <3>2. Follow(dir, Append(t, x)) = Enter(Follow(dir, t), x)  BY <3>1, FollowLaws
    <3> QED  BY <3>2 DEF t
  <2>4. Follow(Follow(dir, p), Append(s, x)) = Enter(Follow(Follow(dir, p), s), x)
    BY <1>0, FollowLaws
  <2> QED  BY <2>1, <2>2, <2>3, <2>4
<1>3. T = Seq(Segment)
  <2> HIDE DEF T
  <2>1. T \in SUBSET Seq(Segment)  BY DEF T
  <2> QED  BY <1>1, <1>2, <2>1, SeqInduction
<1> QED  BY <1>3

LEMMA FollowType ==
    ASSUME NEW dir \in Seq(Segment), NEW p \in Seq(Segment)
    PROVE  Follow(dir, p) \in Seq(Segment)
<1>1. Blank \in Segment  BY SegmentFacts
<1> QED  BY <1>1, FollowLaws

LEMMA NameSeqs == \A s \in Seq(FileName) : s \in Seq(Segment)
BY SegmentFacts, SeqMonotonic

\* Empty segments lead nowhere.
LEMMA FollowBlanks ==
    ASSUME NEW dir \in Seq(Segment), NEW s \in Seq({Blank})
    PROVE  Follow(dir, s) = dir
<1> DEFINE T == {t \in Seq({Blank}) : Follow(dir, t) = dir}
<1>1. <<>> \in T  BY FollowLaws, EmptySeq
<1>2. ASSUME NEW t \in T, NEW x \in {Blank} PROVE Append(t, x) \in T
  <2>1. Append(t, x) \in Seq({Blank})  BY AppendProperties
  <2>2. t \in Seq(Segment) /\ x \in Segment
    <3>1. {Blank} \subseteq Segment /\ t \in Seq({Blank})  BY SegmentFacts
    <3> HIDE DEF T
    <3> QED  BY <3>1, SeqMonotonic
  <2>3. Follow(dir, Append(t, x)) = Enter(Follow(dir, t), x)  BY <2>2, FollowLaws
  <2>4. Enter(dir, x) = dir  BY SegmentFacts DEF Enter
  <2> QED  BY <2>1, <2>3, <2>4
<1>3. T = Seq({Blank})
  <2> HIDE DEF T
  <2>1. T \in SUBSET Seq({Blank})  BY DEF T
  <2> QED  BY <1>1, <1>2, <2>1, SeqInduction
<1> QED  BY <1>3

-----------------------------------------------------------------------------
(* Absolute paths: pruning is following from the root                       *)

LEMMA AbsolutePruned ==
    ASSUME NEW p \in Seq(Segment)
    PROVE  Pruned(p, FALSE) = Follow(<<>>, p)
<1> DEFINE T == {q \in Seq(Segment) : Pruned(q, FALSE) = Follow(<<>>, q)}
<1>0. <<>> \in Seq(Segment)  BY EmptySeq
<1>1. <<>> \in T  BY <1>0, PrunedLaws, FollowLaws
<1>2. ASSUME NEW q \in T, NEW x \in Segment PROVE Append(q, x) \in T
  <2>1. Append(q, x) \in Seq(Segment)  BY AppendProperties
  <2>2. Pruned(Append(q, x), FALSE) = Prune(Pruned(q, FALSE), x, FALSE)
    <3>1. FALSE \in BOOLEAN /\ q \in Seq(Segment)  OBVIOUS
    <3> HIDE DEF T
    <3> QED  BY <3>1, PrunedLaws, Zenon
  <2>3. Follow(<<>>, Append(q, x)) = Enter(Follow(<<>>, q), x)
    <3>1. q \in Seq(Segment)  OBVIOUS
    <3> HIDE DEF T
    <3> QED  BY <1>0, <3>1, FollowLaws, Zenon
  <2>4. ASSUME NEW s PROVE Prune(s, x, FALSE) = Enter(s, x)
    <3> HIDE DEF T
    <3>1. CASE x \in {Blank, "."}  BY <3>1 DEF Prune, Enter
    <3>2. CASE x = ".."  BY <3>2, SegmentFacts DEF Prune, Enter, Parent
    <3>3. CASE x \notin {Blank, ".", ".."}  BY <3>3 DEF Prune, Enter
    <3> QED  BY <3>1, <3>2, <3>3
  <2> QED  BY <2>1, <2>2, <2>3, <2>4
<1>3. T = Seq(Segment)
  <2> HIDE DEF T
  <2>1. T \in SUBSET Seq(Segment)  BY DEF T
  <2> QED  BY <1>1, <1>2, <2>1, SeqInduction
<1> QED  BY <1>3

\* From a directory one only gets to directories.
LEMMA FollowNames ==
    ASSUME NEW dir \in Seq(FileName), NEW p \in Seq(Segment)
    PROVE  Follow(dir, p) \in Seq(FileName)
<1> DEFINE T == {q \in Seq(Segment) : Follow(dir, q) \in Seq(FileName)}
<1>0. dir \in Seq(Segment)  BY NameSeqs
<1>1. <<>> \in T  BY <1>0, EmptySeq, FollowLaws
<1>2. ASSUME NEW q \in T, NEW x \in Segment PROVE Append(q, x) \in T
  <2> DEFINE d == Follow(dir, q)
  <2>1. Append(q, x) \in Seq(Segment)  BY AppendProperties
  <2>2. Follow(dir, Append(q, x)) = Enter(d, x)  BY <1>0, FollowLaws
  <2>3. d \in Seq(FileName)  OBVIOUS
  <2> HIDE DEF d
  <2>4. d # <<>> => Front(d) \in Seq(FileName)  BY <2>3, FrontFacts
  <2>5. x \in FileName => Append(d, x) \in Seq(FileName)  BY <2>3, AppendProperties
  <2>6. x \notin FileName => x \in {Blank, ".", ".."}  BY SegmentFacts
  <2>7. Enter(d, x) \in Seq(FileName)  BY <2>3, <2>4, <2>5, <2>6 DEF Enter, Parent
  <2> QED  BY <2>1, <2>2, <2>7
<1>3. T = Seq(Segment)
  <2> HIDE DEF T
  <2>1. T \in SUBSET Seq(Segment)  BY DEF T
  <2> QED  BY <1>1, <1>2, <2>1, SeqInduction
<1> QED  BY <1>3

LEMMA FollowFromRoot ==
    ASSUME NEW s \in Seq(FileName)
    PROVE  Follow(<<>>, s) = s
<1> DEFINE T == {t \in Seq(FileName) : Follow(<<>>, t) = t}
<1>0. <<>> \in Seq(Segment) /\ <<>> \in Seq(FileName)  BY EmptySeq
<1>1. <<>> \in T  BY <1>0, FollowLaws
<1>2. ASSUME NEW t \in T, NEW x \in FileName PROVE Append(t, x) \in T
  <2>1. Append(t, x) \in Seq(FileName)  BY AppendProperties
  <2>2. t \in Seq(Segment) /\ x \in Segment  BY SegmentFacts, NameSeqs
  <2>3. Follow(<<>>, Append(t, x)) = Enter(Follow(<<>>, t), x)  BY <1>0, <2>2, FollowLaws
  <2>4. Enter(t, x) = Append(t, x)  BY SegmentFacts DEF Enter
  <2> QED  BY <2>1, <2>3, <2>4
<1>3. T = Seq(FileName)
  <2> HIDE DEF T
  <2>1. T \in SUBSET Seq(FileName)  BY DEF T
  <2> QED  BY <1>1, <1>2, <2>1, SeqInduction
<1> QED  BY <1>3

-----------------------------------------------------------------------------
(* Relative paths: what is left of one climbs first and descends then       *)

Climbing == {s \in Seq({".."} \cup FileName) :
                \A i \in 1..Len(s) : s[i] = ".." => \A j \in 1..i : s[j] = ".."}

LEMMA ClimbingType ==
    /\ <<>> \in Climbing
    /\ \A s \in Climbing : s \in Seq(Segment) /\ s \in Seq({".."} \cup FileName)
<1>1. {".."} \cup FileName \subseteq Segment  BY SegmentFacts
<1>2. <<>> \in Climbing  BY EmptySeq DEF Climbing
<1>3. \A s \in Climbing : s \in Seq({".."} \cup FileName)  BY DEF Climbing
<1> QED  BY <1>1, <1>2, <1>3, SeqMonotonic

\* A climbing path ends in a name, or consists of ".." only.
LEMMA ClimbingAppend ==
    ASSUME NEW s \in Seq(Segment), NEW x \in Segment
    PROVE  Append(s, x) \in Climbing <=>
              /\ s \in Climbing /\ x \in {".."} \cup FileName
              /\ x = ".." => s = <<>> \/ Last(s) = ".."
<1> DEFINE t == Append(s, x)
<1> DEFINE n == Len(s)
<1> DEFINE U == {".."} \cup FileName
<1>1. /\ t \in Seq(Segment) /\ n \in Nat /\ Len(t) = n + 1 /\ t[n + 1] = x
      /\ \A i \in 1..n : t[i] = s[i]
  BY AppendProperties, LenProperties
<1>2. ASSUME t \in Climbing
      PROVE  s \in Climbing /\ x \in U /\ (x = ".." => s = <<>> \/ Last(s) = "..")
  <2> HIDE DEF t, n
  <2>1. /\ t \in Seq(U) /\ \A i \in 1..n + 1 : t[i] \in U
        /\ \A i \in 1..n + 1 : t[i] = ".." => \A j \in 1..i : t[j] = ".."
    BY <1>1, <1>2, ElementOfSeq DEF Climbing
  <2>2. n + 1 \in 1..n + 1 /\ \A i \in 1..n : i \in 1..n + 1  BY <1>1
  <2>3. s \in Seq(U)
    <3>1. s \in [1..n -> U]
      <4>1. s \in [1..n -> Segment]  BY LenProperties DEF n
      <4> QED  BY <1>1, <2>1, <2>2, <4>1
    <3> QED  BY <1>1, <3>1, SeqDef
  <2>4. s \in Climbing  BY <1>1, <2>1, <2>2, <2>3 DEF Climbing, n
  <2>5. x \in U  BY <1>1, <2>1, <2>2
  <2>6. ASSUME x = "..", s # <<>> PROVE Last(s) = ".."
    <3>1. n \in 1..n  BY <1>1, <2>6, EmptySeq DEF n
    <3>2. t[n] = ".."  BY <1>1, <2>1, <2>2, <2>6, <3>1
    <3> QED  BY <1>1, <3>1, <3>2 DEF Last, n
  <2> QED  BY <2>4, <2>5, <2>6
<1>3. ASSUME s \in Climbing, x \in U, x = ".." => s = <<>> \/ Last(s) = ".."
      PROVE  t \in Climbing
  <2>1. t \in Seq(U)  BY <1>3, ClimbingType, AppendProperties
  <2> HIDE DEF t, n
  <2>2. \A i \in 1..n : s[i] = ".." => \A j \in 1..i : s[j] = ".."
    BY <1>3 DEF Climbing, n
  <2>3. ASSUME NEW i \in 1..n + 1, t[i] = "..", NEW j \in 1..i PROVE t[j] = ".."
    <3>1. CASE i \in 1..n
      <4>1. j \in 1..n  BY <1>1, <3>1
      <4>2. s[i] = ".."  BY <1>1, <2>3, <3>1
      <4>3. s[j] = ".."  BY <2>2, <3>1, <4>2
      <4> QED  BY <1>1, <4>1, <4>3
    <3>2. CASE i = n + 1 /\ j \in 1..n
      <4>1. x = ".." /\ s # <<>>  BY <1>1, <2>3, <3>2 DEF n
      <4>2. n \in 1..n /\ s[n] = ".." /\ j \in 1..n  BY <1>1, <1>3, <3>2, <4>1 DEF Last, n
      <4>3. s[j] = ".."  BY <2>2, <4>2
      <4> QED  BY <1>1, <3>2, <4>3
    <3>3. CASE i = n + 1 /\ j = n + 1  BY <2>3, <3>3
    <3> QED  BY <1>1, <3>1, <3>2, <3>3
  <2> QED  BY <1>1, <2>1, <2>3 DEF Climbing
<1> QED  BY <1>2, <1>3

\* What is left of a relative path climbs and then descends.
LEMMA PrunedClimbs ==
    ASSUME NEW p \in Seq(Segment)
    PROVE  Pruned(p, TRUE) \in Climbing
<1> DEFINE T == {q \in Seq(Segment) : Pruned(q, TRUE) \in Climbing}
<1>1. <<>> \in T  BY PrunedLaws, ClimbingType, EmptySeq
<1>2. ASSUME NEW q \in T, NEW x \in Segment PROVE Append(q, x) \in T
  <2> DEFINE s == Pruned(q, TRUE)
  <2>1. Append(q, x) \in Seq(Segment)  BY AppendProperties
  <2>2. Pruned(Append(q, x), TRUE) = Prune(s, x, TRUE)  BY PrunedLaws
  <2>3. s \in Climbing /\ s \in Seq(Segment)  BY ClimbingType
  <2> SUFFICES Prune(s, x, TRUE) \in Climbing
    BY <2>1, <2>2
  <2> HIDE DEF s
  <2>4. CASE x \in {Blank, "."}  BY <2>3, <2>4, SegmentFacts DEF Prune
  <2>5. CASE x = ".." /\ s # <<>> /\ Last(s) # ".."
    <3>1. Prune(s, x, TRUE) = Front(s)  BY <2>5 DEF Prune
    <3>2. Front(s) \in Seq(Segment) /\ Last(s) \in Segment /\ s = Append(Front(s), Last(s))
      BY <2>3, <2>5, FrontFacts
    <3>3. Front(s) \in Climbing  BY <2>3, <3>2, ClimbingAppend
    <3> QED  BY <3>1, <3>3
  <2>6. CASE x = ".." /\ (s = <<>> \/ Last(s) = "..")
    <3>1. Prune(s, x, TRUE) = Append(s, "..")  BY <2>6 DEF Prune
    <3>2. Append(s, "..") \in Climbing  BY <2>3, <2>6, SegmentFacts, ClimbingAppend
    <3> QED  BY <3>1, <3>2
  <2>7. CASE x \in FileName
    <3>1. Prune(s, x, TRUE) = Append(s, x)  BY <2>7, SegmentFacts DEF Prune
    <3>2. Append(s, x) \in Climbing
      <4>1. x # ".."  BY <2>7, SegmentFacts
      <4> QED  BY <2>3, <2>7, <4>1, ClimbingAppend
    <3> QED  BY <3>1, <3>2
  <2> QED  BY <2>4, <2>5, <2>6, <2>7, SegmentFacts
<1>3. T = Seq(Segment)
  <2> HIDE DEF T
  <2>1. T \in SUBSET Seq(Segment)  BY DEF T
  <2> QED  BY <1>1, <1>2, <2>1, SeqInduction
<1> QED  BY <1>3

\* Pruning a relative path does not change where it leads, from any directory.
LEMMA FollowPruned ==
    ASSUME NEW dir \in Seq(Segment), NEW p \in Seq(Segment)
    PROVE  Follow(dir, Pruned(p, TRUE)) = Follow(dir, p)
<1> DEFINE T == {q \in Seq(Segment) : Follow(dir, Pruned(q, TRUE)) = Follow(dir, q)}
<1>1. <<>> \in T  BY PrunedLaws, EmptySeq
<1>2. ASSUME NEW q \in T, NEW x \in Segment PROVE Append(q, x) \in T
  <2> DEFINE s == Pruned(q, TRUE)
  <2>1. Append(q, x) \in Seq(Segment)  BY AppendProperties
  <2>2. Pruned(Append(q, x), TRUE) = Prune(s, x, TRUE)  BY PrunedLaws
  <2>3. Follow(dir, Append(q, x)) = Enter(Follow(dir, s), x)
    <3>1. Follow(dir, q) = Follow(dir, s) /\ q \in Seq(Segment)  OBVIOUS
    <3> HIDE DEF s, T
    <3> QED  BY <3>1, FollowLaws
  <2>4. s \in Climbing /\ s \in Seq(Segment)
    <3>1. q \in Seq(Segment)  OBVIOUS
    <3> HIDE DEF T
    <3> QED  BY <3>1, PrunedClimbs, ClimbingType
  <2> HIDE DEF s
  <2>5. CASE x \in {Blank, "."}
    <3>1. Prune(s, x, TRUE) = s /\ \A d : Enter(d, x) = d  BY <2>5, SegmentFacts DEF Prune, Enter
    <3> QED  BY <2>1, <2>2, <2>3, <3>1
  <2>6. CASE x = ".." /\ s # <<>> /\ Last(s) # ".."
    <3> DEFINE f == Front(s)
    <3> DEFINE l == Last(s)
    <3>1. Prune(s, x, TRUE) = f  BY <2>6 DEF Prune
    <3>2. f \in Seq(Segment) /\ l \in Segment /\ s = Append(f, l)
      BY <2>4, <2>6, FrontFacts
    <3>3. l # ".."  BY <2>6
    <3> HIDE DEF f, l
    <3>4. l \in FileName  BY <2>4, <3>2, <3>3, ClimbingAppend
    <3>5. Follow(dir, s) = Enter(Follow(dir, f), l)  BY <3>2, FollowLaws
    <3>6. \A d : Enter(d, l) = Append(d, l) /\ Enter(d, x) = Parent(d)
      BY <2>6, <3>4, SegmentFacts DEF Enter
    <3>7. Follow(dir, f) \in Seq(Segment)  BY <3>2, FollowType
    <3>8. Front(Append(Follow(dir, f), l)) = Follow(dir, f)
          /\ Append(Follow(dir, f), l) # <<>>
      BY <3>2, <3>7, FrontAppend
    <3>9. Enter(Follow(dir, s), x) = Follow(dir, f)  BY <3>5, <3>6, <3>8 DEF Parent
    <3> QED  BY <2>1, <2>2, <2>3, <3>1, <3>9
  <2>7. CASE x = ".." /\ (s = <<>> \/ Last(s) = "..")
    <3>1. Prune(s, x, TRUE) = Append(s, x)  BY <2>7 DEF Prune
    <3>2. Follow(dir, Append(s, x)) = Enter(Follow(dir, s), x)  BY <2>4, FollowLaws
    <3> QED  BY <2>1, <2>2, <2>3, <3>1, <3>2
  <2>8. CASE x \in FileName
    <3>1. Prune(s, x, TRUE) = Append(s, x)  BY <2>8, SegmentFacts DEF Prune
    <3>2. Follow(dir, Append(s, x)) = Enter(Follow(dir, s), x)  BY <2>4, FollowLaws
    <3> QED  BY <2>1, <2>2, <2>3, <3>1, <3>2
  <2> QED  BY <2>5, <2>6, <2>7, <2>8, SegmentFacts
<1>3. T = Seq(Segment)
  <2> HIDE DEF T
  <2>1. T \in SUBSET Seq(Segment)  BY DEF T
  <2> QED  BY <1>1, <1>2, <2>1, SeqInduction
<1> QED  BY <1>3

\* What climbs and descends is not pruned any further.
LEMMA ClimbingStays ==
    ASSUME NEW p \in Climbing
    PROVE  Pruned(p, TRUE) = p
<1> DEFINE T == {q \in Seq(Segment) : q \in Climbing => Pruned(q, TRUE) = q}
<1>1. <<>> \in T  BY PrunedLaws, EmptySeq
<1>2. ASSUME NEW q \in T, NEW x \in Segment PROVE Append(q, x) \in T
  <2>1. Append(q, x) \in Seq(Segment) /\ q \in Seq(Segment)  BY AppendProperties
  <2> SUFFICES ASSUME Append(q, x) \in Climbing PROVE Pruned(Append(q, x), TRUE) = Append(q, x)
    BY <2>1
  <2>2. q \in Climbing /\ x \in {".."} \cup FileName /\ (x = ".." => q = <<>> \/ Last(q) = "..")
    BY <2>1, ClimbingAppend
  <2>3. Pruned(q, TRUE) = q  BY <2>2
  <2>4. Pruned(Append(q, x), TRUE) = Prune(q, x, TRUE)  BY <2>1, <2>3, PrunedLaws
  <2>5. Prune(q, x, TRUE) = Append(q, x)  BY <2>2, SegmentFacts DEF Prune
  <2> QED  BY <2>4, <2>5
<1>3. T = Seq(Segment)
  <2> HIDE DEF T
  <2>1. T \in SUBSET Seq(Segment)  BY DEF T
  <2> QED  BY <1>1, <1>2, <2>1, SeqInduction
<1> QED  BY <1>3, ClimbingType

-----------------------------------------------------------------------------
(* trim() and directory()                                                   *)

LEMMA Singleton ==
    ASSUME NEW S, NEW x \in S
    PROVE  /\ <<x>> \in Seq(S) /\ <<x>> # <<>> /\ Len(<<x>>) = 1 /\ <<x>>[1] = x
           /\ <<x>> = Append(<<>>, x)
<1>1. <<x>> \in Seq(S) /\ Len(<<x>>) = 1 /\ <<x>>[1] = x /\ <<x>> # <<>>  OBVIOUS
<1>2. <<>> \in Seq(S)  BY EmptySeq
<1>3. Append(<<>>, x) = <<>> \o <<x>>  BY <1>2, AppendIsConcat
<1> QED  BY <1>1, <1>3, ConcatEmptySeq

LEMMA EmptyFacts ==
    /\ Empty \in Path /\ Len(Empty) = 1 /\ Empty[1] = Blank
    /\ Empty = Append(<<>>, Blank) /\ Empty \in Seq({Blank})
<1>1. Blank \in Segment /\ Blank \in {Blank}  BY SegmentFacts
<1>2. /\ <<Blank>> \in Seq(Segment) /\ <<Blank>> # <<>> /\ Len(<<Blank>>) = 1
      /\ <<Blank>>[1] = Blank /\ <<Blank>> = Append(<<>>, Blank) /\ <<Blank>> \in Seq({Blank})
  BY <1>1, Singleton
<1> QED  BY <1>2 DEF Path, Empty

LEMMA PathType ==
    ASSUME NEW p \in Path
    PROVE  /\ p \in Seq(Segment) /\ p # <<>>
           /\ Len(p) \in Nat /\ Len(p) >= 1 /\ 1 \in 1..Len(p) /\ Len(p) \in 1..Len(p)
           /\ DOMAIN p = 1..Len(p)
           /\ \A i \in 1..Len(p) : p[i] \in Segment
           /\ p = Empty <=> Len(p) = 1 /\ p[1] = Blank
<1>1. p \in Seq(Segment) /\ p # <<>>  BY DEF Path
<1>2. Len(p) \in Nat \ {0} /\ \A i \in 1..Len(p) : p[i] \in Segment
  BY <1>1, EmptySeq, ElementOfSeq
<1>3. Len(p) \in Nat /\ Len(p) >= 1  BY <1>2
<1>4. 1 \in 1..Len(p) /\ Len(p) \in 1..Len(p)  BY <1>3
<1>5. ASSUME Len(p) = 1, p[1] = Blank PROVE p = Empty
  <2>1. Empty \in Seq(Segment)  BY EmptyFacts DEF Path
  <2>2. \A i \in 1..Len(p) : i = 1  BY <1>5
  <2>3. \A i \in 1..Len(p) : p[i] = Empty[i]  BY <1>5, <2>2, EmptyFacts
  <2> QED  BY <1>1, <1>5, <2>1, <2>3, SeqEqual, EmptyFacts
<1>6. p = Empty => Len(p) = 1 /\ p[1] = Blank  BY EmptyFacts
<1> QED  BY <1>1, <1>2, <1>3, <1>4, <1>5, <1>6, LenProperties

Kept(p) == {i \in DOMAIN p : p[i] # Blank}

\* What trim() erases is empty segments only, and all of them at the end.
LEMMA TrimFacts ==
    ASSUME NEW p \in Path, Kept(p) # {}
    PROVE  \E k \in 1..Len(p) : /\ trim(p) = SubSeq(p, 1, k) /\ p[k] # Blank
                                /\ \A j \in k + 1..Len(p) : p[j] = Blank
<1> DEFINE n == Len(p)
<1> DEFINE K == Kept(p)
<1>1. n \in Nat /\ DOMAIN p = 1..n  BY PathType
<1>2. K \subseteq 1..n  BY <1>1 DEF Kept
<1>3. PICK k \in K : \A j \in K : j <= k
  <2> DEFINE T == {n - j : j \in K}
  <2> HIDE DEF n, K
  <2>1. T \subseteq Nat /\ T # {}  BY <1>1, <1>2 DEF K
  <2>2. PICK m \in T : \A l \in T : ~(l < m)
    <3> HIDE DEF T
    <3> QED  BY <2>1, LeastNat
  <2>3. PICK k \in K : m = n - k  BY <2>2
  <2>4. \A j \in K : ~(n - j < n - k)  BY <2>2, <2>3
  <2> QED  BY <1>1, <1>2, <2>3, <2>4
<1> DEFINE c == CHOOSE i \in K : \A j \in K : j <= i
<1>4. c \in K /\ \A j \in K : j <= c
  <2> HIDE DEF K
  <2> QED  BY <1>3
<1>5. trim(p) = SubSeq(p, 1, c)  BY DEF trim, Kept
<1> HIDE DEF c
<1>6. c \in 1..n /\ p[c] # Blank  BY <1>2, <1>4 DEF Kept
<1> HIDE DEF n
<1>7. ASSUME NEW j \in c + 1..n PROVE p[j] = Blank
  <2>1. j \in 1..n /\ ~(j <= c)  BY <1>1, <1>6
  <2> QED  BY <1>1, <1>4, <2>1 DEF Kept
<1> QED  BY <1>5, <1>6, <1>7 DEF n

LEMMA TrimType ==
    ASSUME NEW p \in Path
    PROVE  /\ trim(p) \in Path
           /\ Last(p) # Blank => trim(p) = p
           /\ \A dir \in Seq(Segment) : Follow(dir, trim(p)) = Follow(dir, p)
           /\ Kept(p) = {} => trim(p) = Empty /\ p \in Seq({Blank})
           /\ Kept(p) # {} => trim(p)[1] = p[1] /\ (p[1] = Blank => Len(p) > 1)
<1> DEFINE n == Len(p)
<1>1. /\ p \in Seq(Segment) /\ n \in Nat /\ n >= 1 /\ 1 \in 1..n /\ n \in 1..n
      /\ DOMAIN p = 1..n /\ \A i \in 1..n : p[i] \in Segment
  BY PathType
<1>2. CASE Kept(p) = {}
  <2>1. trim(p) = Empty  BY <1>2 DEF trim, Kept
  <2>2. \A i \in 1..n : p[i] = Blank  BY <1>1, <1>2 DEF Kept
  <2>3. Last(p) = Blank  BY <1>1, <2>2 DEF Last
  <2>4. p \in Seq({Blank})
    <3>1. p \in [1..n -> Segment]  BY <1>1, LenProperties
    <3> HIDE DEF n
    <3>2. p \in [1..n -> {Blank}]  BY <2>2, <3>1
    <3> QED  BY <1>1, <3>2, SeqDef
  <2>5. \A dir \in Seq(Segment) : Follow(dir, Empty) = Follow(dir, p)
    BY <2>4, EmptyFacts, FollowBlanks
  <2> QED  BY <1>2, <2>1, <2>3, <2>4, <2>5, EmptyFacts
<1>3. CASE Kept(p) # {}
  <2>1. PICK k \in 1..n : /\ trim(p) = SubSeq(p, 1, k) /\ p[k] # Blank
                          /\ \A j \in k + 1..n : p[j] = Blank
    BY <1>3, TrimFacts
  <2> HIDE DEF n
  <2>2. k \in Nat /\ k >= 1 /\ k <= n /\ \A i \in 1..k : p[i] \in Segment  BY <1>1
  <2>3. /\ SubSeq(p, 1, k) \in Seq(Segment) /\ Len(SubSeq(p, 1, k)) = k
        /\ \A i \in 1..k : SubSeq(p, 1, k)[i] = p[i]
    <3>1. /\ SubSeq(p, 1, k) \in Seq(Segment)
          /\ Len(SubSeq(p, 1, k)) = IF 1 <= k THEN k - 1 + 1 ELSE 0
          /\ \A i \in 1..k - 1 + 1 : SubSeq(p, 1, k)[i] = p[1 + i - 1]
      BY <2>2, SubSeqProperties
    <3> QED  BY <2>2, <3>1
  <2>4. trim(p) \in Path
    <3>1. SubSeq(p, 1, k) # <<>>
      <4>1. Len(SubSeq(p, 1, k)) # 0 /\ Len(<<>>) = 0  BY <2>2, <2>3, EmptySeq
      <4> QED  BY <4>1
    <3> QED  BY <2>1, <2>3, <3>1 DEF Path
  <2>5. ASSUME Last(p) # Blank PROVE trim(p) = p
    <3>1. k = n
      <4>1. p[n] # Blank /\ n \in Nat  BY <1>1, <2>5 DEF Last, n
      <4> QED  BY <2>1, <2>2, <4>1
    <3> QED  BY <1>1, <2>1, <3>1, SubSeqFull DEF n
  <2>6. ASSUME NEW dir \in Seq(Segment) PROVE Follow(dir, trim(p)) = Follow(dir, p)
    <3> DEFINE b == SubSeq(p, k + 1, n)
    <3>1. p = SubSeq(p, 1, k) \o b
      <4>1. 1 \in 1..n + 1 /\ k \in 1 - 1..n /\ n \in k..n  BY <1>1, <2>2
      <4>2. SubSeq(p, 1, k) \o SubSeq(p, k + 1, n) = SubSeq(p, 1, n)
        BY <1>1, <4>1, ConcatAdjacentSubSeq DEF n
      <4> QED  BY <1>1, <4>2, SubSeqFull DEF n
    <3>2. b \in Seq({Blank})
      <4>1. k + 1 \in Int /\ n \in Int  BY <1>1, <2>2
      <4>2. \A i \in k + 1..n : p[i] \in {Blank}  BY <2>1
      <4> QED  BY <4>1, <4>2, SubSeqProperties
    <3> HIDE DEF b
    <3>3. b \in Seq(Segment)
      <4>1. {Blank} \subseteq Segment  BY SegmentFacts
      <4> QED  BY <3>2, <4>1, SeqMonotonic
    <3>4. Follow(dir, p) = Follow(Follow(dir, SubSeq(p, 1, k)), b)
      <4> DEFINE a == SubSeq(p, 1, k)
      <4>1. a \in Seq(Segment) /\ p = a \o b  BY <2>3, <3>1
      <4> HIDE DEF a
      <4>2. Follow(dir, a \o b) = Follow(Follow(dir, a), b)  BY <3>3, <4>1, FollowConcat
      <4> QED  BY <4>1, <4>2 DEF a
    <3>5. Follow(dir, SubSeq(p, 1, k)) \in Seq(Segment)  BY <2>3, FollowType
    <3> QED  BY <2>1, <3>2, <3>4, <3>5, FollowBlanks
  <2>7. trim(p)[1] = p[1]
    <3>1. 1 \in 1..k  BY <2>2
    <3> QED  BY <2>1, <2>3, <3>1
  <2>8. p[1] = Blank => n > 1  BY <1>1, <2>1, <2>2
  <2> QED  BY <1>3, <2>4, <2>5, <2>6, <2>7, <2>8 DEF n
<1> QED  BY <1>2, <1>3

\* directory() leads where the path leads, if there is one.
LEMMA DirectoryFacts ==
    ASSUME NEW p \in Path
    PROVE  /\ directory(p) \in Path
           /\ p # Empty => (is_absolute(directory(p)) <=> is_absolute(p))
           /\ \A dir \in Seq(Segment) : Follow(dir, directory(p)) = Follow(dir, p)
<1> DEFINE t == trim(p)
<1>1. t \in Path /\ t \in Seq(Segment) /\ Len(t) \in Nat /\ Len(t) >= 1 /\ 1 \in 1..Len(t)
  BY TrimType, PathType
<1>2. \A dir \in Seq(Segment) : Follow(dir, t) = Follow(dir, p)  BY TrimType
<1>3. /\ Kept(p) = {} => t = Empty /\ p \in Seq({Blank})
      /\ Kept(p) # {} => t[1] = p[1] /\ (p[1] = Blank => Len(p) > 1)
  BY TrimType
<1>4. directory(p) = Append(t, Blank)  BY DEF directory
<1> HIDE DEF t
<1>5. /\ Append(t, Blank) \in Seq(Segment) /\ Append(t, Blank) # <<>>
      /\ Len(Append(t, Blank)) = Len(t) + 1 /\ Append(t, Blank)[1] = t[1]
  BY <1>1, SegmentFacts, AppendProperties
<1>6. ASSUME NEW dir \in Seq(Segment) PROVE Follow(dir, directory(p)) = Follow(dir, p)
  <2>1. Follow(dir, Append(t, Blank)) = Enter(Follow(dir, t), Blank)
    BY <1>1, SegmentFacts, FollowLaws
  <2> QED  BY <1>2, <1>4, <2>1, SegmentFacts DEF Enter
<1>7. is_absolute(directory(p)) <=> t[1] = Blank
  BY <1>1, <1>4, <1>5 DEF is_absolute
<1>8. ASSUME p # Empty PROVE t[1] = Blank <=> is_absolute(p)
  <2>1. CASE Kept(p) = {}
    <3>1. t[1] = Blank  BY <1>3, <2>1, PathType, EmptyFacts
    <3>2. Len(p) \in Nat /\ Len(p) >= 1 /\ 1 \in 1..Len(p)  BY PathType
    <3>3. p[1] = Blank
      <4>1. p[1] \in {Blank}  BY <1>3, <2>1, <3>2, ElementOfSeq
      <4> QED  BY <4>1
    <3>4. Len(p) # 1  BY <1>8, <3>3, PathType
    <3>5. Len(p) > 1
      <4> DEFINE n == Len(p)
      <4>1. n \in Nat /\ n >= 1 /\ n # 1  BY <3>2, <3>4
      <4> HIDE DEF n
      <4>2. n > 1  BY <4>1
      <4> QED  BY <4>2 DEF n
    <3> QED  BY <3>1, <3>3, <3>5 DEF is_absolute
  <2>2. CASE Kept(p) # {}  BY <1>3, <2>2 DEF is_absolute
  <2> QED  BY <2>1, <2>2
<1> QED  BY <1>4, <1>5, <1>6, <1>7, <1>8 DEF Path

-----------------------------------------------------------------------------
(* sanitize()                                                               *)

\* The segments sanitize() is left with.
Left(p) == Pruned(p, ~is_absolute(p))

\* What may be left: of a relative path, and of an absolute one.
Remainder(s, r) == IF r THEN s \in Climbing ELSE s \in Seq(FileName)

LEMMA LeftFacts ==
    ASSUME NEW p \in Path
    PROVE  /\ Remainder(Left(p), ~is_absolute(p))
           /\ sanitize(p) = Rebuild(Left(p), ~is_absolute(p), trailing_slash(p))
<1> DEFINE r == ~is_absolute(p)
<1>1. r \in BOOLEAN /\ p \in Seq(Segment)  BY PathType
<1>2. Remainder(Left(p), r)
  <2>1. CASE r = TRUE  BY <1>1, <2>1, PrunedClimbs DEF Remainder, Left
  <2>2. CASE r = FALSE
    <3>1. Pruned(p, FALSE) = Follow(<<>>, p) /\ <<>> \in Seq(FileName)
      BY <1>1, AbsolutePruned, EmptySeq
    <3>2. Follow(<<>>, p) \in Seq(FileName)  BY <1>1, <3>1, FollowNames
    <3> QED  BY <2>2, <3>1, <3>2 DEF Remainder, Left
  <2> QED  BY <1>1, <2>1, <2>2
<1>3. Pruned(split(p), r) = Pruned(p, r)
  <2>1. CASE p = Empty
    <3> HIDE DEF r
    <3>1. p = Append(<<>>, Blank) /\ <<>> \in Seq(Segment)  BY <2>1, EmptyFacts, EmptySeq
    <3>2. Pruned(p, r) = Prune(Pruned(<<>>, r), Blank, r)
      BY <1>1, <3>1, PrunedLaws, SegmentFacts
    <3>3. Pruned(p, r) = Pruned(<<>>, r)  BY <3>2, SegmentFacts DEF Prune
    <3> QED  BY <2>1, <3>3 DEF split
  <2>2. CASE p # Empty  BY <2>2 DEF split
  <2> QED  BY <2>1, <2>2
<1> QED  BY <1>2, <1>3 DEF sanitize, Left

\* Neither kind of remainder holds an empty segment.
LEMMA RemainderFacts ==
    ASSUME NEW r \in BOOLEAN, NEW s, Remainder(s, r)
    PROVE  /\ s \in Seq(Segment) /\ Len(s) \in Nat
           /\ \A i \in 1..Len(s) : /\ s[i] # Blank /\ s[i] # "."
                                   /\ s[i] = ".." => r /\ \A j \in 1..i : s[j] = ".."
           /\ s # <<>> => s \in Path /\ s # Empty /\ Last(s) # Blank /\ Len(s) >= 1
                          /\ s[1] # Blank /\ trim(s) = s
           /\ Pruned(s, r) = s
<1>1. s \in Seq({".."} \cup FileName) /\ (~r => s \in Seq(FileName))
  <2>1. CASE r  BY <2>1, ClimbingType DEF Remainder
  <2>2. CASE ~r
    <3>1. FileName \subseteq {".."} \cup FileName /\ s \in Seq(FileName)  BY <2>2 DEF Remainder
    <3> QED  BY <3>1, SeqMonotonic
  <2> QED  BY <2>1, <2>2
<1>2. s \in Seq(Segment) /\ Len(s) \in Nat /\ \A i \in 1..Len(s) : s[i] \in {".."} \cup FileName
  <2>1. {".."} \cup FileName \subseteq Segment  BY SegmentFacts
  <2>2. s \in Seq(Segment)  BY <1>1, <2>1, SeqMonotonic
  <2> QED  BY <1>1, <2>2, ElementOfSeq, LenProperties
<1>3. \A i \in 1..Len(s) : s[i] # Blank /\ s[i] # "."
  <2>1. \A x \in {".."} \cup FileName : x # Blank /\ x # "."  BY SegmentFacts
  <2> QED  BY <1>2, <2>1
<1>4. \A i \in 1..Len(s) : s[i] = ".." => r /\ \A j \in 1..i : s[j] = ".."
  <2>1. CASE r  BY <2>1 DEF Remainder, Climbing
  <2>2. CASE ~r
    <3>1. \A i \in 1..Len(s) : s[i] \in FileName  BY <1>1, <2>2, ElementOfSeq
    <3>2. ".." \notin FileName  BY SegmentFacts
    <3> QED  BY <3>1, <3>2
  <2> QED  BY <2>1, <2>2
<1>5. ASSUME s # <<>>
      PROVE  s \in Path /\ s # Empty /\ Last(s) # Blank /\ Len(s) >= 1
             /\ s[1] # Blank /\ trim(s) = s
  <2>1. s \in Path  BY <1>2, <1>5 DEF Path
  <2>2. 1 \in 1..Len(s) /\ Len(s) \in 1..Len(s) /\ Len(s) >= 1  BY <2>1, PathType
  <2>3. Last(s) # Blank /\ s[1] # Blank  BY <1>3, <2>2 DEF Last
  <2>4. s # Empty  BY <2>3, EmptyFacts
  <2>5. trim(s) = s  BY <2>1, <2>3, TrimType
  <2> QED  BY <2>1, <2>2, <2>3, <2>4, <2>5
<1>6. Pruned(s, r) = s
  <2>1. CASE r = TRUE  BY <2>1, ClimbingStays DEF Remainder
  <2>2. CASE r = FALSE
    <3>1. s \in Seq(FileName)  BY <1>1, <2>2
    <3> QED  BY <1>2, <2>2, <3>1, AbsolutePruned, FollowFromRoot
  <2> QED  BY <2>1, <2>2
<1> QED  BY <1>2, <1>3, <1>4, <1>5, <1>6

Root == <<Blank, Blank>>

LEMMA RootFacts ==
    /\ Root \in Path /\ Len(Root) = 2 /\ Root[1] = Blank /\ Root[2] = Blank
    /\ Root = Append(Empty, Blank) /\ Root = <<Blank>> \o Empty
    /\ Root # Empty /\ directory(Root) = Root
    /\ \A dir \in Seq(Segment) : Follow(dir, Root) = dir
<1>1. Empty \in Seq(Segment) /\ Blank \in Segment  BY EmptyFacts, SegmentFacts DEF Path
<1>2. Root = Empty \o <<Blank>>  BY DEF Root, Empty
<1>3. Root = Append(Empty, Blank)  BY <1>1, <1>2, AppendIsConcat
<1>4. Root = <<Blank>> \o Empty  BY DEF Root, Empty
<1>5. /\ Root \in Seq(Segment) /\ Root # <<>> /\ Len(Root) = 2
      /\ Root[1] = Blank /\ Root[2] = Blank
  <2>1. /\ Append(Empty, Blank) \in Seq(Segment) /\ Append(Empty, Blank) # <<>>
        /\ Len(Append(Empty, Blank)) = Len(Empty) + 1
        /\ Append(Empty, Blank)[1] = Empty[1] /\ Append(Empty, Blank)[Len(Empty) + 1] = Blank
    <3>1. 1 \in 1..Len(Empty)  BY EmptyFacts
    <3> QED  BY <1>1, <3>1, AppendProperties
  <2> QED  BY <1>3, <2>1, EmptyFacts
<1>6. Root # Empty  BY <1>5, EmptyFacts
<1>7. Root \in Path  BY <1>5 DEF Path
<1>8. directory(Root) = Root
  <2>1. \A i \in 1..2 : Root[i] = Blank  BY <1>5
  <2>2. Kept(Root) = {}  BY <1>5, <1>7, <2>1, PathType DEF Kept
  <2> QED  BY <1>3, <1>7, <2>2, TrimType DEF directory
<1>9. ASSUME NEW dir \in Seq(Segment) PROVE Follow(dir, Root) = dir
  <2>1. Follow(dir, Empty) = dir  BY EmptyFacts, FollowBlanks
  <2>2. Follow(dir, Append(Empty, Blank)) = Enter(Follow(dir, Empty), Blank)
    BY <1>1, FollowLaws
  <2> QED  BY <1>3, <2>1, <2>2, SegmentFacts DEF Enter
<1> QED  BY <1>3, <1>4, <1>5, <1>6, <1>7, <1>8, <1>9

\* A separator added at the end.
LEMMA AddBlank ==
    ASSUME NEW q \in Path
    PROVE  /\ Append(q, Blank) \in Path /\ Len(Append(q, Blank)) = Len(q) + 1
           /\ is_absolute(Append(q, Blank)) <=> q[1] = Blank
           /\ trailing_slash(Append(q, Blank))
           /\ Front(Append(q, Blank)) = q
           /\ \A dir \in Seq(Segment) : Follow(dir, Append(q, Blank)) = Follow(dir, q)
<1> DEFINE u == Append(q, Blank)
<1> DEFINE n == Len(q)
<1>1. q \in Seq(Segment) /\ Blank \in Segment /\ n \in Nat /\ n >= 1 /\ 1 \in 1..n
  BY PathType, SegmentFacts
<1>2. u \in Seq(Segment) /\ u # <<>> /\ Len(u) = n + 1 /\ u[1] = q[1] /\ u[n + 1] = Blank
  BY <1>1, AppendProperties
<1>3. Front(u) = q  BY <1>1, FrontAppend
<1>4. ASSUME NEW dir \in Seq(Segment) PROVE Follow(dir, u) = Follow(dir, q)
  <2>1. Follow(dir, u) = Enter(Follow(dir, q), Blank)  BY <1>1, FollowLaws
  <2> QED  BY <2>1, SegmentFacts DEF Enter
<1> HIDE DEF u, n
<1>5. Len(u) > 1  BY <1>1, <1>2
<1>6. is_absolute(u) <=> q[1] = Blank  BY <1>2, <1>5 DEF is_absolute
<1>7. trailing_slash(u)  BY <1>2, <1>5 DEF trailing_slash, Last
<1> QED  BY <1>2, <1>3, <1>4, <1>6, <1>7 DEF u, n, Path

\* A separator added in front.
LEMMA PutBlank ==
    ASSUME NEW s \in Path
    PROVE  /\ <<Blank>> \o s \in Path /\ Len(<<Blank>> \o s) = Len(s) + 1
           /\ (<<Blank>> \o s)[1] = Blank /\ Last(<<Blank>> \o s) = Last(s)
           /\ is_absolute(<<Blank>> \o s)
           /\ SubSeq(<<Blank>> \o s, 2, Len(<<Blank>> \o s)) = s
           /\ \A dir \in Seq(Segment) : Follow(dir, <<Blank>> \o s) = Follow(dir, s)
<1> DEFINE b == <<Blank>>
<1> DEFINE u == b \o s
<1> DEFINE n == Len(s)
<1>1. s \in Seq(Segment) /\ n \in Nat /\ n >= 1  BY PathType
<1>2. b \in Seq(Segment) /\ Len(b) = 1 /\ b[1] = Blank /\ b \in Seq({Blank})
  BY SegmentFacts, Singleton
<1> HIDE DEF b
<1>3. /\ u \in Seq(Segment) /\ Len(u) = n + 1
      /\ \A i \in 1..n + 1 : u[i] = IF i <= 1 THEN b[i] ELSE s[i - 1]
  <2>1. /\ u \in Seq(Segment) /\ Len(u) = Len(b) + Len(s)
        /\ \A i \in 1..Len(b) + Len(s) : u[i] = IF i <= Len(b) THEN b[i] ELSE s[i - Len(b)]
    BY <1>1, <1>2, ConcatProperties
  <2>2. Len(b) + Len(s) = n + 1  BY <1>1, <1>2
  <2> QED  BY <1>2, <2>1, <2>2
<1>4. SubSeq(u, 2, n + 1) = s
  <2>1. 2 \in Len(b) + 1..Len(b) + Len(s) /\ n + 1 \in Len(b) + 1..Len(b) + Len(s)
    BY <1>1, <1>2
  <2> DEFINE m == n + 1
  <2>2. SubSeq(u, 2, m) = SubSeq(s, 2 - Len(b), m - Len(b))
    <3>1. m \in Len(b) + 1..Len(b) + Len(s)  BY <2>1
    <3> HIDE DEF m
    <3> QED  BY <1>1, <1>2, <2>1, <3>1, SubSeqOfConcat2, Zenon
  <2>3. 2 - Len(b) = 1 /\ n + 1 - Len(b) = Len(s)  BY <1>1, <1>2
  <2> QED  BY <1>1, <2>2, <2>3, SubSeqFull
<1>5. ASSUME NEW dir \in Seq(Segment) PROVE Follow(dir, u) = Follow(dir, s)
  <2>1. Follow(dir, u) = Follow(Follow(dir, b), s)  BY <1>1, <1>2, FollowConcat
  <2>2. Follow(dir, b) = dir  BY <1>2, FollowBlanks
  <2> QED  BY <2>1, <2>2
<1> HIDE DEF u, n
<1>6. 1 \in 1..n + 1 /\ n + 1 \in 1..n + 1 /\ ~(n + 1 <= 1) /\ (n + 1) - 1 = n /\ n + 1 > 1
  BY <1>1
<1>7. u[1] = Blank /\ u[n + 1] = s[n]  BY <1>2, <1>3, <1>6
<1>8. Last(u) = Last(s)  BY <1>3, <1>7 DEF Last, n
<1>9. is_absolute(u)  BY <1>3, <1>6, <1>7 DEF is_absolute
<1>10. u \in Path
  <2>1. u # <<>>  BY <1>3, <1>6, EmptySeq
  <2> QED  BY <1>3, <2>1 DEF Path
<1> QED  BY <1>3, <1>4, <1>5, <1>7, <1>8, <1>9, <1>10 DEF u, n, b

\* What sanitize() makes of a remainder, read off its source case by case.
Shape(s, r, w) ==
    IF s = <<>> THEN (IF r THEN Empty ELSE Root)
    ELSE LET q == IF r THEN s ELSE <<Blank>> \o s IN IF w THEN Append(q, Blank) ELSE q

LEMMA RebuildShape ==
    ASSUME NEW r \in BOOLEAN, NEW w \in BOOLEAN, NEW s, Remainder(s, r)
    PROVE  Rebuild(s, r, w) = Shape(s, r, w)
<1>1. CASE s = <<>>
  <2>1. join(s) = Empty /\ Root # Empty /\ directory(Root) = Root /\ Root = <<Blank>> \o Empty
    BY <1>1, RootFacts DEF join
  <2>2. CASE r  BY <1>1, <2>1, <2>2 DEF Rebuild, Shape
  <2>3. CASE ~r  BY <1>1, <2>1, <2>3 DEF Rebuild, Shape
  <2> QED  BY <2>2, <2>3
<1>2. CASE s # <<>>
  <2> DEFINE q == IF r THEN s ELSE <<Blank>> \o s
  <2>1. join(s) = s  BY <1>2 DEF join
  <2>2. q \in Path /\ Last(q) # Blank /\ q # Empty
    <3>1. s \in Path /\ Last(s) # Blank /\ s # Empty /\ Len(s) >= 1 /\ Len(s) \in Nat
      BY <1>2, RemainderFacts
    <3>2. <<Blank>> \o s \in Path /\ Last(<<Blank>> \o s) = Last(s)
          /\ Len(<<Blank>> \o s) = Len(s) + 1
      BY <3>1, PutBlank
    <3>3. Len(s) + 1 # 1  BY <3>1
    <3>4. <<Blank>> \o s # Empty  BY <3>2, <3>3, EmptyFacts
    <3> QED  BY <3>1, <3>2, <3>4
  <2>3. trim(q) = q  BY <2>2, TrimType
  <2>4. Rebuild(s, r, w) = IF w /\ q # Empty THEN directory(q) ELSE q  BY <2>1 DEF Rebuild
  <2>5. Shape(s, r, w) = IF w THEN Append(q, Blank) ELSE q  BY <1>2 DEF Shape
  <2> HIDE DEF q
  <2> QED  BY <2>2, <2>3, <2>4, <2>5 DEF directory
<1> QED  BY <1>1, <1>2

\* What is between the leading and the trailing separator of a path.
Body(s) == SubSeq(s, IF is_absolute(s) THEN 2 ELSE 1,
                  IF trailing_slash(s) THEN Len(s) - 1 ELSE Len(s))

LEMMA ShapeFacts ==
    ASSUME NEW r \in BOOLEAN, NEW w \in BOOLEAN, NEW s, Remainder(s, r),
           NEW p, p = Shape(s, r, w)
    PROVE  /\ p \in Path
           /\ is_absolute(p) <=> ~r
           /\ trailing_slash(p) <=> IF s = <<>> THEN ~r ELSE w
           /\ \A dir \in Seq(Segment) : Follow(dir, p) = Follow(dir, s)
           /\ Pruned(p, r) = s
           /\ Body(p) = IF p = Empty THEN Empty ELSE s
<1>0. s \in Seq(Segment) /\ Pruned(s, r) = s /\ <<>> \in Seq(Segment)
  BY RemainderFacts, EmptySeq
<1>1. CASE s = <<>> /\ r
  <2>1. p = Empty  BY <1>1 DEF Shape
  <2>2. p \in Path /\ Len(p) = 1 /\ p \in Seq({Blank}) /\ p \in Seq(Segment)
    BY <2>1, EmptyFacts, PathType
  <2>3. ~is_absolute(p) /\ ~trailing_slash(p)  BY <2>2 DEF is_absolute, trailing_slash
  <2>4. \A dir \in Seq(Segment) : Follow(dir, p) = Follow(dir, s)
    <3>1. \A dir \in Seq(Segment) : Follow(dir, p) = dir  BY <2>2, FollowBlanks
    <3>2. \A dir \in Seq(Segment) : Follow(dir, <<>>) = dir  BY FollowLaws
    <3> QED  BY <1>1, <3>1, <3>2
  <2>5. Pruned(p, r) = s
    <3>1. Pruned(Append(<<>>, Blank), r) = Prune(Pruned(<<>>, r), Blank, r)
      BY <1>0, PrunedLaws, SegmentFacts
    <3>2. Pruned(<<>>, r) = <<>>  BY PrunedLaws
    <3> QED  BY <1>1, <2>1, <3>1, <3>2, EmptyFacts, SegmentFacts DEF Prune
  <2>6. Body(p) = Empty
    <3>1. Body(p) = SubSeq(p, 1, Len(p))  BY <2>3 DEF Body
    <3> QED  BY <2>1, <2>2, <3>1, SubSeqFull
  <2> QED  BY <1>1, <2>1, <2>2, <2>3, <2>4, <2>5, <2>6
<1>2. CASE s = <<>> /\ ~r
  <2>1. p = Root  BY <1>2 DEF Shape
  <2>2. p \in Path /\ Len(p) = 2 /\ p[1] = Blank /\ p[2] = Blank /\ p # Empty
        /\ p \in Seq(Segment)
    BY <2>1, RootFacts, PathType
  <2>3. is_absolute(p) /\ trailing_slash(p)  BY <2>2 DEF is_absolute, trailing_slash, Last
  <2>4. \A dir \in Seq(Segment) : Follow(dir, p) = dir /\ Follow(dir, s) = dir
    BY <1>2, <2>1, RootFacts, FollowLaws
  <2>5. Pruned(p, r) = s
    <3>1. Pruned(p, FALSE) = Follow(<<>>, p)  BY <2>2, AbsolutePruned
    <3> QED  BY <1>0, <1>2, <2>4, <3>1
  <2>6. Body(p) = <<>>
    <3>1. Body(p) = SubSeq(p, 2, 1)  BY <2>2, <2>3 DEF Body
    <3> QED  BY <3>1, SubSeqEmpty
  <2> QED  BY <1>2, <2>2, <2>3, <2>4, <2>5, <2>6
<1>3. CASE s # <<>>
  <2> DEFINE q == IF r THEN s ELSE <<Blank>> \o s
  <2>1. s \in Path /\ s # Empty /\ Last(s) # Blank /\ s[1] # Blank /\ Len(s) >= 1 /\ Len(s) \in Nat
    BY <1>3, RemainderFacts
  <2>2. /\ q \in Path /\ Last(q) # Blank /\ q # Empty /\ (q[1] = Blank <=> ~r)
        /\ is_absolute(q) <=> ~r
        /\ \A dir \in Seq(Segment) : Follow(dir, q) = Follow(dir, s)
        /\ ~r => SubSeq(q, 2, Len(q)) = s
    <3>1. CASE r
      <4>1. ~is_absolute(s)  BY <2>1 DEF is_absolute
      <4> QED  BY <2>1, <3>1, <4>1
    <3>2. CASE ~r
      <4>1. q = <<Blank>> \o s  BY <3>2
      <4> HIDE DEF q
      <4>2. /\ q \in Path /\ Len(q) = Len(s) + 1 /\ q[1] = Blank /\ Last(q) = Last(s)
            /\ is_absolute(q) /\ SubSeq(q, 2, Len(q)) = s
            /\ \A dir \in Seq(Segment) : Follow(dir, q) = Follow(dir, s)
        BY <2>1, <4>1, PutBlank
      <4>3. Len(s) + 1 # 1  BY <2>1
      <4>4. q # Empty  BY <4>2, <4>3, EmptyFacts
      <4> QED  BY <2>1, <3>2, <4>2, <4>4
    <3> QED  BY <3>1, <3>2
  <2>3. p = IF w THEN Append(q, Blank) ELSE q  BY <1>3 DEF Shape
  <2>4. r => q = s  OBVIOUS
  <2> HIDE DEF q
  <2>5. q \in Seq(Segment) /\ Len(q) \in Nat  BY <2>2, PathType
  <2>6. CASE ~w
    <3>1. p = q  BY <2>3, <2>6
    <3>2. ~trailing_slash(p)  BY <2>2, <3>1 DEF trailing_slash
    <3>3. Pruned(p, r) = s
      <4>1. CASE r  BY <1>0, <2>4, <3>1, <4>1
      <4>2. CASE ~r
        <5>1. Pruned(q, FALSE) = Follow(<<>>, q) /\ s \in Seq(FileName)
          BY <2>5, <4>2, AbsolutePruned DEF Remainder
        <5>2. Follow(<<>>, q) = Follow(<<>>, s)  BY <1>0, <2>2
        <5> QED  BY <3>1, <4>2, <5>1, <5>2, FollowFromRoot
      <4> QED  BY <4>1, <4>2
    <3>4. Body(p) = s
      <4>1. CASE r
        <5>1. Body(p) = SubSeq(s, 1, Len(s))  BY <2>2, <2>4, <3>1, <3>2, <4>1 DEF Body
        <5> QED  BY <1>0, <5>1, SubSeqFull
      <4>2. CASE ~r  BY <2>2, <3>1, <3>2, <4>2 DEF Body
      <4> QED  BY <4>1, <4>2
    <3> QED  BY <1>3, <2>2, <2>6, <3>1, <3>2, <3>3, <3>4
  <2>7. CASE w
    <3>1. p = Append(q, Blank)  BY <2>3, <2>7
    <3>2. /\ p \in Path /\ Len(p) = Len(q) + 1 /\ (is_absolute(p) <=> q[1] = Blank)
          /\ trailing_slash(p) /\ Front(p) = q
          /\ \A dir \in Seq(Segment) : Follow(dir, p) = Follow(dir, q)
      BY <2>2, <3>1, AddBlank
    <3>3. p # Empty
      <4>1. Len(q) >= 1  BY <2>2, PathType
      <4>2. Len(q) + 1 # 1  BY <2>5, <4>1
      <4> QED  BY <3>2, <4>2, EmptyFacts
    <3>4. Pruned(p, r) = s
      <4>1. CASE r
        <5>1. Pruned(Append(s, Blank), r) = Prune(Pruned(s, r), Blank, r)
          BY <1>0, PrunedLaws, SegmentFacts
        <5> QED  BY <1>0, <2>4, <3>1, <4>1, <5>1, SegmentFacts DEF Prune
      <4>2. CASE ~r
        <5>1. p \in Seq(Segment)  BY <3>2, PathType
        <5>2. Pruned(p, FALSE) = Follow(<<>>, p) /\ s \in Seq(FileName)
          BY <4>2, <5>1, AbsolutePruned DEF Remainder
        <5>3. Follow(<<>>, p) = Follow(<<>>, s)  BY <1>0, <2>2, <3>2
        <5> QED  BY <4>2, <5>2, <5>3, FollowFromRoot
      <4> QED  BY <4>1, <4>2
    <3>5. Body(p) = s
      <4>1. Len(p) - 1 = Len(q)  BY <2>5, <3>2
      <4>2. SubSeq(p, 1, Len(q)) = q  BY <3>2, <4>1 DEF Front
      <4>3. CASE r
        <5>1. Body(p) = SubSeq(p, 1, Len(q))  BY <2>2, <3>2, <4>1, <4>3 DEF Body
        <5> QED  BY <2>4, <4>2, <4>3, <5>1
      <4>4. CASE ~r
        <5>1. Body(p) = SubSeq(p, 2, Len(q))  BY <2>2, <3>2, <4>1, <4>4 DEF Body
        <5>2. SubSeq(p, 2, Len(q)) = SubSeq(q, 2, Len(q))
          <6> DEFINE n == Len(q)
          <6>1. Blank \in Segment  BY SegmentFacts
          <6>2. p = q \o <<Blank>> /\ <<Blank>> \in Seq(Segment)
            BY <2>5, <3>1, <6>1, AppendIsConcat, Singleton
          <6>3. 2 \in 1..n /\ n \in 1..n
            <7>1. n > 1 /\ n \in Nat  BY <2>2, <2>5, <4>4 DEF is_absolute
            <7> HIDE DEF n
            <7> QED  BY <7>1
          <6> HIDE DEF n
          <6>4. SubSeq(q \o <<Blank>>, 2, n) = SubSeq(q, 2, n)
            BY <2>5, <6>2, <6>3, SubSeqOfConcat1 DEF n
          <6> QED  BY <6>2, <6>4 DEF n
        <5> QED  BY <2>2, <4>4, <5>1, <5>2
      <4> QED  BY <4>3, <4>4
    <3> QED  BY <1>3, <2>2, <2>7, <3>2, <3>3, <3>4, <3>5
  <2> QED  BY <2>6, <2>7
<1> QED  BY <1>1, <1>2, <1>3

LEMMA SanitizeFacts ==
    ASSUME NEW p \in Path
    PROVE  /\ sanitize(p) \in Path /\ sanitize(sanitize(p)) = sanitize(p)
           /\ is_absolute(sanitize(p)) <=> is_absolute(p)
           /\ \A dir \in Seq(Segment) : Walk(dir, sanitize(p)) = Walk(dir, p)
           /\ Body(sanitize(p)) = IF sanitize(p) = Empty THEN Empty ELSE Left(p)
           /\ Remainder(Left(p), ~is_absolute(p))
<1> DEFINE r == ~is_absolute(p)
<1> DEFINE w == trailing_slash(p)
<1> DEFINE s == Left(p)
<1> DEFINE q == sanitize(p)
<1>1. r \in BOOLEAN /\ w \in BOOLEAN /\ p \in Seq(Segment)
  BY PathType DEF is_absolute, trailing_slash
<1>2. Remainder(s, r) /\ q = Rebuild(s, r, w)  BY LeftFacts
<1>3. s = Pruned(p, r) /\ (is_absolute(p) <=> ~r)  BY DEF Left
<1> HIDE DEF r, w, s, q
<1>4. q = Shape(s, r, w)  BY <1>1, <1>2, RebuildShape
<1>5. /\ q \in Path /\ (is_absolute(q) <=> ~r)
      /\ trailing_slash(q) <=> IF s = <<>> THEN ~r ELSE w
      /\ \A dir \in Seq(Segment) : Follow(dir, q) = Follow(dir, s)
      /\ Pruned(q, r) = s
      /\ Body(q) = IF q = Empty THEN Empty ELSE s
  BY <1>1, <1>2, <1>4, ShapeFacts
<1>6. sanitize(q) = q
  <2> DEFINE t == ~is_absolute(q)
  <2>1. /\ t = r /\ Left(q) = Pruned(q, t)
        /\ sanitize(q) = Rebuild(Left(q), t, trailing_slash(q))
    <3>1. t = r  BY <1>1, <1>5 DEF is_absolute
    <3>2. Left(q) = Pruned(q, t)  BY DEF Left
    <3>3. sanitize(q) = Rebuild(Left(q), t, trailing_slash(q))  BY <1>5, LeftFacts, Zenon
    <3> QED  BY <3>1, <3>2, <3>3, Zenon
  <2> HIDE DEF t
  <2>2. Left(q) = s  BY <1>5, <2>1
  <2>3. sanitize(q) = Rebuild(s, r, trailing_slash(q))  BY <2>1, <2>2
  <2>4. trailing_slash(q) \in BOOLEAN  BY DEF trailing_slash
  <2>5. sanitize(q) = Shape(s, r, trailing_slash(q))  BY <1>1, <1>2, <2>3, <2>4, RebuildShape
  <2>6. CASE s = <<>>  BY <1>4, <2>5, <2>6 DEF Shape
  <2>7. CASE s # <<>>
    <3>1. trailing_slash(q) = w  BY <1>1, <1>5, <2>4, <2>7
    <3> QED  BY <1>4, <2>5, <3>1
  <2> QED  BY <2>6, <2>7
<1>7. ASSUME NEW dir \in Seq(Segment) PROVE Walk(dir, q) = Walk(dir, p)
  <2>0. <<>> \in Seq(Segment) /\ <<>> \in Seq(FileName)  BY EmptySeq
  <2>1. CASE r = TRUE
    <3>1. Walk(dir, q) = Follow(dir, q) /\ Walk(dir, p) = Follow(dir, p)
      BY <1>3, <1>5, <2>1 DEF Walk
    <3>2. Follow(dir, s) = Follow(dir, p)  BY <1>1, <1>3, <2>1, FollowPruned
    <3> QED  BY <1>5, <3>1, <3>2
  <2>2. CASE r = FALSE
    <3>1. Walk(dir, q) = Follow(<<>>, q) /\ Walk(dir, p) = Follow(<<>>, p)
      BY <1>3, <1>5, <2>2 DEF Walk
    <3>2. s = Follow(<<>>, p)  BY <1>1, <1>3, <2>2, AbsolutePruned
    <3>3. s \in Seq(FileName)  BY <1>1, <2>0, <3>2, FollowNames
    <3>4. Follow(<<>>, s) = s  BY <3>3, FollowFromRoot
    <3> QED  BY <1>5, <2>0, <3>1, <3>2, <3>4
  <2> QED  BY <1>1, <2>1, <2>2
<1> QED  BY <1>2, <1>3, <1>5, <1>6, <1>7 DEF q, s, r

-----------------------------------------------------------------------------
(* append(), up(), absolute()                                               *)

LEMMA ConcatPath ==
    ASSUME NEW p \in Seq(Segment), NEW q \in Path
    PROVE  /\ p \o q \in Path /\ Len(p \o q) = Len(p) + Len(q)
           /\ p # <<>> => (p \o q)[1] = p[1]
<1>1. q \in Seq(Segment) /\ Len(q) \in Nat /\ Len(q) >= 1 /\ Len(p) \in Nat  BY PathType, LenProperties
<1> DEFINE u == p \o q
<1>2. /\ u \in Seq(Segment) /\ Len(u) = Len(p) + Len(q)
      /\ \A i \in 1..Len(p) + Len(q) : u[i] = IF i <= Len(p) THEN p[i] ELSE q[i - Len(p)]
  BY <1>1, ConcatProperties
<1> HIDE DEF u
<1>3. u # <<>>
  <2>1. Len(p) + Len(q) # 0 /\ Len(<<>>) = 0  BY <1>1, EmptySeq
  <2> QED  BY <1>2, <2>1
<1>4. ASSUME p # <<>> PROVE u[1] = p[1]
  <2>1. p \in Path  BY <1>4 DEF Path
  <2>2. Len(p) >= 1  BY <2>1, PathType
  <2>3. 1 \in 1..Len(p) + Len(q) /\ 1 <= Len(p)  BY <1>1, <2>2
  <2> QED  BY <1>2, <2>3
<1> QED  BY <1>2, <1>3, <1>4 DEF Path, u

LEMMA AppendFacts ==
    ASSUME NEW p \in Path, NEW q \in Path
    PROVE  /\ append(p, q) \in Path
           /\ \A dir \in Seq(Segment) : Follow(dir, append(p, q)) = Follow(Follow(dir, p), q)
           /\ p # Empty => (is_absolute(append(p, q)) <=> is_absolute(p))
<1> DEFINE f == IF trailing_slash(p) THEN Front(p) ELSE p
<1>1. /\ p \in Seq(Segment) /\ p # <<>> /\ Len(p) \in Nat /\ Len(p) >= 1
      /\ p = Empty <=> Len(p) = 1 /\ p[1] = Blank
  BY PathType
<1>2. /\ f \in Seq(Segment) /\ f # <<>> /\ f[1] = p[1]
      /\ \A dir \in Seq(Segment) : Follow(dir, f) = Follow(dir, p)
  <2>1. CASE trailing_slash(p)
    <3>1. Len(p) > 1 /\ Last(p) = Blank  BY <2>1 DEF trailing_slash
    <3>2. /\ Front(p) \in Seq(Segment) /\ p = Append(Front(p), Blank)
          /\ Len(Front(p)) = Len(p) - 1 /\ \A i \in 1..Len(p) - 1 : Front(p)[i] = p[i]
      BY <1>1, <3>1, FrontFacts
    <3>3. 1 \in 1..Len(p) - 1 /\ Len(p) - 1 # 0  BY <1>1, <3>1
    <3>4. Front(p) # <<>>  BY <3>2, <3>3, EmptySeq
    <3>5. ASSUME NEW dir \in Seq(Segment) PROVE Follow(dir, Front(p)) = Follow(dir, p)
      <4>1. Follow(dir, Append(Front(p), Blank)) = Enter(Follow(dir, Front(p)), Blank)
        BY <3>2, SegmentFacts, FollowLaws
      <4> QED  BY <3>2, <4>1, SegmentFacts DEF Enter
    <3> QED  BY <2>1, <3>2, <3>3, <3>4, <3>5
  <2>2. CASE ~trailing_slash(p)  BY <1>1, <2>2
  <2> QED  BY <2>1, <2>2
<1>3. append(p, q) = f \o q  BY DEF append
<1> HIDE DEF f
<1>4. q \in Seq(Segment) /\ Len(q) \in Nat /\ Len(q) >= 1  BY PathType
<1>5. /\ f \o q \in Path /\ Len(f \o q) = Len(f) + Len(q) /\ (f \o q)[1] = p[1]
  BY <1>2, ConcatPath
<1>6. ASSUME NEW dir \in Seq(Segment)
      PROVE  Follow(dir, f \o q) = Follow(Follow(dir, p), q)
  BY <1>2, <1>4, FollowConcat
<1>7. is_absolute(f \o q) <=> p[1] = Blank
  <2>1. f \in Path  BY <1>2 DEF Path
  <2>2. Len(f) \in Nat /\ Len(f) >= 1  BY <2>1, PathType
  <2>3. Len(f) + Len(q) > 1  BY <1>4, <2>2
  <2> QED  BY <1>5, <2>3 DEF is_absolute
<1>8. p # Empty => (p[1] = Blank <=> is_absolute(p))  BY <1>1 DEF is_absolute
<1> QED  BY <1>3, <1>5, <1>6, <1>7, <1>8

UpPath == <<"..">>

LEMMA UpPathFacts ==
    /\ UpPath \in Path /\ UpPath # Empty /\ ~is_absolute(UpPath)
    /\ \A dir \in Seq(Segment) : Follow(dir, UpPath) = Parent(dir)
<1>1. ".." \in Segment /\ Blank # ".."  BY SegmentFacts
<1>2. /\ UpPath \in Seq(Segment) /\ UpPath # <<>> /\ Len(UpPath) = 1 /\ UpPath[1] = ".."
      /\ UpPath = Append(<<>>, "..")
  BY <1>1, Singleton DEF UpPath
<1>3. UpPath \in Path /\ UpPath # Empty  BY <1>1, <1>2, EmptyFacts DEF Path
<1>4. ~is_absolute(UpPath)  BY <1>2 DEF is_absolute
<1>5. ASSUME NEW dir \in Seq(Segment) PROVE Follow(dir, UpPath) = Parent(dir)
  <2>0. <<>> \in Seq(Segment)  BY EmptySeq
  <2>1. Follow(dir, Append(<<>>, "..")) = Enter(Follow(dir, <<>>), "..")
    BY <1>1, <2>0, FollowLaws, Zenon
  <2>2. Follow(dir, <<>>) = dir  BY FollowLaws
  <2> QED  BY <1>1, <1>2, <2>1, <2>2 DEF Enter
<1> QED  BY <1>3, <1>4, <1>5

LEMMA WalkDirectory ==
    ASSUME NEW p \in Path, p # Empty, NEW dir \in Seq(Segment)
    PROVE  Walk(dir, directory(p)) = Walk(dir, p)
<1>1. <<>> \in Seq(Segment)  BY EmptySeq
<1> QED  BY <1>1, DirectoryFacts DEF Walk

LEMMA UpFacts ==
    ASSUME NEW p \in Path
    PROVE  /\ up(p) \in Path
           /\ \A dir \in Seq(Segment) : Walk(dir, up(p)) = Parent(Walk(dir, p))
<1>1. CASE p = Empty
  <2>1. up(p) = directory(UpPath)  BY <1>1 DEF up, UpPath
  <2>2. directory(UpPath) \in Path  BY UpPathFacts, DirectoryFacts
  <2>3. ~is_absolute(Empty)  BY EmptyFacts DEF is_absolute
  <2>4. ASSUME NEW dir \in Seq(Segment) PROVE Walk(dir, directory(UpPath)) = Parent(Walk(dir, p))
    <3>1. Walk(dir, directory(UpPath)) = Walk(dir, UpPath)  BY UpPathFacts, WalkDirectory
    <3>2. Walk(dir, UpPath) = Parent(dir)  BY UpPathFacts DEF Walk
    <3>3. Walk(dir, p) = Follow(dir, Empty)  BY <1>1, <2>3 DEF Walk
    <3>4. Follow(dir, Empty) = dir  BY EmptyFacts, FollowBlanks
    <3> QED  BY <3>1, <3>2, <3>3, <3>4
  <2> QED  BY <2>1, <2>2, <2>4
<1>2. CASE p # Empty
  <2> DEFINE a == append(p, UpPath)
  <2> DEFINE q == sanitize(a)
  <2>1. up(p) = IF q = Empty THEN q ELSE directory(q)  BY <1>2 DEF up, UpPath
  <2>2. /\ a \in Path /\ (is_absolute(a) <=> is_absolute(p))
        /\ \A dir \in Seq(Segment) : Follow(dir, a) = Follow(Follow(dir, p), UpPath)
    BY <1>2, UpPathFacts, AppendFacts
  <2> HIDE DEF a
  <2>3. q \in Path /\ \A dir \in Seq(Segment) : Walk(dir, q) = Walk(dir, a)
    BY <2>2, SanitizeFacts
  <2> HIDE DEF q
  <2>4. ASSUME NEW dir \in Seq(Segment) PROVE Walk(dir, a) = Parent(Walk(dir, p))
    <3> DEFINE start == IF is_absolute(p) THEN <<>> ELSE dir
    <3>1. start \in Seq(Segment) /\ p \in Seq(Segment)  BY EmptySeq, PathType
    <3>2. Walk(dir, a) = Follow(start, a) /\ Walk(dir, p) = Follow(start, p)
      BY <2>2 DEF Walk
    <3> HIDE DEF start
    <3>3. Follow(start, p) \in Seq(Segment)  BY <3>1, FollowType
    <3> QED  BY <2>2, <3>1, <3>2, <3>3, UpPathFacts
  <2>5. directory(q) \in Path  BY <2>3, DirectoryFacts
  <2>6. ASSUME NEW dir \in Seq(Segment) PROVE Walk(dir, up(p)) = Parent(Walk(dir, p))
    <3>1. CASE q = Empty  BY <2>1, <2>3, <2>4, <3>1
    <3>2. CASE q # Empty
      <4>1. Walk(dir, directory(q)) = Walk(dir, q)  BY <2>3, <3>2, WalkDirectory
      <4> QED  BY <2>1, <2>3, <2>4, <3>2, <4>1
    <3> QED  BY <3>1, <3>2
  <2> QED  BY <2>1, <2>3, <2>5, <2>6
<1> QED  BY <1>1, <1>2

LEMMA AbsoluteFacts ==
    ASSUME NEW p \in Path
    PROVE  absolute(p) \in Path /\ Walk(<<>>, absolute(p)) = Walk(<<>>, p)
<1>1. cwd = Root  BY RootFacts DEF cwd, Root
<1>2. CASE is_absolute(p)  BY <1>2 DEF absolute
<1>3. CASE ~is_absolute(p)
  <2>1. <<>> \in Seq(Segment)  BY EmptySeq
  <2>2. absolute(p) = append(Root, p)  BY <1>1, <1>3 DEF absolute
  <2>3. append(Root, p) \in Path /\ Follow(<<>>, append(Root, p)) = Follow(Follow(<<>>, Root), p)
    BY <2>1, RootFacts, AppendFacts
  <2>4. Follow(<<>>, Root) = <<>>  BY <2>1, RootFacts
  <2> QED  BY <2>2, <2>3, <2>4 DEF Walk
<1> QED  BY <1>2, <1>3

-----------------------------------------------------------------------------
(* The object's calls                                                       *)

LEMMA ArgumentPaths ==
    /\ Given \subseteq Path
    /\ Arguments \subseteq Path
<1>1. ASSUME NEW n \in 1..MaxSegments, NEW p \in [1..n -> Segment] PROVE p \in Path
  <2>1. n \in Nat /\ n # 0  BY PathAssumption
  <2>2. p \in Seq(Segment) /\ Len(p) = n  BY <2>1, LenProperties, SeqDef
  <2>3. p # <<>>  BY <2>1, <2>2, EmptySeq
  <2> QED  BY <2>2, <2>3 DEF Path
<1> QED  BY <1>1 DEF Given, Arguments

LEMMA InitPath == Init => TypeOK
BY ArgumentPaths DEF Init, TypeOK

LEMMA NextPath == TypeOK /\ [Next]_path => TypeOK'
<1> SUFFICES ASSUME path \in Path, [Next]_path PROVE path' \in Path  BY DEF TypeOK
<1>1. CASE DoAppend
  <2>1. PICK segment \in Arguments : path' = append(path, segment)  BY <1>1 DEF DoAppend
  <2> QED  BY <2>1, ArgumentPaths, AppendFacts
<1>2. CASE DoRelative
  <2>1. PICK rel \in Arguments : path' = relative(path, rel)  BY <1>2 DEF DoRelative
  <2>2. rel \in Path  BY <2>1, ArgumentPaths
  <2>3. append(path, rel) \in Path  BY <2>2, AppendFacts
  <2> QED  BY <2>1, <2>2, <2>3 DEF relative
<1>3. CASE DoUp  BY <1>3, UpFacts DEF DoUp
<1>4. CASE DoAbsolute  BY <1>4, AbsoluteFacts DEF DoAbsolute
<1>5. CASE DoSanitize  BY <1>5, SanitizeFacts DEF DoSanitize
<1>6. CASE DoDirectory  BY <1>6, DirectoryFacts DEF DoDirectory
<1>7. CASE DoTrim  BY <1>7, TrimType DEF DoTrim
<1>8. CASE UNCHANGED path  BY <1>8
<1> QED  BY <1>1, <1>2, <1>3, <1>4, <1>5, <1>6, <1>7, <1>8 DEF Next

\* Every call leaves a path: the object's string never loses its last segment,
\* neither to trim() nor to sanitize(), whatever the calls and their order
\* (cpp_path.hpp:223-479).
THEOREM TypeCorrect == Spec => []TypeOK
<1> QED  BY InitPath, NextPath, PTL DEF Spec

LEMMA NormalPath ==
    ASSUME NEW p \in Path
    PROVE  LET s == sanitize(p) IN
           \A i \in DOMAIN Body(s) :
              /\ Body(s)[i] # "."
              /\ Body(s)[i] = Blank => Len(Body(s)) = 1
              /\ Body(s)[i] = ".." => ~is_absolute(s) /\ \A j \in 1..i : Body(s)[j] = ".."
<1> DEFINE s == sanitize(p)
<1> DEFINE b == Body(s)
<1> DEFINE l == Left(p)
<1> DEFINE r == ~is_absolute(p)
<1>1. /\ b = IF s = Empty THEN Empty ELSE l
      /\ Remainder(l, r) /\ (is_absolute(s) <=> ~r)
  BY SanitizeFacts
<1>2. r \in BOOLEAN  OBVIOUS
<1> HIDE DEF s, b, l, r
<1>3. CASE s = Empty
  <2>1. b = Empty  BY <1>1, <1>3
  <2>2. Len(b) = 1 /\ b[1] = Blank /\ DOMAIN b = 1..1  BY <2>1, EmptyFacts, PathType
  <2>3. \A i \in DOMAIN b : b[i] = Blank  BY <2>2
  <2>4. \A i \in DOMAIN b : /\ b[i] # "."
                            /\ b[i] = Blank => Len(b) = 1
                            /\ b[i] = ".." => ~is_absolute(s) /\ \A j \in 1..i : b[j] = ".."
    BY <2>2, <2>3, SegmentFacts
  <2> QED  BY <2>4 DEF b, s
<1>4. CASE s # Empty
  <2>1. b = l  BY <1>1, <1>4
  <2>2. /\ l \in Seq(Segment) /\ Len(l) \in Nat
        /\ \A i \in 1..Len(l) : /\ l[i] # Blank /\ l[i] # "."
                                /\ l[i] = ".." => r /\ \A j \in 1..i : l[j] = ".."
    BY <1>1, <1>2, RemainderFacts
  <2>3. DOMAIN l = 1..Len(l)  BY <2>2, LenProperties
  <2>4. \A i \in DOMAIN b : /\ b[i] # "."
                            /\ b[i] = Blank => Len(b) = 1
                            /\ b[i] = ".." => ~is_absolute(s) /\ \A j \in 1..i : b[j] = ".."
    BY <1>1, <2>1, <2>2, <2>3
  <2> QED  BY <2>4 DEF b, s
<1> QED  BY <1>3, <1>4

LEMMA NormalHere == TypeOK => SanitizeIsNormal
<1> SUFFICES ASSUME path \in Path PROVE SanitizeIsNormal  BY DEF TypeOK
<1>1. /\ sanitize(sanitize(path)) = sanitize(path)
      /\ is_absolute(sanitize(path)) <=> is_absolute(path)
  BY SanitizeFacts
<1> QED  BY <1>1, NormalPath DEF SanitizeIsNormal, Body

\* sanitize() gives one spelling, and sanitizing again changes nothing, for
\* paths of any length over any names (cpp_path.hpp:351-413).
THEOREM SanitizedIsNormal == Spec => []SanitizeIsNormal
<1> QED  BY TypeCorrect, NormalHere, PTL

LEMMA StartType == \A dir \in Start : dir \in Seq(FileName) /\ dir \in Seq(Segment)
BY PathAssumption, NameSeqs

LEMMA PlaceHere == TypeOK => SanitizeKeepsPlace
BY StartType, SanitizeFacts DEF TypeOK, SanitizeKeepsPlace

\* sanitize() does not change where a path leads, from any directory: what it
\* drops cancels out (cpp_path.hpp:351-413).
THEOREM SanitizedKeepsPlace == Spec => []SanitizeKeepsPlace
<1> QED  BY TypeCorrect, PlaceHere, PTL

LEMMA EquivalentPaths ==
    ASSUME NEW p \in Path, NEW q \in Path, equivalent(p, q)
    PROVE  Walk(<<>>, p) = Walk(<<>>, q)
<1>1. <<>> \in Seq(Segment)  BY EmptySeq
<1>2. sanitize(absolute(p)) = sanitize(absolute(q))  BY DEF equivalent
<1>3. /\ absolute(p) \in Path /\ Walk(<<>>, absolute(p)) = Walk(<<>>, p)
      /\ absolute(q) \in Path /\ Walk(<<>>, absolute(q)) = Walk(<<>>, q)
  BY AbsoluteFacts
<1>4. /\ Walk(<<>>, sanitize(absolute(p))) = Walk(<<>>, absolute(p))
      /\ Walk(<<>>, sanitize(absolute(q))) = Walk(<<>>, absolute(q))
  BY <1>1, <1>3, SanitizeFacts, Zenon
<1> QED  BY <1>2, <1>3, <1>4

LEMMA EquivalentHere == TypeOK => EquivalentIsSound
BY ArgumentPaths, EquivalentPaths DEF TypeOK, EquivalentIsSound

\* Two paths that equivalent() takes for one lead to one place
\* (cpp_path.hpp:236-240).
THEOREM EquivalentLeadsToOnePlace == Spec => []EquivalentIsSound
<1> QED  BY TypeCorrect, EquivalentHere, PTL

LEMMA OpenedName ==
    ASSUME NEW p \in Path, NEW dir \in Seq(FileName)
    PROVE  Walk(<<>>, path_sanitize(CwdFor(dir, p), p))
             = Walk(IF p[1] \in {".", ".."} \cup DotFile THEN dir ELSE <<>>, p)
<1> DEFINE dotted == p[1] \in {".", ".."} \cup DotFile
<1>0. <<>> \in Seq(Segment) /\ dir \in Seq(Segment) /\ p \in Seq(Segment)
  BY EmptySeq, NameSeqs, PathType
<1>1. CASE ~dotted
  <2>1. CwdFor(dir, p) = Empty  BY <1>1 DEF CwdFor
  <2>2. path_sanitize(Empty, p) = sanitize(p)  BY <1>1 DEF path_sanitize
  <2>3. Walk(<<>>, sanitize(p)) = Walk(<<>>, p)  BY <1>0, SanitizeFacts
  <2> QED  BY <1>1, <2>1, <2>2, <2>3
<1>2. CASE dotted
  <2> DEFINE base == join(dir)
  <2> DEFINE full == base \o p
  <2>1. CwdFor(dir, p) = base  BY <1>2 DEF CwdFor
  <2>2. path_sanitize(base, p) = sanitize(full)  BY <1>2 DEF path_sanitize
  <2>3. p[1] # Blank
    <3>1. Blank \notin FileName /\ DotFile \subseteq FileName  BY FileNameAssumption
    <3> QED  BY <1>2, <3>1, SegmentFacts
  <2>4. ~is_absolute(p)  BY <2>3 DEF is_absolute
  <2>5. base \in Seq(Segment) /\ base # <<>> /\ Follow(<<>>, base) = dir
    <3>1. CASE dir = <<>>
      <4>1. base = Empty  BY <3>1 DEF join
      <4>2. Empty \in Seq(Segment) /\ Empty # <<>>  BY EmptyFacts, PathType
      <4>3. Follow(<<>>, Empty) = <<>>  BY <1>0, EmptyFacts, FollowBlanks
      <4> QED  BY <3>1, <4>1, <4>2, <4>3
    <3>2. CASE dir # <<>>
      <4>1. base = dir  BY <3>2 DEF join
      <4> QED  BY <1>0, <3>2, <4>1, FollowFromRoot
    <3> QED  BY <3>1, <3>2
  <2> HIDE DEF base
  <2>6. full \in Path  BY <2>5, ConcatPath
  <2>7. Follow(<<>>, full) = Follow(dir, p)
    <3>1. Follow(<<>>, full) = Follow(Follow(<<>>, base), p)  BY <1>0, <2>5, FollowConcat
    <3> QED  BY <2>5, <3>1
  <2> HIDE DEF full
  <2>8. Walk(<<>>, sanitize(full)) = Walk(<<>>, full)  BY <1>0, <2>6, SanitizeFacts
  <2>9. Walk(<<>>, full) = Follow(<<>>, full)  BY DEF Walk
  <2>10. Walk(dir, p) = Follow(dir, p)  BY <2>4 DEF Walk
  <2> QED  BY <1>2, <2>1, <2>2, <2>7, <2>8, <2>9, <2>10
<1> QED  BY <1>1, <1>2

LEMMA OpensHere == TypeOK => OpensWhereMeant
BY PathAssumption, OpenedName DEF TypeOK, OpensWhereMeant

\* The name fopen gives the kernel leads where the caller's name leads, from the
\* current directory when it starts with a dot (kcrtfs.c:334-343,
\* cpp_path.cpp:10-37).
THEOREM OpensTheFileMeant == Spec => []OpensWhereMeant
<1> QED  BY TypeCorrect, OpensHere, PTL

LEMMA UpStep ==
    TypeOK /\ [Next]_path
      => [DoUp => \A dir \in Start : Walk(dir, path') = Parent(Walk(dir, path))]_path
BY StartType, UpFacts DEF TypeOK, DoUp

\* up() leads to the parent directory, from any directory and after any calls
\* (cpp_path.hpp:318-334).
THEOREM UpGoesToParent == Spec => UpLeadsToParent
<1>1. TypeOK /\ [Next]_path
        => [DoUp => \A dir \in Start : Walk(dir, path') = Parent(Walk(dir, path))]_path
  BY UpStep
<1> QED  BY InitPath, NextPath, <1>1, PTL DEF Spec, UpLeadsToParent
=============================================================================
