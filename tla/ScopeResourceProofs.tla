------------------------ MODULE ScopeResourceProofs ------------------------
(***************************************************************************)
(* Proofs about ScopeResource, for any objects and resources: no order of  *)
(* reset, release, swap, assignment and destruction loses a resource or    *)
(* releases it twice.                                                      *)
(***************************************************************************)
EXTENDS ScopeResource, FiniteSetTheorems, TLAPS

USE NullAssumption

-----------------------------------------------------------------------------
(* The same without counting *)

Owners(r) == {o \in Live : m_Resource[o] = r}

\* A resource is in one of four places, and in no two of them.
Placed(r) ==
    /\ r \in unused => r \notin kept /\ Owners(r) = {} /\ released[r] = 0
    /\ r \in kept => Owners(r) = {} /\ released[r] = 0
    /\ Owners(r) # {} => released[r] = 0
    /\ \A o, p \in Owners(r) : o = p
    /\ released[r] \in {0, 1}
    /\ r \in unused \/ r \in kept \/ Owners(r) # {} \/ released[r] = 1

IInv == TypeOK /\ \A r \in Resource : Placed(r)

LEMMA InitIInv == Init => IInv
<1> SUFFICES ASSUME Init PROVE IInv
  OBVIOUS
<1>1. Live = {}  BY DEF Init, Live
<1>2. TypeOK  BY <1>1 DEF Init, TypeOK
<1>3. \A r \in Resource : Placed(r)  BY <1>1 DEF Init, Placed, Owners
<1> QED  BY <1>2, <1>3 DEF IInv

-----------------------------------------------------------------------------

\* What an object holds after Holding(o, r).
LEMMA Held ==
    ASSUME NEW o, NEW r, m_Resource' = Holding(o, r)
    PROVE  /\ Live' = Live \cup {o} /\ m_Resource'[o] = r
           /\ \A x \in Live \ {o} : m_Resource'[x] = m_Resource[x]
BY DEF Holding, Live

LEMMA FunctorCounts ==
    ASSUME NEW x, TypeOK, Functor(x)
    PROVE  /\ released' \in [Resource -> Nat]
           /\ \A r \in Resource : released'[r] = released[r] + (IF r = x THEN 1 ELSE 0)
BY DEF Functor, TypeOK

LEMMA ConstructStep ==
    ASSUME IInv, NEW o \in Object, NEW x \in unused \cup {Null}, Construct(o, x)
    PROVE  IInv'
<1>1. /\ Live' = Live \cup {o} /\ m_Resource'[o] = x /\ o \notin Live
      /\ \A y \in Live : m_Resource'[y] = m_Resource[y]
  BY Held DEF Construct
<1>2. TypeOK'  BY <1>1 DEF Construct, IInv, TypeOK
<1>3. \A r \in Resource : Owners(r)' = Owners(r) \cup (IF r = x THEN {o} ELSE {})
  BY <1>1 DEF Owners
<1>4. ASSUME NEW r \in Resource PROVE Placed(r)'
  BY <1>1, <1>3 DEF Construct, IInv, Placed
<1> QED  BY <1>2, <1>4 DEF IInv

LEMMA ResetStep ==
    ASSUME IInv, NEW o \in Object, NEW x \in unused \cup {Null}, Reset(o, x)
    PROVE  IInv'
<1>1. /\ Live' = Live /\ m_Resource'[o] = x /\ o \in Live
      /\ \A y \in Live \ {o} : m_Resource'[y] = m_Resource[y]
  BY Held DEF Reset
<1>2. /\ released' \in [Resource -> Nat]
      /\ \A r \in Resource : released'[r] = released[r] + (IF r = m_Resource[o] THEN 1 ELSE 0)
  BY FunctorCounts DEF Reset, IInv
<1>3. TypeOK'  BY <1>1, <1>2 DEF Reset, IInv, TypeOK
<1>4. \A r \in Resource : Owners(r)' = (Owners(r) \ {o}) \cup (IF r = x THEN {o} ELSE {})
  BY <1>1 DEF Owners
<1>5. ASSUME NEW r \in Resource PROVE Placed(r)'
  <2>1. Placed(r) /\ unused' = unused \ {x} /\ kept' = kept  BY DEF Reset, IInv
  <2>2. o \in Owners(r) <=> r = m_Resource[o]  BY <1>1 DEF Owners
  <2>3. CASE r = m_Resource[o]
    <3>1. Owners(r) = {o} /\ released[r] = 0 /\ r \notin unused /\ r \notin kept
      BY <2>1, <2>2, <2>3 DEF Placed
    <3>2. r # x  BY <3>1
    <3>3. Owners(r)' = {} /\ released'[r] = 1  BY <1>2, <1>4, <2>3, <3>1, <3>2
    <3> QED  BY <2>1, <3>1, <3>3 DEF Placed
  <2>4. CASE r # m_Resource[o]
    <3>1. released'[r] = released[r]  BY <1>2, <2>4 DEF IInv, TypeOK
    <3>2. Owners(r)' = Owners(r) \cup (IF r = x THEN {o} ELSE {})  BY <1>4, <2>2, <2>4
    <3> QED  BY <2>1, <3>1, <3>2 DEF Placed
  <2> QED  BY <2>3, <2>4
<1> QED  BY <1>3, <1>5 DEF IInv

LEMMA DestroyStep ==
    ASSUME IInv, NEW o \in Object, Destroy(o)
    PROVE  IInv'
<1>1. /\ Live' = Live \ {o} /\ o \in Live
      /\ \A y \in Live \ {o} : m_Resource'[y] = m_Resource[y]
  BY DEF Destroy, Live
<1>2. /\ released' \in [Resource -> Nat]
      /\ \A r \in Resource : released'[r] = released[r] + (IF r = m_Resource[o] THEN 1 ELSE 0)
  BY FunctorCounts DEF Destroy, IInv
<1>3. TypeOK'  BY <1>1, <1>2 DEF Destroy, IInv, TypeOK
<1>4. \A r \in Resource : Owners(r)' = Owners(r) \ {o}  BY <1>1 DEF Owners
<1>5. ASSUME NEW r \in Resource PROVE Placed(r)'
  <2>1. Placed(r) /\ unused' = unused /\ kept' = kept  BY DEF Destroy, IInv
  <2>2. o \in Owners(r) <=> r = m_Resource[o]  BY <1>1 DEF Owners
  <2>3. CASE r = m_Resource[o]
    <3>1. Owners(r) = {o} /\ released[r] = 0 /\ r \notin unused /\ r \notin kept
      BY <2>1, <2>2, <2>3 DEF Placed
    <3>2. Owners(r)' = {} /\ released'[r] = 1  BY <1>2, <1>4, <2>3, <3>1
    <3> QED  BY <2>1, <3>1, <3>2 DEF Placed
  <2>4. CASE r # m_Resource[o]
    <3>1. released'[r] = released[r]  BY <1>2, <2>4 DEF IInv, TypeOK
    <3>2. Owners(r)' = Owners(r)  BY <1>4, <2>2, <2>4
    <3> QED  BY <2>1, <3>1, <3>2 DEF Placed
  <2> QED  BY <2>3, <2>4
<1> QED  BY <1>3, <1>5 DEF IInv

LEMMA ReleaseStep ==
    ASSUME IInv, NEW o \in Object, Release(o)
    PROVE  IInv'
<1>1. /\ Live' = Live /\ m_Resource'[o] = Null /\ o \in Live
      /\ \A y \in Live \ {o} : m_Resource'[y] = m_Resource[y]
  BY Held DEF Release
<1>2. TypeOK'  BY <1>1 DEF Release, IInv, TypeOK
<1>3. \A r \in Resource : Owners(r)' = Owners(r) \ {o}  BY <1>1 DEF Owners
<1>4. ASSUME NEW r \in Resource PROVE Placed(r)'
  <2>1. Placed(r) /\ unused' = unused /\ released' = released /\ kept' = kept \cup {m_Resource[o]}
    BY DEF Release, IInv
  <2>2. o \in Owners(r) <=> r = m_Resource[o]  BY <1>1 DEF Owners
  <2>3. CASE r = m_Resource[o]
    <3>1. Owners(r) = {o} /\ released[r] = 0 /\ r \notin unused
      BY <2>1, <2>2, <2>3 DEF Placed
    <3> QED  BY <1>3, <2>1, <2>3, <3>1 DEF Placed
  <2>4. CASE r # m_Resource[o]
    <3>1. Owners(r)' = Owners(r)  BY <1>3, <2>2, <2>4
    <3> QED  BY <2>1, <2>4, <3>1 DEF Placed
  <2> QED  BY <2>3, <2>4
<1> QED  BY <1>2, <1>4 DEF IInv

LEMMA SwapStep ==
    ASSUME IInv, NEW o \in Object, NEW p \in Object, Swap(o, p)
    PROVE  IInv'
<1> DEFINE other(x) == IF x = o THEN p ELSE IF x = p THEN o ELSE x
<1>1. Live' = Live /\ o \in Live /\ p \in Live /\ \A x \in Live : m_Resource'[x] = m_Resource[other(x)]
  BY DEF Swap, Live
<1>2. TypeOK'  BY <1>1 DEF Swap, IInv, TypeOK
<1>3. \A r \in Resource : \A x \in Live : x \in Owners(r)' <=> other(x) \in Owners(r)
  BY <1>1 DEF Owners
<1>4. ASSUME NEW r \in Resource PROVE Placed(r)'
  <2>1. Placed(r) /\ UNCHANGED <<unused, kept, released>>  BY DEF Swap, IInv
  <2>2. Owners(r) \subseteq Live /\ Owners(r)' \subseteq Live  BY <1>1 DEF Owners
  <2>3. \A x, y \in Live : other(x) = other(y) => x = y  OBVIOUS
  <2>4. \A x \in Live : other(x) \in Live /\ other(other(x)) = x  BY <1>1
  <2>5. Owners(r)' = {} <=> Owners(r) = {}  BY <1>3, <2>2, <2>4
  <2>6. \A x, y \in Owners(r)' : x = y
    <3> HIDE DEF other
    <3> QED  BY <1>3, <2>1, <2>2, <2>3 DEF Placed
  <2> QED  BY <2>1, <2>5, <2>6 DEF Placed
<1> QED  BY <1>2, <1>4 DEF IInv

-----------------------------------------------------------------------------

\* The inductive invariant, for any objects and resources.
THEOREM Invariant == Spec => []IInv
<1>1. ASSUME IInv, [Next]_vars PROVE IInv'
  <2>1. CASE UNCHANGED vars
    BY <1>1, <2>1 DEF vars, IInv, TypeOK, Live, Placed, Owners
  <2>2. CASE Next
    BY <1>1, <2>2, ConstructStep, ResetStep, DestroyStep, ReleaseStep, SwapStep DEF Next
  <2> QED  BY <1>1, <2>1, <2>2
<1> QED  BY <1>1, InitIInv, PTL DEF Spec

\* Type correctness for any objects and resources.
THEOREM TypeCorrect == Spec => []TypeOK
<1>1. IInv => TypeOK  BY DEF IInv
<1> QED  BY <1>1, Invariant, PTL

\* Every resource is in exactly one place, after any sequence of operations of scope.h:17-62.
THEOREM ResourceInOnePlace == Spec => []OnePlace
<1>1. IInv => OnePlace
  <2> SUFFICES ASSUME IInv, NEW r \in Resource
               PROVE  (IF r \in unused THEN 1 ELSE 0) + (IF r \in kept THEN 1 ELSE 0)
                        + Cardinality(Owners(r)) + released[r] = 1
    BY DEF OnePlace, Owners
  <2>1. Placed(r)  BY DEF IInv
  <2>2. CASE Owners(r) = {}
    <3>1. Cardinality(Owners(r)) = 0  BY <2>2, FS_EmptySet
    <3> QED  BY <2>1, <2>2, <3>1 DEF Placed
  <2>3. CASE Owners(r) # {}
    <3>1. PICK o : Owners(r) = {o}  BY <2>1, <2>3 DEF Placed
    <3>2. Cardinality(Owners(r)) = 1  BY <3>1, FS_Singleton
    <3> QED  BY <2>1, <2>3, <3>2 DEF Placed
  <2> QED  BY <2>2, <2>3
<1> QED  BY <1>1, Invariant, PTL
=============================================================================
