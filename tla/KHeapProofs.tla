---------------------------- MODULE KHeapProofs ----------------------------
(***************************************************************************)
(* Proofs about KHeap, for any threads, pool, requests and values: every   *)
(* block has an owner and its header, and no call of anyone damages what   *)
(* an owner has stored.                                                    *)
(***************************************************************************)
EXTENDS KHeap, TLAPS

USE RequestAssumption, ValueAssumption

-----------------------------------------------------------------------------
(* The inductive invariant *)

Cell == Nat \cup {Tag, Junk}

\* The blocks of the pool lie inside it and apart from each other.
PoolOK ==
    /\ mem \in [Addr -> Cell]
    /\ DOMAIN blocks \subseteq Addr
    /\ \A b \in DOMAIN blocks :
          blocks[b] \in Nat /\ blocks[b] > 0 /\ Cells(b, blocks[b]) \subseteq Addr
    /\ \A b, c \in DOMAIN blocks : b # c => Cells(b, blocks[b]) \cap Cells(c, blocks[c]) = {}

\* A pointer with a good header in front of it and data behind it.
Sound(p) ==
    /\ p \in Nat /\ p - 2 \in DOMAIN blocks
    /\ mem[p - 2] = Tag /\ mem[p - 1] \in Nat
    /\ blocks[p - 2] = mem[p - 1] + 2
    /\ \A i \in 0..mem[p - 1] - 1 : mem[p + i] \in Nat

News == {grow[t].new : t \in Growing}
Pointers == DOMAIN live \cup News

Owned ==
    /\ \A p \in Pointers : Sound(p)
    /\ \A b \in DOMAIN blocks : b + 2 \in Pointers

\* What a caller has stored is there.
DataAt(p) ==
    /\ \E k \in 0..mem[p - 1] : live[p] \in [0..k - 1 -> Nat]
    /\ \A i \in DOMAIN live[p] : mem[p + i] = live[p][i]

Realloc == [old : Nat \cup {NULL}, new : Nat \cup {NULL}, size : Nat, copied : BOOLEAN]

\* A realloc under way has the old block and a new one for itself.
GrowAt(t) ==
    /\ grow[t].old \in DOMAIN live /\ grow[t].new \notin DOMAIN live
    /\ grow[t].new \in Nat /\ grow[t].copied \in BOOLEAN
    /\ grow[t].size = mem[grow[t].old - 1] /\ grow[t].size < mem[grow[t].new - 1]
    /\ grow[t].copied => \A i \in 0..grow[t].size - 1 : mem[grow[t].new + i] = mem[grow[t].old + i]

Apart == \A t, u \in Growing : t # u => grow[t].old # grow[u].old /\ grow[t].new # grow[u].new

IInv ==
    /\ PoolOK /\ Owned
    /\ \A p \in DOMAIN live : DataAt(p)
    /\ grow \in [Thread -> Realloc] /\ \A t \in Growing : GrowAt(t)
    /\ Apart
    /\ stop \in {"none", "MUST_SUCCEED_POOL_EMPTY"}

LEMMA InitIInv == Init => IInv
<1> SUFFICES ASSUME Init PROVE IInv
  OBVIOUS
<1>1. DOMAIN blocks = {} /\ DOMAIN live = {}
  <2>1. blocks = <<>> /\ live = <<>>  BY DEF Init
  <2> QED  BY <2>1
<1>2. Growing = {} /\ grow \in [Thread -> Realloc]
  BY DEF Init, Growing, Idle, Realloc, NULL
<1>3. PoolOK  BY <1>1 DEF Init, PoolOK, Cell
<1> QED  BY <1>1, <1>2, <1>3 DEF Init, IInv, Owned, Pointers, News, Apart

-----------------------------------------------------------------------------
(* The pool *)

LEMMA Widths ==
    /\ \A size \in Request : size \in Nat /\ NewSize(size) = size + 2
    /\ \A p : GET_MALLOC_HEADER(p) = p - 2 /\ HeaderSize(p) = mem[GET_MALLOC_HEADER(p) + 1]
    /\ \A p : GoodTag(p) <=> mem[GET_MALLOC_HEADER(p)] = Tag
    /\ \A a : GET_MALLOC_ADDRESS(a) = a + 2
<1>1. \A size \in Request : size \in Nat /\ size + 2 < M  BY DEF H
<1>2. \A size \in Request : (size + 2) % M = size + 2  BY <1>1
<1> QED  BY <1>1, <1>2 DEF NewSize, GET_MALLOC_HEADER, GET_MALLOC_ADDRESS, HeaderSize, GoodTag, H

\* The cells of a sound pointer.
Reach(p) == p - 2..p + mem[p - 1] - 1

LEMMA SoundFacts ==
    ASSUME PoolOK, NEW p, Sound(p)
    PROVE  /\ p - 2 \in Nat /\ p \in Nat /\ mem[p - 1] \in Nat
           /\ Reach(p) = Cells(p - 2, blocks[p - 2]) /\ Reach(p) \subseteq Addr
           /\ GoodTag(p) /\ HeaderSize(p) = mem[p - 1]
<1>1. p - 2 \in Addr /\ Addr \subseteq Nat  BY DEF PoolOK, Sound, Addr
<1>2. p - 2 \in Nat  BY <1>1
<1>3. Reach(p) = Cells(p - 2, blocks[p - 2])  BY <1>2 DEF Reach, Cells, Sound
<1>4. Reach(p) \subseteq Addr  BY <1>3 DEF PoolOK, Sound
<1>5. GET_MALLOC_HEADER(p) + 1 = p - 1  BY Widths DEF Sound
<1> QED  BY <1>2, <1>3, <1>4, <1>5, Widths DEF Sound

LEMMA ReachHeader ==
    ASSUME PoolOK, NEW p, Sound(p)
    PROVE  p - 1 \in Reach(p)
<1>1. p \in Nat /\ mem[p - 1] \in Nat  BY DEF Sound
<1> QED  BY <1>1 DEF Reach

LEMMA ReachApart ==
    ASSUME PoolOK, NEW p, NEW q, Sound(p), Sound(q), p # q
    PROVE  Reach(p) \cap Reach(q) = {}
<1>1. p - 2 # q - 2  BY DEF Sound
<1> QED  BY <1>1, SoundFacts DEF PoolOK, Sound

\* A pointer whose cells and block are as before is as sound as before.
LEMMA StaysSound ==
    ASSUME PoolOK, NEW p, Sound(p), p - 2 \in DOMAIN blocks', blocks'[p - 2] = blocks[p - 2],
           \A x \in Reach(p) : mem'[x] = mem[x]
    PROVE  Sound(p)' /\ \A i \in 0..mem[p - 1] - 1 : mem'[p + i] = mem[p + i]
<1>1. p - 2 \in Nat /\ p \in Nat /\ mem[p - 1] \in Nat  BY SoundFacts
<1>2. mem'[p - 2] = mem[p - 2] /\ mem'[p - 1] = mem[p - 1]  BY <1>1 DEF Reach
<1>3. \A i \in 0..mem[p - 1] - 1 : mem'[p + i] = mem[p + i]  BY <1>1 DEF Reach
<1> QED  BY <1>2, <1>3 DEF Sound

LEMMA Allocated ==
    ASSUME PoolOK, NEW size \in Nat, NewSize(size) = size + 2,
           NEW a \in PoolRoom(size + 2), MallocAt(a, size)
    PROVE  /\ PoolOK' /\ a \in Nat /\ a \notin DOMAIN blocks
           /\ DOMAIN blocks' = DOMAIN blocks \cup {a}
           /\ \A b \in DOMAIN blocks :
                 blocks'[b] = blocks[b] /\ \A x \in Cells(b, blocks[b]) : mem'[x] = mem[x]
           /\ Sound(a + 2)' /\ mem'[a + 1] = size
           /\ \A i \in 0..size - 1 : mem'[a + 2 + i] = 0
<1>1. /\ a \in Addr /\ a \in Nat /\ Cells(a, size + 2) = a..a + size + 1
      /\ Cells(a, size + 2) \subseteq Addr
      /\ \A b \in DOMAIN blocks : Cells(a, size + 2) \cap Cells(b, blocks[b]) = {}
  BY DEF PoolRoom, Addr, Cells
<1>2. /\ DOMAIN blocks' = DOMAIN blocks \cup {a} /\ blocks'[a] = size + 2
      /\ \A b \in DOMAIN blocks : b # a => blocks'[b] = blocks[b]
  BY DEF MallocAt, With
<1>3. mem' = [x \in Addr |-> IF x = a THEN Tag ELSE IF x = a + 1 THEN size
                              ELSE IF x \in Cells(a, size + 2) THEN 0 ELSE mem[x]]
  BY DEF MallocAt
<1>4. mem' \in [Addr -> Cell]  BY <1>3 DEF PoolOK, Cell
<1>5. mem'[a] = Tag /\ mem'[a + 1] = size /\ \A i \in 0..size - 1 : mem'[a + 2 + i] = 0
  <2>1. a + 1 \in Addr /\ a + 1 # a  BY <1>1
  <2>2. \A i \in 0..size - 1 : a + 2 + i \in Cells(a, size + 2) /\ a + 2 + i # a /\ a + 2 + i # a + 1
    BY <1>1
  <2> QED  BY <1>1, <1>3, <2>1, <2>2
<1>6. \A x \in Addr : x \notin Cells(a, size + 2) => mem'[x] = mem[x]
  <2>1. a \in Cells(a, size + 2) /\ a + 1 \in Cells(a, size + 2)  BY <1>1
  <2> QED  BY <1>3, <2>1
<1>7. a \notin DOMAIN blocks
  <2>1. a \in Cells(a, size + 2)  BY <1>1
  <2>2. ASSUME a \in DOMAIN blocks PROVE FALSE
    <3>1. a \in Cells(a, blocks[a])  BY <1>1, <2>2 DEF PoolOK, Cells
    <3> QED  BY <1>1, <2>1, <2>2, <3>1
  <2> QED  BY <2>2
<1>8. \A b \in DOMAIN blocks :
         blocks'[b] = blocks[b] /\ \A x \in Cells(b, blocks[b]) : mem'[x] = mem[x]
  BY <1>1, <1>2, <1>6, <1>7 DEF PoolOK
<1>9. PoolOK'
  <2>1. DOMAIN blocks' \subseteq Addr  BY <1>1, <1>2 DEF PoolOK
  <2>2. \A b \in DOMAIN blocks' :
           blocks'[b] \in Nat /\ blocks'[b] > 0 /\ Cells(b, blocks'[b]) \subseteq Addr
    BY <1>1, <1>2, <1>7, <1>8 DEF PoolOK
  <2>3. \A b, c \in DOMAIN blocks' :
           b # c => Cells(b, blocks'[b]) \cap Cells(c, blocks'[c]) = {}
    BY <1>1, <1>2, <1>7, <1>8 DEF PoolOK
  <2> QED  BY <1>4, <2>1, <2>2, <2>3 DEF PoolOK, Cells, Addr
<1>10. Sound(a + 2)'
  <2> SUFFICES ASSUME NEW p, p = a + 2 PROVE Sound(p)'
    OBVIOUS
  <2>1. p - 2 = a /\ p - 1 = a + 1 /\ p \in Nat  BY <1>1
  <2>2. mem'[p - 2] = Tag /\ mem'[p - 1] = size /\ blocks'[p - 2] = size + 2
    BY <1>2, <1>5, <2>1
  <2>3. \A i \in 0..mem'[p - 1] - 1 : mem'[p + i] \in Nat  BY <1>5, <2>1, <2>2
  <2> QED  BY <1>2, <2>1, <2>2, <2>3 DEF Sound
<1> QED  BY <1>1, <1>2, <1>5, <1>7, <1>8, <1>9, <1>10

\* What a call that gives a block back leaves as it was.
LEMMA Released ==
    ASSUME PoolOK, NEW p, Sound(p), PoolFree(GET_MALLOC_HEADER(p))
    PROVE  /\ PoolOK'
           /\ DOMAIN blocks' = DOMAIN blocks \ {p - 2}
           /\ \A b \in DOMAIN blocks' :
                 blocks'[b] = blocks[b] /\ \A x \in Cells(b, blocks[b]) : mem'[x] = mem[x]
<1>1. PoolFree(p - 2) /\ p - 2 \in DOMAIN blocks  BY Widths DEF Sound
<1>2. /\ DOMAIN blocks' = DOMAIN blocks \ {p - 2}
      /\ \A b \in DOMAIN blocks' : blocks'[b] = blocks[b]
  BY <1>1 DEF PoolFree, Without, Restrict
<1>3. mem' = [x \in Addr |-> IF x \in Cells(p - 2, blocks[p - 2]) THEN Junk ELSE mem[x]]
  BY <1>1 DEF PoolFree
<1>4. mem' \in [Addr -> Cell]  BY <1>3 DEF PoolOK, Cell
<1>5. \A b \in DOMAIN blocks' : \A x \in Cells(b, blocks[b]) : mem'[x] = mem[x]
  <2> SUFFICES ASSUME NEW b \in DOMAIN blocks', NEW x \in Cells(b, blocks[b])
               PROVE  mem'[x] = mem[x]
    OBVIOUS
  <2>1. b \in DOMAIN blocks /\ b # p - 2 /\ x \in Addr  BY <1>2 DEF PoolOK
  <2>2. x \notin Cells(p - 2, blocks[p - 2])  BY <1>1, <2>1 DEF PoolOK
  <2> QED  BY <1>3, <2>1, <2>2
<1>6. PoolOK'
  <2>1. DOMAIN blocks' \subseteq Addr  BY <1>2 DEF PoolOK
  <2>2. \A b \in DOMAIN blocks' :
           blocks'[b] \in Nat /\ blocks'[b] > 0 /\ Cells(b, blocks'[b]) \subseteq Addr
    BY <1>2 DEF PoolOK
  <2>3. \A b, c \in DOMAIN blocks' :
           b # c => Cells(b, blocks'[b]) \cap Cells(c, blocks'[c]) = {}
    BY <1>2 DEF PoolOK
  <2> QED  BY <1>4, <2>1, <2>2, <2>3 DEF PoolOK, Cells, Addr
<1> QED  BY <1>2, <1>5, <1>6

\* What a write into the data of one pointer leaves as it was.
LEMMA Written ==
    ASSUME PoolOK, NEW p, Sound(p), UNCHANGED blocks, mem' \in [Addr -> Cell],
           \A x \in Addr : x \notin p..p + mem[p - 1] - 1 => mem'[x] = mem[x],
           \A i \in 0..mem[p - 1] - 1 : mem'[p + i] \in Nat
    PROVE  /\ PoolOK' /\ Sound(p)' /\ mem'[p - 1] = mem[p - 1]
           /\ \A q : Sound(q) /\ q # p => \A x \in Reach(q) : mem'[x] = mem[x]
<1>1. /\ p - 2 \in Nat /\ p \in Nat /\ mem[p - 1] \in Nat
      /\ Reach(p) \subseteq Addr
  BY SoundFacts
<1>2. PoolOK'  BY DEF PoolOK, Cells, Addr
<1>3. mem'[p - 2] = mem[p - 2] /\ mem'[p - 1] = mem[p - 1]
  <2>1. p - 2 \in Reach(p) /\ p - 1 \in Reach(p)  BY <1>1 DEF Reach
  <2> QED  BY <1>1, <2>1
<1>4. Sound(p)'  BY <1>3 DEF Sound
<1>5. ASSUME NEW q, Sound(q), q # p, NEW x \in Reach(q) PROVE mem'[x] = mem[x]
  <2>1. x \in Addr  BY <1>5, SoundFacts
  <2>2. x \notin Reach(p)  BY <1>5, ReachApart
  <2>3. x \notin p..p + mem[p - 1] - 1  BY <1>1, <2>2 DEF Reach
  <2> QED  BY <2>1, <2>3
<1> QED  BY <1>2, <1>3, <1>4, <1>5
-----------------------------------------------------------------------------
(* What a step leaves as it was *)

\* No step has touched the block of p.
Untouched(p) ==
    /\ p - 2 \in DOMAIN blocks' /\ blocks'[p - 2] = blocks[p - 2]
    /\ \A x \in Reach(p) : mem'[x] = mem[x]

LEMMA DataStays ==
    ASSUME PoolOK, NEW p, Sound(p), Untouched(p), live'[p] = live[p], DataAt(p)
    PROVE  DataAt(p)'
<1>1. mem'[p - 1] = mem[p - 1] /\ \A i \in 0..mem[p - 1] - 1 : mem'[p + i] = mem[p + i]
  <2>1. p - 1 \in Reach(p)  BY ReachHeader
  <2> QED  BY <2>1, StaysSound DEF Untouched
<1>2. PICK k \in 0..mem[p - 1] : live[p] \in [0..k - 1 -> Nat]  BY DEF DataAt
<1>3. \A i \in DOMAIN live[p] : i \in 0..mem[p - 1] - 1
  <2>1. mem[p - 1] \in Nat  BY DEF Sound
  <2>2. DOMAIN live[p] = 0..k - 1  BY <1>2
  <2> QED  BY <1>2, <2>1, <2>2
<1> QED  BY <1>1, <1>2, <1>3 DEF DataAt

LEMMA GrowStays ==
    ASSUME PoolOK, NEW t, GrowAt(t), grow'[t] = grow[t],
           NEW p, NEW q, p = grow[t].old, q = grow[t].new,
           Sound(p), Sound(q), Untouched(p), Untouched(q),
           p \in DOMAIN live', q \notin DOMAIN live'
    PROVE  GrowAt(t)'
<1>1. /\ mem'[p - 1] = mem[p - 1]
      /\ \A i \in 0..mem[p - 1] - 1 : mem'[p + i] = mem[p + i]
  <2>1. p - 1 \in Reach(p)  BY ReachHeader
  <2> QED  BY <2>1, StaysSound DEF Untouched
<1>2. /\ mem'[q - 1] = mem[q - 1]
      /\ \A i \in 0..mem[q - 1] - 1 : mem'[q + i] = mem[q + i]
  <2>1. q - 1 \in Reach(q)  BY ReachHeader
  <2> QED  BY <2>1, StaysSound DEF Untouched
<1>3. mem[p - 1] \in Nat /\ mem[q - 1] \in Nat  BY SoundFacts
<1>4. grow[t].size = mem[p - 1] /\ mem[p - 1] < mem[q - 1]  BY DEF GrowAt
<1>5. grow[t].copied => \A i \in 0..mem[p - 1] - 1 : mem'[q + i] = mem'[p + i]
  <2>1. 0..mem[p - 1] - 1 \subseteq 0..mem[q - 1] - 1  BY <1>3, <1>4
  <2> QED  BY <1>1, <1>2, <1>4, <2>1 DEF GrowAt
<1> QED  BY <1>1, <1>2, <1>4, <1>5 DEF GrowAt

\* The pointers are all different: what a caller has is not what a realloc has
\* in hand, and each of them is sound.
LEMMA PointerFacts ==
    ASSUME IInv
    PROVE  /\ PoolOK /\ \A p \in Pointers : Sound(p)
           /\ DOMAIN live \cap News = {}
           /\ \A t \in Growing : grow[t].old \in DOMAIN live /\ grow[t].new \in News
           /\ \A t \in Growing : grow[t].old \in Pointers /\ grow[t].new \in Pointers
BY DEF IInv, Owned, Pointers, News, GrowAt

\* Fresh memory.
Zeroed(p, len) == \A i \in 0..len - 1 : mem[p + i] = 0

LEMMA MallocLeaves ==
    ASSUME IInv, NEW size \in Nat, NewSize(size) = size + 2,
           NEW a \in PoolRoom(NewSize(size)), MallocAt(a, size),
           NEW q, q = GET_MALLOC_ADDRESS(a)
    PROVE  /\ PoolOK' /\ q \notin Pointers /\ DOMAIN blocks' = DOMAIN blocks \cup {q - 2}
           /\ q - 2 + 2 = q /\ Sound(q)' /\ mem'[q - 1] = size
           /\ Zeroed(q, size)'
           /\ \A p \in Pointers : Sound(p)' /\ Untouched(p)
<1>1. q = a + 2  BY Widths
<1>2. PoolOK  BY DEF IInv
<1>3. /\ PoolOK' /\ a \in Nat /\ a \notin DOMAIN blocks
      /\ DOMAIN blocks' = DOMAIN blocks \cup {a}
      /\ \A b \in DOMAIN blocks :
            blocks'[b] = blocks[b] /\ \A x \in Cells(b, blocks[b]) : mem'[x] = mem[x]
      /\ mem'[a + 1] = size /\ \A i \in 0..size - 1 : mem'[a + 2 + i] = 0
  BY <1>2, Allocated
<1>4. Sound(a + 2)'  BY <1>2, Allocated
<1>5. Sound(q)'  BY <1>1, <1>4
<1>6. q - 2 = a /\ q - 1 = a + 1 /\ q - 2 + 2 = q  BY <1>1, <1>3
<1>7. q \notin Pointers  BY <1>3, <1>6, PointerFacts DEF Sound
<1>8. Zeroed(q, size)'  BY <1>1, <1>3 DEF Zeroed
<1>9. ASSUME NEW p \in Pointers PROVE Sound(p)' /\ Untouched(p)
  <2>1. Sound(p) /\ p - 2 \in DOMAIN blocks  BY PointerFacts DEF Sound
  <2>2. Reach(p) = Cells(p - 2, blocks[p - 2])  BY <1>2, <2>1, SoundFacts
  <2>3. Untouched(p)  BY <1>3, <2>1, <2>2 DEF Untouched
  <2>4. Sound(p)'  BY <1>2, <2>1, <2>3, StaysSound DEF Untouched
  <2> QED  BY <2>3, <2>4
<1> QED  BY <1>1, <1>3, <1>5, <1>6, <1>7, <1>8, <1>9

LEMMA FreeLeaves ==
    ASSUME IInv, NEW p \in Pointers, PoolFree(GET_MALLOC_HEADER(p))
    PROVE  /\ PoolOK' /\ \A q \in Pointers \ {p} : Sound(q)' /\ Untouched(q)
           /\ \A b \in DOMAIN blocks' : b + 2 \in Pointers \ {p}
<1>1. PoolOK /\ Sound(p)  BY PointerFacts
<1>2. /\ PoolOK' /\ DOMAIN blocks' = DOMAIN blocks \ {p - 2}
      /\ \A b \in DOMAIN blocks' :
            blocks'[b] = blocks[b] /\ \A x \in Cells(b, blocks[b]) : mem'[x] = mem[x]
  BY <1>1, Released
<1>3. ASSUME NEW q \in Pointers \ {p} PROVE Sound(q)' /\ Untouched(q)
  <2>1. Sound(q) /\ q - 2 \in DOMAIN blocks  BY PointerFacts DEF Sound
  <2>2. q - 2 # p - 2  BY <1>1, <2>1 DEF Sound
  <2>3. Reach(q) = Cells(q - 2, blocks[q - 2])  BY <1>1, <2>1, SoundFacts
  <2>4. Untouched(q)  BY <1>2, <2>1, <2>2, <2>3 DEF Untouched
  <2>5. Sound(q)'  BY <1>1, <2>1, <2>4, StaysSound DEF Untouched
  <2> QED  BY <2>4, <2>5
<1>4. ASSUME NEW b \in DOMAIN blocks' PROVE b + 2 \in Pointers \ {p}
  <2>1. b \in DOMAIN blocks /\ b # p - 2  BY <1>2
  <2>2. b \in Nat  BY <1>1, <2>1 DEF PoolOK, Addr
  <2>3. b + 2 # p  BY <2>1, <2>2
  <2> QED  BY <2>1, <2>3 DEF IInv, Owned
<1> QED  BY <1>2, <1>3, <1>4

LEMMA WriteLeaves ==
    ASSUME IInv, NEW p \in Pointers, UNCHANGED blocks, mem' \in [Addr -> Cell],
           \A x \in Addr : x \notin p..p + mem[p - 1] - 1 => mem'[x] = mem[x],
           \A i \in 0..mem[p - 1] - 1 : mem'[p + i] \in Nat
    PROVE  /\ PoolOK' /\ mem'[p - 1] = mem[p - 1]
           /\ \A q \in Pointers : Sound(q)'
           /\ \A q \in Pointers \ {p} : Untouched(q)
<1>1. PoolOK /\ Sound(p)  BY PointerFacts
<1>2. /\ PoolOK' /\ Sound(p)' /\ mem'[p - 1] = mem[p - 1]
      /\ \A q : Sound(q) /\ q # p => \A x \in Reach(q) : mem'[x] = mem[x]
  BY <1>1, Written
<1>3. ASSUME NEW q \in Pointers \ {p} PROVE Sound(q)' /\ Untouched(q)
  <2>1. Sound(q) /\ q - 2 \in DOMAIN blocks  BY PointerFacts DEF Sound
  <2>2. Untouched(q)  BY <1>2, <2>1 DEF Untouched
  <2>3. Sound(q)'  BY <1>1, <2>1, <2>2, StaysSound DEF Untouched
  <2> QED  BY <2>2, <2>3
<1> QED  BY <1>2, <1>3
-----------------------------------------------------------------------------
(* Every step preserves the invariant *)

LEMMA TakeKeeps ==
    ASSUME IInv, NEW t \in Thread, NEW size \in Nat, NewSize(size) = size + 2,
           NEW len \in 0..size, Take(t, size, len)
    PROVE  IInv'
<1>1. PICK a \in PoolRoom(NewSize(size)) :
         /\ MallocAt(a, size)
         /\ live' = With(live, GET_MALLOC_ADDRESS(a), [i \in 0..len - 1 |-> 0])
  BY DEF Take
<1>2. PICK q : q = GET_MALLOC_ADDRESS(a)  OBVIOUS
<1>3. UNCHANGED <<grow, stop>> /\ Growing' = Growing /\ News' = News
  BY DEF Take, Growing, News
<1>4. /\ DOMAIN live' = DOMAIN live \cup {q}
      /\ live'[q] = [i \in 0..len - 1 |-> 0]
      /\ \A p \in DOMAIN live : p # q => live'[p] = live[p]
  BY <1>1, <1>2 DEF With
<1>5. Pointers' = Pointers \cup {q}  BY <1>3, <1>4 DEF Pointers
<1>6. /\ PoolOK' /\ q \notin Pointers /\ DOMAIN blocks' = DOMAIN blocks \cup {q - 2}
      /\ q - 2 + 2 = q /\ Sound(q)' /\ mem'[q - 1] = size
      /\ \A i \in 0..size - 1 : mem'[q + i] = 0
      /\ \A p \in Pointers : Sound(p)' /\ Untouched(p)
  <2>1. IInv /\ size \in Nat /\ NewSize(size) = size + 2  OBVIOUS
  <2>2. Zeroed(q, size)'  BY <1>1, <1>2, <2>1, MallocLeaves
  <2>3. /\ PoolOK' /\ q \notin Pointers /\ DOMAIN blocks' = DOMAIN blocks \cup {q - 2}
        /\ q - 2 + 2 = q /\ Sound(q)' /\ mem'[q - 1] = size
        /\ \A p \in Pointers : Sound(p)' /\ Untouched(p)
    BY <1>1, <1>2, <2>1, MallocLeaves
  <2> QED  BY <2>2, <2>3 DEF Zeroed
<1>7. Owned'
  <2>1. \A p \in Pointers' : Sound(p)'  BY <1>5, <1>6
  <2>2. \A b \in DOMAIN blocks' : b + 2 \in Pointers'  BY <1>5, <1>6 DEF IInv, Owned
  <2> QED  BY <2>1, <2>2 DEF Owned
<1>8. ASSUME NEW p \in DOMAIN live' PROVE DataAt(p)'
  <2>1. CASE p = q
    <3>1. live'[p] \in [0..len - 1 -> Nat] /\ len \in 0..mem'[p - 1]  BY <1>4, <1>6, <2>1
    <3>2. \A i \in DOMAIN live'[p] : mem'[p + i] = live'[p][i]
      <4>1. \A i \in 0..len - 1 : i \in 0..size - 1 /\ live'[p][i] = 0  BY <1>4, <2>1
      <4> QED  BY <1>4, <1>6, <2>1, <4>1
    <3> QED  BY <3>1, <3>2 DEF DataAt
  <2>2. CASE p # q
    <3>1. p \in DOMAIN live /\ p \in Pointers /\ live'[p] = live[p]  BY <1>4, <2>2 DEF Pointers
    <3>2. PoolOK /\ Sound(p) /\ DataAt(p)  BY <3>1, PointerFacts DEF IInv
    <3> QED  BY <1>6, <3>1, <3>2, DataStays
  <2> QED  BY <2>1, <2>2
<1>9. ASSUME NEW u \in Growing PROVE GrowAt(u)'
  <2>1. PICK o, n : o = grow[u].old /\ n = grow[u].new  OBVIOUS
  <2>2. /\ PoolOK /\ GrowAt(u) /\ o \in Pointers /\ n \in Pointers
        /\ Sound(o) /\ Sound(n) /\ o \in DOMAIN live /\ n \notin DOMAIN live
    BY <2>1, PointerFacts DEF IInv, GrowAt
  <2>3. o \in DOMAIN live' /\ n \notin DOMAIN live'  BY <1>4, <1>6, <2>2
  <2> QED  BY <1>3, <1>6, <2>1, <2>2, <2>3, GrowStays
<1>10. Apart'  BY <1>3 DEF IInv, Apart
<1> QED  BY <1>3, <1>6, <1>7, <1>8, <1>9, <1>10 DEF IInv

LEMMA ReallocMallocKeeps ==
    ASSUME IInv, NEW t \in Thread, NEW ptr \in DOMAIN live, NEW size \in Request,
           ReallocMalloc(t, ptr, size)
    PROVE  IInv'
<1>1. size \in Nat /\ NewSize(size) = size + 2  BY Widths
<1>2. PICK a \in PoolRoom(NewSize(size)) :
         /\ MallocAt(a, size)
         /\ grow' = [grow EXCEPT ![t] =
                       [old |-> ptr, new |-> GET_MALLOC_ADDRESS(a),
                        size |-> HeaderSize(ptr), copied |-> FALSE]]
  BY DEF ReallocMalloc
<1>3. PICK q : q = GET_MALLOC_ADDRESS(a)  OBVIOUS
<1>4. UNCHANGED <<live, stop>> /\ grow[t] = Idle /\ ptr \notin Busy /\ size > HeaderSize(ptr)
  BY DEF ReallocMalloc, Running
<1>5. /\ PoolOK' /\ q \notin Pointers /\ DOMAIN blocks' = DOMAIN blocks \cup {q - 2}
      /\ q - 2 + 2 = q /\ Sound(q)' /\ mem'[q - 1] = size
      /\ \A p \in Pointers : Sound(p)' /\ Untouched(p)
  BY <1>1, <1>2, <1>3, MallocLeaves
<1>6. /\ PoolOK /\ Sound(ptr) /\ ptr \in Pointers
      /\ HeaderSize(ptr) = mem[ptr - 1] /\ mem[ptr - 1] \in Nat
  BY PointerFacts, SoundFacts DEF Pointers
<1>7. q \in Nat /\ ptr \in Nat  BY <1>5, <1>6 DEF Sound
<1>8. /\ grow' \in [Thread -> Realloc]
      /\ grow'[t] = [old |-> ptr, new |-> q, size |-> mem[ptr - 1], copied |-> FALSE]
      /\ \A u \in Thread \ {t} : grow'[u] = grow[u]
  BY <1>2, <1>3, <1>6, <1>7 DEF IInv, Realloc
<1>9. Growing' = Growing \cup {t} /\ t \notin Growing
  <2>1. grow'[t] # Idle  BY <1>7, <1>8 DEF Idle, NULL
  <2> QED  BY <1>4, <1>8, <2>1 DEF Growing, Idle
<1>10. Pointers' = Pointers \cup {q} /\ DOMAIN live' = DOMAIN live
  <2>1. \A u \in Growing : grow'[u] = grow[u]  BY <1>8, <1>9 DEF Growing
  <2>2. News' = News \cup {q}  BY <1>8, <1>9, <2>1 DEF News
  <2> QED  BY <1>4, <2>2 DEF Pointers
<1>11. Owned'
  <2>1. \A p \in Pointers' : Sound(p)'  BY <1>5, <1>10
  <2>2. \A b \in DOMAIN blocks' : b + 2 \in Pointers'  BY <1>5, <1>10 DEF IInv, Owned
  <2> QED  BY <2>1, <2>2 DEF Owned
<1>12. ASSUME NEW p \in DOMAIN live' PROVE DataAt(p)'
  <2>1. p \in DOMAIN live /\ p \in Pointers /\ live'[p] = live[p]  BY <1>4 DEF Pointers
  <2>2. PoolOK /\ Sound(p) /\ DataAt(p)  BY <2>1, PointerFacts DEF IInv
  <2> QED  BY <1>5, <2>1, <2>2, DataStays
<1>13. ASSUME NEW u \in Growing' PROVE GrowAt(u)'
  <2>1. CASE u = t
    <3>1. ptr - 1 \in Reach(ptr)  BY <1>6, ReachHeader
    <3>2. mem'[ptr - 1] = mem[ptr - 1]  BY <1>5, <1>6, <3>1 DEF Untouched
    <3>3. ptr \in DOMAIN live' /\ q \notin DOMAIN live'  BY <1>5, <1>10 DEF Pointers
    <3>4. mem'[ptr - 1] < mem'[q - 1]  BY <1>4, <1>5, <1>6, <3>2
    <3>5. /\ grow'[u].old = ptr /\ grow'[u].new = q
          /\ grow'[u].size = mem'[ptr - 1] /\ grow'[u].copied = FALSE
      BY <1>8, <2>1, <3>2
    <3> QED  BY <1>7, <3>3, <3>4, <3>5 DEF GrowAt
  <2>2. CASE u # t
    <3>1. u \in Growing /\ grow'[u] = grow[u]  BY <1>8, <1>9, <2>2 DEF Growing
    <3>2. PICK o, n : o = grow[u].old /\ n = grow[u].new  OBVIOUS
    <3>3. /\ GrowAt(u) /\ o \in Pointers /\ n \in Pointers
          /\ Sound(o) /\ Sound(n) /\ o \in DOMAIN live /\ n \notin DOMAIN live
      BY <3>1, <3>2, PointerFacts DEF IInv, GrowAt
    <3>4. o \in DOMAIN live' /\ n \notin DOMAIN live'  BY <1>10, <3>3
    <3> QED  BY <1>5, <1>6, <3>1, <3>2, <3>3, <3>4, GrowStays
  <2> QED  BY <2>1, <2>2
<1>14. Apart'
  <2> SUFFICES ASSUME NEW u \in Growing', NEW v \in Growing', u # v
               PROVE  grow'[u].old # grow'[v].old /\ grow'[u].new # grow'[v].new
    BY DEF Apart
  <2>1. \A w \in Growing : /\ grow'[w] = grow[w] /\ grow[w].old # ptr /\ grow[w].new # q
    BY <1>4, <1>5, <1>8, <1>9, PointerFacts DEF Growing, Busy
  <2>2. CASE u = t  BY <1>8, <1>9, <2>1, <2>2
  <2>3. CASE v = t  BY <1>8, <1>9, <2>1, <2>3
  <2>4. CASE u # t /\ v # t  BY <1>9, <2>1, <2>4 DEF IInv, Apart
  <2> QED  BY <2>2, <2>3, <2>4
<1>15. stop' \in {"none", "MUST_SUCCEED_POOL_EMPTY"}  BY <1>4 DEF IInv
<1> QED  BY <1>5, <1>8, <1>11, <1>12, <1>13, <1>14, <1>15 DEF IInv
LEMMA FreeKeeps ==
    ASSUME IInv, NEW t \in Thread, NEW ptr \in DOMAIN live, Free(t, ptr)
    PROVE  IInv'
<1>1. PoolOK /\ Sound(ptr) /\ ptr \in Pointers /\ GoodTag(ptr)
  BY PointerFacts, SoundFacts DEF Pointers
<1>2. /\ PoolFree(GET_MALLOC_HEADER(ptr)) /\ UNCHANGED <<grow, stop>>
      /\ live' = Without(live, ptr) /\ ptr \notin Busy
  BY <1>1 DEF Free
<1>3. /\ PoolOK' /\ \A q \in Pointers \ {ptr} : Sound(q)' /\ Untouched(q)
      /\ \A b \in DOMAIN blocks' : b + 2 \in Pointers \ {ptr}
  BY <1>1, <1>2, FreeLeaves
<1>4. DOMAIN live' = DOMAIN live \ {ptr} /\ \A p \in DOMAIN live' : live'[p] = live[p]
  BY <1>2 DEF Without, Restrict
<1>5. Growing' = Growing /\ News' = News  BY <1>2 DEF Growing, News
<1>6. Pointers' = Pointers \ {ptr}  BY <1>4, <1>5, PointerFacts DEF Pointers
<1>7. Owned'  BY <1>3, <1>6 DEF Owned
<1>8. ASSUME NEW p \in DOMAIN live' PROVE DataAt(p)'
  <2>1. p \in Pointers \ {ptr} /\ live'[p] = live[p] /\ DataAt(p)
    BY <1>4 DEF Pointers, IInv
  <2>2. Sound(p)  BY <2>1, PointerFacts
  <2> QED  BY <1>1, <1>3, <2>1, <2>2, DataStays
<1>9. ASSUME NEW u \in Growing PROVE GrowAt(u)'
  <2>1. PICK o, n : o = grow[u].old /\ n = grow[u].new  OBVIOUS
  <2>2. /\ GrowAt(u) /\ o \in Pointers /\ n \in Pointers
        /\ Sound(o) /\ Sound(n) /\ o \in DOMAIN live /\ n \notin DOMAIN live
    BY <2>1, PointerFacts DEF IInv, GrowAt
  <2>3. o # ptr /\ n # ptr  BY <1>2, <2>1, <2>2 DEF Busy, Growing
  <2>4. o \in DOMAIN live' /\ n \notin DOMAIN live'  BY <1>4, <2>2, <2>3
  <2> QED  BY <1>1, <1>2, <1>3, <2>1, <2>2, <2>3, <2>4, GrowStays
<1>10. Apart'  BY <1>2, <1>5 DEF IInv, Apart
<1> QED  BY <1>2, <1>3, <1>5, <1>7, <1>8, <1>9, <1>10 DEF IInv

LEMMA ReallocInPlaceKeeps ==
    ASSUME IInv, NEW t \in Thread, NEW ptr \in DOMAIN live, NEW size \in Request,
           ReallocInPlace(t, ptr, size)
    PROVE  IInv'
<1>1. /\ PoolOK /\ Sound(ptr) /\ ptr \in Pointers /\ GoodTag(ptr)
      /\ HeaderSize(ptr) = mem[ptr - 1] /\ mem[ptr - 1] \in Nat /\ size \in Nat
  BY PointerFacts, SoundFacts, Widths DEF Pointers
<1>2. /\ UNCHANGED <<mem, blocks, grow, stop>> /\ size <= mem[ptr - 1]
      /\ live' = [live EXCEPT ![ptr] = Resized(live[ptr], ptr, size)]
  BY <1>1 DEF ReallocInPlace
<1>3. /\ DOMAIN live' = DOMAIN live /\ live'[ptr] = Resized(live[ptr], ptr, size)
      /\ \A p \in DOMAIN live \ {ptr} : live'[p] = live[p]
  BY <1>2
<1>4. Growing' = Growing /\ News' = News /\ Pointers' = Pointers
  BY <1>2, <1>3 DEF Growing, News, Pointers
<1>5. PoolOK' /\ Owned'
  <2>1. \A p : Sound(p)' <=> Sound(p)  BY <1>2 DEF Sound
  <2> QED  BY <1>2, <1>4, <2>1 DEF IInv, Owned, PoolOK, Cells, Addr
<1>6. ASSUME NEW p \in DOMAIN live' PROVE DataAt(p)'
  <2>1. DataAt(p) /\ p \in DOMAIN live  BY <1>3 DEF IInv
  <2>2. CASE p # ptr  BY <1>2, <1>3, <2>1, <2>2 DEF DataAt
  <2>3. CASE p = ptr
    <3>1. PICK k \in 0..mem[ptr - 1] : live[ptr] \in [0..k - 1 -> Nat]
      BY <2>1, <2>3 DEF DataAt
    <3>2. \A i \in 0..size - 1 : mem[ptr + i] \in Nat  BY <1>1, <1>2 DEF Sound
    <3>3. \A i \in DOMAIN live[ptr] : mem[ptr + i] = live[ptr][i]
      BY <2>1, <2>3 DEF DataAt
    <3>4. /\ live'[ptr] \in [0..size - 1 -> Nat]
          /\ \A i \in 0..size - 1 : mem[ptr + i] = live'[ptr][i]
      <4>1. DOMAIN live[ptr] = 0..k - 1 /\ \A i \in 0..k - 1 : live[ptr][i] \in Nat
        BY <3>1
      <4>2. live'[ptr] = [i \in 0..size - 1 |->
                            IF i \in DOMAIN live[ptr] THEN live[ptr][i] ELSE mem[ptr + i]]
        BY <1>3 DEF Resized
      <4>3. \A j \in 0..size - 1 : mem[ptr + j] = live'[ptr][j] /\ live'[ptr][j] \in Nat
        BY <3>2, <3>3, <4>1, <4>2
      <4>4. DOMAIN live'[ptr] = 0..size - 1  BY <4>2
      <4> QED  BY <4>2, <4>3, <4>4, SMTT(30)
    <3>5. size \in 0..mem'[ptr - 1]  BY <1>1, <1>2
    <3>6. \A i \in DOMAIN live'[ptr] : mem'[ptr + i] = live'[ptr][i]  BY <1>2, <3>4
    <3> QED  BY <2>3, <3>4, <3>5, <3>6 DEF DataAt
  <2> QED  BY <2>2, <2>3
<1>7. ASSUME NEW u \in Growing' PROVE GrowAt(u)'
  BY <1>2, <1>3, <1>4 DEF IInv, GrowAt
<1>8. Apart'  BY <1>2, <1>4 DEF IInv, Apart
<1> QED  BY <1>2, <1>4, <1>5, <1>6, <1>7, <1>8 DEF IInv

LEMMA StoreKeeps ==
    ASSUME IInv, NEW t \in Thread, NEW ptr \in DOMAIN live, NEW i \in DOMAIN live[ptr],
           NEW v \in Value, Store(t, ptr, i, v)
    PROVE  IInv'
<1>1. /\ PoolOK /\ Sound(ptr) /\ ptr \in Pointers /\ ptr \in Nat
      /\ mem[ptr - 1] \in Nat /\ Reach(ptr) \subseteq Addr /\ v \in Nat
  BY PointerFacts, SoundFacts DEF Pointers
<1>2. PICK k \in 0..mem[ptr - 1] : live[ptr] \in [0..k - 1 -> Nat]
  BY DEF IInv, DataAt
<1>3. i \in 0..mem[ptr - 1] - 1 /\ ptr + i \in Addr /\ i \in Nat
  <2>1. i \in 0..k - 1  BY <1>2
  <2>2. i \in 0..mem[ptr - 1] - 1 /\ i \in Nat  BY <1>1, <1>2, <2>1
  <2> QED  BY <1>1, <2>2 DEF Reach
<1>4. /\ UNCHANGED <<blocks, grow, stop>> /\ ptr \notin Busy
      /\ mem' = [mem EXCEPT ![ptr + i] = v] /\ live' = [live EXCEPT ![ptr][i] = v]
  BY DEF Store
<1>5. /\ mem' \in [Addr -> Cell]
      /\ mem'[ptr + i] = v /\ \A x \in Addr : x # ptr + i => mem'[x] = mem[x]
  BY <1>1, <1>3, <1>4 DEF PoolOK, Cell
<1>6. \A j \in 0..mem[ptr - 1] - 1 : ptr + j \in Addr  BY <1>1 DEF Reach
<1>7. \A j \in 0..mem[ptr - 1] - 1 : mem'[ptr + j] \in Nat
  BY <1>1, <1>5, <1>6 DEF Sound
<1>8. \A x \in Addr : x \notin ptr..ptr + mem[ptr - 1] - 1 => mem'[x] = mem[x]
  BY <1>1, <1>3, <1>5
<1>9. /\ PoolOK' /\ mem'[ptr - 1] = mem[ptr - 1]
      /\ \A q \in Pointers : Sound(q)'
      /\ \A q \in Pointers \ {ptr} : Untouched(q)
  BY <1>1, <1>4, <1>5, <1>7, <1>8, WriteLeaves
<1>10. /\ DOMAIN live' = DOMAIN live /\ live'[ptr] = [live[ptr] EXCEPT ![i] = v]
       /\ \A p \in DOMAIN live \ {ptr} : live'[p] = live[p]
  BY <1>4
<1>11. Growing' = Growing /\ News' = News /\ Pointers' = Pointers
  BY <1>4, <1>10 DEF Growing, News, Pointers
<1>12. Owned'  BY <1>4, <1>9, <1>11 DEF IInv, Owned
<1>13. ASSUME NEW p \in DOMAIN live' PROVE DataAt(p)'
  <2>1. DataAt(p) /\ p \in DOMAIN live /\ p \in Pointers /\ Sound(p)
    BY <1>10, PointerFacts DEF IInv, Pointers
  <2>2. CASE p # ptr
    <3>1. Untouched(p) /\ live'[p] = live[p]  BY <1>9, <1>10, <2>1, <2>2
    <3> QED  BY <1>1, <2>1, <3>1, DataStays
  <2>3. CASE p = ptr
    <3>1. live'[ptr] \in [0..k - 1 -> Nat] /\ k \in 0..mem'[ptr - 1]
      BY <1>1, <1>2, <1>9, <1>10
    <3>2. ASSUME NEW j \in DOMAIN live'[ptr] PROVE mem'[ptr + j] = live'[ptr][j]
      <4>1. j \in DOMAIN live[ptr] /\ j \in 0..mem[ptr - 1] - 1 /\ j \in Nat
        <5>1. j \in 0..k - 1 /\ DOMAIN live[ptr] = 0..k - 1
          <6>1. DOMAIN live'[ptr] = 0..k - 1  BY <3>1
          <6>2. DOMAIN live[ptr] = 0..k - 1  BY <1>2
          <6> QED  BY <3>2, <6>1, <6>2
        <5>2. \A m \in Nat : \A l \in 0..m : \A x \in 0..l - 1 : x \in 0..m - 1 /\ x \in Nat
          OBVIOUS
        <5> QED  BY <1>1, <1>2, <5>1, <5>2, Zenon
      <4>2. live'[ptr][i] = v /\ (j # i => live'[ptr][j] = live[ptr][j])
        BY <1>10, <4>1
      <4>3. CASE j # i
        <5>1. ptr + j # ptr + i /\ ptr + j \in Addr  BY <1>1, <1>3, <1>6, <4>1, <4>3
        <5>2. mem[ptr + j] = live[ptr][j]  BY <2>1, <2>3, <4>1 DEF DataAt
        <5> QED  BY <1>5, <4>2, <4>3, <5>1, <5>2
      <4> QED  BY <1>5, <4>2, <4>3
    <3> QED  BY <2>3, <3>1, <3>2 DEF DataAt
  <2> QED  BY <2>2, <2>3
<1>14. ASSUME NEW u \in Growing PROVE GrowAt(u)'
  <2>1. PICK o, n : o = grow[u].old /\ n = grow[u].new  OBVIOUS
  <2>2. /\ GrowAt(u) /\ o \in Pointers /\ n \in Pointers
        /\ Sound(o) /\ Sound(n) /\ o \in DOMAIN live /\ n \notin DOMAIN live
    BY <2>1, PointerFacts DEF IInv, GrowAt
  <2>3. o # ptr /\ n # ptr  BY <1>4, <2>1, <2>2 DEF Busy, Growing
  <2>4. Untouched(o) /\ Untouched(n)  BY <1>9, <2>2, <2>3
  <2>5. o \in DOMAIN live' /\ n \notin DOMAIN live'  BY <1>10, <2>2
  <2> QED  BY <1>1, <1>4, <2>1, <2>2, <2>4, <2>5, GrowStays
<1>15. Apart'  BY <1>4, <1>11 DEF IInv, Apart
<1> QED  BY <1>4, <1>9, <1>11, <1>12, <1>13, <1>14, <1>15 DEF IInv
LEMMA ReallocCopyKeeps ==
    ASSUME IInv, NEW t \in Thread, ReallocCopy(t)
    PROVE  IInv'
<1>1. t \in Growing /\ GrowAt(t) /\ grow[t] \in Realloc  BY DEF ReallocCopy, Growing, IInv
<1>2. PICK o, n, size : o = grow[t].old /\ n = grow[t].new /\ size = grow[t].size
  OBVIOUS
<1>3. /\ PoolOK /\ o \in Pointers /\ n \in Pointers /\ Sound(o) /\ Sound(n)
      /\ o \in DOMAIN live /\ n \notin DOMAIN live /\ o # n
  BY <1>1, <1>2, PointerFacts DEF GrowAt
<1>4. /\ o \in Nat /\ n \in Nat /\ mem[o - 1] \in Nat /\ mem[n - 1] \in Nat
      /\ Reach(o) \subseteq Addr /\ Reach(n) \subseteq Addr
  BY <1>3, SoundFacts
<1>5. size = mem[o - 1] /\ size < mem[n - 1]  BY <1>1, <1>2 DEF GrowAt
<1>6. /\ UNCHANGED <<blocks, live, stop>> /\ grow' = [grow EXCEPT ![t].copied = TRUE]
      /\ mem' = [x \in Addr |-> IF x \in n..n + size - 1 THEN mem[o + (x - n)] ELSE mem[x]]
  BY <1>2 DEF ReallocCopy, Cells
<1>7. \A j \in 0..mem[n - 1] - 1 : n + j \in Addr  BY <1>4 DEF Reach
<1>8. \A j \in 0..size - 1 : mem'[n + j] = mem[o + j]
  <2> SUFFICES ASSUME NEW j \in 0..size - 1 PROVE mem'[n + j] = mem[o + j]
    OBVIOUS
  <2>1. n + j \in Addr /\ n + j \in n..n + size - 1 /\ (n + j) - n = j
    BY <1>4, <1>5, <1>7
  <2>2. mem'[n + j] = mem[o + ((n + j) - n)]  BY <1>6, <2>1
  <2> QED  BY <2>1, <2>2
<1>9. \A x \in Addr : x \notin n..n + size - 1 => mem'[x] = mem[x]  BY <1>6
<1>10. \A j \in 0..mem[n - 1] - 1 : mem'[n + j] \in Nat
  <2> SUFFICES ASSUME NEW j \in 0..mem[n - 1] - 1 PROVE mem'[n + j] \in Nat
    OBVIOUS
  <2>1. CASE j < size
    <3>1. j \in 0..size - 1 /\ j \in 0..mem[o - 1] - 1  BY <1>4, <1>5, <2>1
    <3> QED  BY <1>3, <1>8, <3>1 DEF Sound
  <2>2. CASE ~(j < size)
    <3>1. n + j \in Addr /\ n + j \notin n..n + size - 1  BY <1>4, <1>5, <1>7, <2>2
    <3> QED  BY <1>3, <1>9, <3>1 DEF Sound
  <2> QED  BY <2>1, <2>2
<1>11. mem' \in [Addr -> Cell]
  <2> SUFFICES ASSUME NEW x \in Addr PROVE mem'[x] \in Cell
    BY <1>6
  <2>1. CASE x \in n..n + size - 1
    <3>1. x - n \in 0..mem[n - 1] - 1 /\ n + (x - n) = x  BY <1>4, <1>5, <2>1
    <3> QED  BY <1>10, <3>1 DEF Cell
  <2>2. CASE x \notin n..n + size - 1  BY <1>3, <1>9, <2>2 DEF PoolOK
  <2> QED  BY <2>1, <2>2
<1>12. \A x \in Addr : x \notin n..n + mem[n - 1] - 1 => mem'[x] = mem[x]
  BY <1>4, <1>5, <1>9
<1>13. /\ PoolOK' /\ mem'[n - 1] = mem[n - 1]
       /\ \A q \in Pointers : Sound(q)'
       /\ \A q \in Pointers \ {n} : Untouched(q)
  BY <1>3, <1>6, <1>10, <1>11, <1>12, WriteLeaves
<1>14. /\ grow' \in [Thread -> Realloc]
       /\ grow'[t].old = o /\ grow'[t].new = n /\ grow'[t].size = size
       /\ grow'[t].copied = TRUE /\ \A u \in Thread \ {t} : grow'[u] = grow[u]
  BY <1>1, <1>2, <1>6 DEF IInv, Realloc
<1>15. Growing' = Growing
  <2>1. grow'[t] # Idle  BY <1>4, <1>14 DEF Idle, NULL
  <2> QED  BY <1>1, <1>14, <2>1 DEF Growing
<1>16. \A u \in Growing : grow'[u].old = grow[u].old /\ grow'[u].new = grow[u].new
  BY <1>2, <1>14 DEF Growing
<1>17. Pointers' = Pointers  BY <1>6, <1>15, <1>16 DEF Pointers, News
<1>18. Owned'  BY <1>6, <1>13, <1>17 DEF IInv, Owned
<1>19. ASSUME NEW p \in DOMAIN live' PROVE DataAt(p)'
  <2>1. p \in DOMAIN live /\ p \in Pointers /\ DataAt(p) /\ p # n /\ live'[p] = live[p]
    BY <1>3, <1>6 DEF IInv, Pointers
  <2>2. Sound(p) /\ Untouched(p)  BY <1>13, <2>1, PointerFacts
  <2> QED  BY <1>3, <2>1, <2>2, DataStays
<1>20. ASSUME NEW u \in Growing PROVE GrowAt(u)'
  <2>1. CASE u = t
    <3>1. o \in Pointers \ {n}  BY <1>3
    <3>2. Untouched(o)  BY <1>13, <3>1
    <3>3. /\ mem'[o - 1] = mem[o - 1]
          /\ \A i \in 0..mem[o - 1] - 1 : mem'[o + i] = mem[o + i]
      <4>1. o - 1 \in Reach(o)  BY <1>3, ReachHeader
      <4> QED  BY <1>3, <3>2, <4>1, StaysSound DEF Untouched
    <3>4. \A i \in 0..size - 1 : mem'[n + i] = mem'[o + i]  BY <1>5, <1>8, <3>3
    <3>5. size = mem'[o - 1] /\ size < mem'[n - 1]  BY <1>5, <1>13, <3>3
    <3>6. o \in DOMAIN live' /\ n \notin DOMAIN live'  BY <1>3, <1>6
    <3> QED  BY <1>4, <1>14, <2>1, <3>4, <3>5, <3>6 DEF GrowAt
  <2>2. CASE u # t
    <3>1. PICK p, q : p = grow[u].old /\ q = grow[u].new  OBVIOUS
    <3>2. /\ GrowAt(u) /\ p \in Pointers /\ q \in Pointers
          /\ Sound(p) /\ Sound(q) /\ p \in DOMAIN live /\ q \notin DOMAIN live
      BY <3>1, PointerFacts DEF IInv, GrowAt
    <3>3. p # n /\ q # n  BY <1>1, <1>2, <1>3, <2>2, <3>1, <3>2 DEF IInv, Apart
    <3>4. Untouched(p) /\ Untouched(q)  BY <1>13, <3>2, <3>3
    <3>5. p \in DOMAIN live' /\ q \notin DOMAIN live'  BY <1>6, <3>2
    <3>6. grow'[u] = grow[u]  BY <1>14, <2>2 DEF Growing
    <3> QED  BY <1>3, <3>1, <3>2, <3>4, <3>5, <3>6, GrowStays
  <2> QED  BY <2>1, <2>2
<1>21. Apart'  BY <1>15, <1>16 DEF IInv, Apart
<1> QED  BY <1>6, <1>13, <1>14, <1>15, <1>18, <1>19, <1>20, <1>21 DEF IInv

LEMMA ReallocFreeKeeps ==
    ASSUME IInv, NEW t \in Thread, ReallocFree(t)
    PROVE  IInv'
<1>1. t \in Growing /\ GrowAt(t) /\ grow[t].copied  BY DEF ReallocFree, Growing, IInv
<1>2. PICK o, n : o = grow[t].old /\ n = grow[t].new  OBVIOUS
<1>3. /\ PoolOK /\ o \in Pointers /\ n \in Pointers /\ Sound(o) /\ Sound(n)
      /\ o \in DOMAIN live /\ n \notin DOMAIN live /\ o # n
  BY <1>1, <1>2, PointerFacts DEF GrowAt
<1>4. /\ o \in Nat /\ n \in Nat /\ mem[o - 1] \in Nat /\ mem[n - 1] \in Nat
      /\ GoodTag(o) /\ HeaderSize(n) = mem[n - 1]
  BY <1>3, SoundFacts
<1>5. /\ PoolFree(GET_MALLOC_HEADER(o)) /\ UNCHANGED stop
      /\ live' = With(Without(live, o), n, Resized(live[o], n, mem[n - 1]))
      /\ grow' = [grow EXCEPT ![t] = Idle]
  BY <1>2, <1>4 DEF ReallocFree
<1>6. /\ PoolOK' /\ \A q \in Pointers \ {o} : Sound(q)' /\ Untouched(q)
      /\ \A b \in DOMAIN blocks' : b + 2 \in Pointers \ {o}
  BY <1>3, <1>5, FreeLeaves
<1>7. /\ DOMAIN live' = (DOMAIN live \ {o}) \cup {n}
      /\ live'[n] = Resized(live[o], n, mem[n - 1])
      /\ \A p \in DOMAIN live \ {o} : p # n => live'[p] = live[p]
  BY <1>5 DEF With, Without, Restrict
<1>8. /\ grow' \in [Thread -> Realloc] /\ grow'[t] = Idle
      /\ \A u \in Thread \ {t} : grow'[u] = grow[u]
  BY <1>5 DEF IInv, Idle, Realloc, NULL
<1>9. Growing' = Growing \ {t} /\ \A u \in Growing' : grow'[u] = grow[u]
  BY <1>8 DEF Growing
<1>10. \A u \in Growing' : grow[u].old # o /\ grow[u].new # n
  BY <1>1, <1>2, <1>9 DEF IInv, Apart
<1>11. Pointers' = Pointers \ {o}
  <2>1. News' = News \ {n}  BY <1>1, <1>2, <1>9, <1>10 DEF News
  <2>2. o \notin News /\ n \in News  BY <1>1, <1>2, <1>3, PointerFacts
  <2> QED  BY <1>3, <1>7, <2>1, <2>2 DEF Pointers
<1>12. Owned'  BY <1>6, <1>11 DEF Owned
<1>13. ASSUME NEW p \in DOMAIN live' PROVE DataAt(p)'
  <2>1. CASE p = n
    <3>1. PICK k \in 0..mem[o - 1] : live[o] \in [0..k - 1 -> Nat]
      BY <1>3 DEF IInv, DataAt
    <3>2. mem[o - 1] < mem[n - 1]
          /\ \A i \in 0..mem[o - 1] - 1 : mem[n + i] = mem[o + i]
      BY <1>1, <1>2 DEF GrowAt
    <3>3. \A i \in DOMAIN live[o] : mem[o + i] = live[o][i]  BY <1>3 DEF IInv, DataAt
    <3>4. /\ DOMAIN live[o] = 0..k - 1 /\ \A i \in 0..k - 1 : live[o][i] \in Nat
          /\ 0..k - 1 \subseteq 0..mem[o - 1] - 1
      BY <1>4, <3>1
    <3>5. \A i \in 0..mem[n - 1] - 1 : mem[n + i] \in Nat  BY <1>3 DEF Sound
    <3>6. live'[n] = [i \in 0..mem[n - 1] - 1 |->
                        IF i \in DOMAIN live[o] THEN live[o][i] ELSE mem[n + i]]
      BY <1>7 DEF Resized
    <3>7. /\ live'[n] \in [0..mem[n - 1] - 1 -> Nat]
          /\ \A i \in 0..mem[n - 1] - 1 : mem[n + i] = live'[n][i]
      <4>1. \A i \in 0..mem[n - 1] - 1 : mem[n + i] = live'[n][i] /\ live'[n][i] \in Nat
        BY <3>2, <3>3, <3>4, <3>5, <3>6
      <4>2. DOMAIN live'[n] = 0..mem[n - 1] - 1  BY <3>6
      <4> QED  BY <3>6, <4>1, <4>2, SMTT(30)
    <3>8. /\ mem'[n - 1] = mem[n - 1]
          /\ \A i \in 0..mem[n - 1] - 1 : mem'[n + i] = mem[n + i]
      <4>1. n - 1 \in Reach(n)  BY <1>3, ReachHeader
      <4>2. n \in Pointers \ {o}  BY <1>3
      <4>3. Untouched(n)  BY <1>6, <4>2
      <4> QED  BY <1>3, <4>1, <4>3, StaysSound DEF Untouched
    <3>9. mem[n - 1] \in 0..mem'[n - 1]  BY <1>4, <3>8
    <3>10. \A i \in DOMAIN live'[n] : mem'[n + i] = live'[n][i]  BY <3>7, <3>8
    <3> QED  BY <2>1, <3>7, <3>9, <3>10 DEF DataAt
  <2>2. CASE p # n
    <3>1. p \in DOMAIN live /\ p # o /\ live'[p] = live[p]  BY <1>7, <2>2
    <3>2. p \in Pointers \ {o} /\ DataAt(p)  BY <3>1 DEF Pointers, IInv
    <3>3. Sound(p) /\ Untouched(p)  BY <1>6, <3>2, PointerFacts
    <3> QED  BY <1>3, <3>1, <3>2, <3>3, DataStays
  <2> QED  BY <2>1, <2>2
<1>14. ASSUME NEW u \in Growing' PROVE GrowAt(u)'
  <2>1. PICK p, q : p = grow[u].old /\ q = grow[u].new  OBVIOUS
  <2>2. /\ u \in Growing /\ GrowAt(u) /\ p \in Pointers /\ q \in Pointers
        /\ Sound(p) /\ Sound(q) /\ p \in DOMAIN live /\ q \notin DOMAIN live
    BY <1>9, <2>1, PointerFacts DEF IInv, GrowAt
  <2>3. p # o /\ q # n /\ q # o  BY <1>3, <1>10, <2>1, <2>2
  <2>4. Untouched(p) /\ Untouched(q)  BY <1>6, <2>2, <2>3
  <2>5. p \in DOMAIN live' /\ q \notin DOMAIN live'  BY <1>7, <2>2, <2>3
  <2> QED  BY <1>3, <1>9, <2>1, <2>2, <2>4, <2>5, GrowStays
<1>15. Apart'  BY <1>9 DEF IInv, Apart
<1>16. stop' \in {"none", "MUST_SUCCEED_POOL_EMPTY"}  BY <1>5 DEF IInv
<1> QED  BY <1>6, <1>8, <1>12, <1>13, <1>14, <1>15, <1>16 DEF IInv
LEMMA NewKeeps ==
    ASSUME IInv, NEW t \in Thread, NEW size \in Request, New(t, size)
    PROVE  IInv'
<1>1. PICK n : n = IF size = 0 THEN 1 ELSE size  OBVIOUS
<1>2. n \in Nat /\ size \in 0..n /\ n + 2 < M  BY <1>1 DEF H
<1>3. NewSize(n) = n + 2  BY <1>2 DEF NewSize, H
<1>4. CASE Take(t, n, size)  BY <1>2, <1>3, <1>4, TakeKeeps
<1>5. CASE stop' = "MUST_SUCCEED_POOL_EMPTY" /\ UNCHANGED <<mem, blocks, live, grow>>
  <2>1. Growing' = Growing /\ Pointers' = Pointers
    BY <1>5 DEF Growing, Pointers, News
  <2>2. \A p : (Sound(p)' <=> Sound(p)) /\ (DataAt(p)' <=> DataAt(p)) /\ (GrowAt(p)' <=> GrowAt(p))
    BY <1>5 DEF Sound, DataAt, GrowAt
  <2>3. PoolOK' /\ Owned' /\ Apart'
    BY <1>5, <2>1, <2>2 DEF IInv, PoolOK, Owned, Apart, Cells, Addr
  <2> QED  BY <1>5, <2>1, <2>2, <2>3 DEF IInv
<1> QED  BY <1>1, <1>4, <1>5 DEF New

LEMMA CallKeeps ==
    ASSUME IInv, NEW t \in Thread, Call(t)
    PROVE  IInv'
<1>1. ASSUME NEW size \in Request, Malloc(t, size) PROVE IInv'
  <2>1. size \in Nat /\ NewSize(size) = size + 2 /\ size \in 0..size  BY Widths
  <2> QED  BY <1>1, <2>1, TakeKeeps DEF Malloc
<1>2. ASSUME NEW size \in Request, New(t, size) PROVE IInv'
  BY <1>2, NewKeeps
<1>3. ASSUME NEW count \in Request, NEW size \in Request, count * size \in Request,
             Calloc(t, count, size)
      PROVE  IInv'
  <2>1. PICK n \in Request : n = count * size  BY <1>3
  <2>2. n \in Nat /\ NewSize(n) = n + 2 /\ n \in 0..n /\ n < M  BY Widths DEF H
  <2>3. n % M = n  BY <2>2
  <2>4. Take(t, n, n)  BY <1>3, <2>1, <2>3 DEF Calloc
  <2> QED  BY <2>2, <2>4, TakeKeeps
<1>4. ASSUME NEW ptr \in DOMAIN live, Free(t, ptr) PROVE IInv'
  BY <1>4, FreeKeeps
<1>5. ASSUME NEW ptr \in DOMAIN live, NEW size \in Request,
             ReallocInPlace(t, ptr, size) \/ ReallocMalloc(t, ptr, size)
      PROVE  IInv'
  BY <1>5, ReallocInPlaceKeeps, ReallocMallocKeeps
<1>6. ASSUME NEW ptr \in DOMAIN live, NEW i \in DOMAIN live[ptr], NEW v \in Value,
             Store(t, ptr, i, v)
      PROVE  IInv'
  BY <1>6, StoreKeeps
<1>7. CASE ReallocCopy(t)  BY <1>7, ReallocCopyKeeps
<1>8. CASE ReallocFree(t)  BY <1>8, ReallocFreeKeeps
<1> QED  BY <1>1, <1>2, <1>3, <1>4, <1>5, <1>6, <1>7, <1>8 DEF Call

LEMMA IdleKeeps == IInv /\ UNCHANGED vars => IInv'
<1> SUFFICES ASSUME IInv, UNCHANGED vars PROVE IInv'
  OBVIOUS
<1>1. UNCHANGED <<mem, blocks, live, grow, stop>>  BY DEF vars
<1>2. Growing' = Growing /\ Pointers' = Pointers  BY <1>1 DEF Growing, Pointers, News
<1>3. \A p : (Sound(p)' <=> Sound(p)) /\ (DataAt(p)' <=> DataAt(p)) /\ (GrowAt(p)' <=> GrowAt(p))
  BY <1>1 DEF Sound, DataAt, GrowAt
<1>4. PoolOK' /\ Owned' /\ Apart'
  BY <1>1, <1>2, <1>3 DEF IInv, PoolOK, Owned, Apart, Cells, Addr
<1> QED  BY <1>1, <1>2, <1>3, <1>4 DEF IInv

-----------------------------------------------------------------------------
(* The theorems *)

\* The inductive invariant holds always, for any number of threads in malloc,
\* calloc, realloc, free, new and delete (kcrtc.c:80-155, kernel_stl.cpp:128-190).
THEOREM Invariant == Spec => []IInv
<1>1. Init => IInv  BY InitIInv
<1>2. IInv /\ [Next]_vars => IInv'
  <2> SUFFICES ASSUME IInv, [Next]_vars PROVE IInv'
    OBVIOUS
  <2>1. CASE Next  BY <2>1, CallKeeps DEF Next
  <2>2. CASE UNCHANGED vars  BY <2>2, IdleKeeps
  <2> QED  BY <2>1, <2>2
<1> QED  BY <1>1, <1>2, PTL DEF Spec

\* The variables of the heap keep their types (kcrtc.c:80-155).
THEOREM TypeCorrect == Spec => []TypeOK
<1>1. IInv => TypeOK
  <2> SUFFICES ASSUME IInv PROVE TypeOK
    OBVIOUS
  <2>1. \A p \in DOMAIN live : GET_MALLOC_HEADER(p) \in Addr
    BY PointerFacts, Widths DEF Pointers, Sound, PoolOK
  <2>2. ASSUME NEW p \in DOMAIN live PROVE live[p] \in [DOMAIN live[p] -> Nat]
    <3>1. PICK k \in 0..mem[p - 1] : live[p] \in [0..k - 1 -> Nat]  BY DEF IInv, DataAt
    <3> QED  BY <3>1
  <2> QED  BY <2>1, <2>2 DEF IInv, TypeOK, PoolOK, Cell, Realloc
<1> QED  BY <1>1, Invariant, PTL

\* No block leaks and no pointer outlives its block; free and realloc find
\* their tag in front of every pointer of a correct caller, so that nobody sees
\* BAD_POOL_HEADER (kcrtc.c:72-91, 122-155).
THEOREM BlocksOwned == Spec => []BlocksAccounted
<1>1. IInv => BlocksAccounted
  <2> SUFFICES ASSUME IInv PROVE BlocksAccounted
    OBVIOUS
  <2> DEFINE Held == {GET_MALLOC_HEADER(p) : p \in DOMAIN live} \cup
                     {GET_MALLOC_HEADER(grow[t].new) : t \in Growing}
  <2>1. \A p : GET_MALLOC_HEADER(p) = p - 2  BY Widths
  <2>2. \A b \in Held : \E p \in Pointers : b = p - 2  BY <2>1, PointerFacts DEF Pointers
  <2>3. \A p \in Pointers : p - 2 \in Held  BY <2>1 DEF Pointers, News
  <2>4. Held \subseteq DOMAIN blocks  BY <2>2, PointerFacts DEF Sound
  <2>5. ASSUME NEW b \in DOMAIN blocks PROVE b \in Held
    <3>1. b \in Nat /\ b + 2 \in Pointers  BY DEF IInv, Owned, PoolOK, Addr
    <3> QED  BY <2>3, <3>1
  <2>6. DOMAIN blocks = Held  BY <2>4, <2>5
  <2> QED  BY <2>6 DEF IInv, BlocksAccounted
<1> QED  BY <1>1, Invariant, PTL

\* Memory keeps what its owner stored (zeros at first) until the owner changes
\* it, through every malloc, free and realloc of anyone, and through a realloc
\* of the block itself up to the shorter length.
DataKept ==
    \A p \in DOMAIN live : \A i \in DOMAIN live[p] :
        p + i \in Addr /\ mem[p + i] = live[p][i]

\* What a caller stored is there until it changes it, whatever the other
\* callers allocate, free or move meanwhile; realloc keeps the data up to the
\* shorter length (kcrtc.c:93-155).
THEOREM DataSafe == Spec => []DataKept
<1>1. IInv => DataKept
  <2> SUFFICES ASSUME IInv, NEW p \in DOMAIN live, NEW i \in DOMAIN live[p]
               PROVE  p + i \in Addr /\ mem[p + i] = live[p][i]
    BY DEF DataKept
  <2>1. Sound(p) /\ PoolOK  BY PointerFacts DEF Pointers
  <2>2. p \in Nat /\ mem[p - 1] \in Nat /\ Reach(p) \subseteq Addr  BY <2>1, SoundFacts
  <2>3. PICK k \in 0..mem[p - 1] : live[p] \in [0..k - 1 -> Nat]  BY DEF IInv, DataAt
  <2>4. i \in 0..k - 1  BY <2>3
  <2>5. p + i \in Reach(p)
    <3>1. i \in 0..mem[p - 1] - 1  BY <2>2, <2>3, <2>4
    <3> QED  BY <2>2, <3>1 DEF Reach
  <2> QED  BY <2>2, <2>5 DEF IInv, DataAt
<1> QED  BY <1>1, Invariant, PTL

-----------------------------------------------------------------------------
(* Refinement *)

\* The abstract heap: the memory behind the callers' pointers.
Data == [p \in DOMAIN live |-> [i \in DOMAIN live[p] |-> mem[p + i]]]
DataCells(p) == {p + i : i \in DOMAIN Data[p]}

LEMMA DataHeld ==
    ASSUME IInv
    PROVE  DOMAIN Data = DOMAIN live /\ \A p \in DOMAIN live : Data[p] = live[p]
<1> SUFFICES ASSUME NEW p \in DOMAIN live PROVE Data[p] = live[p]
  BY DEF Data
<1>1. Data[p] = [i \in DOMAIN live[p] |-> mem[p + i]]  BY DEF Data
<1>2. \A i \in DOMAIN live[p] : mem[p + i] = live[p][i]  BY DEF IInv, DataAt
<1>3. PICK k \in 0..mem[p - 1] : live[p] \in [0..k - 1 -> Nat]  BY DEF IInv, DataAt
<1> QED  BY <1>1, <1>2, <1>3

LEMMA DataHeldNext ==
    ASSUME IInv'
    PROVE  DOMAIN Data' = DOMAIN live' /\ \A p \in DOMAIN live' : Data'[p] = live'[p]
<1> SUFFICES ASSUME NEW p \in DOMAIN live' PROVE Data'[p] = live'[p]
  BY DEF Data
<1>1. Data'[p] = [i \in DOMAIN live'[p] |-> mem'[p + i]]  BY DEF Data
<1>2. \A i \in DOMAIN live'[p] : mem'[p + i] = live'[p][i]  BY DEF IInv, DataAt
<1>3. PICK k \in 0..mem'[p - 1] : live'[p] \in [0..k - 1 -> Nat]  BY DEF IInv, DataAt
<1> QED  BY <1>1, <1>2, <1>3

\* The data of a pointer lies in its block.
LEMMA DataReach ==
    ASSUME IInv, NEW p \in DOMAIN live
    PROVE  DataCells(p) \subseteq Reach(p)
<1>1. PICK k \in 0..mem[p - 1] : live[p] \in [0..k - 1 -> Nat]  BY DEF IInv, DataAt
<1>2. p \in Nat /\ mem[p - 1] \in Nat  BY PointerFacts, SoundFacts DEF Pointers
<1>3. DOMAIN Data[p] = 0..k - 1  BY <1>1, DataHeld
<1> DEFINE m == mem[p - 1]
<1>4. m \in Nat /\ k \in 0..m  BY <1>1, <1>2
<1> HIDE DEF m
<1>5. ASSUME NEW i \in 0..k - 1 PROVE p + i \in p - 2..p + m - 1  BY <1>2, <1>4, <1>5
<1>6. DataCells(p) \subseteq p - 2..p + m - 1  BY <1>3, <1>5, Zenon DEF DataCells
<1> QED  BY <1>6, Zenon DEF Reach, m

LEMMA PointerRange ==
    ASSUME PoolOK, NEW p, Sound(p)
    PROVE  p \in 0..PoolSize /\ mem[p - 1] \in 0..PoolSize
<1>1. p - 2 \in Nat /\ p \in Nat /\ mem[p - 1] \in Nat /\ Reach(p) \subseteq Addr  BY SoundFacts
<1>2. p + mem[p - 1] - 1 \in Reach(p)  BY <1>1 DEF Reach
<1>3. p + mem[p - 1] - 1 \in 0..PoolSize - 1  BY <1>1, <1>2 DEF Addr
<1> QED  BY <1>1, <1>3

\* How a step of the abstract heap shows in the memory.
LEMMA AllocStep ==
    ASSUME NEW p \in 0..PoolSize, NEW len \in 0..PoolSize, p \notin DOMAIN Data,
           \A q \in DOMAIN Data : p..p + len - 1 \cap DataCells(q) = {},
           Data' = [q \in DOMAIN Data \cup {p} |->
                      IF q = p THEN [i \in 0..len - 1 |-> 0] ELSE Data[q]]
    PROVE  Heap!Next
<1>1. Heap!Alloc(p, len)
  BY Zenon DEF Heap!Alloc, Heap!Fits, Heap!Cells, Heap!CellsOf, Data, DataCells
<1> QED  BY <1>1, Zenon DEF Heap!Next

LEMMA ReleaseStep ==
    ASSUME NEW p \in DOMAIN Data, Data' = [q \in DOMAIN Data \ {p} |-> Data[q]]
    PROVE  Heap!Next
<1>1. Heap!Release(p)  BY Zenon DEF Heap!Release, Data
<1> QED  BY <1>1, Zenon DEF Heap!Next, Data

\* The block at p, now at q with len cells of contents data.
Moved(p, q, len, data) ==
    /\ q \in 0..PoolSize /\ len \in 0..PoolSize
    /\ p \in DOMAIN Data /\ q \notin DOMAIN Data \ {p}
    /\ \A r \in DOMAIN Data \ {p} : q..q + len - 1 \cap DataCells(r) = {}
    /\ q # p => q..q + len - 1 \cap DataCells(p) = {}
    /\ data \in [0..len - 1 -> Nat]
    /\ \A i \in 0..len - 1 : i \in DOMAIN Data[p] => data[i] = Data[p][i]
    /\ Data' = [r \in (DOMAIN Data \ {p}) \cup {q} |-> IF r = q THEN data ELSE Data[r]]

LEMMA ResizeStep ==
    ASSUME NEW p, NEW q, NEW len, NEW data, Moved(p, q, len, data)
    PROVE  Heap!Next
<1>1. q \in DOMAIN Data' /\ Data'[q] = data  BY Zenon DEF Moved
<1>2. q \notin (IF q = p THEN DOMAIN Data \ {p} ELSE DOMAIN Data)  BY DEF Moved
<1>3. \A r \in (IF q = p THEN DOMAIN Data \ {p} ELSE DOMAIN Data) :
         q..q + len - 1 \cap DataCells(r) = {}
  BY DEF Moved
<1>4. Heap!Resize(p, q, len)
  BY <1>1, <1>2, <1>3, Zenon
  DEF Moved, Heap!Resize, Heap!Fits, Heap!Cells, Heap!CellsOf, Data, DataCells
<1> QED  BY <1>4, Zenon DEF Moved, Heap!Next, Data

LEMMA WriteStep ==
    ASSUME NEW p \in DOMAIN Data, NEW i \in DOMAIN Data[p], NEW v \in Value,
           Data' = [Data EXCEPT ![p][i] = v]
    PROVE  Heap!Next
<1>1. Heap!Write(p, i, v)  BY Zenon DEF Heap!Write, Data
<1> QED  BY <1>1, Zenon DEF Heap!Next, Data

LEMMA TakeSteps ==
    ASSUME IInv, IInv', NEW t \in Thread, NEW size \in Nat, NewSize(size) = size + 2,
           NEW len \in 0..size, Take(t, size, len)
    PROVE  Heap!Next
<1>1. PICK a \in PoolRoom(NewSize(size)) :
         /\ MallocAt(a, size)
         /\ live' = With(live, GET_MALLOC_ADDRESS(a), [i \in 0..len - 1 |-> 0])
  BY DEF Take
<1>2. PICK q : q = GET_MALLOC_ADDRESS(a)  OBVIOUS
<1>3. q \notin Pointers  BY <1>1, <1>2, MallocLeaves
<1>4. /\ a \in Nat /\ Cells(a, size + 2) \subseteq Addr
      /\ \A b \in DOMAIN blocks : Cells(a, size + 2) \cap Cells(b, blocks[b]) = {}
  BY DEF PoolRoom, Addr
<1>5. q = a + 2 /\ q \in Nat  BY <1>2, <1>4, Widths
<1>6. q \in 0..PoolSize /\ len \in 0..PoolSize
  <2>1. a + size + 1 \in Cells(a, size + 2)  BY <1>4 DEF Cells
  <2>2. a + size + 1 <= PoolSize - 1  BY <1>4, <2>1 DEF Addr
  <2> QED  BY <1>4, <1>5, <2>2
<1>7. ASSUME NEW p \in DOMAIN Data PROVE q..q + len - 1 \cap DataCells(p) = {}
  <2>1. p \in DOMAIN live /\ PoolOK /\ Sound(p)  BY <1>7, DataHeld, PointerFacts DEF Pointers
  <2>2. p - 2 \in DOMAIN blocks /\ Reach(p) = Cells(p - 2, blocks[p - 2])
    BY <2>1, SoundFacts DEF Sound
  <2>3. q..q + len - 1 \subseteq Cells(a, size + 2)  BY <1>4, <1>5 DEF Cells
  <2>4. DataCells(p) \subseteq Reach(p)  BY <2>1, DataReach
  <2> QED  BY <1>4, <2>2, <2>3, <2>4
<1>8. Data' = [p \in DOMAIN Data \cup {q} |->
                 IF p = q THEN [i \in 0..len - 1 |-> 0] ELSE Data[p]]
  <2>1. /\ DOMAIN live' = DOMAIN live \cup {q} /\ live'[q] = [i \in 0..len - 1 |-> 0]
        /\ \A p \in DOMAIN live : p # q => live'[p] = live[p]
    BY <1>1, <1>2 DEF With
  <2>2. DOMAIN Data' = DOMAIN Data \cup {q}  BY <2>1, DataHeld, DataHeldNext
  <2>3. \A p \in DOMAIN Data' : Data'[p] = IF p = q THEN [i \in 0..len - 1 |-> 0] ELSE Data[p]
    BY <2>1, DataHeld, DataHeldNext
  <2>4. Data' = [p \in DOMAIN Data' |-> Data'[p]]  BY DEF Data
  <2> QED  BY <2>2, <2>3, <2>4
<1> QED  BY <1>3, <1>6, <1>7, <1>8, DataHeld, AllocStep DEF Pointers

LEMMA FreeSteps ==
    ASSUME IInv, IInv', NEW t \in Thread, NEW ptr \in DOMAIN live, Free(t, ptr)
    PROVE  Heap!Next
<1>1. DOMAIN live' = DOMAIN live \ {ptr} /\ \A p \in DOMAIN live' : live'[p] = live[p]
  BY DEF Free, Without, Restrict
<1>2. DOMAIN Data' = DOMAIN Data \ {ptr}  BY <1>1, DataHeld, DataHeldNext
<1>3. \A p \in DOMAIN Data' : Data'[p] = Data[p]  BY <1>1, DataHeld, DataHeldNext
<1>4. Data' = [p \in DOMAIN Data' |-> Data'[p]]  BY DEF Data
<1>5. Data' = [p \in DOMAIN Data \ {ptr} |-> Data[p]]  BY <1>2, <1>3, <1>4
<1> QED  BY <1>5, DataHeld, ReleaseStep

\* A pointer that has its old data and more, in its place or in a block of its own.
LEMMA ResizeSteps ==
    ASSUME IInv, IInv', NEW p \in DOMAIN live, NEW q \in Pointers, NEW len \in Nat,
           q \notin DOMAIN live \ {p}, len <= mem[q - 1],
           DOMAIN live' = (DOMAIN live \ {p}) \cup {q},
           live'[q] = Resized(live[p], q, len),
           \A r \in DOMAIN live \ {p} : r # q => live'[r] = live[r]
    PROVE  Heap!Next
<1>1. PoolOK /\ Sound(q) /\ q \in Nat /\ mem[q - 1] \in Nat  BY PointerFacts, SoundFacts
<1>2. q \in 0..PoolSize /\ len \in 0..PoolSize
  <2>1. q \in 0..PoolSize /\ mem[q - 1] \in 0..PoolSize  BY <1>1, PointerRange
  <2> QED  BY <2>1
<1>3. q..q + len - 1 \subseteq Reach(q)  BY <1>1 DEF Reach
<1>4. ASSUME NEW r \in DOMAIN Data, r # q PROVE q..q + len - 1 \cap DataCells(r) = {}
  <2>1. r \in DOMAIN live /\ Sound(r)  BY <1>4, DataHeld, PointerFacts DEF Pointers
  <2>2. Reach(q) \cap Reach(r) = {}  BY <1>1, <1>4, <2>1, ReachApart
  <2>3. DataCells(r) \subseteq Reach(r)  BY <2>1, DataReach
  <2> QED  BY <1>3, <2>2, <2>3
<1>5. PICK data : data = live'[q]  OBVIOUS
<1>6. data = [i \in 0..len - 1 |-> IF i \in DOMAIN live[p] THEN live[p][i] ELSE mem[q + i]]
  BY <1>5 DEF Resized
<1>7. data \in [0..len - 1 -> Nat]
  <2>1. PICK k : data \in [0..k - 1 -> Nat]  BY <1>5 DEF IInv, DataAt
  <2>2. DOMAIN data = 0..len - 1  BY <1>6
  <2>3. DOMAIN data = 0..k - 1  BY <2>1
  <2> QED  BY <2>1, <2>2, <2>3
<1>8. \A i \in 0..len - 1 : i \in DOMAIN Data[p] => data[i] = Data[p][i]
  BY <1>6, DataHeld
<1>9. Data' = [r \in (DOMAIN Data \ {p}) \cup {q} |-> IF r = q THEN data ELSE Data[r]]
  <2>1. DOMAIN Data' = (DOMAIN Data \ {p}) \cup {q}  BY DataHeld, DataHeldNext
  <2>2. \A r \in DOMAIN Data' : Data'[r] = IF r = q THEN data ELSE Data[r]
    BY <1>5, DataHeld, DataHeldNext
  <2>3. Data' = [r \in DOMAIN Data' |-> Data'[r]]  BY DEF Data
  <2> QED  BY <2>1, <2>2, <2>3
<1>10. p \in DOMAIN Data /\ q \notin DOMAIN Data \ {p}  BY DataHeld
<1>11. \A r \in DOMAIN Data \ {p} : q..q + len - 1 \cap DataCells(r) = {}  BY <1>4, <1>10
<1>12. q # p => q..q + len - 1 \cap DataCells(p) = {}  BY <1>4, <1>10
<1>13. Moved(p, q, len, data)
  BY <1>2, <1>7, <1>8, <1>9, <1>10, <1>11, <1>12, Zenon DEF Moved
<1> QED  BY <1>13, ResizeStep

LEMMA InPlaceSteps ==
    ASSUME IInv, IInv', NEW t \in Thread, NEW ptr \in DOMAIN live, NEW size \in Request,
           ReallocInPlace(t, ptr, size)
    PROVE  Heap!Next
<1>1. GoodTag(ptr) /\ HeaderSize(ptr) = mem[ptr - 1] /\ size \in Nat
  BY PointerFacts, SoundFacts, Widths DEF Pointers
<1>2. size <= mem[ptr - 1] /\ live' = [live EXCEPT ![ptr] = Resized(live[ptr], ptr, size)]
  BY <1>1 DEF ReallocInPlace
<1>3. /\ DOMAIN live' = (DOMAIN live \ {ptr}) \cup {ptr}
      /\ live'[ptr] = Resized(live[ptr], ptr, size)
      /\ \A r \in DOMAIN live \ {ptr} : live'[r] = live[r]
  BY <1>2
<1> QED  BY <1>1, <1>2, <1>3, ResizeSteps DEF Pointers

LEMMA MoveSteps ==
    ASSUME IInv, IInv', NEW t \in Thread, ReallocFree(t)
    PROVE  Heap!Next
<1>1. t \in Growing /\ GrowAt(t)  BY DEF ReallocFree, Growing, IInv
<1>2. PICK o, n : o = grow[t].old /\ n = grow[t].new  OBVIOUS
<1>3. /\ PoolOK /\ n \in Pointers /\ Sound(n) /\ o \in DOMAIN live /\ n \notin DOMAIN live
  BY <1>1, <1>2, PointerFacts DEF GrowAt
<1>4. mem[n - 1] \in Nat /\ HeaderSize(n) = mem[n - 1]  BY <1>3, SoundFacts
<1>5. live' = With(Without(live, o), n, Resized(live[o], n, mem[n - 1]))
  BY <1>2, <1>4 DEF ReallocFree
<1>6. /\ DOMAIN live' = (DOMAIN live \ {o}) \cup {n}
      /\ live'[n] = Resized(live[o], n, mem[n - 1])
      /\ \A p \in DOMAIN live \ {o} : p # n => live'[p] = live[p]
  BY <1>5 DEF With, Without, Restrict
<1> QED  BY <1>3, <1>4, <1>6, ResizeSteps

LEMMA StoreSteps ==
    ASSUME IInv, IInv', NEW t \in Thread, NEW ptr \in DOMAIN live, NEW i \in DOMAIN live[ptr],
           NEW v \in Value, Store(t, ptr, i, v)
    PROVE  Heap!Next
<1>1. live' = [live EXCEPT ![ptr][i] = v]  BY DEF Store
<1>2. DOMAIN Data' = DOMAIN Data  BY <1>1, DataHeld, DataHeldNext
<1>3. Data'[ptr] = [Data[ptr] EXCEPT ![i] = v]
  <2>1. ptr \in DOMAIN live' /\ live'[ptr] = [live[ptr] EXCEPT ![i] = v]  BY <1>1
  <2> QED  BY <2>1, DataHeld, DataHeldNext
<1>4. \A p \in DOMAIN Data : p # ptr => Data'[p] = Data[p]
  BY <1>1, DataHeld, DataHeldNext
<1>5. Data' = [p \in DOMAIN Data' |-> Data'[p]]  BY DEF Data
<1>6. Data' = [Data EXCEPT ![ptr] = [Data[ptr] EXCEPT ![i] = v]]
  BY <1>2, <1>3, <1>4, <1>5
<1>7. Data' = [Data EXCEPT ![ptr][i] = v]  BY <1>6
<1>8. ptr \in DOMAIN Data /\ i \in DOMAIN Data[ptr]  BY DataHeld
<1> QED  BY <1>7, <1>8, WriteStep

LEMMA SilentSteps ==
    ASSUME IInv, IInv', UNCHANGED live
    PROVE  UNCHANGED Data
<1>1. DOMAIN Data' = DOMAIN Data /\ \A p \in DOMAIN Data : Data'[p] = Data[p]
  BY DataHeld, DataHeldNext
<1>2. Data = [p \in DOMAIN Data |-> Data[p]] /\ Data' = [p \in DOMAIN Data' |-> Data'[p]]
  BY DEF Data
<1> QED  BY <1>1, <1>2

LEMMA CallSteps ==
    ASSUME IInv, IInv', NEW t \in Thread, Call(t)
    PROVE  Heap!Next \/ UNCHANGED Data
<1>1. ASSUME NEW size \in Request, Malloc(t, size) PROVE Heap!Next
  <2>1. size \in Nat /\ NewSize(size) = size + 2 /\ size \in 0..size  BY Widths
  <2> QED  BY <1>1, <2>1, TakeSteps DEF Malloc
<1>2. ASSUME NEW size \in Request, New(t, size) PROVE Heap!Next \/ UNCHANGED Data
  <2>1. PICK n : n = IF size = 0 THEN 1 ELSE size  OBVIOUS
  <2>2. n \in Nat /\ n \in 0..n /\ n + 2 < M  BY <2>1 DEF H
  <2>3. NewSize(n) = n + 2  BY <2>2 DEF NewSize, H
  <2>4. CASE Take(t, n, size)
    <3>1. size \in 0..n  BY <2>1, <2>2
    <3> QED  BY <2>2, <2>3, <2>4, <3>1, TakeSteps
  <2>5. CASE UNCHANGED live  BY <2>5, SilentSteps
  <2> QED  BY <1>2, <2>1, <2>4, <2>5 DEF New
<1>3. ASSUME NEW count \in Request, NEW size \in Request, count * size \in Request,
             Calloc(t, count, size)
      PROVE  Heap!Next
  <2>1. PICK n \in Request : n = count * size  BY <1>3
  <2>2. n \in Nat /\ NewSize(n) = n + 2 /\ n \in 0..n /\ n < M  BY Widths DEF H
  <2>3. n % M = n  BY <2>2
  <2>4. Take(t, n, n)  BY <1>3, <2>1, <2>3 DEF Calloc
  <2> QED  BY <2>2, <2>4, TakeSteps
<1>4. ASSUME NEW ptr \in DOMAIN live, Free(t, ptr) PROVE Heap!Next
  BY <1>4, FreeSteps
<1>5. ASSUME NEW ptr \in DOMAIN live, NEW size \in Request, ReallocInPlace(t, ptr, size)
      PROVE  Heap!Next
  BY <1>5, InPlaceSteps
<1>6. ASSUME NEW ptr \in DOMAIN live, NEW size \in Request, ReallocMalloc(t, ptr, size)
      PROVE  UNCHANGED Data
  BY <1>6, SilentSteps DEF ReallocMalloc
<1>7. ASSUME NEW ptr \in DOMAIN live, NEW i \in DOMAIN live[ptr], NEW v \in Value,
             Store(t, ptr, i, v)
      PROVE  Heap!Next
  BY <1>7, StoreSteps
<1>8. CASE ReallocCopy(t)  BY <1>8, SilentSteps DEF ReallocCopy
<1>9. CASE ReallocFree(t)  BY <1>9, MoveSteps
<1> QED  BY <1>1, <1>2, <1>3, <1>4, <1>5, <1>6, <1>7, <1>8, <1>9 DEF Call

\* malloc, calloc, realloc, free, new and delete implement an abstract heap: whatever
\* any number of threads do, the memory behind their pointers is a set of blocks that
\* share no cell, zeroed when handed out, changed by their owner alone, and kept up to
\* the shorter length by a realloc, in place or moved (kcrtc.c:93-155,
\* kernel_stl.cpp:128-190).
THEOREM ImplementsHeap == Spec => HeapSpec
<1>1. Init => Heap!Init
  <2> SUFFICES ASSUME Init PROVE Data = <<>>
    BY DEF Heap!Init, Data
  <2>1. DOMAIN live = {}  BY DEF Init
  <2> QED  BY <2>1 DEF Data
<1>2. IInv /\ IInv' /\ [Next]_vars => [Heap!Next]_Data
  <2> SUFFICES ASSUME IInv, IInv', [Next]_vars PROVE Heap!Next \/ UNCHANGED Data
    OBVIOUS
  <2>1. CASE Next  BY <2>1, CallSteps DEF Next
  <2>2. CASE UNCHANGED vars  BY <2>2, SilentSteps DEF vars
  <2> QED  BY <2>1, <2>2
<1> QED  BY <1>1, <1>2, Invariant, PTL DEF Spec, HeapSpec, Heap!Spec, Data
=============================================================================
