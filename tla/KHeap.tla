-------------------------------- MODULE KHeap --------------------------------
(***************************************************************************)
(* malloc, calloc, realloc and free of kcrt/kcrtc.c and the operators new  *)
(* and delete of kstl/kernel_stl.cpp, on top of a kernel pool, as several  *)
(* threads use them.  Memory is flat, so that a block that is too short, a *)
(* header at the wrong place or a copy that is too long shows as damage to *)
(* a neighbour.                                                            *)
(*                                                                         *)
(* A MALLOC_HEADER is two cells, Tags and Size; size_t arithmetic is       *)
(* modulo M.  The callers are correct C: they write inside what they asked *)
(* for, pass on pointers they were given and do not use a pointer another  *)
(* call is freeing.  A call that returns NULL without having changed       *)
(* anything (malloc when the pool is empty, free(NULL), realloc that       *)
(* cannot grow) is a stuttering step.                                      *)
(***************************************************************************)
EXTENDS Integers, Functions

CONSTANTS
    Thread,     \* callers
    PoolSize,   \* cells of the pool
    M,          \* 2^(width of size_t)
    Request,    \* sizes asked for
    Value       \* what callers write

H == 2                      \* sizeof(MALLOC_HEADER)
Tag == -1                   \* KCRT_POOL_DEFAULT_TAG
Junk == -2                  \* memory that belongs to the pool allocator
NULL == -1
Addr == 0..PoolSize - 1

\* A size within a header of SIZE_MAX makes size + sizeof(MALLOC_HEADER) wrap;
\* malloc does not check, so the callers must not ask for it.  (operator new
\* asks for 1 where its caller asked for 0.)
ASSUME RequestAssumption ==
    /\ M \in Nat /\ 1 + H < M /\ PoolSize \in Nat
    /\ Request \subseteq Nat /\ \A size \in Request : size + H < M
ASSUME ValueAssumption == 0 \in Value /\ Value \subseteq Nat

VARIABLES
    mem,       \* contents of the pool's cells
    blocks,    \* pool blocks in use: start |-> length
    live,      \* what the callers have: pointer |-> the data they rely on
    grow,      \* per thread: the realloc call between its malloc and its free
    stop       \* bug check that stopped the system

vars == <<mem, blocks, live, grow, stop>>

Idle == [old |-> NULL, new |-> NULL, size |-> 0, copied |-> FALSE]
Busy == {grow[t].old : t \in Thread}

Init ==
    /\ mem = [a \in Addr |-> Junk]
    /\ blocks = <<>> /\ live = <<>>
    /\ grow = [t \in Thread |-> Idle]
    /\ stop = "none"

Cells(start, len) == start..start + len - 1
Without(f, x) == Restrict(f, DOMAIN f \ {x})
With(f, x, v) == [y \in DOMAIN f \cup {x} |-> IF y = x THEN v ELSE f[y]]
Running(t) == stop = "none" /\ grow[t] = Idle

-----------------------------------------------------------------------------
(* The pool: ExAllocatePoolWithTag and ExFreePoolWithTag *)

PoolRoom(len) ==
    {a \in Addr : /\ Cells(a, len) \subseteq Addr
                  /\ \A b \in DOMAIN blocks : Cells(a, len) \cap Cells(b, blocks[b]) = {}}

PoolFree(start) ==
    /\ blocks' = Without(blocks, start)
    /\ mem' = [a \in Addr |-> IF a \in Cells(start, blocks[start]) THEN Junk ELSE mem[a]]

-----------------------------------------------------------------------------
(* kcrtc.c *)

GET_MALLOC_HEADER(ptr) == ptr - H
\* Mutant: the caller gets the address of the header.
HeaderAddress(header) == header

GET_MALLOC_ADDRESS(header) == header + H
GoodTag(ptr) == mem[GET_MALLOC_HEADER(ptr)] = Tag
HeaderSize(ptr) == mem[GET_MALLOC_HEADER(ptr) + 1]
NewSize(size) == (size + H) % M

\* The block at `a' is taken, zeroed and given its header.
MallocAt(a, size) ==
    /\ blocks' = With(blocks, a, NewSize(size))
    /\ mem' = [x \in Addr |->
                 IF x = a THEN Tag
                 ELSE IF x = a + 1 THEN size
                 ELSE IF x \in Cells(a, NewSize(size)) THEN 0
                 ELSE mem[x]]

\* What a caller may rely on after realloc: its own data up to the new length,
\* and whatever the block holds beyond it.
Resized(data, ptr, len) ==
    [i \in 0..len - 1 |-> IF i \in DOMAIN data THEN data[i] ELSE mem[ptr + i]]

\* malloc and calloc hand out zeroed memory of the size asked for.
Take(t, size, len) ==
    /\ Running(t)
    /\ \E a \in PoolRoom(NewSize(size)) :
          /\ MallocAt(a, size)
          /\ live' = With(live, GET_MALLOC_ADDRESS(a), [i \in 0..len - 1 |-> 0])
    /\ UNCHANGED <<grow, stop>>

Malloc(t, size) == Take(t, size, size)

Calloc(t, count, size) == Take(t, (count * size) % M, count * size)

Free(t, ptr) ==
    /\ Running(t)
    /\ ptr \in DOMAIN live \ Busy
    /\ IF GoodTag(ptr)
       THEN PoolFree(GET_MALLOC_HEADER(ptr)) /\ UNCHANGED stop
       ELSE stop' = "BAD_POOL_HEADER" /\ UNCHANGED <<mem, blocks>>
    /\ live' = Without(live, ptr)
    /\ UNCHANGED grow

\* realloc(NULL, n) is malloc(n), realloc(p, 0) is free(p).  Otherwise a block
\* that is large enough stays, with the Size it had.
ReallocInPlace(t, ptr, size) ==
    /\ Running(t)
    /\ ptr \in DOMAIN live \ Busy
    /\ size > 0
    /\ \/ /\ ~GoodTag(ptr)
          /\ stop' = "BAD_POOL_HEADER"
          /\ UNCHANGED live
       \/ /\ GoodTag(ptr)
          /\ size <= HeaderSize(ptr)
          /\ live' = [live EXCEPT ![ptr] = Resized(@, ptr, size)]
          /\ UNCHANGED stop
    /\ UNCHANGED <<mem, blocks, grow>>

ReallocMalloc(t, ptr, size) ==
    /\ Running(t)
    /\ ptr \in DOMAIN live \ Busy
    /\ GoodTag(ptr) /\ size > HeaderSize(ptr)
    /\ \E a \in PoolRoom(NewSize(size)) :
          /\ MallocAt(a, size)
          /\ grow' = [grow EXCEPT ![t] =
                        [old |-> ptr, new |-> GET_MALLOC_ADDRESS(a),
                         size |-> HeaderSize(ptr), copied |-> FALSE]]
    /\ UNCHANGED <<live, stop>>

\* Mutant: the copy is one cell short.
ReallocCopyShort(t) ==
    LET r == grow[t] IN
    /\ stop = "none"
    /\ r # Idle /\ ~r.copied
    /\ mem' = [x \in Addr |-> IF x \in Cells(r.new, r.size - 1)
                              THEN mem[r.old + (x - r.new)] ELSE mem[x]]
    /\ grow' = [grow EXCEPT ![t].copied = TRUE]
    /\ UNCHANGED <<blocks, live, stop>>

ReallocCopy(t) ==
    LET r == grow[t] IN
    /\ stop = "none"
    /\ r # Idle /\ ~r.copied
    /\ mem' = [x \in Addr |-> IF x \in Cells(r.new, r.size)
                              THEN mem[r.old + (x - r.new)] ELSE mem[x]]
    /\ grow' = [grow EXCEPT ![t].copied = TRUE]
    /\ UNCHANGED <<blocks, live, stop>>

\* Mutant: the old block is not freed when the data has moved.
ReallocKeepsOld(t) ==
    LET r == grow[t] IN
    /\ stop = "none"
    /\ r # Idle /\ r.copied
    /\ live' = With(Without(live, r.old), r.new,
                    Resized(live[r.old], r.new, HeaderSize(r.new)))
    /\ grow' = [grow EXCEPT ![t] = Idle]
    /\ UNCHANGED <<mem, blocks, stop>>

ReallocFree(t) ==
    LET r == grow[t] IN
    /\ stop = "none"
    /\ r # Idle /\ r.copied
    /\ IF GoodTag(r.old)
       THEN PoolFree(GET_MALLOC_HEADER(r.old)) /\ UNCHANGED stop
       ELSE stop' = "BAD_POOL_HEADER" /\ UNCHANGED <<mem, blocks>>
    /\ live' = With(Without(live, r.old), r.new,
                    Resized(live[r.old], r.new, HeaderSize(r.new)))
    /\ grow' = [grow EXCEPT ![t] = Idle]

-----------------------------------------------------------------------------
(* kernel_stl.cpp; operator delete is free, EASTL's operator new[] is malloc *)

New(t, size) ==
    LET n == IF size = 0 THEN 1 ELSE size IN
    \/ Take(t, n, size)
    \/ /\ Running(t)
       /\ stop' = "MUST_SUCCEED_POOL_EMPTY"
       /\ UNCHANGED <<mem, blocks, live, grow>>

\* A caller's own store.
Store(t, ptr, i, v) ==
    /\ Running(t)
    /\ ptr \in DOMAIN live \ Busy
    /\ i \in DOMAIN live[ptr]
    /\ mem' = [mem EXCEPT ![ptr + i] = v]
    /\ live' = [live EXCEPT ![ptr][i] = v]
    /\ UNCHANGED <<blocks, grow, stop>>

Call(t) ==
    \/ \E size \in Request : Malloc(t, size) \/ New(t, size)
    \/ \E count, size \in Request : count * size \in Request /\ Calloc(t, count, size)
    \/ \E ptr \in DOMAIN live :
          \/ Free(t, ptr)
          \/ \E size \in Request : ReallocInPlace(t, ptr, size) \/ ReallocMalloc(t, ptr, size)
          \/ \E i \in DOMAIN live[ptr], v \in Value : Store(t, ptr, i, v)
    \/ ReallocCopy(t) \/ ReallocFree(t)

Next == \E t \in Thread : Call(t)

Spec == Init /\ [][Next]_vars

-----------------------------------------------------------------------------
(* Properties *)

Growing == {t \in Thread : grow[t] # Idle}

TypeOK ==
    /\ mem \in [Addr -> Nat \cup {Tag, Junk}]
    /\ DOMAIN blocks \subseteq Addr
    /\ \A b \in DOMAIN blocks : blocks[b] \in Nat /\ Cells(b, blocks[b]) \subseteq Addr
    /\ \A p \in DOMAIN live : GET_MALLOC_HEADER(p) \in Addr /\ live[p] \in [DOMAIN live[p] -> Nat]
    /\ grow \in [Thread -> [old : Nat \cup {NULL}, new : Nat \cup {NULL},
                            size : Nat, copied : BOOLEAN]]
    /\ stop \in {"none", "BAD_POOL_HEADER", "MUST_SUCCEED_POOL_EMPTY"}

\* Every pool block belongs to one pointer a caller has or to a realloc under
\* way: nothing leaks, also not when realloc moves or refuses, and no pointer
\* outlives its block; and free finds its tag in front of every pointer, so that
\* callers who keep to the rules never see BAD_POOL_HEADER.
BlocksAccounted ==
    /\ stop # "BAD_POOL_HEADER"
    /\ DOMAIN blocks = {GET_MALLOC_HEADER(p) : p \in DOMAIN live} \cup
                       {GET_MALLOC_HEADER(grow[t].new) : t \in Growing}

\* The memory behind the callers' pointers is an abstract heap: blocks that share no
\* cell, zeroed when they are handed out, written by their owner alone and kept up to
\* the shorter length by realloc, through every step of anyone.
Heap == INSTANCE AbstractHeap WITH
    Pointer <- 0..PoolSize, Length <- 0..PoolSize, Stored <- Value,
    heap <- [p \in DOMAIN live |-> [i \in DOMAIN live[p] |-> mem[p + i]]]
HeapSpec == Heap!Spec
=============================================================================
