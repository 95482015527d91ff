---------------------------- MODULE AbstractHeap ----------------------------
(***************************************************************************)
(* What malloc, calloc, realloc, free, new and delete promise together:    *)
(* blocks of memory that share no cell, zeroed at first, whose contents    *)
(* nobody but their owner changes; a block that grows or shrinks keeps its *)
(* contents up to the shorter length, also when it moves.  It says nothing *)
(* of headers, tags, the pool, the copying or the threads; KHeap is shown  *)
(* to implement it.                                                        *)
(***************************************************************************)
EXTENDS Integers

CONSTANTS Pointer,   \* addresses a block may have
          Length,    \* lengths a block may have
          Stored     \* what owners write

VARIABLE heap        \* the blocks: pointer |-> contents

Cells(p, len) == p..p + len - 1
CellsOf(p) == {p + i : i \in DOMAIN heap[p]}

\* A block of len cells at p would be one of its own beside the blocks at others.
Fits(p, len, others) ==
    /\ p \notin others
    /\ \A q \in others : Cells(p, len) \cap CellsOf(q) = {}

Init == heap = <<>>

Alloc(p, len) ==
    /\ Fits(p, len, DOMAIN heap)
    /\ heap' = [q \in DOMAIN heap \cup {p} |-> IF q = p THEN [i \in 0..len - 1 |-> 0] ELSE heap[q]]

Release(p) ==
    heap' = [q \in DOMAIN heap \ {p} |-> heap[q]]

\* The block at p, now at q: in its place, or apart from all blocks, the old one too.
Resize(p, q, len) ==
    LET others == DOMAIN heap \ {p}
    IN  /\ Fits(q, len, IF q = p THEN others ELSE DOMAIN heap)
        /\ q \in DOMAIN heap' /\ heap'[q] \in [0..len - 1 -> Nat]
        /\ \A i \in 0..len - 1 : i \in DOMAIN heap[p] => heap'[q][i] = heap[p][i]
        /\ heap' = [r \in others \cup {q} |-> IF r = q THEN heap'[q] ELSE heap[r]]

Write(p, i, v) ==
    heap' = [heap EXCEPT ![p][i] = v]

Next ==
    \/ \E p \in Pointer, len \in Length : Alloc(p, len)
    \/ \E p \in DOMAIN heap :
          \/ Release(p)
          \/ \E q \in Pointer, len \in Length : Resize(p, q, len)
          \/ \E i \in DOMAIN heap[p], v \in Stored : Write(p, i, v)

Spec == Init /\ [][Next]_heap
=============================================================================
