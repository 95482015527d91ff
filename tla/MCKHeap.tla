------------------------------- MODULE MCKHeap -------------------------------
(* Small instance: a pool with room for two or three small blocks, so that *)
(* blocks are neighbours and the pool runs out.                            *)
EXTENDS KHeap
=============================================================================
