---------------------------- MODULE MCPathObject ----------------------------
(* Small instance: every path of up to four segments over two names, each   *)
(* call on it, and starting directories deep enough to climb out of.        *)
EXTENDS PathObject

CONSTANTS a, b
MCStart == {<<>>, <<a>>, <<b, a>>}
=============================================================================
