---------------------------- MODULE MCFileStream ----------------------------
(* Small instance: 2^32 is 8, so that long is -4..3, and files reach beyond *)
(* the sign bit and beyond a whole word.                                    *)
EXTENDS FileStream

MCOffset == {-2, 0, 5, 9}
=============================================================================
