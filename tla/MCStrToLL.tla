----------------------------- MODULE MCStrToLL -----------------------------
(* Small instance: a six-bit long long, so that the limit 31 and numbers on *)
(* both sides of it are within a few digits in every base.                  *)
EXTENDS StrToLL
=============================================================================
