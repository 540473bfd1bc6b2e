----------------------------- MODULE MCSplitText -----------------------------
(***************************************************************************)
(* Every text up to twenty characters, with chunks of one to five and      *)
(* overlaps of none to six: multiples of the step, the remainders between  *)
(* them, and overlaps that swallow the chunk.                              *)
(***************************************************************************)
EXTENDS SplitText

MCLengths == 0 .. 20
MCSizes == 1 .. 5
MCOverlaps == 0 .. 6
=============================================================================
