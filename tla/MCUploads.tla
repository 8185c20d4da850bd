----------------------------- MODULE MCUploads -----------------------------
(* Two uploads at a time, four courses, a file of one byte and one of two.  *)
EXTENDS Uploads, TLC

CONSTANTS small, large
FileBytes == (small :> 1) @@ (large :> 2)
Alike == Permutations(Courses) \cup Permutations(Requests)
=============================================================================
