----------------------------- MODULE MCSharing -----------------------------
(* One course, its owner and a student, two requests at a time.  Request   *)
(* slots are alike, and so are invite codes.                               *)
EXTENDS Sharing, TLC

Alike == Permutations(Requests) \cup Permutations(Codes)
=============================================================================
