---------------------------- MODULE GenerateOnce ----------------------------
(***************************************************************************)
(* What the final project of a course and the certificate of a student     *)
(* promise: nothing is made before the gate opens, the first request that  *)
(* makes one makes it for good, and whoever is answered is answered that   *)
(* one, however many ask at once.                                          *)
(***************************************************************************)
EXTENDS Naturals

CONSTANT Makers     \* requests, numbered from 1

VARIABLES
    open,           \* the gate
    row,            \* who made the one there is, or 0
    told            \* the ones answered

Init == ~open /\ row = 0 /\ told = {}

Unlock == ~open /\ open' /\ UNCHANGED <<row, told>>

Make(r) ==
    /\ open /\ row = 0
    /\ row' = r /\ told' = told \cup {r}
    /\ UNCHANGED open

Tell ==
    /\ row # 0
    /\ told' = told \cup {row}
    /\ UNCHANGED <<open, row>>

Next == Unlock \/ Tell \/ \E r \in Makers : Make(r)

Spec == Init /\ [][Next]_<<open, row, told>>
=============================================================================
