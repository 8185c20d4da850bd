----------------------------- MODULE Extraction -----------------------------
(***************************************************************************)
(* What the extraction of a document promises to whoever reads its chunks: *)
(* no jobs, windows, budgets or faults, only which pages have text and how *)
(* far the extraction can be relied upon.  IngestionRun implements it.     *)
(***************************************************************************)
EXTENDS Naturals

CONSTANTS
    Pages,          \* pages of the document
    Digital         \* the pages with a text layer

VARIABLES
    phase,          \* pending, ready or failed
    upTo,           \* the page from which an interrupted extraction resumes
    have            \* the pages whose text is stored

xvars == <<phase, upTo, have>>

Init == phase = "pending" /\ upTo = 0 /\ have = {}

\* A fresh run clears what an earlier one left; never behind a checkpoint, and
\* never under the readers of a ready document.
Clear ==
    /\ phase = "pending" /\ upTo = 0
    /\ have' = {}
    /\ UNCHANGED <<phase, upTo>>

\* Text is added past the checkpoint only.
Store ==
    /\ phase = "pending"
    /\ \E new \in SUBSET ((upTo + 1)..Pages) : have' = have \cup new
    /\ UNCHANGED <<phase, upTo>>

\* The checkpoint passes no page whose text could be lost.
Advance ==
    /\ phase = "pending"
    /\ \E n \in (upTo + 1)..Pages :
          upTo' = n /\ Digital \cap (1..n) \subseteq have
    /\ UNCHANGED <<phase, have>>

\* The run is over: the next one starts at page one.
Close ==
    /\ upTo' = 0
    /\ UNCHANGED <<phase, have>>

Finish ==
    /\ phase = "pending" /\ upTo = Pages /\ Digital \subseteq have
    /\ phase' = "ready"
    /\ UNCHANGED <<upTo, have>>

Fail ==
    /\ phase = "pending"
    /\ phase' = "failed"
    /\ UNCHANGED <<upTo, have>>

\* The upload is confirmed again.
Reopen ==
    /\ phase # "pending"
    /\ phase' = "pending"
    /\ UNCHANGED <<upTo, have>>

Next == Clear \/ Store \/ Advance \/ Close \/ Finish \/ Fail \/ Reopen

Spec == Init /\ [][Next]_xvars
=============================================================================
