---------------------------- MODULE MCAssessment ----------------------------
(* One module of two subtopics and two concepts, four requests.            *)
EXTENDS Assessment
=============================================================================
