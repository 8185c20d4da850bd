--------------------------- MODULE MCIngestionRun ---------------------------
(* Pages with and without a text layer on either side of every window and  *)
(* hand-off: windows end at 2, 4, 6, 8 and 9, jobs at 4, 8 and 9.          *)
EXTENDS IngestionRun

MixedScanned == {2, 3, 6, 9}
MixedBlank == {3}
=============================================================================
