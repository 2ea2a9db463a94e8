------------------------------ MODULE MCKdHalt ------------------------------
(* Instances of KdHalt for TLC: the sets of commands the runs use.           *)
EXTENDS KdHalt

Switching  == {"continue", "pauseBreaks", "changeCore"}
Stepping   == {"continue", "pauseBreaks", "stepIn"}
=============================================================================
