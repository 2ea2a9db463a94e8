---------------------------- MODULE MCEventList ----------------------------
(* The list of events with two cores: an event for every exit, and one for *)
(* a single core and with a condition.                                     *)
EXTENDS EventList

CONSTANT c1

AnyExit == [core |-> All, param |-> All, cond |-> FALSE]
TwoFilters == {AnyExit, [core |-> c1, param |-> "x", cond |-> TRUE]}
=============================================================================
