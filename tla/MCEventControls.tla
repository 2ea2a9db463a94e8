--------------------------- MODULE MCEventControls ---------------------------
(* Instances of EventControls for TLC. *)
EXTENDS EventControls

Core1 == {0}
Core2 == {0, 1}
OnePort == {80}
TwoMsrs == {1, 2}
CrMasks == {{"wp"}}

\* One mask per register: two events on one register then agree.
ParamsOneMask ==
  [t \in EventTypes |->
     CASE t = "exception" -> {PF, BP, All}
       [] t \in {"in", "out"} -> Ports \cup {All}
       [] t \in {"rdmsr", "wrmsr"} -> Msrs \cup {All}
       [] t = "cr" -> [reg : CrRegs, mask : Masks]
       [] OTHER -> {All}]

\* One type of each pair that shares a control.
OneOfEachPair == EventTypes \ {"out", "syscall"}
==============================================================================
