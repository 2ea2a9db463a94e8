--------------------------- MODULE MCBreakpoints ---------------------------
(* Instances of Breakpoints for TLC: three addresses, the last one an int3 of *)
(* the guest's own, each mapped to a physical address of its own.             *)
EXTENDS Breakpoints

TwoCores    == {1, 2}
ThreeAddrs  == {1, 2, 3}
Identity    == [a \in ThreeAddrs |-> a]
OwnInt3     == {3}
TwoBpAddrs  == {1, 2}
EveryOrTwo  == {AllCores, 2}
=============================================================================
