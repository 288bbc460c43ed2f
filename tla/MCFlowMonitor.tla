---------------------------- MODULE MCFlowMonitor ----------------------------
(* Instances of FlowMonitor for TLC. *)
EXTENDS FlowMonitor
CONSTANTS c1, c2, k1

All    == [enabled |-> TRUE, sample |-> 1, cidrs |-> {k1}]
Half   == [enabled |-> TRUE, sample |-> 2, cidrs |-> {k1}]
Off    == [enabled |-> FALSE, sample |-> 2, cidrs |-> {k1}]
NoRule == [enabled |-> TRUE, sample |-> 2, cidrs |-> {}]

Toggles  == {All, Half, Off, NoRule}
=============================================================================
