------------------------------ MODULE MCFlowGC ------------------------------
(* Instances of FlowGC for TLC: one tuple, the L1 cache off. *)
EXTENDS FlowGC

CONSTANTS c1, k1, s1

Short == [mode |-> "enforce", oos_out_strict |-> FALSE,
          allow_inbound_servers |-> FALSE, allow_inbound_syn |-> FALSE,
          drop_bad_flags |-> TRUE, filter_udp |-> TRUE, reject_with_rst |-> FALSE,
          ttl_syn |-> 1, ttl_est |-> 1, ttl_closing |-> 1, ttl_udp |-> 1]
Long  == [Short EXCEPT !.ttl_est = 2]

TwoTtls    == {Short, Long}
OneTtl     == {Short}
OneSlot    == [k \in Key |-> "slot"]
AllSlots   == {"slot"}
OneServer  == [k \in Key |-> s1]
HostFlags  == {{"SYN"}, {"ACK"}}
AckOnly    == {{"ACK"}}
=============================================================================
