----------------------------- MODULE MCDatapath -----------------------------
(* Instances of Datapath for TLC. *)
EXTENDS Datapath, TLC

CONSTANTS c1, c2, k1, k2, s1

Strict == [mode |-> "enforce", oos_out_strict |-> TRUE,
           allow_inbound_servers |-> FALSE, allow_inbound_syn |-> FALSE,
           drop_bad_flags |-> TRUE, filter_udp |-> TRUE, reject_with_rst |-> TRUE,
           ttl_syn |-> 1, ttl_est |-> 2, ttl_closing |-> 1, ttl_udp |-> 1]

\* Default() of config.go with the server allowlist on.
Servers == [Strict EXCEPT !.oos_out_strict = FALSE, !.allow_inbound_servers = TRUE,
                          !.reject_with_rst = FALSE]

\* Everything optional off, inbound SYNs allowed anywhere.
Loose == [Strict EXCEPT !.mode = "monitor", !.oos_out_strict = FALSE,
                        !.allow_inbound_syn = TRUE, !.drop_bad_flags = FALSE,
                        !.filter_udp = FALSE, !.ttl_est = 1]

PolicySet    == {Strict, Servers, Loose}
ServerPolicy == {Servers}
OneSlot      == [k \in Key |-> "slot"]
AllSlots     == {"slot"}
OneServer    == [k \in Key |-> s1]
Symmetric    == Permutations(CPU)

TcpFlagSets == {{"SYN"}, {"SYN", "ACK"}, {"ACK"}, {"FIN", "ACK"}, {"RST"}, {"RST", "ACK"}, {}}
L1FlagSets  == {{"ACK"}}
=============================================================================
