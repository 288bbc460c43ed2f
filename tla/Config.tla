------------------------------- MODULE Config -------------------------------
(***************************************************************************)
(* The configuration (internal/config/config.go) as a record: its defaults,*)
(* what Validate() rejects and what it silently repairs, what a change     *)
(* costs, and what a running daemon takes over without a restart.  Fields  *)
(* have their YAML names; the Tuning block is one field.                   *)
(***************************************************************************)
EXTENDS Integers, Sequences, FiniteSets, FiniteSetsExt, SequencesExt

CONSTANTS
    Canon,      \* the server texts ParseHostPort accepts, with their canonical spelling
    Cidrs       \* the texts that are canonical IPv4 CIDRs

ASSUME ConfigConstants ==
    /\ DOMAIN Canon \subseteq STRING
    /\ \A s \in DOMAIN Canon : Canon[s] \in DOMAIN Canon

ReattachFields == {"trusted_iface", "untrusted_iface", "xdp_mode", "pin_dir"}
RestartFields  == {"flow_max", "udp_flow_max", "l1_size", "lru_percpu", "tune", "stats_dir",
                   "stats_interval", "gc_interval", "housekeeping_core", "max_flows", "tuning"}
LiveFields     == {"mode", "oos_strict", "allow_inbound_servers", "allow_inbound_syn",
                   "server_allow", "drop_frags", "drop_bad_flags", "filter_udp", "drop_vlan_deep",
                   "drop_udp_frags", "reject_with_rst", "ttl_syn", "ttl_est", "ttl_closing",
                   "ttl_udp", "enabled", "sample_every", "cidrs"}
Field == ReattachFields \cup RestartFields \cup LiveFields

Default ==
    [trusted_iface |-> "", untrusted_iface |-> "", mode |-> "monitor", oos_strict |-> FALSE,
     allow_inbound_servers |-> FALSE, allow_inbound_syn |-> FALSE, server_allow |-> <<>>,
     drop_frags |-> TRUE, drop_bad_flags |-> TRUE, filter_udp |-> TRUE, drop_vlan_deep |-> FALSE,
     drop_udp_frags |-> FALSE, reject_with_rst |-> FALSE,
     flow_max |-> 2^24, udp_flow_max |-> 2^22, l1_size |-> 2^16, lru_percpu |-> FALSE,
     ttl_syn |-> 10, ttl_est |-> 300, ttl_closing |-> 10, ttl_udp |-> 30,
     xdp_mode |-> "native", tune |-> TRUE, stats_dir |-> "stats", stats_interval |-> 10,
     gc_interval |-> 2, housekeeping_core |-> -1, pin_dir |-> "pin",
     enabled |-> FALSE, sample_every |-> 64, max_flows |-> 2^18, cidrs |-> <<>>, tuning |-> "auto"]

----------------------------------------------------------------------------
(* Validate, Load *)

PowersOfTwo(n) == {2^i : i \in 0 .. n}

\* A value Validate replaces instead of rejecting it, and what it puts there.
Unset(f, v) ==
    \/ f = "udp_flow_max" /\ v < 1024
    \/ f = "l1_size" /\ v \in 1 .. 1023
    \/ f \in {"ttl_udp", "sample_every", "max_flows"} /\ v = 0
    \/ f \in {"stats_dir", "pin_dir"} /\ v = ""
    \/ f \in {"stats_interval", "gc_interval"} /\ v <= 0

Substitute == [Default EXCEPT !.l1_size = 1024]

Repaired(c) == [f \in DOMAIN c |-> IF Unset(f, c[f]) THEN Substitute[f] ELSE c[f]]

RuleValid(r) == r.cidr \in Cidrs /\ r.mbps >= 0 /\ (r.pps # 0 \/ r.mbps # 0)

Unique(seq) == \A i, j \in DOMAIN seq : seq[i] = seq[j] => i = j

validateFlowMonitoring(c) ==
    /\ c.sample_every \in PowersOfTwo(16)
    /\ c.max_flows \in 1024 .. 2^20
    /\ Len(c.cidrs) <= 4096
    /\ \A i \in DOMAIN c.cidrs : RuleValid(c.cidrs[i])
    /\ Unique([i \in DOMAIN c.cidrs |-> c.cidrs[i].cidr])

Validate(raw) ==
    LET c == Repaired(raw)
    IN /\ c.trusted_iface # "" /\ c.untrusted_iface # "" /\ c.trusted_iface # c.untrusted_iface
       /\ c.mode \in {"monitor", "enforce"}
       /\ c.xdp_mode \in {"native", "generic", "auto"}
       /\ c.flow_max >= 1024
       /\ c.l1_size = 0 \/ c.l1_size \in PowersOfTwo(30)
       /\ \A i \in DOMAIN c.server_allow : c.server_allow[i] \in DOMAIN Canon
       /\ validateFlowMonitoring(c)

\* A file that does not exist or does not parse has no fields.
Unreadable == [f \in {} |-> 0]

\* Load takes any field the file leaves out from Default.
Loadable(file) == file # Unreadable /\ Validate(file)
Load(file) == Repaired(file)

----------------------------------------------------------------------------
(* What a change costs, and what a running daemon takes over *)

None     == 0
Live     == 1
Restart  == 2
Reattach == 3

ImpactOf(f) == IF f \in ReattachFields THEN Reattach ELSE IF f \in RestartFields THEN Restart ELSE Live

Diff(a, b) == {f \in Field : a[f] # b[f]}

Impact(fields) == Max({None} \cup {ImpactOf(f) : f \in fields})

CopiesToggles(c, src) ==
    [c EXCEPT !.mode = src.mode, !.oos_strict = src.oos_strict, !.server_allow = src.server_allow,
              !.ttl_syn = src.ttl_syn, !.ttl_est = src.ttl_est, !.ttl_closing = src.ttl_closing,
              !.ttl_udp = src.ttl_udp, !.enabled = src.enabled, !.cidrs = src.cidrs]

ApplyLiveFrom(c, src) ==
    [c EXCEPT !.mode = src.mode, !.oos_strict = src.oos_strict,
              !.allow_inbound_servers = src.allow_inbound_servers,
              !.allow_inbound_syn = src.allow_inbound_syn,
              !.drop_frags = src.drop_frags, !.drop_bad_flags = src.drop_bad_flags,
              !.filter_udp = src.filter_udp, !.drop_vlan_deep = src.drop_vlan_deep,
              !.drop_udp_frags = src.drop_udp_frags, !.reject_with_rst = src.reject_with_rst,
              !.server_allow = src.server_allow,
              !.ttl_syn = src.ttl_syn, !.ttl_est = src.ttl_est, !.ttl_closing = src.ttl_closing,
              !.ttl_udp = src.ttl_udp, !.enabled = src.enabled,
              !.sample_every = src.sample_every, !.cidrs = src.cidrs]
=============================================================================
