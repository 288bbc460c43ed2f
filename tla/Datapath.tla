------------------------------ MODULE Datapath ------------------------------
(***************************************************************************)
(* The per-packet state machine of bpf/filter.bpf.c: one XDP program       *)
(* attached to the trusted port ("T") and to the untrusted port ("U"),     *)
(* both working on the shared maps flows, udp_flows, features and          *)
(* server_allow and on a per-CPU L1 cache.  One action is one branch of    *)
(* the packet's path through xdp_filter(); a packet is one atomic step     *)
(* (two CPUs inside the same packet path are left to a finer model).       *)
(*                                                                         *)
(* A packet is abstracted to what the handlers tell apart: the port it     *)
(* arrives on, its normalised flow_key, its TCP flags, seq and ack.  A     *)
(* map slot whose state is "NONE" is an absent entry.                      *)
(***************************************************************************)
EXTENDS Naturals, FiniteSets

CONSTANTS
    CPU,        \* CPUs; each owns one L1 cache
    Key,        \* normalised flow keys
    Slot,       \* L1 slots
    L1Index,    \* l1_index(): which slot a key maps to
    L1Enabled,  \* L1_MASK # 0
    Server,     \* (host_ip, host_port) pairs
    SrvKey,     \* the srv_key of a flow key
    FlagSets,   \* the TCP flag combinations that occur on the wire
    SeqMod,     \* sequence numbers wrap modulo SeqMod (2^32 in the code)
    Policies,   \* the contents the features map can be given
    MaxTick     \* bound on the coarse clock

VARIABLES
    now,          \* bpf_ktime_get_coarse_ns() >> NOW_SHIFT
    features,     \* the features map
    server_allow, \* the server_allow map: a set of servers
    flows,        \* TCP flow table
    udp_flows,    \* UDP pseudo-flow table
    l1,           \* l1cache: per CPU, per slot
    out,          \* what became of the packet handled last
    seen,         \* history: tick of the last packet after which the
                  \*   authoritative table held the key
    synIsn        \* history: sequence number of the host's last lone SYN

env   == <<now, features, server_allow>>
hist  == <<seen, synIsn>>
vars  == <<now, features, server_allow, flows, udp_flows, l1, out, seen, synIsn>>

TCPFlags == {"FIN", "SYN", "RST", "PSH", "ACK", "URG"}
SeqNo    == 0 .. SeqMod - 1
Proto    == {"tcp", "udp"}
Side     == {"T", "U"}

FlowVal == [state     : {"NONE", "SYN_SENT", "SYN_RCVD", "EST", "CLOSING", "UDP"},
            isn       : SeqNo,
            flags     : SUBSET {"ISN_VALID", "CLOSED_OUT"},
            last_seen : Nat]

L1Entry == [key : Key, last_seen : Nat, state : {"NONE", "EST", "UDP"}]

Features == [mode : {"monitor", "enforce"}, oos_out_strict : BOOLEAN,
             allow_inbound_servers : BOOLEAN, allow_inbound_syn : BOOLEAN,
             drop_bad_flags : BOOLEAN, filter_udp : BOOLEAN,
             reject_with_rst : BOOLEAN,
             ttl_syn : Nat, ttl_est : Nat, ttl_closing : Nat, ttl_udp : Nat]

Reasons == {"none", "UNSOL_SYNACK", "BAD_ISN", "OOS_IN", "OOS_OUT", "OOS_RST",
            "INBOUND_SYN", "BAD_FLAGS", "UDP_OOS", "MAP_FAIL"}

Outcome == [side : Side, proto : Proto, key : Key, flags : SUBSET TCPFlags,
            act : {"forward", "drop", "rst"}, reason : Reasons]

\* No packet was handled in the last step.
AnyKey == CHOOSE k \in Key : TRUE
Idle   == [side |-> "none", proto |-> "none", key |-> AnyKey, flags |-> {},
           act |-> "idle", reason |-> "none"]

ASSUME ConstantsOK ==
    /\ Key # {} /\ SeqMod \in Nat \ {0} /\ MaxTick \in Nat
    /\ L1Index \in [Key -> Slot] /\ SrvKey \in [Key -> Server]
    /\ L1Enabled \in BOOLEAN
    /\ FlagSets \subseteq SUBSET TCPFlags
    /\ Policies \subseteq Features

----------------------------------------------------------------------------
(* Helpers of the packet path *)

Absent == [state |-> "NONE", isn |-> 0, flags |-> {}, last_seen |-> 0]

Present(v) == v.state # "NONE"

ttl_for(st) == CASE st = "EST"     -> features.ttl_est
                 [] st = "CLOSING" -> features.ttl_closing
                 [] st = "UDP"     -> features.ttl_udp
                 [] OTHER          -> features.ttl_syn

\* A stamp from the future counts as fresh.
expired(v) == now >= v.last_seen /\ now - v.last_seen > ttl_for(v.state)

LiveIgnoringTtl(v) == Present(v)

Live(v) == Present(v) /\ ~expired(v)

MovedAfresh(v, st, fls) == [state |-> st, isn |-> 0, flags |-> fls, last_seen |-> now]

\* An entry rewritten in place: new state and flags, same ISN, touch()ed.
Moved(v, st, fls) == [state |-> st, isn |-> v.isn, flags |-> fls, last_seen |-> now]

bad_flags(fl) ==
    \/ fl = {}
    \/ {"SYN", "FIN"} \subseteq fl
    \/ {"SYN", "RST"} \subseteq fl
    \/ {"FIN", "PSH", "URG"} \subseteq fl
    \/ "FIN" \in fl /\ "ACK" \notin fl

LoneSyn(fl) == "SYN" \in fl /\ "ACK" \notin fl
SynAck(fl)  == "SYN" \in fl /\ "ACK" \in fl

\* The ack an ISN calls for: 32-bit wrap-around addition.
AckOf(isn) == (isn + 1) % SeqMod

L1Ok(fl) == L1Enabled /\ fl \cap {"SYN", "FIN", "RST"} = {} /\ "ACK" \in fl

l1_hit(c, k, want) ==
    LET e == l1[c][L1Index[k]]
    IN  e.last_seen = now /\ e.state = want /\ e.key = k

l1_put_keeping_key(c, k, st) ==
    l1' = [l1 EXCEPT ![c][L1Index[k]] =
              [key |-> IF @.state = "NONE" THEN k ELSE @.key, last_seen |-> now, state |-> st]]

l1_put(c, k, st) ==
    l1' = [l1 EXCEPT ![c][L1Index[k]] = [key |-> k, last_seen |-> now, state |-> st]]

\* A segment the handlers see: neither rejected for its flags nor served by L1.
BadFlagDrop(fl) == features.drop_bad_flags /\ ~L1Ok(fl) /\ bad_flags(fl)
SlowPath(c, k, fl) == ~BadFlagDrop(fl) /\ ~(L1Ok(fl) /\ l1_hit(c, k, "EST"))

\* do_forward, do_drop and do_drop_tcp: the verdict of a packet.
Verdict(side, p, k, fl, act, rsn) ==
    out' = [side |-> side, proto |-> p, key |-> k, flags |-> fl,
            act |-> act, reason |-> rsn]

do_forward(side, p, k, fl, rsn) == Verdict(side, p, k, fl, "forward", rsn)

DropAct == IF features.mode = "enforce" THEN "drop" ELSE "forward"

do_drop(side, p, k, fl, rsn) == Verdict(side, p, k, fl, DropAct, rsn)

do_drop_tcp(side, k, fl, rsn) ==
    Verdict(side, "tcp", k, fl,
            IF side = "U" /\ features.mode = "enforce" /\ features.reject_with_rst
            THEN "rst" ELSE DropAct,
            rsn)

\* A refused packet changes no map.
Refuse(side, k, fl, rsn) ==
    do_drop_tcp(side, k, fl, rsn) /\ UNCHANGED <<env, flows, udp_flows, l1, hist>>

----------------------------------------------------------------------------
(* History variables *)

Evidence(p, k) == seen' = [seen EXCEPT ![p][k] = now]

----------------------------------------------------------------------------
(* TCP, either port: the two ways out before the handlers *)

BadFlags(side, k, fl) ==
    BadFlagDrop(fl) /\ Refuse(side, k, fl, "BAD_FLAGS")

L1Forward(c, side, k, fl) ==
    /\ L1Ok(fl) /\ l1_hit(c, k, "EST")
    /\ do_forward(side, "tcp", k, fl, "none")
    /\ UNCHANGED <<env, flows, udp_flows, l1, hist>>

----------------------------------------------------------------------------
(* handle_outbound: trusted -> internet.  This side owns state creation.   *)

\* The value of a connecting flow: the ISN its SYN-ACK has to acknowledge.
SynSentUnwrapped(seq) ==
    [state |-> "SYN_SENT", isn |-> seq + 1, flags |-> {"ISN_VALID"}, last_seen |-> now]

SynSentVal(seq) ==
    [state |-> "SYN_SENT", isn |-> seq, flags |-> {"ISN_VALID"}, last_seen |-> now]

\* bpf_map_update_elem may fail (LRU pressure): ok is its outcome.
OutSyn(k, fl, seq, ok) ==
    LET v  == flows[k]
        nv == SynSentVal(seq)
    IN /\ LoneSyn(fl) /\ ~BadFlagDrop(fl)
       /\ \/ /\ Present(v) \/ ok
             /\ flows' = [flows EXCEPT ![k] = nv]
             /\ do_forward("T", "tcp", k, fl, "none")
             /\ Evidence("tcp", k)
             /\ synIsn' = [synIsn EXCEPT ![k] = seq]
          \/ /\ ~Present(v) /\ ~ok
             /\ do_forward("T", "tcp", k, fl, "MAP_FAIL")
             /\ UNCHANGED <<flows, hist>>
       /\ UNCHANGED <<env, udp_flows, l1>>

OutRst(k, fl) ==
    LET v == flows[k]
    IN /\ ~LoneSyn(fl) /\ "RST" \in fl /\ ~BadFlagDrop(fl)
       /\ IF Present(v)
          THEN /\ flows' = [flows EXCEPT ![k] = Moved(v, "CLOSING", v.flags \cup {"CLOSED_OUT"})]
               /\ Evidence("tcp", k)
          ELSE UNCHANGED <<flows, seen>>
       /\ do_forward("T", "tcp", k, fl, "none")
       /\ UNCHANGED <<env, udp_flows, l1, synIsn>>

OutStateReopening(v, fl) ==
    CASE "FIN" \in fl                                          -> "CLOSING"
      [] "FIN" \notin fl /\ v.state = "SYN_RCVD" /\ "SYN" \in fl -> "SYN_RCVD"
      [] OTHER                                                 -> "EST"

\* The state a live flow moves to on an outbound segment without RST.
OutState(v, fl) ==
    CASE "FIN" \in fl                                          -> "CLOSING"
      [] "FIN" \notin fl /\ v.state = "CLOSING"                ->
            IF "CLOSED_OUT" \in v.flags THEN "CLOSING" ELSE "EST"
      [] "FIN" \notin fl /\ v.state = "SYN_RCVD" /\ "SYN" \in fl -> "SYN_RCVD"
      [] OTHER                                                 -> "EST"

OutLive(c, k, fl) ==
    LET v  == flows[k]
        st == OutState(v, fl)
    IN /\ ~LoneSyn(fl) /\ "RST" \notin fl /\ SlowPath(c, k, fl)
       /\ Live(v)
       /\ flows' = [flows EXCEPT ![k] =
             Moved(v, st, v.flags \cup IF "FIN" \in fl THEN {"CLOSED_OUT"} ELSE {})]
       /\ IF st = "EST" /\ L1Ok(fl) THEN l1_put(c, k, "EST") ELSE UNCHANGED l1
       /\ Evidence("tcp", k) /\ UNCHANGED synIsn
       /\ do_forward("T", "tcp", k, fl, "none")
       /\ UNCHANGED <<env, udp_flows>>

OutOfState(c, k, fl) ==
    ~LoneSyn(fl) /\ "RST" \notin fl /\ SlowPath(c, k, fl) /\ ~Live(flows[k])

OutStrict(c, k, fl) ==
    /\ OutOfState(c, k, fl) /\ features.oos_out_strict
    /\ Refuse("T", k, fl, "OOS_OUT")

\* Adopt a flow that began before the filter was inserted.  BPF_ANY replaces an
\* expired entry in place, but the element for the new value has to be allocated.
OutAdopt(c, k, fl, ok) ==
    LET fin == "FIN" \in fl
        nv  == [state |-> IF fin THEN "CLOSING" ELSE "EST", isn |-> 0,
                flags |-> IF fin THEN {"CLOSED_OUT"} ELSE {}, last_seen |-> now]
    IN /\ OutOfState(c, k, fl) /\ ~features.oos_out_strict
       /\ \/ /\ ok
             /\ flows' = [flows EXCEPT ![k] = nv]
             /\ IF ~fin /\ L1Ok(fl) THEN l1_put(c, k, "EST") ELSE UNCHANGED l1
             /\ Evidence("tcp", k)
             /\ UNCHANGED synIsn
             /\ do_forward("T", "tcp", k, fl, "none")
          \/ /\ ~ok
             /\ do_forward("T", "tcp", k, fl, "MAP_FAIL")
             /\ UNCHANGED <<flows, l1, hist>>
       /\ UNCHANGED <<env, udp_flows>>

TcpOut(c, k) ==
    \E fl \in FlagSets :
        \/ BadFlags("T", k, fl)
        \/ L1Forward(c, "T", k, fl)
        \/ \E seq \in SeqNo, ok \in BOOLEAN : OutSyn(k, fl, seq, ok)
        \/ OutRst(k, fl)
        \/ OutLive(c, k, fl)
        \/ OutStrict(c, k, fl)
        \/ \E ok \in BOOLEAN : OutAdopt(c, k, fl, ok)

----------------------------------------------------------------------------
(* handle_inbound: internet -> trusted.  Validates; inserts only for an    *)
(* inbound SYN the policy admits.                                          *)

InSynAck(k, fl, ack) ==
    LET v == flows[k]
    IN /\ SynAck(fl) /\ ~BadFlagDrop(fl)
       /\ \/ ~Live(v) /\ Refuse("U", k, fl, "UNSOL_SYNACK")
          \/ /\ Live(v)
             /\ \/ "ISN_VALID" \in v.flags /\ ack # AckOf(v.isn)
                \/ "ISN_VALID" \notin v.flags /\ v.state = "SYN_SENT"
             /\ Refuse("U", k, fl, "BAD_ISN")
          \/ /\ Live(v)
             /\ \/ "ISN_VALID" \in v.flags /\ ack = AckOf(v.isn)
                \/ "ISN_VALID" \notin v.flags /\ v.state # "SYN_SENT"
             /\ flows' = [flows EXCEPT ![k] =
                   Moved(v, IF v.state = "SYN_SENT" THEN "EST" ELSE v.state, v.flags)]
             /\ Evidence("tcp", k) /\ UNCHANGED synIsn
             /\ do_forward("U", "tcp", k, fl, "none")
             /\ UNCHANGED <<env, udp_flows, l1>>

SynAllowed(k) ==
    \/ features.allow_inbound_syn
    \/ features.allow_inbound_servers /\ SrvKey[k] \in server_allow

\* tok: the verdict of the two token buckets (TokenBucket.tla).
InSyn(k, fl, tok, ok) ==
    LET v  == flows[k]
        nv == [state |-> "SYN_RCVD", isn |-> 0, flags |-> {}, last_seen |-> now]
    IN /\ LoneSyn(fl) /\ ~BadFlagDrop(fl)
       /\ \/ ~(SynAllowed(k) /\ tok) /\ Refuse("U", k, fl, "INBOUND_SYN")
          \/ /\ SynAllowed(k) /\ tok
             /\ \/ /\ Live(v) /\ v.state # "CLOSING"
                   /\ do_forward("U", "tcp", k, fl, "none")
                   /\ UNCHANGED <<flows, hist>>
                \/ /\ ~(Live(v) /\ v.state # "CLOSING") /\ ok
                   /\ flows' = [flows EXCEPT ![k] = nv]
                   /\ do_forward("U", "tcp", k, fl, "none")
                   /\ Evidence("tcp", k)
                   /\ UNCHANGED synIsn
                \/ /\ ~(Live(v) /\ v.state # "CLOSING") /\ ~ok
                   /\ do_forward("U", "tcp", k, fl, "MAP_FAIL")
                   /\ UNCHANGED <<flows, hist>>
             /\ UNCHANGED <<env, udp_flows, l1>>

\* A reset of a connecting flow must acknowledge its SYN.
RstUnacked(v, fl, ack) ==
    /\ v.state = "SYN_SENT" /\ "ISN_VALID" \in v.flags
    /\ "ACK" \notin fl \/ ack # AckOf(v.isn)

InRst(k, fl, ack) ==
    LET v == flows[k]
    IN /\ "SYN" \notin fl /\ "RST" \in fl /\ ~BadFlagDrop(fl)
       /\ \/ /\ ~Live(v) \/ RstUnacked(v, fl, ack)
             /\ Refuse("U", k, fl, "OOS_RST")
          \/ /\ Live(v) /\ ~RstUnacked(v, fl, ack)
             /\ flows' = [flows EXCEPT ![k] = Moved(v, "CLOSING", v.flags)]
             /\ Evidence("tcp", k) /\ UNCHANGED synIsn
             /\ do_forward("U", "tcp", k, fl, "none")
             /\ UNCHANGED <<env, udp_flows, l1>>

InState(v, fl) == CASE "FIN" \in fl                            -> "CLOSING"
                    [] "FIN" \notin fl /\ v.state = "SYN_RCVD" -> "EST"
                    [] OTHER                                   -> v.state

InSegment(c, k, fl) ==
    LET v  == flows[k]
        st == InState(v, fl)
    IN /\ fl \cap {"SYN", "RST"} = {} /\ SlowPath(c, k, fl)
       /\ \/ ~Live(v) /\ Refuse("U", k, fl, "OOS_IN")
          \/ /\ Live(v)
             /\ flows' = [flows EXCEPT ![k] = Moved(v, st, v.flags)]
             /\ IF st = "EST" /\ L1Ok(fl) THEN l1_put(c, k, "EST") ELSE UNCHANGED l1
             /\ Evidence("tcp", k) /\ UNCHANGED synIsn
             /\ do_forward("U", "tcp", k, fl, "none")
             /\ UNCHANGED <<env, udp_flows>>

TcpIn(c, k) ==
    \E fl \in FlagSets :
        \/ BadFlags("U", k, fl)
        \/ L1Forward(c, "U", k, fl)
        \/ \E ack \in SeqNo : InSynAck(k, fl, ack) \/ InRst(k, fl, ack)
        \/ \E tok, ok \in BOOLEAN : InSyn(k, fl, tok, ok)
        \/ InSegment(c, k, fl)

----------------------------------------------------------------------------
(* UDP *)

UdpL1Hit(c, k) == L1Enabled /\ l1_hit(c, k, "UDP")

UdpCached(c, k) == IF L1Enabled THEN l1_put(c, k, "UDP") ELSE UNCHANGED l1

UdpL1Forward(c, side, k) ==
    /\ features.filter_udp /\ UdpL1Hit(c, k)
    /\ do_forward(side, "udp", k, {}, "none")
    /\ UNCHANGED <<env, flows, udp_flows, l1, hist>>

\* filter_udp off: UDP is forwarded transparently.
UdpUnfiltered(side, k) ==
    /\ ~features.filter_udp
    /\ do_forward(side, "udp", k, {}, "none")
    /\ UNCHANGED <<env, flows, udp_flows, l1, hist>>

UdpPut(k) == udp_flows' = [udp_flows EXCEPT ![k] =
                 [state |-> "UDP", isn |-> 0, flags |-> {}, last_seen |-> now]]

OutUdp(c, k, ok) ==
    /\ features.filter_udp /\ ~UdpL1Hit(c, k)
    /\ \/ /\ Present(udp_flows[k]) \/ ok
          /\ UdpPut(k) /\ UdpCached(c, k) /\ Evidence("udp", k)
          /\ do_forward("T", "udp", k, {}, "none")
       \/ /\ ~Present(udp_flows[k]) /\ ~ok
          /\ do_forward("T", "udp", k, {}, "MAP_FAIL")
          /\ UNCHANGED <<udp_flows, l1, seen>>
    /\ UNCHANGED <<env, flows, synIsn>>

InUdp(c, k) ==
    LET srv == features.allow_inbound_servers /\ SrvKey[k] \in server_allow
    IN /\ features.filter_udp /\ ~UdpL1Hit(c, k)
       /\ \/ /\ Live(udp_flows[k])
             /\ UdpPut(k) /\ UdpCached(c, k) /\ Evidence("udp", k)
             /\ do_forward("U", "udp", k, {}, "none")
          \/ /\ ~Live(udp_flows[k]) /\ srv
             /\ do_forward("U", "udp", k, {}, "none")
             /\ UNCHANGED <<udp_flows, l1, seen>>
          \/ /\ ~Live(udp_flows[k]) /\ ~srv
             /\ do_drop("U", "udp", k, {}, "UDP_OOS")
             /\ UNCHANGED <<udp_flows, l1, seen>>
       /\ UNCHANGED <<env, flows, synIsn>>

Udp(c, k) ==
    \/ \E side \in Side : UdpL1Forward(c, side, k) \/ UdpUnfiltered(side, k)
    \/ \E ok \in BOOLEAN : OutUdp(c, k, ok)
    \/ InUdp(c, k)

----------------------------------------------------------------------------
(* What happens around the packets *)

Packet == \E c \in CPU, k \in Key : TcpOut(c, k) \/ TcpIn(c, k) \/ Udp(c, k)

Tick ==
    /\ now < MaxTick
    /\ now' = now + 1 /\ out' = Idle
    /\ UNCHANGED <<features, server_allow, flows, udp_flows, l1, hist>>

\* ApplyFeatures and SetModePinned overwrite the whole features entry.
ApplyFeatures(f) ==
    /\ features' = f /\ out' = Idle
    /\ UNCHANGED <<now, server_allow, flows, udp_flows, l1, hist>>

\* One Put or Delete of SyncServerAllow.
SyncServer(s) ==
    /\ server_allow' = IF s \in server_allow THEN server_allow \ {s} ELSE server_allow \cup {s}
    /\ out' = Idle
    /\ UNCHANGED <<now, features, flows, udp_flows, l1, hist>>

\* An entry leaves a table: LRU eviction by the kernel, or the sweep's Delete.
Evict(k) ==
    /\ \/ /\ Present(flows[k]) /\ flows' = [flows EXCEPT ![k] = Absent]
          /\ UNCHANGED udp_flows
       \/ /\ Present(udp_flows[k]) /\ udp_flows' = [udp_flows EXCEPT ![k] = Absent]
          /\ UNCHANGED flows
    /\ out' = Idle
    /\ UNCHANGED <<env, l1, seen, synIsn>>

Init ==
    /\ now = 1
    /\ features \in Policies
    /\ server_allow = {}
    /\ flows = [k \in Key |-> Absent]
    /\ udp_flows = [k \in Key |-> Absent]
    /\ l1 = [c \in CPU |-> [s \in Slot |->
                [key |-> AnyKey, last_seen |-> 0, state |-> "NONE"]]]
    /\ out = Idle
    /\ seen = [p \in Proto |-> [k \in Key |-> 0]]
    /\ synIsn = [k \in Key |-> 0]

Next ==
    \/ Packet
    \/ Tick
    \/ \E f \in Policies : ApplyFeatures(f)
    \/ \E s \in Server : SyncServer(s)
    \/ \E k \in Key : Evict(k)

Spec == Init /\ [][Next]_vars

----------------------------------------------------------------------------
(* Properties *)

\* The maps hold values of the declared C types, and the clock stays in bound.
TypeOK ==
    /\ now \in Nat \ {0}
    /\ features \in Features
    /\ server_allow \subseteq Server
    /\ flows \in [Key -> FlowVal]
    /\ udp_flows \in [Key -> FlowVal]
    /\ l1 \in [CPU -> [Slot -> L1Entry]]
    /\ out \in Outcome \cup {Idle}
    /\ seen \in [Proto -> [Key -> Nat]]
    /\ synIsn \in [Key -> SeqNo]

\* The data path implements ReplyFilter: whatever the interleaving of packets,
\* evictions, clock ticks, policy changes and L1 hits on any CPU, a packet from
\* the internet is admitted (forwarded without being counted as a would-drop)
\* only on a tuple with evidence at most one TTL old, or one the policy invites.
Widest(S) == CHOOSE m \in S : \A n \in S : n <= m
Promise == INSTANCE ReplyFilter WITH
    window    <- [p \in Proto |->
                    IF p = "udp" THEN features.ttl_udp
                    ELSE Widest({features.ttl_syn, features.ttl_est, features.ttl_closing})],
    enforcing <- features.mode = "enforce",
    invited   <- {pk \in Proto \X Key :
                    \/ pk[1] = "tcp" /\ SynAllowed(pk[2])
                    \/ pk[1] = "udp" /\ ~features.filter_udp
                    \/ /\ pk[1] = "udp" /\ features.allow_inbound_servers
                       /\ SrvKey[pk[2]] \in server_allow}
ReplyOnly == Promise!Spec

\* An L1 slot that can still hit in this tick (l1_hit compares last_seen with
\* now) names a tuple for which the authoritative table held an entry in this
\* very tick: never one whose insert failed, never one left from an earlier tick.
L1Authority ==
    \A c \in CPU, s \in Slot :
        LET e == l1[c][s]
        IN  e.state # "NONE" /\ e.last_seen = now =>
                seen[IF e.state = "UDP" THEN "udp" ELSE "tcp"][e.key] = now

\* A connecting flow (handle_outbound's lone-SYN branch) always carries the ISN
\* of the host's latest SYN, whatever the peer sent in between: the defensive
\* BAD_ISN branch of handle_inbound for SYN_SENT without FL_ISN_VALID is dead.
SynSentHasIsn ==
    \A k \in Key : flows[k].state = "SYN_SENT" =>
        flows[k].flags = {"ISN_VALID"} /\ flows[k].isn = synIsn[k]

\* A flow the host itself closed (FL_CLOSED_OUT) keeps draining: no packet moves
\* it back to established while it lives; only a new SYN of either side opens it
\* afresh, and then without the old close mark.
DrainStays ==
    [][\A k \in Key :
          LET v == flows[k]  w == flows'[k]
          IN  Live(v) /\ v.state = "CLOSING" /\ "CLOSED_OUT" \in v.flags =>
                \/ w = Absent
                \/ w.state = "CLOSING" /\ "CLOSED_OUT" \in w.flags
                \/ w.state \in {"SYN_SENT", "SYN_RCVD"} /\ "CLOSED_OUT" \notin w.flags]_vars
=============================================================================
