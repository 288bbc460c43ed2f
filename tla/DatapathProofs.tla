--------------------------- MODULE DatapathProofs ---------------------------
(***************************************************************************)
(* Proofs about Datapath, for every set of CPUs, keys, slots, policies,    *)
(* flag combinations, TTLs, tick width and every bound on the clock.       *)
(*                                                                         *)
(* Type correctness and the inductive invariant IInv are proved together.  *)
(* Every packet action is first reduced to its effect on the tables        *)
(* (TcpQuiet, TcpUpdate, UdpUpdate); the invariant is then shown for the   *)
(* effects, once.  The refinement of ReplyFilter follows from IInv.        *)
(*                                                                         *)
(* The sweep (FlowGC) does nothing to the tables that an eviction could    *)
(* not do, so the data path keeps all its promises beside it; and what it  *)
(* deletes unchanged was idle for longer than its TTL.                     *)
(***************************************************************************)
EXTENDS FlowGC, TLAPS

ProtoOf(e) == IF e.state = "UDP" THEN "udp" ELSE "tcp"

\* Each table holds its own kind of entry.
TableKind ==
    \A k \in Key : flows[k].state # "UDP" /\ udp_flows[k].state \in {"NONE", "UDP"}

\* Evidence is never from the future.
SeenPast == \A p \in Proto, k \in Key : seen[p][k] <= now

\* An entry is backed by evidence at least as recent as its stamp.
Backed(tab, p) ==
    \A k \in Key : Present(tab[k]) => seen[p][k] # 0 /\ tab[k].last_seen <= seen[p][k]

\* So is a cache slot, on every CPU.
L1Backed ==
    \A c \in CPU, s \in Slot :
        l1[c][s].state # "NONE" => l1[c][s].last_seen <= seen[ProtoOf(l1[c][s])][l1[c][s].key]

\* The inductive invariant: L1Authority compares a slot with the clock only in
\* the tick it was written, which no step from an arbitrary state preserves;
\* the order between stamps, evidence and clock is what every step keeps.
IInv ==
    /\ TypeOK
    /\ TableKind
    /\ SeenPast
    /\ Backed(flows, "tcp")
    /\ Backed(udp_flows, "udp")
    /\ L1Backed
    /\ SynSentHasIsn

----------------------------------------------------------------------------
(* Effects of a packet *)

Frame == /\ UNCHANGED env
         /\ out' \in Outcome

TcpQuiet == Frame /\ UNCHANGED <<flows, udp_flows, l1, seen, synIsn>>

TcpValue(nv, k) ==
    /\ nv \in FlowVal
    /\ nv.state \notin {"NONE", "UDP"}
    /\ nv.last_seen = now
    /\ nv.state = "SYN_SENT" => nv.flags = {"ISN_VALID"} /\ nv.isn = synIsn'[k]

TcpUpdate(c, k) ==
    /\ Frame /\ UNCHANGED udp_flows
    /\ \E nv : TcpValue(nv, k) /\ flows' = [flows EXCEPT ![k] = nv]
    /\ Evidence("tcp", k)
    /\ UNCHANGED l1 \/ l1_put(c, k, "EST")
    /\ synIsn' \in [Key -> SeqNo]
    /\ \A j \in Key \ {k} : synIsn'[j] = synIsn[j]

UdpUpdate(c, k) ==
    /\ Frame /\ UNCHANGED <<flows, synIsn>>
    /\ UdpPut(k) /\ Evidence("udp", k)
    /\ UNCHANGED l1 \/ l1_put(c, k, "UDP")

----------------------------------------------------------------------------
\* There is a tuple to put into the idle verdict.
LEMMA AnyKeyType == AnyKey \in Key
  BY ConstantsOK DEF AnyKey

\* Zero, the ISN of an adopted flow, is a sequence number.
LEMMA ZeroSeq == 0 \in SeqNo
  BY ConstantsOK, SMT DEF SeqNo

\* The absent entry is a map value.
LEMMA AbsentType == Absent \in FlowVal
  BY ZeroSeq, SMT DEF Absent, FlowVal

\* The flag bytes that occur consist of TCP flags.
LEMMA FlagType == ASSUME NEW fl \in FlagSets PROVE fl \in SUBSET TCPFlags
  BY ConstantsOK, Zenon

\* What do_forward, do_drop and do_drop_tcp report is an outcome.
LEMMA VerdictType ==
  ASSUME NEW side \in Side, NEW p \in Proto, NEW k \in Key, NEW fl \in SUBSET TCPFlags,
         NEW act \in {"forward", "drop", "rst"}, NEW rsn \in Reasons,
         Verdict(side, p, k, fl, act, rsn)
  PROVE  out' \in Outcome
  BY SMT DEF Verdict, Outcome

\* A refused packet leaves every map alone (do_drop_tcp).
LEMMA RefuseEffect ==
  ASSUME TypeOK, NEW side \in Side, NEW k \in Key, NEW fl \in FlagSets, NEW rsn \in Reasons,
         Refuse(side, k, fl, rsn)
  PROVE  TcpQuiet
  <1>1. out' \in Outcome
    BY FlagType, SMT DEF Refuse, do_drop_tcp, DropAct, Verdict, Outcome, Proto
  <1> QED
    BY <1>1, SMT DEF Refuse, TcpQuiet, Frame, hist, TypeOK

\* A packet served by L1 leaves the authoritative tables alone.
LEMMA L1ForwardEffect ==
  ASSUME TypeOK, NEW c \in CPU, NEW side \in Side, NEW k \in Key, NEW fl \in FlagSets,
         L1Forward(c, side, k, fl)
  PROVE  TcpQuiet
  <1>1. out' \in Outcome
    BY FlagType, VerdictType, SMT DEF L1Forward, do_forward, Proto, Reasons
  <1> QED
    BY <1>1 DEF L1Forward, TcpQuiet, Frame, hist

\* The host's lone SYN writes one entry, with its ISN, or nothing (failed insert).
LEMMA OutSynEffect ==
  ASSUME TypeOK, NEW c \in CPU, NEW k \in Key, NEW fl \in FlagSets, NEW seq \in SeqNo,
         NEW ok \in BOOLEAN, OutSyn(k, fl, seq, ok)
  PROVE  TcpQuiet \/ TcpUpdate(c, k)
  <1>1. out' \in Outcome
    BY FlagType, VerdictType, SMT DEF OutSyn, SynSentVal, do_forward, Side, Proto, Reasons
  <1>2. CASE UNCHANGED <<flows, hist>>
    BY <1>1, <1>2, SMT DEF OutSyn, SynSentVal, TcpQuiet, Frame, hist, TypeOK
  <1>3. CASE ~UNCHANGED <<flows, hist>>
    <2> DEFINE nv == [state |-> "SYN_SENT", isn |-> seq, flags |-> {"ISN_VALID"},
                      last_seen |-> now]
    <2>1. flows' = [flows EXCEPT ![k] = nv] /\ Evidence("tcp", k)
          /\ synIsn' = [synIsn EXCEPT ![k] = seq]
          /\ UNCHANGED <<env, udp_flows, l1>>
      BY <1>3 DEF OutSyn, SynSentVal
    <2>2. TcpValue(nv, k)
      BY <2>1, SMT DEF TcpValue, FlowVal, TypeOK
    <2>3. synIsn' \in [Key -> SeqNo]
          /\ \A j \in Key \ {k} : synIsn'[j] = synIsn[j]
      BY <2>1, SMT DEF TypeOK
    <2> QED
      BY <1>1, <2>1, <2>2, <2>3 DEF TcpUpdate, Frame
  <1> QED
    BY <1>2, <1>3

\* Common shape of the actions that rewrite one live entry.
LEMMA UpdateEffect ==
  ASSUME TypeOK, NEW c \in CPU, NEW k \in Key, NEW nv,
         UNCHANGED <<env, udp_flows>>, out' \in Outcome,
         UNCHANGED synIsn,
         flows' = [flows EXCEPT ![k] = nv], TcpValue(nv, k),
         Evidence("tcp", k), UNCHANGED l1 \/ l1_put(c, k, "EST")
  PROVE  TcpUpdate(c, k)
  BY DEF TcpUpdate, Frame, TypeOK

\* A flow that changes state keeps its ISN and stays out of SYN_SENT, or keeps both.
LEMMA MovedValue ==
  ASSUME TypeOK, SynSentHasIsn, NEW k \in Key, UNCHANGED synIsn,
         NEW st \in {"SYN_SENT", "SYN_RCVD", "EST", "CLOSING"},
         NEW fls \in SUBSET {"ISN_VALID", "CLOSED_OUT"},
         st = "SYN_SENT" => flows[k].state = "SYN_SENT" /\ fls = flows[k].flags
  PROVE  TcpValue(Moved(flows[k], st, fls), k)
  BY SMT DEF TypeOK, TcpValue, FlowVal, SynSentHasIsn, Moved

\* The host's RST closes one entry or changes nothing.
LEMMA OutRstEffect ==
  ASSUME IInv, NEW c \in CPU, NEW k \in Key, NEW fl \in FlagSets, OutRst(k, fl)
  PROVE  TcpQuiet \/ TcpUpdate(c, k)
  <1>1. out' \in Outcome
    BY FlagType, VerdictType, SMT DEF OutRst, do_forward, Side, Proto, Reasons
  <1>2. UNCHANGED synIsn
    BY DEF OutRst
  <1>3. CASE ~Present(flows[k])
    BY <1>1, <1>2, <1>3 DEF OutRst, TcpQuiet, Frame
  <1>4. CASE Present(flows[k])
    <2> DEFINE fls == flows[k].flags \cup {"CLOSED_OUT"}
    <2>1. flows' = [flows EXCEPT ![k] = Moved(flows[k], "CLOSING", fls)]
          /\ Evidence("tcp", k) /\ UNCHANGED <<env, udp_flows, l1>>
      BY <1>4 DEF OutRst
    <2>2. fls \in SUBSET {"ISN_VALID", "CLOSED_OUT"}
      BY SMT DEF IInv, TypeOK, FlowVal
    <2>3. TcpValue(Moved(flows[k], "CLOSING", fls), k)
      BY <1>2, <2>2, MovedValue DEF IInv
    <2> QED
      BY <1>1, <1>2, <2>1, <2>3, UpdateEffect DEF IInv
  <1> QED
    BY <1>3, <1>4

\* A host segment on a live flow rewrites one entry, and caches it only when established.
LEMMA OutLiveEffect ==
  ASSUME IInv, NEW c \in CPU, NEW k \in Key, NEW fl \in FlagSets, OutLive(c, k, fl)
  PROVE  TcpUpdate(c, k)
  <1> DEFINE st  == OutState(flows[k], fl)
             fls == flows[k].flags \cup IF "FIN" \in fl THEN {"CLOSED_OUT"} ELSE {}
  <1>1. out' \in Outcome
    BY FlagType, VerdictType, SMT DEF OutLive, do_forward, Side, Proto, Reasons
  <1>2. UNCHANGED synIsn
    BY DEF OutLive
  <1>3. st \in {"SYN_RCVD", "EST", "CLOSING"}
    BY SMT DEF OutState
  <1>4. fls \in SUBSET {"ISN_VALID", "CLOSED_OUT"}
    BY SMT DEF IInv, TypeOK, FlowVal
  <1>5. TcpValue(Moved(flows[k], st, fls), k)
    BY <1>2, <1>3, <1>4, MovedValue DEF IInv
  <1>6. flows' = [flows EXCEPT ![k] = Moved(flows[k], st, fls)]
        /\ Evidence("tcp", k) /\ UNCHANGED <<env, udp_flows>>
        /\ (UNCHANGED l1 \/ l1_put(c, k, "EST"))
    BY DEF OutLive
  <1> QED
    BY <1>1, <1>2, <1>5, <1>6, UpdateEffect DEF IInv

\* Adopting a running flow writes one entry and may cache it, or nothing at all (failed insert).
LEMMA OutAdoptEffect ==
  ASSUME IInv, NEW c \in CPU, NEW k \in Key, NEW fl \in FlagSets, NEW ok \in BOOLEAN,
         OutAdopt(c, k, fl, ok)
  PROVE  TcpQuiet \/ TcpUpdate(c, k)
  <1> DEFINE fin == "FIN" \in fl
             nv  == [state |-> IF fin THEN "CLOSING" ELSE "EST", isn |-> 0,
                     flags |-> IF fin THEN {"CLOSED_OUT"} ELSE {}, last_seen |-> now]
  <1>1. out' \in Outcome
    BY FlagType, VerdictType, SMT DEF OutAdopt, do_forward, Side, Proto, Reasons
  <1>2. CASE ~ok
    BY <1>1, <1>2, SMT DEF OutAdopt, TcpQuiet, Frame, hist, IInv, TypeOK
  <1>3. CASE ok
    <2>1. flows' = [flows EXCEPT ![k] = nv] /\ Evidence("tcp", k)
          /\ UNCHANGED synIsn
          /\ UNCHANGED <<env, udp_flows>> /\ (UNCHANGED l1 \/ l1_put(c, k, "EST"))
      BY <1>3 DEF OutAdopt
    <2>2. TcpValue(nv, k)
      BY ZeroSeq, SMT DEF TcpValue, FlowVal, IInv, TypeOK
    <2> QED
      BY <1>1, <2>1, <2>2, UpdateEffect DEF IInv
  <1> QED
    BY <1>2, <1>3

\* The peer's SYN-ACK rewrites one live entry or is refused.
LEMMA InSynAckEffect ==
  ASSUME IInv, NEW c \in CPU, NEW k \in Key, NEW fl \in FlagSets, NEW ack \in SeqNo,
         InSynAck(k, fl, ack)
  PROVE  TcpQuiet \/ TcpUpdate(c, k)
  <1> DEFINE st == IF flows[k].state = "SYN_SENT" THEN "EST" ELSE flows[k].state
  <1>1. CASE Refuse("U", k, fl, "UNSOL_SYNACK") \/ Refuse("U", k, fl, "BAD_ISN")
    BY <1>1, RefuseEffect DEF IInv, Side, Reasons
  <1>2. CASE ~(Refuse("U", k, fl, "UNSOL_SYNACK") \/ Refuse("U", k, fl, "BAD_ISN"))
    <2>1. flows' = [flows EXCEPT ![k] = Moved(flows[k], st, flows[k].flags)]
          /\ Evidence("tcp", k) /\ UNCHANGED synIsn /\ Live(flows[k])
          /\ do_forward("U", "tcp", k, fl, "none") /\ UNCHANGED <<env, udp_flows, l1>>
      BY <1>2 DEF InSynAck
    <2>2. out' \in Outcome
      BY <2>1, FlagType, VerdictType, SMT DEF do_forward, Side, Proto, Reasons
    <2>3. UNCHANGED synIsn
      BY <2>1
    <2>4. st \in {"SYN_RCVD", "EST", "CLOSING"} /\ flows[k].flags \in SUBSET {"ISN_VALID", "CLOSED_OUT"}
      BY <2>1, SMT DEF IInv, TypeOK, TableKind, FlowVal, Live, Present
    <2>5. TcpValue(Moved(flows[k], st, flows[k].flags), k)
      BY <2>3, <2>4, MovedValue DEF IInv
    <2> QED
      BY <2>1, <2>2, <2>3, <2>5, UpdateEffect DEF IInv
  <1> QED
    BY <1>1, <1>2

\* The peer's lone SYN writes one half-open entry, passes, or is refused.
LEMMA InSynEffect ==
  ASSUME IInv, NEW c \in CPU, NEW k \in Key, NEW fl \in FlagSets,
         NEW tok \in BOOLEAN, NEW ok \in BOOLEAN, InSyn(k, fl, tok, ok)
  PROVE  TcpQuiet \/ TcpUpdate(c, k)
  <1> DEFINE nv == [state |-> "SYN_RCVD", isn |-> 0, flags |-> {}, last_seen |-> now]
  <1>1. CASE Refuse("U", k, fl, "INBOUND_SYN")
    BY <1>1, RefuseEffect DEF IInv, Side, Reasons
  <1>2. CASE ~Refuse("U", k, fl, "INBOUND_SYN")
    <2>1. out' \in Outcome
      BY <1>2, FlagType, VerdictType, SMT DEF InSyn, do_forward, Side, Proto, Reasons
    <2>2. CASE UNCHANGED <<flows, hist>>
      BY <1>2, <2>1, <2>2, SMT DEF InSyn, TcpQuiet, Frame, hist, IInv, TypeOK
    <2>3. CASE ~UNCHANGED <<flows, hist>>
      <3>1. flows' = [flows EXCEPT ![k] = nv] /\ Evidence("tcp", k)
            /\ UNCHANGED <<env, udp_flows, l1, synIsn>>
        BY <1>2, <2>3 DEF InSyn
      <3>2. TcpValue(nv, k)
        BY ZeroSeq, SMT DEF TcpValue, FlowVal, IInv, TypeOK
      <3> QED
        BY <2>1, <3>1, <3>2, UpdateEffect DEF IInv
    <2> QED
      BY <2>2, <2>3
  <1> QED
    BY <1>1, <1>2

\* The peer's RST closes one live entry or is refused.
LEMMA InRstEffect ==
  ASSUME IInv, NEW c \in CPU, NEW k \in Key, NEW fl \in FlagSets, NEW ack \in SeqNo,
         InRst(k, fl, ack)
  PROVE  TcpQuiet \/ TcpUpdate(c, k)
  <1>1. CASE Refuse("U", k, fl, "OOS_RST")
    BY <1>1, RefuseEffect DEF IInv, Side, Reasons
  <1>2. CASE ~Refuse("U", k, fl, "OOS_RST")
    <2>1. flows' = [flows EXCEPT ![k] = Moved(flows[k], "CLOSING", flows[k].flags)]
          /\ Evidence("tcp", k) /\ UNCHANGED synIsn
          /\ do_forward("U", "tcp", k, fl, "none") /\ UNCHANGED <<env, udp_flows, l1>>
      BY <1>2 DEF InRst
    <2>2. out' \in Outcome
      BY <2>1, FlagType, VerdictType, SMT DEF do_forward, Side, Proto, Reasons
    <2>3. UNCHANGED synIsn
      BY <2>1
    <2>4. flows[k].flags \in SUBSET {"ISN_VALID", "CLOSED_OUT"}
      BY SMT DEF IInv, TypeOK, FlowVal
    <2>5. TcpValue(Moved(flows[k], "CLOSING", flows[k].flags), k)
      BY <2>3, <2>4, MovedValue DEF IInv
    <2> QED
      BY <2>1, <2>2, <2>3, <2>5, UpdateEffect DEF IInv
  <1> QED
    BY <1>1, <1>2

\* A peer segment rewrites one live entry, and caches it only when established, or is refused.
LEMMA InSegmentEffect ==
  ASSUME IInv, NEW c \in CPU, NEW k \in Key, NEW fl \in FlagSets, InSegment(c, k, fl)
  PROVE  TcpQuiet \/ TcpUpdate(c, k)
  <1> DEFINE st == InState(flows[k], fl)
  <1>1. CASE Refuse("U", k, fl, "OOS_IN")
    BY <1>1, RefuseEffect DEF IInv, Side, Reasons
  <1>2. CASE ~Refuse("U", k, fl, "OOS_IN")
    <2>1. flows' = [flows EXCEPT ![k] = Moved(flows[k], st, flows[k].flags)]
          /\ Evidence("tcp", k) /\ UNCHANGED synIsn /\ Live(flows[k])
          /\ do_forward("U", "tcp", k, fl, "none") /\ UNCHANGED <<env, udp_flows>>
          /\ (UNCHANGED l1 \/ l1_put(c, k, "EST"))
      BY <1>2 DEF InSegment
    <2>2. out' \in Outcome
      BY <2>1, FlagType, VerdictType, SMT DEF do_forward, Side, Proto, Reasons
    <2>3. UNCHANGED synIsn
      BY <2>1
    <2>4. st \in {"SYN_SENT", "SYN_RCVD", "EST", "CLOSING"}
          /\ flows[k].flags \in SUBSET {"ISN_VALID", "CLOSED_OUT"}
          /\ (st = "SYN_SENT" => flows[k].state = "SYN_SENT")
      BY <2>1, SMT DEF IInv, TypeOK, TableKind, FlowVal, Live, Present, InState
    <2>5. TcpValue(Moved(flows[k], st, flows[k].flags), k)
      BY <2>3, <2>4, MovedValue DEF IInv
    <2> QED
      BY <2>1, <2>2, <2>3, <2>5, UpdateEffect DEF IInv
  <1> QED
    BY <1>1, <1>2

\* What a TCP packet can do, from either side.
LEMMA TcpEffect ==
  ASSUME IInv, NEW c \in CPU, NEW k \in Key, TcpOut(c, k) \/ TcpIn(c, k)
  PROVE  TcpQuiet \/ TcpUpdate(c, k)
  <1>1. CASE TcpOut(c, k)
    <2> PICK fl \in FlagSets :
            \/ BadFlags("T", k, fl)
            \/ L1Forward(c, "T", k, fl)
            \/ \E seq \in SeqNo, ok \in BOOLEAN : OutSyn(k, fl, seq, ok)
            \/ OutRst(k, fl)
            \/ OutLive(c, k, fl)
            \/ OutStrict(c, k, fl)
            \/ \E ok \in BOOLEAN : OutAdopt(c, k, fl, ok)
      BY <1>1 DEF TcpOut
    <2>1. CASE BadFlags("T", k, fl) \/ OutStrict(c, k, fl)
      BY <2>1, RefuseEffect DEF BadFlags, OutStrict, IInv, Side, Reasons
    <2> QED
      BY <2>1, L1ForwardEffect, OutSynEffect, OutRstEffect, OutLiveEffect, OutAdoptEffect
         DEF IInv, Side
  <1>2. CASE TcpIn(c, k)
    <2> PICK fl \in FlagSets :
            \/ BadFlags("U", k, fl)
            \/ L1Forward(c, "U", k, fl)
            \/ \E ack \in SeqNo : InSynAck(k, fl, ack) \/ InRst(k, fl, ack)
            \/ \E tok, ok \in BOOLEAN : InSyn(k, fl, tok, ok)
            \/ InSegment(c, k, fl)
      BY <1>2 DEF TcpIn
    <2>1. CASE BadFlags("U", k, fl)
      BY <2>1, RefuseEffect DEF BadFlags, IInv, Side, Reasons
    <2> QED
      BY <2>1, L1ForwardEffect, InSynAckEffect, InRstEffect, InSynEffect, InSegmentEffect
         DEF IInv, Side
  <1> QED
    BY <1>1, <1>2

\* A datagram writes at most one pseudo-flow and its L1 slot.
LEMMA UdpEffect ==
  ASSUME IInv, NEW c \in CPU, NEW k \in Key, Udp(c, k)
  PROVE  TcpQuiet \/ UdpUpdate(c, k)
  <1>1. out' \in Outcome
    <2>1. \E side \in Side, rsn \in Reasons, act \in {"forward", "drop", "rst"} :
             Verdict(side, "udp", k, {}, act, rsn)
      BY Zenon DEF Udp, UdpL1Forward, UdpUnfiltered, OutUdp, InUdp, do_forward, do_drop,
                   DropAct, Side, Reasons
    <2> QED
      BY <2>1, VerdictType DEF Proto
  <1>2. UNCHANGED <<env, flows, synIsn>>
    BY DEF Udp, UdpL1Forward, UdpUnfiltered, OutUdp, InUdp, hist
  <1>3. \/ UNCHANGED <<udp_flows, l1, seen>>
        \/ UdpPut(k) /\ Evidence("udp", k) /\ (UNCHANGED l1 \/ l1_put(c, k, "UDP"))
    BY DEF Udp, UdpL1Forward, UdpUnfiltered, OutUdp, InUdp, hist, UdpCached
  <1> QED
    BY <1>1, <1>2, <1>3 DEF TcpQuiet, UdpUpdate, Frame, IInv, TypeOK

----------------------------------------------------------------------------
(* The invariant is preserved by every effect *)

\* A packet that changes no map keeps the invariant.
LEMMA QuietStep == IInv /\ TcpQuiet => IInv'
  <1> SUFFICES ASSUME IInv, TcpQuiet PROVE IInv'
    OBVIOUS
  <1>1. TypeOK'
    BY SMT DEF IInv, TypeOK, TcpQuiet, Frame, env
  <1>2. TableKind' /\ SeenPast' /\ Backed(flows, "tcp")' /\ Backed(udp_flows, "udp")'
    BY SMT DEF IInv, TcpQuiet, Frame, env, TableKind, SeenPast, Backed
  <1>3. L1Backed' /\ SynSentHasIsn'
    BY SMT DEF IInv, TcpQuiet, L1Backed, SynSentHasIsn
  <1> QED
    BY <1>1, <1>2, <1>3 DEF IInv

\* Evidence for one tuple only moves forward.
LEMMA EvidenceStep ==
  ASSUME TypeOK, SeenPast, NEW p \in Proto, NEW k \in Key, Evidence(p, k), UNCHANGED now
  PROVE  /\ seen' \in [Proto -> [Key -> Nat]]
         /\ SeenPast'
         /\ seen'[p][k] = now
         /\ \A q \in Proto, j \in Key : seen[q][j] <= seen'[q][j]
  BY SMT DEF TypeOK, SeenPast, Evidence

\* Caching a tuple just confirmed in its table keeps L1 backed by the tables.
LEMMA L1Step ==
  ASSUME TypeOK, L1Backed, NEW c \in CPU, NEW k \in Key, NEW st \in {"EST", "UDP"},
         UNCHANGED l1 \/ l1_put(c, k, st),
         seen' \in [Proto -> [Key -> Nat]],
         seen'[IF st = "UDP" THEN "udp" ELSE "tcp"][k] = now,
         \A q \in Proto, j \in Key : seen[q][j] <= seen'[q][j]
  PROVE  l1' \in [CPU -> [Slot -> L1Entry]] /\ L1Backed'
  <1>1. L1Index[k] \in Slot
    BY ConstantsOK
  <1>2. l1' \in [CPU -> [Slot -> L1Entry]]
    <2>1. [key |-> k, last_seen |-> now, state |-> st] \in L1Entry
      BY SMT DEF TypeOK, L1Entry
    <2>2. CASE l1_put(c, k, st)
      BY <1>1, <2>1, <2>2, SMT DEF TypeOK, l1_put
    <2>3. CASE UNCHANGED l1
      BY <2>3 DEF TypeOK
    <2> QED
      BY <2>2, <2>3
  <1>3. SUFFICES ASSUME NEW d \in CPU, NEW s \in Slot, l1'[d][s].state # "NONE"
                 PROVE  l1'[d][s].last_seen <= seen'[ProtoOf(l1'[d][s])][l1'[d][s].key]
    BY <1>2 DEF L1Backed, ProtoOf
  <1>4. CASE l1'[d][s] = l1[d][s]
    <2>1. l1[d][s] \in L1Entry
      BY DEF TypeOK
    <2>2. l1[d][s].last_seen <= seen[ProtoOf(l1[d][s])][l1[d][s].key]
      BY <1>3, <1>4 DEF L1Backed
    <2>3. ProtoOf(l1[d][s]) \in Proto /\ l1[d][s].key \in Key /\ l1[d][s].last_seen \in Nat
      BY <2>1, SMT DEF ProtoOf, Proto, L1Entry
    <2>4. seen[ProtoOf(l1[d][s])][l1[d][s].key] \in Nat /\ seen'[ProtoOf(l1[d][s])][l1[d][s].key] \in Nat
      BY <2>3, SMT DEF TypeOK
    <2>5. seen[ProtoOf(l1[d][s])][l1[d][s].key] <= seen'[ProtoOf(l1[d][s])][l1[d][s].key]
      BY <2>3
    <2> QED
      BY <1>4, <2>2, <2>3, <2>4, <2>5, SMT
  <1>5. CASE l1'[d][s] = [key |-> k, last_seen |-> now, state |-> st]
    BY <1>5, SMT DEF TypeOK, ProtoOf
  <1>6. l1'[d][s] = l1[d][s] \/ l1'[d][s] = [key |-> k, last_seen |-> now, state |-> st]
    BY <1>1, SMT DEF TypeOK, l1_put
  <1> QED
    BY <1>4, <1>5, <1>6

\* Writing one TCP entry keeps the invariant.
LEMMA TcpUpdateStep ==
  ASSUME IInv, NEW c \in CPU, NEW k \in Key, TcpUpdate(c, k)
  PROVE  IInv'
  <1> PICK nv : TcpValue(nv, k) /\ flows' = [flows EXCEPT ![k] = nv]
    BY DEF TcpUpdate
  <1>1. UNCHANGED <<now, features, server_allow, udp_flows>> /\ out' \in Outcome
        /\ synIsn' \in [Key -> SeqNo]
    BY DEF TcpUpdate, Frame, env
  <1>2. /\ seen' \in [Proto -> [Key -> Nat]]
        /\ SeenPast'
        /\ seen'["tcp"][k] = now
        /\ \A q \in Proto, j \in Key : seen[q][j] <= seen'[q][j]
    BY <1>1, EvidenceStep DEF TcpUpdate, IInv, Proto
  <1>3. l1' \in [CPU -> [Slot -> L1Entry]] /\ L1Backed'
    BY <1>2, L1Step DEF TcpUpdate, IInv
  <1>4. flows' \in [Key -> FlowVal]
    BY SMT DEF IInv, TypeOK, TcpValue
  <1>5. TypeOK'
    BY <1>1, <1>2, <1>3, <1>4 DEF IInv, TypeOK
  <1>6. TableKind'
    BY <1>1, <1>4, SMT DEF IInv, TypeOK, TableKind, TcpValue
  <1>7. Backed(flows, "tcp")'
    <2> SUFFICES ASSUME NEW j \in Key, Present(flows'[j])
                 PROVE  seen'["tcp"][j] # 0 /\ flows'[j].last_seen <= seen'["tcp"][j]
      BY DEF Backed
    <2>1. CASE j = k
      BY <1>2, <2>1, SMT DEF IInv, TypeOK, TcpValue
    <2>2. CASE j # k
      <3>1. flows'[j] = flows[j]
        BY <2>2 DEF IInv, TypeOK
      <3>2. seen["tcp"][j] # 0 /\ flows[j].last_seen <= seen["tcp"][j]
        BY <3>1 DEF IInv, Backed
      <3>3. seen["tcp"][j] \in Nat /\ seen'["tcp"][j] \in Nat /\ flows[j].last_seen \in Nat
            /\ seen["tcp"][j] <= seen'["tcp"][j]
        BY <1>2, SMT DEF IInv, TypeOK, Proto, FlowVal
      <3> QED
        BY <3>1, <3>2, <3>3, SMT
    <2> QED
      BY <2>1, <2>2
  <1>8. Backed(udp_flows, "udp")'
    <2> SUFFICES ASSUME NEW j \in Key, Present(udp_flows[j])
                 PROVE  seen'["udp"][j] # 0 /\ udp_flows[j].last_seen <= seen'["udp"][j]
      BY <1>1 DEF Backed
    <2>1. seen'["udp"][j] = seen["udp"][j]
      BY SMT DEF TcpUpdate, Evidence, IInv, TypeOK, Proto
    <2> QED
      BY <2>1 DEF IInv, Backed
  <1>9. SynSentHasIsn'
    <2> SUFFICES ASSUME NEW j \in Key, flows'[j].state = "SYN_SENT"
                 PROVE  flows'[j].flags = {"ISN_VALID"} /\ flows'[j].isn = synIsn'[j]
      BY DEF SynSentHasIsn
    <2>1. CASE j = k
      BY <2>1 DEF IInv, TypeOK, TcpValue
    <2>2. CASE j # k
      BY <2>2 DEF IInv, TypeOK, TcpUpdate, SynSentHasIsn
    <2> QED
      BY <2>1, <2>2
  <1> QED
    BY <1>2, <1>3, <1>5, <1>6, <1>7, <1>8, <1>9 DEF IInv

\* Writing one UDP entry keeps the invariant.
LEMMA UdpUpdateStep ==
  ASSUME IInv, NEW c \in CPU, NEW k \in Key, UdpUpdate(c, k)
  PROVE  IInv'
  <1> DEFINE nv == [state |-> "UDP", isn |-> 0, flags |-> {}, last_seen |-> now]
  <1>0. udp_flows' = [udp_flows EXCEPT ![k] = nv] /\ nv \in FlowVal
    BY ZeroSeq, SMT DEF UdpUpdate, UdpPut, FlowVal, IInv, TypeOK
  <1>1. UNCHANGED <<now, features, server_allow, flows, synIsn>> /\ out' \in Outcome
    BY DEF UdpUpdate, Frame, env
  <1>2. /\ seen' \in [Proto -> [Key -> Nat]]
        /\ SeenPast'
        /\ seen'["udp"][k] = now
        /\ \A q \in Proto, j \in Key : seen[q][j] <= seen'[q][j]
    BY <1>1, EvidenceStep DEF UdpUpdate, IInv, Proto
  <1>3. l1' \in [CPU -> [Slot -> L1Entry]] /\ L1Backed'
    BY <1>2, L1Step DEF UdpUpdate, IInv
  <1>4. udp_flows' \in [Key -> FlowVal]
    BY <1>0, SMT DEF IInv, TypeOK
  <1>5. TypeOK'
    BY <1>1, <1>2, <1>3, <1>4 DEF IInv, TypeOK
  <1>6. TableKind'
    BY <1>0, <1>1, SMT DEF IInv, TypeOK, TableKind
  <1>7. Backed(udp_flows, "udp")'
    <2> SUFFICES ASSUME NEW j \in Key, Present(udp_flows'[j])
                 PROVE  seen'["udp"][j] # 0 /\ udp_flows'[j].last_seen <= seen'["udp"][j]
      BY DEF Backed
    <2>1. CASE j = k
      BY <1>0, <1>2, <2>1, SMT DEF IInv, TypeOK
    <2>2. CASE j # k
      <3>1. udp_flows'[j] = udp_flows[j]
        BY <1>0, <2>2 DEF IInv, TypeOK
      <3>2. seen["udp"][j] # 0 /\ udp_flows[j].last_seen <= seen["udp"][j]
        BY <3>1 DEF IInv, Backed
      <3>3. seen["udp"][j] \in Nat /\ seen'["udp"][j] \in Nat /\ udp_flows[j].last_seen \in Nat
            /\ seen["udp"][j] <= seen'["udp"][j]
        BY <1>2, SMT DEF IInv, TypeOK, Proto, FlowVal
      <3> QED
        BY <3>1, <3>2, <3>3, SMT
    <2> QED
      BY <2>1, <2>2
  <1>8. Backed(flows, "tcp")'
    <2> SUFFICES ASSUME NEW j \in Key, Present(flows[j])
                 PROVE  seen'["tcp"][j] # 0 /\ flows[j].last_seen <= seen'["tcp"][j]
      BY <1>1 DEF Backed
    <2>1. seen'["tcp"][j] = seen["tcp"][j]
      BY SMT DEF UdpUpdate, Evidence, IInv, TypeOK, Proto
    <2> QED
      BY <2>1 DEF IInv, Backed
  <1>9. SynSentHasIsn'
    BY <1>1 DEF IInv, SynSentHasIsn
  <1> QED
    BY <1>2, <1>3, <1>5, <1>6, <1>7, <1>8, <1>9 DEF IInv

\* Clock, policy and eviction.
LEMMA BackgroundStep ==
  ASSUME IInv,
         \/ Tick
         \/ \E f \in Policies : ApplyFeatures(f)
         \/ \E s \in Server : SyncServer(s)
         \/ \E k \in Key : Evict(k)
  PROVE  IInv'
  <1>1. CASE Tick
    BY <1>1, SMT DEF Tick, IInv, TypeOK, TableKind, SeenPast, Backed, L1Backed, SynSentHasIsn, hist
  <1>2. CASE \E f \in Policies : ApplyFeatures(f)
    BY <1>2, ConstantsOK, SMT DEF ApplyFeatures, IInv, TypeOK, TableKind, SeenPast, Backed, L1Backed,
              SynSentHasIsn, hist
  <1>3. CASE \E s \in Server : SyncServer(s)
    BY <1>3, SMT DEF SyncServer, IInv, TypeOK, TableKind, SeenPast, Backed, L1Backed,
              SynSentHasIsn, hist
  <1>4. CASE \E k \in Key : Evict(k)
    <2> PICK k \in Key : Evict(k)
      BY <1>4
    <2>1. flows' \in [Key -> FlowVal] /\ udp_flows' \in [Key -> FlowVal]
      <3>1. CASE UNCHANGED udp_flows /\ flows' = [flows EXCEPT ![k] = Absent]
        BY <3>1, AbsentType DEF IInv, TypeOK
      <3>2. CASE UNCHANGED flows /\ udp_flows' = [udp_flows EXCEPT ![k] = Absent]
        BY <3>2, AbsentType DEF IInv, TypeOK
      <3> QED
        BY <3>1, <3>2 DEF Evict
    <2>2. \A j \in Key : (flows'[j] = flows[j] \/ flows'[j] = Absent)
                         /\ (udp_flows'[j] = udp_flows[j] \/ udp_flows'[j] = Absent)
      BY SMT DEF Evict, IInv, TypeOK
    <2>3. UNCHANGED <<now, features, server_allow, l1, seen, synIsn>> /\ out' = Idle
      BY DEF Evict, env
    <2>4. TypeOK'
      BY <2>1, <2>3 DEF IInv, TypeOK
    <2>5. TableKind' /\ Backed(flows, "tcp")' /\ Backed(udp_flows, "udp")' /\ SynSentHasIsn'
      BY <2>2, <2>3, SMT DEF IInv, TableKind, Backed, SynSentHasIsn, Absent, Present
    <2>6. SeenPast' /\ L1Backed'
      BY <2>3 DEF IInv, SeenPast, L1Backed
    <2> QED
      BY <2>4, <2>5, <2>6 DEF IInv
  <1> QED
    BY <1>1, <1>2, <1>3, <1>4

\* The empty tables satisfy the inductive invariant.
LEMMA IInvInit == Init => IInv
  <1> SUFFICES ASSUME Init PROVE IInv
    OBVIOUS
  <1>1. [key |-> AnyKey, last_seen |-> 0, state |-> "NONE"] \in L1Entry
    BY AnyKeyType, SMT DEF L1Entry
  <1>2. TypeOK
    BY <1>1, ZeroSeq, AbsentType, ConstantsOK, SMT DEF Init, TypeOK
  <1>3. TableKind /\ SeenPast /\ Backed(flows, "tcp") /\ Backed(udp_flows, "udp") /\ SynSentHasIsn
    BY SMT DEF Init, TableKind, SeenPast, Backed, SynSentHasIsn, Absent, Present
  <1>4. L1Backed
    BY SMT DEF Init, L1Backed
  <1> QED
    BY <1>2, <1>3, <1>4 DEF IInv

\* Every step of the data path keeps the inductive invariant.
LEMMA IInvStep == IInv /\ [Next]_vars => IInv'
  <1> SUFFICES ASSUME IInv, [Next]_vars PROVE IInv'
    OBVIOUS
  <1>1. CASE \E c \in CPU, k \in Key : TcpOut(c, k) \/ TcpIn(c, k)
    BY <1>1, TcpEffect, QuietStep, TcpUpdateStep
  <1>2. CASE \E c \in CPU, k \in Key : Udp(c, k)
    BY <1>2, UdpEffect, QuietStep, UdpUpdateStep
  <1>3. CASE UNCHANGED vars
    BY <1>3, SMT DEF vars, IInv, TypeOK, TableKind, SeenPast, Backed, L1Backed, SynSentHasIsn
  <1> QED
    BY <1>1, <1>2, <1>3, BackgroundStep DEF Next, Packet

\* The maps keep their types in every behaviour of the data path.
THEOREM TypeCorrect == Spec => []TypeOK
  <1>1. Spec => []IInv
    BY IInvInit, IInvStep, PTL DEF Spec
  <1>2. IInv => TypeOK
    BY DEF IInv
  <1> QED
    BY <1>1, <1>2, PTL

\* A connecting flow carries the ISN of the host's latest SYN: the SYN_SENT arm
\* of handle_inbound without FL_ISN_VALID is never taken.
THEOREM SynSentCarriesIsn == Spec => []SynSentHasIsn
  <1>1. Spec => []IInv
    BY IInvInit, IInvStep, PTL DEF Spec
  <1>2. IInv => SynSentHasIsn
    BY DEF IInv
  <1> QED
    BY <1>1, <1>2, PTL

\* An L1 slot that can hit names a tuple the authoritative table held in this tick.
THEOREM L1IsAuthoritative == Spec => []L1Authority
  <1>1. Spec => []IInv
    BY IInvInit, IInvStep, PTL DEF Spec
  <1>2. ASSUME IInv PROVE L1Authority
    <2> SUFFICES ASSUME NEW c \in CPU, NEW s \in Slot,
                        l1[c][s].state # "NONE", l1[c][s].last_seen = now
                 PROVE  seen[ProtoOf(l1[c][s])][l1[c][s].key] = now
      BY DEF L1Authority, ProtoOf
    <2>1. l1[c][s] \in L1Entry
      BY <1>2 DEF IInv, TypeOK
    <2>2. ProtoOf(l1[c][s]) \in Proto /\ l1[c][s].key \in Key
      BY <2>1, SMT DEF ProtoOf, Proto, L1Entry
    <2>3. now <= seen[ProtoOf(l1[c][s])][l1[c][s].key]
      BY <1>2 DEF IInv, L1Backed
    <2>4. seen[ProtoOf(l1[c][s])][l1[c][s].key] <= now
      BY <1>2, <2>2 DEF IInv, SeenPast
    <2>5. seen[ProtoOf(l1[c][s])][l1[c][s].key] \in Nat /\ now \in Nat
      BY <1>2, <2>2 DEF IInv, TypeOK
    <2> QED
      BY <2>3, <2>4, <2>5, SMT
  <1> QED
    BY <1>1, <1>2, PTL

----------------------------------------------------------------------------
(* Refinement of ReplyFilter *)

\* Every TCP TTL is at most the window of the promise.
LEMMA WidestBounds ==
  ASSUME NEW a \in Nat, NEW b \in Nat, NEW d \in Nat
  PROVE  LET w == Widest({a, b, d}) IN w \in Nat /\ a <= w /\ b <= w /\ d <= w
  <1>1. \E m \in {a, b, d} : \A n \in {a, b, d} : n <= m
    BY SMT
  <1>2. Widest({a, b, d}) \in {a, b, d} /\ \A n \in {a, b, d} : n <= Widest({a, b, d})
    BY <1>1 DEF Widest
  <1> QED
    BY <1>2

\* A live entry means the tuple is open in the sense of the promise.
LEMMA LiveIsOpen ==
  ASSUME IInv, NEW k \in Key
  PROVE  /\ Live(flows[k]) => Promise!Open("tcp", k)
         /\ Live(udp_flows[k]) => Promise!Open("udp", k)
  <1> DEFINE W == Widest({features.ttl_syn, features.ttl_est, features.ttl_closing})
  <1>1. /\ features.ttl_syn \in Nat /\ features.ttl_est \in Nat
        /\ features.ttl_closing \in Nat /\ features.ttl_udp \in Nat
    BY SMT DEF IInv, TypeOK, Features
  <1>2. W \in Nat /\ features.ttl_syn <= W /\ features.ttl_est <= W /\ features.ttl_closing <= W
    BY <1>1, WidestBounds
  <1> HIDE DEF W
  <1>3. /\ now \in Nat /\ seen["tcp"][k] \in Nat /\ seen["udp"][k] \in Nat
        /\ seen["tcp"][k] <= now /\ seen["udp"][k] <= now
        /\ flows[k] \in FlowVal /\ udp_flows[k] \in FlowVal
    BY SMT DEF IInv, TypeOK, SeenPast, Proto
  <1>4. ASSUME Live(flows[k]) PROVE Promise!Open("tcp", k)
    <2>1. seen["tcp"][k] # 0 /\ flows[k].last_seen <= seen["tcp"][k]
      BY <1>4 DEF IInv, Backed, Live
    <2>2. flows[k].state \in {"SYN_SENT", "SYN_RCVD", "EST", "CLOSING"}
      BY <1>3, <1>4, SMT DEF IInv, TableKind, Live, Present, FlowVal
    <2>3. ttl_for(flows[k].state) \in Nat /\ ttl_for(flows[k].state) <= W
      BY <1>1, <1>2, <2>2, SMT DEF ttl_for
    <2>4. now - flows[k].last_seen <= ttl_for(flows[k].state)
      BY <1>3, <1>4, <2>1, <2>3, SMT DEF Live, expired, FlowVal
    <2>5. now - seen["tcp"][k] <= W
      BY <1>2, <1>3, <2>1, <2>3, <2>4, SMT DEF FlowVal
    <2> QED
      BY <2>1, <2>5 DEF Promise!Open, Proto, W
  <1>5. ASSUME Live(udp_flows[k]) PROVE Promise!Open("udp", k)
    <2>1. seen["udp"][k] # 0 /\ udp_flows[k].last_seen <= seen["udp"][k]
      BY <1>5 DEF IInv, Backed, Live
    <2>2. udp_flows[k].state = "UDP"
      BY <1>5 DEF IInv, TableKind, Live, Present
    <2>3. ttl_for(udp_flows[k].state) = features.ttl_udp
      BY <2>2, SMT DEF ttl_for
    <2>4. now - udp_flows[k].last_seen <= features.ttl_udp
      BY <1>1, <1>3, <1>5, <2>1, <2>3, SMT DEF Live, expired, FlowVal
    <2>5. now - seen["udp"][k] <= features.ttl_udp
      BY <1>1, <1>3, <2>1, <2>4, SMT DEF FlowVal
    <2> QED
      BY <2>1, <2>5 DEF Promise!Open, Proto
  <1> QED
    BY <1>4, <1>5

\* So does an L1 hit.
LEMMA HitIsOpen ==
  ASSUME IInv, NEW c \in CPU, NEW k \in Key
  PROVE  /\ l1_hit(c, k, "EST") => Promise!Open("tcp", k)
         /\ l1_hit(c, k, "UDP") => Promise!Open("udp", k)
  <1> DEFINE W == Widest({features.ttl_syn, features.ttl_est, features.ttl_closing})
             e == l1[c][L1Index[k]]
  <1>1. W \in Nat /\ features.ttl_udp \in Nat
    BY WidestBounds, SMT DEF IInv, TypeOK, Features
  <1> HIDE DEF W
  <1>2. L1Index[k] \in Slot
    BY ConstantsOK
  <1>3. /\ now \in Nat \ {0} /\ seen["tcp"][k] \in Nat /\ seen["udp"][k] \in Nat
        /\ seen["tcp"][k] <= now /\ seen["udp"][k] <= now
    BY SMT DEF IInv, TypeOK, SeenPast, Proto
  <1>4. ASSUME l1_hit(c, k, "EST") PROVE Promise!Open("tcp", k)
    <2>1. now <= seen["tcp"][k]
      BY <1>2, <1>4, SMT DEF IInv, L1Backed, l1_hit, ProtoOf
    <2>2. seen["tcp"][k] # 0 /\ now - seen["tcp"][k] <= W
      BY <1>1, <1>3, <2>1, SMT
    <2> QED
      BY <2>2 DEF Promise!Open, Proto, W
  <1>5. ASSUME l1_hit(c, k, "UDP") PROVE Promise!Open("udp", k)
    <2>1. now <= seen["udp"][k]
      BY <1>2, <1>5, SMT DEF IInv, L1Backed, l1_hit, ProtoOf
    <2>2. seen["udp"][k] # 0 /\ now - seen["udp"][k] <= features.ttl_udp
      BY <1>1, <1>3, <2>1, SMT
    <2> QED
      BY <2>2 DEF Promise!Open, Proto
  <1> QED
    BY <1>4, <1>5

\* A verdict on a packet is a packet of the promise.
LEMMA PromisePacket ==
  ASSUME UNCHANGED env, NEW side, NEW p, NEW k, NEW fl, NEW act, NEW rsn, NEW acts,
         Verdict(side, p, k, fl, act, rsn), act \in acts
  PROVE  Promise!Packet(side, p, k, acts)
  BY DEF env, Verdict, Promise!Packet, SynAllowed

\* What Refuse does is what the promise allows for a refused packet.
LEMMA RefusePromise ==
  ASSUME TypeOK, NEW k \in Key, NEW fl, NEW rsn
  PROVE  /\ Refuse("T", k, fl, rsn) => Promise!HostPacket("tcp", k)
         /\ Refuse("U", k, fl, rsn) => Promise!PeerRefused("tcp", k)
  <1>1. ASSUME Refuse("T", k, fl, rsn) PROVE Promise!HostPacket("tcp", k)
    <2>1. CASE features.mode = "enforce"
      <3>1. UNCHANGED env /\ UNCHANGED seen /\ Verdict("T", "tcp", k, fl, "drop", rsn)
        BY <1>1, <2>1 DEF Refuse, do_drop_tcp, DropAct, hist
      <3>2. Promise!Packet("T", "tcp", k, {"forward"} \cup {"drop"})
        BY <3>1, PromisePacket
      <3> QED
        BY <2>1, <3>1, <3>2 DEF Promise!HostPacket, Promise!MayBeEvidence
    <2>2. CASE features.mode # "enforce"
      <3>1. UNCHANGED env /\ UNCHANGED seen /\ Verdict("T", "tcp", k, fl, "forward", rsn)
        BY <1>1, <2>2 DEF Refuse, do_drop_tcp, DropAct, hist
      <3>2. Promise!Packet("T", "tcp", k, {"forward"} \cup {})
        BY <3>1, PromisePacket
      <3> QED
        BY <2>2, <3>1, <3>2 DEF Promise!HostPacket, Promise!MayBeEvidence
    <2> QED
      BY <2>1, <2>2
  <1>2. ASSUME Refuse("U", k, fl, rsn) PROVE Promise!PeerRefused("tcp", k)
    <2>1. CASE features.mode = "enforce"
      <3>1. PICK act \in {"drop", "rst"} :
                UNCHANGED env /\ UNCHANGED seen /\ Verdict("U", "tcp", k, fl, act, rsn)
        BY <1>2, <2>1 DEF Refuse, do_drop_tcp, DropAct, hist
      <3>2. Promise!Packet("U", "tcp", k, {"drop", "rst"})
        BY <3>1, PromisePacket
      <3> QED
        BY <2>1, <3>1, <3>2 DEF Promise!PeerRefused
    <2>2. CASE features.mode # "enforce"
      <3>1. UNCHANGED env /\ UNCHANGED seen /\ Verdict("U", "tcp", k, fl, "forward", rsn)
        BY <1>2, <2>2 DEF Refuse, do_drop_tcp, DropAct, hist
      <3>2. Promise!Packet("U", "tcp", k, {"forward"})
        BY <3>1, PromisePacket
      <3> QED
        BY <2>2, <3>1, <3>2 DEF Promise!PeerRefused
    <2> QED
      BY <2>1, <2>2
  <1> QED
    BY <1>1, <1>2

\* A forwarded packet of the host, and of the peer on an open or invited tuple.
LEMMA ForwardPromise ==
  ASSUME UNCHANGED env, NEW p \in Proto, NEW k \in Key, NEW fl, NEW rsn,
         UNCHANGED seen \/ Evidence(p, k)
  PROVE  /\ do_forward("T", p, k, fl, rsn) => Promise!HostPacket(p, k)
         /\ do_forward("U", p, k, fl, rsn) /\ Promise!Open(p, k) => Promise!PeerAdmitted(p, k)
  <1>1. Promise!MayBeEvidence(p, k)
    BY DEF Promise!MayBeEvidence, Evidence
  <1>2. ASSUME do_forward("T", p, k, fl, rsn) PROVE Promise!HostPacket(p, k)
    <2>1. Promise!Packet("T", p, k, {"forward"} \cup {}) /\ Promise!Packet("T", p, k, {"forward"} \cup {"drop"})
      BY <1>2, PromisePacket DEF do_forward
    <2> QED
      BY <1>1, <2>1 DEF Promise!HostPacket
  <1>3. ASSUME do_forward("U", p, k, fl, rsn), Promise!Open(p, k) PROVE Promise!PeerAdmitted(p, k)
    <2>1. Promise!Packet("U", p, k, {"forward"})
      BY <1>3, PromisePacket DEF do_forward
    <2> QED
      BY <1>1, <1>3, <2>1 DEF Promise!PeerAdmitted
  <1> QED
    BY <1>2, <1>3

\* Every TCP packet of the host is a step the promise allows.
LEMMA TcpOutPromise ==
  ASSUME IInv, NEW c \in CPU, NEW k \in Key, TcpOut(c, k)
  PROVE  Promise!HostPacket("tcp", k)
  <1>1. TypeOK
    BY DEF IInv
  <1>2. PICK fl \in FlagSets :
            \/ BadFlags("T", k, fl)
            \/ L1Forward(c, "T", k, fl)
            \/ \E seq \in SeqNo, ok \in BOOLEAN : OutSyn(k, fl, seq, ok)
            \/ OutRst(k, fl)
            \/ OutLive(c, k, fl)
            \/ OutStrict(c, k, fl)
            \/ \E ok \in BOOLEAN : OutAdopt(c, k, fl, ok)
    BY DEF TcpOut
  <1>3. CASE BadFlags("T", k, fl) \/ OutStrict(c, k, fl)
    BY <1>1, <1>3, RefusePromise DEF BadFlags, OutStrict
  <1>4. CASE ~(BadFlags("T", k, fl) \/ OutStrict(c, k, fl))
    <2>1. /\ UNCHANGED env
          /\ \E rsn \in Reasons : do_forward("T", "tcp", k, fl, rsn)
          /\ UNCHANGED seen \/ Evidence("tcp", k)
      BY <1>2, <1>4 DEF L1Forward, OutSyn, SynSentVal, OutRst, OutLive, OutAdopt, hist, Reasons
    <2> QED
      BY <2>1, ForwardPromise DEF Proto
  <1> QED
    BY <1>3, <1>4

\* Every TCP packet of the peer is a step the promise allows.
LEMMA TcpInPromise ==
  ASSUME IInv, NEW c \in CPU, NEW k \in Key, TcpIn(c, k)
  PROVE  Promise!PeerAdmitted("tcp", k) \/ Promise!PeerRefused("tcp", k)
  <1>1. TypeOK
    BY DEF IInv
  <1>2. PICK fl \in FlagSets :
            \/ BadFlags("U", k, fl)
            \/ L1Forward(c, "U", k, fl)
            \/ \E ack \in SeqNo : InSynAck(k, fl, ack) \/ InRst(k, fl, ack)
            \/ \E tok, ok \in BOOLEAN : InSyn(k, fl, tok, ok)
            \/ InSegment(c, k, fl)
    BY DEF TcpIn
  <1>3. CASE \E rsn : Refuse("U", k, fl, rsn)
    BY <1>1, <1>3, RefusePromise
  <1>4. CASE ~\E rsn : Refuse("U", k, fl, rsn)
    <2>1. ~BadFlags("U", k, fl)
      BY <1>4 DEF BadFlags
    <2>2. CASE L1Forward(c, "U", k, fl)
      <3>1. Promise!Open("tcp", k)
        BY <2>2, HitIsOpen DEF L1Forward
      <3> QED
        BY <2>2, <3>1, ForwardPromise DEF L1Forward, hist, Proto
    <2>3. CASE \E ack \in SeqNo : InSynAck(k, fl, ack) \/ InRst(k, fl, ack)
      <3>1. /\ Live(flows[k]) /\ UNCHANGED env /\ Evidence("tcp", k)
            /\ do_forward("U", "tcp", k, fl, "none")
        BY <1>4, <2>3 DEF InSynAck, InRst
      <3> QED
        BY <3>1, LiveIsOpen, ForwardPromise DEF Proto
    <2>4. CASE InSegment(c, k, fl)
      <3>1. /\ Live(flows[k]) /\ UNCHANGED env /\ Evidence("tcp", k)
            /\ do_forward("U", "tcp", k, fl, "none")
        BY <1>4, <2>4 DEF InSegment
      <3> QED
        BY <3>1, LiveIsOpen, ForwardPromise DEF Proto
    <2>5. CASE \E tok, ok \in BOOLEAN : InSyn(k, fl, tok, ok)
      <3>1. /\ SynAllowed(k) /\ UNCHANGED env
            /\ UNCHANGED seen \/ Evidence("tcp", k)
            /\ \E rsn : do_forward("U", "tcp", k, fl, rsn)
        BY <1>4, <2>5 DEF InSyn, hist
      <3>2. Promise!Packet("U", "tcp", k, {"forward"})
        BY <3>1, PromisePacket DEF do_forward
      <3>3. Promise!MayBeEvidence("tcp", k)
        BY <3>1 DEF Promise!MayBeEvidence, Evidence
      <3>4. <<"tcp", k>> \in Proto \X Key /\ <<"tcp", k>>[1] = "tcp" /\ <<"tcp", k>>[2] = k
        BY DEF Proto
      <3> QED
        BY <3>1, <3>2, <3>3, <3>4 DEF Promise!PeerAdmitted
    <2> QED
      BY <1>2, <2>1, <2>2, <2>3, <2>4, <2>5
  <1> QED
    BY <1>3, <1>4

\* Every datagram is a step the promise allows.
LEMMA UdpPromise ==
  ASSUME IInv, NEW c \in CPU, NEW k \in Key, Udp(c, k)
  PROVE  Promise!HostPacket("udp", k) \/ Promise!PeerAdmitted("udp", k) \/ Promise!PeerRefused("udp", k)
  <1>1. <<"udp", k>> \in Proto \X Key /\ <<"udp", k>>[1] = "udp" /\ <<"udp", k>>[2] = k
    BY DEF Proto
  <1>2. ASSUME NEW side \in Side, UdpL1Forward(c, side, k)
        PROVE  Promise!HostPacket("udp", k) \/ Promise!PeerAdmitted("udp", k)
    <2>1. Promise!Open("udp", k)
      BY <1>2, HitIsOpen DEF UdpL1Forward, UdpL1Hit
    <2> QED
      BY <1>2, <2>1, ForwardPromise DEF UdpL1Forward, hist, Proto, Side
  <1>3. ASSUME NEW side \in Side, UdpUnfiltered(side, k)
        PROVE  Promise!HostPacket("udp", k) \/ Promise!PeerAdmitted("udp", k)
    <2>1. CASE side = "T"
      BY <1>3, <2>1, ForwardPromise DEF UdpUnfiltered, hist, Proto
    <2>2. CASE side = "U"
      <3>1. Promise!Packet("U", "udp", k, {"forward"})
        BY <1>3, <2>2, PromisePacket DEF UdpUnfiltered, do_forward
      <3>2. Promise!MayBeEvidence("udp", k)
        BY <1>3 DEF UdpUnfiltered, hist, Promise!MayBeEvidence
      <3> QED
        BY <1>1, <1>3, <3>1, <3>2 DEF UdpUnfiltered, Promise!PeerAdmitted
    <2> QED
      BY <2>1, <2>2 DEF Side
  <1>4. ASSUME NEW ok \in BOOLEAN, OutUdp(c, k, ok) PROVE Promise!HostPacket("udp", k)
    <2>1. /\ UNCHANGED env /\ (UNCHANGED seen \/ Evidence("udp", k))
          /\ \E rsn : do_forward("T", "udp", k, {}, rsn)
      BY <1>4 DEF OutUdp
    <2> QED
      BY <2>1, ForwardPromise DEF Proto
  <1>5. ASSUME InUdp(c, k) PROVE Promise!PeerAdmitted("udp", k) \/ Promise!PeerRefused("udp", k)
    <2>1. UNCHANGED env
      BY <1>5 DEF InUdp
    <2>2. CASE Live(udp_flows[k])
      <3>1. Evidence("udp", k) /\ do_forward("U", "udp", k, {}, "none")
        BY <1>5, <2>2 DEF InUdp
      <3> QED
        BY <2>1, <2>2, <3>1, LiveIsOpen, ForwardPromise DEF Proto
    <2>3. CASE /\ ~Live(udp_flows[k])
               /\ features.allow_inbound_servers /\ SrvKey[k] \in server_allow
      <3>1. UNCHANGED seen /\ do_forward("U", "udp", k, {}, "none")
        BY <1>5, <2>3 DEF InUdp
      <3>2. Promise!Packet("U", "udp", k, {"forward"})
        BY <2>1, <3>1, PromisePacket DEF do_forward
      <3>3. Promise!MayBeEvidence("udp", k)
        BY <3>1 DEF Promise!MayBeEvidence
      <3> QED
        BY <1>1, <2>3, <3>2, <3>3 DEF Promise!PeerAdmitted
    <2>4. CASE /\ ~Live(udp_flows[k])
               /\ ~(features.allow_inbound_servers /\ SrvKey[k] \in server_allow)
      <3>1. UNCHANGED seen /\ do_drop("U", "udp", k, {}, "UDP_OOS")
        BY <1>5, <2>4 DEF InUdp
      <3>2. CASE features.mode = "enforce"
        <4>1. Promise!Packet("U", "udp", k, {"drop", "rst"})
          BY <2>1, <3>1, <3>2, PromisePacket DEF do_drop, DropAct
        <4> QED
          BY <3>1, <3>2, <4>1 DEF Promise!PeerRefused
      <3>3. CASE features.mode # "enforce"
        <4>1. Promise!Packet("U", "udp", k, {"forward"})
          BY <2>1, <3>1, <3>3, PromisePacket DEF do_drop, DropAct
        <4> QED
          BY <3>1, <3>3, <4>1 DEF Promise!PeerRefused
      <3> QED
        BY <3>2, <3>3
    <2> QED
      BY <2>2, <2>3, <2>4
  <1> QED
    BY <1>2, <1>3, <1>4, <1>5 DEF Udp

\* Time, policy changes and evictions are background steps of the promise.
LEMMA BackgroundPromise ==
  ASSUME \/ Tick
         \/ \E f \in Policies : ApplyFeatures(f)
         \/ \E s \in Server : SyncServer(s)
         \/ \E k \in Key : Evict(k)
  PROVE  Promise!Background
  BY DEF Tick, ApplyFeatures, SyncServer, Evict, env, hist, Idle, Promise!Background

\* Every step of the data path is a step the promise allows.
LEMMA PromiseStep ==
  ASSUME IInv, [Next]_vars
  PROVE  [Promise!Next]_(Promise!vars)
  <1>1. CASE \E c \in CPU, k \in Key : TcpOut(c, k) \/ TcpIn(c, k)
    BY <1>1, TcpOutPromise, TcpInPromise DEF Promise!Next, Proto
  <1>2. CASE \E c \in CPU, k \in Key : Udp(c, k)
    BY <1>2, UdpPromise DEF Promise!Next, Proto
  <1>3. CASE UNCHANGED vars
    BY <1>3 DEF vars, Promise!vars, SynAllowed
  <1> QED
    BY <1>1, <1>2, <1>3, BackgroundPromise DEF Next, Packet, Promise!Next

\* The data path implements ReplyFilter: the tables, the TCP state machine, the
\* per-CPU caches, evictions and live policy changes never admit a packet of the
\* peer on a tuple that is neither open nor invited.
THEOREM Implements == Spec => ReplyOnly
  <1>1. Spec => []IInv
    BY IInvInit, IInvStep, PTL DEF Spec
  <1>2. Init => Promise!Init
    BY DEF Init, Idle, Promise!Init
  <1>3. IInv /\ [Next]_vars => [Promise!Next]_(Promise!vars)
    BY PromiseStep
  <1> QED
    BY <1>1, <1>2, <1>3, PTL DEF Spec, ReplyOnly, Promise!Spec

----------------------------------------------------------------------------
(* A locally closed flow keeps draining *)

Draining(v) == Live(v) /\ v.state = "CLOSING" /\ "CLOSED_OUT" \in v.flags
Drained(w) == \/ w = Absent
              \/ w.state = "CLOSING" /\ "CLOSED_OUT" \in w.flags
              \/ w.state \in {"SYN_SENT", "SYN_RCVD"} /\ "CLOSED_OUT" \notin w.flags

\* No step reopens a draining flow except through a new SYN.
LEMMA DrainStep ==
  ASSUME IInv, Next, NEW j \in Key, Draining(flows[j])
  PROVE  Drained(flows'[j])
  <1>0. flows \in [Key -> FlowVal] /\ flows[j] \in FlowVal
    BY DEF IInv, TypeOK
  <1>1. CASE flows'[j] = flows[j]
    BY <1>1 DEF Draining, Drained
  <1>2. CASE flows'[j] # flows[j]
    <2>1. CASE \E c \in CPU, k \in Key : TcpOut(c, k)
      <3> PICK c \in CPU, k \in Key, fl \in FlagSets :
                \/ \E seq \in SeqNo, ok \in BOOLEAN : OutSyn(k, fl, seq, ok)
                \/ OutRst(k, fl)
                \/ OutLive(c, k, fl)
                \/ \E ok \in BOOLEAN : OutAdopt(c, k, fl, ok)
        BY <1>2, <2>1 DEF TcpOut, BadFlags, L1Forward, OutStrict, Refuse
      <3>1. k = j
        BY <1>0, <1>2, SMT DEF OutSyn, SynSentVal, OutRst, OutLive, OutAdopt
      <3>2. CASE \E seq \in SeqNo, ok \in BOOLEAN : OutSyn(k, fl, seq, ok)
        BY <1>0, <1>2, <3>1, <3>2 DEF OutSyn, SynSentVal, Drained
      <3>3. CASE OutRst(k, fl)
        BY <1>0, <1>2, <3>1, <3>3 DEF OutRst, Drained, Moved
      <3>4. CASE OutLive(c, k, fl)
        <4>1. OutState(flows[j], fl) = "CLOSING"
          BY SMT DEF OutState, Draining
        <4> QED
          BY <1>0, <3>1, <3>4, <4>1 DEF OutLive, Drained, Draining, Moved
      <3>5. CASE \E ok \in BOOLEAN : OutAdopt(c, k, fl, ok)
        BY <3>1, <3>5 DEF OutAdopt, OutOfState, Draining
      <3> QED
        BY <3>2, <3>3, <3>4, <3>5
    <2>2. CASE \E c \in CPU, k \in Key : TcpIn(c, k)
      <3> PICK c \in CPU, k \in Key, fl \in FlagSets :
                \/ \E ack \in SeqNo : InSynAck(k, fl, ack) \/ InRst(k, fl, ack)
                \/ \E tok, ok \in BOOLEAN : InSyn(k, fl, tok, ok)
                \/ InSegment(c, k, fl)
        BY <1>2, <2>2 DEF TcpIn, BadFlags, L1Forward, Refuse
      <3>1. k = j
        BY <1>0, <1>2, SMT DEF InSynAck, InRst, InSyn, InSegment, Refuse
      <3>2. CASE \E ack \in SeqNo : InSynAck(k, fl, ack) \/ InRst(k, fl, ack)
        BY <1>0, <1>2, <3>1, <3>2 DEF InSynAck, InRst, Refuse, Drained, Draining, Moved
      <3>3. CASE \E tok, ok \in BOOLEAN : InSyn(k, fl, tok, ok)
        BY <1>0, <1>2, <3>1, <3>3 DEF InSyn, Refuse, Drained
      <3>4. CASE InSegment(c, k, fl)
        <4>1. InState(flows[j], fl) = "CLOSING"
          BY SMT DEF InState, Draining
        <4> QED
          BY <1>0, <1>2, <3>1, <3>4, <4>1 DEF InSegment, Refuse, Drained, Draining, Moved
      <3> QED
        BY <3>2, <3>3, <3>4
    <2>3. CASE \E c \in CPU, k \in Key : Udp(c, k)
      BY <1>2, <2>3 DEF Udp, UdpL1Forward, UdpUnfiltered, OutUdp, InUdp
    <2>4. CASE Tick \/ (\E f \in Policies : ApplyFeatures(f)) \/ (\E s \in Server : SyncServer(s))
      BY <1>2, <2>4 DEF Tick, ApplyFeatures, SyncServer
    <2>5. CASE \E k \in Key : Evict(k)
      BY <1>0, <1>2, <2>5, SMT DEF Evict, Drained
    <2> QED
      BY <2>1, <2>2, <2>3, <2>4, <2>5 DEF Next, Packet
  <1> QED
    BY <1>1, <1>2

\* A flow closed by the host's own FIN or RST never becomes established again
\* while it drains, on any CPU and under any policy change.
THEOREM DrainIsStable == Spec => DrainStays
  <1>1. Spec => []IInv
    BY IInvInit, IInvStep, PTL DEF Spec
  <1>2. IInv /\ [Next]_vars =>
          [\A k \in Key :
              LET v == flows[k]  w == flows'[k]
              IN  Live(v) /\ v.state = "CLOSING" /\ "CLOSED_OUT" \in v.flags =>
                    \/ w = Absent
                    \/ w.state = "CLOSING" /\ "CLOSED_OUT" \in w.flags
                    \/ w.state \in {"SYN_SENT", "SYN_RCVD"} /\ "CLOSED_OUT" \notin w.flags]_vars
    BY DrainStep DEF Draining, Drained
  <1> QED
    BY <1>1, <1>2, PTL DEF Spec, DrainStays

----------------------------------------------------------------------------
(* The sweep of the flow tables *)

\* The evidence for every key collected for deletion, by the clock and the TTLs of the
\* sweep that collected it; a collected key is not visited again.
Evidenced ==
    /\ pc = "delete" => todo = {}
    /\ doomed \cap todo = {}
    /\ \A k \in doomed :
          marked[k].last_seen + ttlForState(marked[k].state) < gcNow

GCInv == IInv /\ GCTypeOK /\ Evidenced

----------------------------------------------------------------------------
(* The sweep as a source of evictions *)

\* A TTL of the published configuration is a number.
LEMMA TtlType ==
    ASSUME gcCfg \in Features, NEW st
    PROVE  ttlForState(st) \in Nat
BY DEF ttlForState, Features

\* Every step of the whole is a step of the data path: the sweep's Delete is an eviction.
LEMMA SweepEvicts ==
    ASSUME [GCNext]_allVars
    PROVE  [Next]_vars
<1>1. CASE Traffic
  BY <1>1 DEF Traffic, Next
<1>2. CASE \E f \in Policies : Reload(f)
  BY <1>2 DEF Reload, Next
<1>3. CASE \E k \in Key : Delete(k)
  <2> PICK k \in Key : Delete(k)
    BY <1>3
  <2>1. Present(Table[k]) => Evict(k)
    BY DEF Delete, Evict, Table
  <2> QED
    BY <2>1 DEF Delete, Next
<1>4. CASE UNCHANGED vars
  BY <1>4
<1> QED
  BY <1>1, <1>2, <1>3, <1>4 DEF GCNext, Publish, Sweep, SweepTcp, SweepUdp, Visit, EndIteration,
     EndSweep, allVars

\* The data path beside the sweep is the data path.
THEOREM SweptDatapath == GCSpec => Spec
<1>1. GCInit => Init
  BY DEF GCInit
<1> QED
  BY <1>1, SweepEvicts, PTL DEF GCSpec, Spec

\* So with sweeps going on, entries deleted under it, the filter forwards nothing to the
\* protected side that ReplyFilter does not allow.
THEOREM SweptImplements == GCSpec => ReplyOnly
BY SweptDatapath, Implements, PTL

----------------------------------------------------------------------------
(* The sweep's own state *)

\* now - last_seen in unsigned arithmetic never exceeds the true difference of a stamp
\* that is not in the future.
LEMMA UnsignedAge ==
    ASSUME NEW a \in Nat, NEW b \in Nat, b <= a
    PROVE  (a + TickMod - b) % TickMod \in Nat /\ (a + TickMod - b) % TickMod <= a - b
BY TickModPositive

\* Init: no sweep has begun.
LEMMA GCInvInit == GCInit => GCInv
<1> SUFFICES ASSUME GCInit PROVE GCInv
  OBVIOUS
<1>1. IInv
  BY IInvInit DEF GCInit
<1>2. features \in Features /\ TypeOK
  BY <1>1 DEF IInv, TypeOK
<1>3. marked \in [Key -> FlowVal]
  BY AbsentType DEF GCInit
<1> QED
  BY <1>1, <1>2, <1>3 DEF GCInit, GCInv, GCTypeOK, Evidenced

\* Steps that do not touch the sweep.
LEMMA SweepFrame ==
    ASSUME GCInv, TypeOK', UNCHANGED <<pc, table, gcCfg, gcNow, todo, doomed, marked>>,
           cfg' \in Features
    PROVE  (GCTypeOK /\ Evidenced)'
BY DEF GCInv, GCTypeOK, Evidenced, ttlForState

\* One step.
LEMMA GCInvStep ==
    ASSUME GCInv, [GCNext]_allVars
    PROVE  GCInv'
<1>1. IInv'
  BY SweepEvicts, IInvStep DEF GCInv
<1>2. TypeOK' /\ TypeOK
  BY <1>1 DEF IInv, GCInv
<1> SUFFICES (GCTypeOK /\ Evidenced)'
  BY <1>1 DEF GCInv
<1> USE DEF GCInv
<1>3. CASE Traffic \/ \E f \in Policies : Reload(f)
  <2>1. UNCHANGED gcVars
    BY <1>3 DEF Traffic, Reload
  <2> QED
    BY <1>2, <2>1, SweepFrame DEF gcVars, GCTypeOK
<1>4. CASE Publish
  BY <1>2, <1>4, SweepFrame DEF Publish, TypeOK
<1>5. CASE \E t \in {now, now + 1} : SweepTcp(t) \/ SweepUdp(t)
  <2> PICK t \in {now, now + 1} : SweepTcp(t) \/ SweepUdp(t)
    BY <1>5
  <2>1. t \in Nat
    BY <1>2 DEF TypeOK
  <2>2. doomed' = {} /\ gcNow' = t /\ todo' = Key /\ pc' = "iterate" /\ UNCHANGED <<cfg, marked>>
        /\ gcCfg' \in {gcCfg, cfg} /\ table' \in {"tcp", "udp"}
    BY DEF SweepTcp, SweepUdp
  <2> QED
    BY <1>2, <2>1, <2>2 DEF GCTypeOK, Evidenced
<1>6. CASE \E k \in Key : Visit(k)
  <2> PICK k \in Key : Visit(k)
    BY <1>6
  <2> DEFINE v == Table[k]
  <2>1. v \in FlowVal /\ v.last_seen \in Nat /\ gcNow \in Nat /\ ttlForState(v.state) \in Nat
    BY <1>2, TtlType DEF TypeOK, Table, FlowVal, GCTypeOK
  <2>2. Collect(v) => v.last_seen + ttlForState(v.state) < gcNow
    <3> SUFFICES ASSUME Collect(v) PROVE v.last_seen + ttlForState(v.state) < gcNow
      OBVIOUS
    <3>1. v.last_seen <= gcNow
      BY <2>1 DEF Collect
    <3>2. (gcNow + TickMod - v.last_seen) % TickMod <= gcNow - v.last_seen
          /\ (gcNow + TickMod - v.last_seen) % TickMod \in Nat
      BY <2>1, <3>1, UnsignedAge
    <3>3. (gcNow + TickMod - v.last_seen) % TickMod > ttlForState(v.state)
      BY DEF Collect
    <3> HIDE DEF v
    <3> QED
      BY <2>1, <3>1, <3>2, <3>3
  <2>3. /\ marked \in [Key -> FlowVal] /\ marked' = [marked EXCEPT ![k] = v]
        /\ todo' = todo \ {k} /\ k \in todo /\ UNCHANGED <<cfg, pc, table, gcCfg, gcNow>>
        /\ doomed' \in {doomed, doomed \cup {k}}
        /\ k \in doomed' => k \in doomed \/ Collect(v)
    BY DEF Visit, GCTypeOK
  <2>4. k \notin doomed
    BY <2>3 DEF Evidenced
  <2> HIDE DEF v
  <2>5. GCTypeOK'
    BY <1>2, <2>1, <2>3 DEF GCTypeOK, Visit
  <2>6. doomed' \cap todo' = {}
    BY <2>3 DEF Evidenced
  <2>7. ASSUME NEW l \in doomed'
        PROVE  marked'[l].last_seen + ttlForState(marked'[l].state) < gcNow
    <3>1. CASE l = k
      BY <2>2, <2>3, <2>4, <2>7, <3>1
    <3>2. CASE l # k
      BY <2>3, <2>7, <3>2 DEF Evidenced, GCTypeOK
    <3> QED
      BY <3>1, <3>2
  <2>8. \A st : ttlForState(st)' = ttlForState(st)
    BY <2>3 DEF ttlForState
  <2> QED
    BY <2>3, <2>5, <2>6, <2>7, <2>8 DEF Evidenced
<1>7. CASE \E k \in Key : Delete(k)
  <2>1. /\ doomed' \subseteq doomed /\ pc = "delete"
        /\ UNCHANGED <<cfg, pc, table, gcCfg, gcNow, todo, marked>>
    BY <1>7 DEF Delete
  <2>2. GCTypeOK'
    BY <1>2, <2>1 DEF GCTypeOK
  <2>3. Evidenced'
    BY <2>1 DEF Evidenced, ttlForState
  <2> QED
    BY <2>2, <2>3
<1>8. CASE EndIteration \/ EndSweep
  <2>1. /\ UNCHANGED <<cfg, table, gcCfg, gcNow, doomed, marked>> /\ todo' \subseteq todo
        /\ \/ pc' = "delete" /\ todo' = {}
           \/ pc' = "idle" /\ pc = "delete" /\ doomed = {} /\ todo' = todo
    BY <1>8 DEF EndIteration, EndSweep
  <2>2. pc' = "idle" => todo' = {}
    BY <2>1 DEF Evidenced
  <2>3. Evidenced'
    BY <2>1 DEF Evidenced, ttlForState
  <2> QED
    BY <1>2, <2>1, <2>2, <2>3 DEF GCTypeOK
<1>9. CASE UNCHANGED allVars
  BY <1>2, <1>9, SweepFrame DEF allVars, gcVars, GCTypeOK
<1> QED
  BY <1>3, <1>4, <1>5, <1>6, <1>7, <1>8, <1>9 DEF GCNext, Sweep

\* The sweep's variables keep their types beside a data path that goes on, and no key is
\* left over for the next run of the worker.
THEOREM GCTypeCorrect == GCSpec => []GCTypeOK
<1>1. GCInv => GCTypeOK
  BY DEF GCInv
<1> QED
  BY <1>1, GCInvInit, GCInvStep, PTL DEF GCSpec

\* GCOnce never deletes an entry that is as it was when it was visited and within its TTL.
THEOREM OnlyIdleDeleted == GCSpec => DeletesOnlyIdle
<1>1. GCInv /\ [GCNext]_allVars =>
        [\A k \in Key :
          Delete(k) /\ Present(Table[k]) /\ Table[k] = marked[k] =>
              Table[k].last_seen + ttlForState(Table[k].state) < gcNow]_allVars
  BY DEF GCInv, Evidenced, Delete
<1> QED
  BY <1>1, GCInvInit, GCInvStep, PTL DEF GCSpec, DeletesOnlyIdle
=============================================================================
