----------------------------- MODULE ReplyFilter -----------------------------
(***************************************************************************)
(* What the data path promises, without tables, caches or TCP states.      *)
(* A tuple is open while at most window ticks have passed since the last   *)
(* packet that counted as evidence for it.  The host's packets may always  *)
(* be evidence; a packet of the peer is admitted, and may be evidence,     *)
(* only for a tuple that is open already or that the policy invites.       *)
(***************************************************************************)
EXTENDS Naturals

CONSTANTS Key, Proto

VARIABLES
    now,        \* coarse clock
    seen,       \* tick of the last evidence per protocol and tuple, 0 for none
    window,     \* longest idle time any state is granted, per protocol
    enforcing,  \* mode
    invited,    \* the <<protocol, tuple>> pairs the policy lets the peer open
    out         \* the last packet and its verdict

vars == <<now, seen, window, enforcing, invited, out>>

Open(p, k) == seen[p][k] # 0 /\ now - seen[p][k] <= window[p]

MayBeEvidence(p, k) ==
    seen' \in {seen, [seen EXCEPT ![p][k] = now]}

Packet(side, p, k, acts) ==
    /\ out'.side = side /\ out'.proto = p /\ out'.key = k /\ out'.act \in acts
    /\ UNCHANGED <<now, window, enforcing, invited>>

HostPacket(p, k) ==
    /\ Packet("T", p, k, {"forward"} \cup IF enforcing THEN {"drop"} ELSE {})
    /\ MayBeEvidence(p, k)

PeerAdmitted(p, k) ==
    /\ Open(p, k) \/ <<p, k>> \in invited
    /\ Packet("U", p, k, {"forward"})
    /\ MayBeEvidence(p, k)

PeerRefused(p, k) ==
    /\ Packet("U", p, k, IF enforcing THEN {"drop", "rst"} ELSE {"forward"})
    /\ UNCHANGED seen

\* Time passes or the policy changes; neither opens a tuple.
Background ==
    /\ now' \in {now, now + 1}
    /\ out'.act = "idle"
    /\ UNCHANGED seen

Init ==
    /\ now = 1
    /\ seen = [p \in Proto |-> [k \in Key |-> 0]]
    /\ out.act = "idle"

Next ==
    \/ \E p \in Proto, k \in Key : HostPacket(p, k) \/ PeerAdmitted(p, k) \/ PeerRefused(p, k)
    \/ Background

Spec == Init /\ [][Next]_vars

=============================================================================
