------------------------------- MODULE Sizing -------------------------------
(***************************************************************************)
(* How the wizard sizes the tables (internal/config/resources.go): what it *)
(* reads of the host, and the recommendation.  A host is a record of the   *)
(* numbers in /proc and /sys, 0 where a file is missing or says "max"; its *)
(* cgroups are listed from the daemon's own up to the root.  Sizes are in  *)
(* bytes, and hosts small enough for TLC's integers.                       *)
(***************************************************************************)
EXTENDS Naturals, Sequences, FiniteSets, FiniteSetsExt

flowEntryEstimate == 128
l1EntryBytes      == 24
fixedMapBytes     == 10 * 2^20
statsBytesPerCPU  == 98512

Host == [total : Nat, available : Nat, possible : Nat, online : Nat, cgroups : Seq([max : Nat, cur : Nat])]

\* A number that makes no sense beside the host's memory counts as no limit.
parseMemoryValue(v, hostTotal) == IF hostTotal > 0 /\ v > 0 /\ (v - 1) \div 1024 >= hostTotal THEN 0 ELSE v

\* The tightest limit and the least room on the way up; 0 when there is none.
LeastOf(S) == IF S = {} THEN 0 ELSE Min(S)

detectCgroupMemory(host) ==
    LET max(i) == parseMemoryValue(host.cgroups[i].max, host.total)
        limited == {i \in DOMAIN host.cgroups : max(i) > 0}
    IN [limit |-> LeastOf({max(i) : i \in limited}),
        headroom |-> LeastOf({max(i) - host.cgroups[i].cur :
                                i \in {j \in limited : max(j) > host.cgroups[j].cur}})]

OwnCgroupOnly(host) ==
    LET g == detectCgroupMemory([host EXCEPT !.cgroups = SubSeq(@, 1, IF @ = <<>> THEN 0 ELSE 1)])
    IN [effective |-> IF g.limit > 0 THEN g.limit ELSE host.total,
        headroom |-> IF g.headroom > 0 THEN g.headroom ELSE host.available,
        possible |-> Max({host.possible, 1})]

\* Zero means unknown throughout: of two figures the smaller known one counts.
DetectHostResources(host) ==
    LET g == detectCgroupMemory(host)
        effective == LeastOf({host.total, g.limit} \ {0})
        headroom  == LeastOf({host.available, g.headroom} \ {0})
        possible  == IF host.possible > 0 THEN host.possible ELSE host.online
    IN [effective |-> effective,
        headroom  |-> IF headroom > 0 THEN headroom ELSE effective,
        possible  |-> IF possible > 0 THEN possible ELSE 1]

floorPowerOfTwo(v) == IF v = 0 THEN 0 ELSE Max({p \in {2^i : i \in 0 .. 30} : p <= v})
roundDown1024(v)   == v - (v % 1024)
clamp64(v, lo, hi) == IF v < lo THEN lo ELSE IF v > hi THEN hi ELSE v

RecommendDedicated(res) ==
    LET budget   == (Min({res.effective \div 3, res.headroom}) * 4) \div 5
        fixed    == fixedMapBytes + statsBytesPerCPU * res.possible
        perSlot  == l1EntryBytes * res.possible
        fitting  == Min({floorPowerOfTwo((res.effective \div 100) \div perSlot), 2^16})
        wanted   == IF fitting < 2^12 THEN 0 ELSE fitting
        slots    == IF fixed + wanted * perSlot >= budget THEN 0 ELSE wanted
        l1Bytes  == slots * perSlot
        flows    == IF budget > fixed + l1Bytes THEN budget - fixed - l1Bytes ELSE 0
        tcp      == clamp64(roundDown1024(((flows * 4) \div 5) \div flowEntryEstimate), 1024, 2^26)
        udp      == clamp64(roundDown1024((flows \div 5) \div flowEntryEstimate), 1024, 2^24)
    IN [flow_max |-> tcp, udp_flow_max |-> udp, l1_size |-> slots, budget |-> budget,
        fixed |-> fixed, estimated |-> fixed + l1Bytes + flowEntryEstimate * (tcp + udp)]
=============================================================================
