----------------------------- MODULE TokenBucket -----------------------------
(***************************************************************************)
(* tbkt_charge() of bpf/filter.bpf.c: CPUs charging one key of synbkt      *)
(* concurrently, one memory access per step.  A bucket is an element of    *)
(* the LRU map: replacing the key's element leaves the old one to the CPUs *)
(* that still point to it, so elements are numbered and the map holds the  *)
(* number of the current one (0: none).  Token amounts are the fixed-point *)
(* units of the code, time is in the units of Interval.                    *)
(***************************************************************************)
EXTENDS Integers, FiniteSets

CONSTANTS
    CPU,       \* CPUs that RSS spreads the key's packets over
    Cost,      \* price of one packet (1000)
    Gain,      \* units credited per Interval (rate)
    Burst,     \* capacity (rate * 2 * 1000)
    Interval,  \* shortest time between two refills (2^20 ns)
    Retries,   \* CAS attempts before failing open (4)
    MaxTime,   \* bound on the clock
    MaxElems   \* bound on the elements ever inserted

ASSUME BucketConstants ==
    /\ Cost \in Nat \ {0} /\ Gain \in Nat /\ Burst \in Nat /\ Burst >= Cost
    /\ Interval \in Nat \ {0} /\ Retries \in Nat \ {0}
    /\ MaxTime \in Nat /\ MaxElems \in Nat

VARIABLES
    clock,     \* bpf_ktime_get_coarse_ns()
    map,       \* synbkt[key]: current element, 0 if absent
    elems,     \* number of elements inserted so far
    tokens,    \* tbkt.tokens per element
    ts,        \* tbkt.ts_ns per element
    pc,        \* per CPU: the next memory access of the call
    ptr,       \* per CPU: b
    tnow,      \* per CPU: tnow
    last,      \* per CPU: last = b->ts_ns
    cur,       \* per CPU: the value read from b->tokens
    tries,     \* per CPU: failed spends of this call
    verdict,   \* per CPU: what the last call did: "paid", "new", "reject" or "open"
    credited,  \* history: units put into each element
    covered,   \* history: the instants each element was credited for
    paid,      \* history: packets charged to each element
    born,      \* history: ts_ns each element was inserted with
    version,   \* history: successful writes of each element's tokens
    since      \* history: per CPU, version of b when the call read b

Elem   == 1 .. MaxElems
local  == <<pc, ptr, tnow, last, cur, tries, verdict, since>>
shared == <<map, elems, tokens, ts, credited, covered, paid, born, version>>
vars   == <<clock, shared, local>>

Return(c, v) == pc' = [pc EXCEPT ![c] = "idle"] /\ verdict' = [verdict EXCEPT ![c] = v]
Goto(c, l)   == pc' = [pc EXCEPT ![c] = l] /\ UNCHANGED verdict

----------------------------------------------------------------------------
\* bpf_map_lookup_elem and the clock read, merged: the clock is not shared state.
Lookup(c) ==
    /\ pc[c] = "idle"
    /\ ptr' = [ptr EXCEPT ![c] = map]
    /\ tnow' = [tnow EXCEPT ![c] = clock]
    /\ tries' = [tries EXCEPT ![c] = 0]
    /\ since' = [since EXCEPT ![c] = IF map = 0 THEN 0 ELSE version[map]]
    /\ Goto(c, IF map = 0 THEN "insert" ELSE "readTs")
    /\ UNCHANGED <<clock, shared, last, cur>>

\* BPF_ANY: a racing CPU's fresh element is replaced.
Insert(c) ==
    LET e == elems + 1
    IN /\ pc[c] = "insert" /\ elems < MaxElems
       /\ map' = e /\ elems' = e
       /\ tokens' = [tokens EXCEPT ![e] = Burst - Cost]
       /\ ts' = [ts EXCEPT ![e] = tnow[c]]
       /\ credited' = [credited EXCEPT ![e] = Burst]
       /\ covered' = [covered EXCEPT ![e] = {}]
       /\ paid' = [paid EXCEPT ![e] = 1]
       /\ born' = [born EXCEPT ![e] = tnow[c]]
       /\ Return(c, "new")
       /\ UNCHANGED <<clock, version, ptr, tnow, last, cur, tries, since>>

\* The result of the update is ignored: a failed insert admits the packet too.
InsertFailed(c) ==
    /\ pc[c] = "insert" /\ Return(c, "new")
    /\ UNCHANGED <<clock, shared, ptr, tnow, last, cur, tries, since>>

ReadTs(c) ==
    /\ pc[c] = "readTs"
    /\ last' = [last EXCEPT ![c] = ts[ptr[c]]]
    /\ Goto(c, IF tnow[c] > ts[ptr[c]] /\ tnow[c] - ts[ptr[c]] >= Interval
               THEN "casTs" ELSE "readCur")
    /\ UNCHANGED <<clock, shared, ptr, tnow, cur, tries, since>>

CasTsAlways(c) ==
    /\ pc[c] = "casTs"
    /\ ts' = [ts EXCEPT ![ptr[c]] = tnow[c]] /\ Goto(c, "readRoom")
    /\ UNCHANGED <<clock, map, elems, tokens, credited, covered, paid, born, version,
                   ptr, tnow, last, cur, tries, since>>

CasTsNoStore(c) ==
    /\ pc[c] = "casTs"
    /\ Goto(c, IF ts[ptr[c]] = last[c] THEN "readRoom" ELSE "readCur")
    /\ UNCHANGED <<clock, shared, ptr, tnow, last, cur, tries, since>>

\* The CAS on ts_ns elects one refiller per interval.
CasTs(c) ==
    /\ pc[c] = "casTs"
    /\ IF ts[ptr[c]] = last[c]
       THEN ts' = [ts EXCEPT ![ptr[c]] = tnow[c]] /\ Goto(c, "readRoom")
       ELSE UNCHANGED ts /\ Goto(c, "readCur")
    /\ UNCHANGED <<clock, map, elems, tokens, credited, covered, paid, born, version,
                   ptr, tnow, last, cur, tries, since>>

Credit(c) == ((tnow[c] - last[c]) * Gain) \div Interval

ReadRoom(c) ==
    /\ pc[c] = "readRoom"
    /\ cur' = [cur EXCEPT ![c] = tokens[ptr[c]]]
    /\ Goto(c, IF tokens[ptr[c]] < Burst THEN "add" ELSE "readCur")
    /\ UNCHANGED <<clock, shared, ptr, tnow, last, tries, since>>

\* Clamped to the headroom read before, then added atomically.
Add(c) ==
    LET room == Burst - cur[c]
        add  == IF Credit(c) > room THEN room ELSE Credit(c)
    IN /\ pc[c] = "add"
       /\ tokens' = [tokens EXCEPT ![ptr[c]] = @ + add]
       /\ credited' = [credited EXCEPT ![ptr[c]] = @ + add]
       /\ covered' = [covered EXCEPT ![ptr[c]] = @ \cup (last[c] + 1 .. tnow[c])]
       /\ version' = [version EXCEPT ![ptr[c]] = IF add > 0 THEN @ + 1 ELSE @]
       /\ since' = [since EXCEPT ![c] = IF add > 0 THEN @ + 1 ELSE @]
       /\ Goto(c, "readCur")
       /\ UNCHANGED <<clock, map, elems, ts, paid, born, ptr, tnow, last, cur, tries>>

ReadCurUnchecked(c) ==
    /\ pc[c] = "readCur"
    /\ cur' = [cur EXCEPT ![c] = tokens[ptr[c]]]
    /\ Goto(c, "spend")
    /\ UNCHANGED <<clock, shared, ptr, tnow, last, tries, since>>

ReadCur(c) ==
    /\ pc[c] = "readCur"
    /\ cur' = [cur EXCEPT ![c] = tokens[ptr[c]]]
    /\ IF tokens[ptr[c]] < Cost THEN Return(c, "reject") ELSE Goto(c, "spend")
    /\ UNCHANGED <<clock, shared, ptr, tnow, last, tries, since>>

LastTryEarly(c) == tries[c] + 2 = Retries

LastTry(c) == tries[c] + 1 = Retries

SpendPlain(c) ==
    /\ pc[c] = "spend"
    /\ tokens' = [tokens EXCEPT ![ptr[c]] = cur[c] - Cost]
    /\ paid' = [paid EXCEPT ![ptr[c]] = @ + 1]
    /\ version' = [version EXCEPT ![ptr[c]] = @ + 1]
    /\ Return(c, "paid")
    /\ UNCHANGED <<clock, map, elems, ts, credited, covered, born, ptr, tnow, last, cur, tries, since>>

\* One of Retries compare-and-swap attempts; after the last one it fails open.
Spend(c) ==
    /\ pc[c] = "spend"
    /\ IF tokens[ptr[c]] = cur[c]
       THEN /\ tokens' = [tokens EXCEPT ![ptr[c]] = cur[c] - Cost]
            /\ paid' = [paid EXCEPT ![ptr[c]] = @ + 1]
            /\ version' = [version EXCEPT ![ptr[c]] = @ + 1]
            /\ UNCHANGED tries
            /\ Return(c, "paid")
       ELSE /\ tries' = [tries EXCEPT ![c] = @ + 1]
            /\ IF LastTry(c) THEN Return(c, "open") ELSE Goto(c, "readCur")
            /\ UNCHANGED <<tokens, paid, version>>
    /\ UNCHANGED <<clock, map, elems, ts, credited, covered, born, ptr, tnow, last, cur, since>>

Tick == clock < MaxTime /\ clock' = clock + 1 /\ UNCHANGED <<shared, local>>

\* The LRU map drops the key's element.
EvictBucket ==
    /\ map # 0 /\ elems < MaxElems
    /\ map' = 0
    /\ UNCHANGED <<clock, elems, tokens, ts, credited, covered, paid, born, version, local>>

Init ==
    /\ clock = 1 /\ map = 0 /\ elems = 0
    /\ tokens = [e \in Elem |-> 0] /\ ts = [e \in Elem |-> 0]
    /\ credited = [e \in Elem |-> 0] /\ paid = [e \in Elem |-> 0]
    /\ version = [e \in Elem |-> 0] /\ born = [e \in Elem |-> 0]
    /\ covered = [e \in Elem |-> {}]
    /\ pc = [c \in CPU |-> "idle"] /\ ptr = [c \in CPU |-> 0]
    /\ tnow = [c \in CPU |-> 0] /\ last = [c \in CPU |-> 0] /\ cur = [c \in CPU |-> 0]
    /\ tries = [c \in CPU |-> 0] /\ since = [c \in CPU |-> 0]
    /\ verdict = [c \in CPU |-> "reject"]

Charge(c) ==
    \/ Lookup(c) \/ Insert(c) \/ InsertFailed(c) \/ ReadTs(c) \/ CasTs(c)
    \/ ReadRoom(c) \/ Add(c) \/ ReadCur(c) \/ Spend(c)

Next == (\E c \in CPU : Charge(c)) \/ Tick \/ EvictBucket

Spec == Init /\ [][Next]_vars

----------------------------------------------------------------------------
(* Properties *)

\* tokens is a __u64: it never goes below zero, whatever the interleaving.
TypeOK ==
    /\ clock \in Nat /\ elems \in 0 .. MaxElems /\ map \in 0 .. elems
    /\ tokens \in [Elem -> Nat] /\ ts \in [Elem -> Nat]
    /\ credited \in [Elem -> Nat] /\ paid \in [Elem -> Nat] /\ version \in [Elem -> Nat]
    /\ born \in [Elem -> Nat] /\ covered \in [Elem -> SUBSET Nat]
    /\ pc \in [CPU -> {"idle", "insert", "readTs", "casTs", "readRoom", "add", "readCur", "spend"}]
    /\ ptr \in [CPU -> 0 .. elems]
    /\ tnow \in [CPU -> Nat] /\ last \in [CPU -> Nat] /\ cur \in [CPU -> Nat]
    /\ tries \in [CPU -> 0 .. Retries] /\ since \in [CPU -> Nat]
    /\ verdict \in [CPU -> {"paid", "new", "reject", "open"}]

\* No update is lost: at every instant an element holds exactly what was put in
\* minus Cost per packet charged to it ("every read-modify-write here is atomic").
Ledger == \A e \in Elem : tokens[e] = credited[e] - Cost * paid[e]

\* A call gives up its compare-and-swap loop and admits unpaid only after as many
\* writes of the same bucket by other CPUs as it made attempts: a CPU alone on a
\* bucket never fails open.
OpenOnlyContended ==
    [][\A c \in CPU :
          Spend(c) /\ pc'[c] = "idle" /\ verdict'[c] = "open"
             => version[ptr[c]] - since[c] >= Retries]_vars

\* Two CPUs are never between their CAS on ts_ns and their credit for the same
\* stretch of time: the intervals credited to an element are disjoint.
RefillOnce ==
    \A c, d \in CPU :
        /\ c # d /\ ptr[c] = ptr[d]
        /\ pc[c] \in {"readRoom", "add"} /\ pc[d] \in {"readRoom", "add"}
        => tnow[c] <= last[d] \/ tnow[d] <= last[c]

\* "The limit can't leak by a factor of the core count": however many CPUs charge
\* an element, the packets it paid for cost no more than one burst and the rate
\* times the element's age.
RateBound ==
    \A e \in Elem : Cost * paid[e] <= Burst + (Gain * (clock - born[e])) \div Interval

=============================================================================
