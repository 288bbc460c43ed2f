----------------------------- MODULE FlowMonitor -----------------------------
(***************************************************************************)
(* Sampled flow monitoring: monitor_flow() of bpf/filter.bpf.c on several  *)
(* CPUs, one map access per step; the daemon's reload, which changes the   *)
(* sampling globals and the CIDR trie first and publishes the new settings *)
(* last; and Reporter.Tick() of internal/flowmonitor, which turns two      *)
(* successive scans of the counters into the published alerts.             *)
(*                                                                         *)
(* A counter is its packet count (bytes go the same way).  A counter is an *)
(* element of an LRU map, numbered as in TokenBucket: 0 is none.           *)
(***************************************************************************)
EXTENDS Naturals, FiniteSets

CONSTANTS
    CPU,        \* CPUs of the untrusted port
    Key,        \* flow_monitor_key values
    Settings,   \* flow_monitoring sections: enabled, sample, cidrs
    Threshold,  \* pps_threshold
    Fails,      \* may an insert, the scan of the counters, the write of the file fail?
    MaxSamples, \* bound on sampled packets
    MaxElems,   \* bound on counters ever inserted
    MaxReloads  \* bound on reloads

ASSUME MonitorConstants ==
    /\ Settings # {} /\ Key # {} /\ Threshold \in Nat /\ Fails \in BOOLEAN
    /\ \A s \in Settings : /\ DOMAIN s = {"enabled", "sample", "cidrs"}
                           /\ s.enabled \in BOOLEAN /\ s.sample \in Nat \ {0}
                           /\ s.cidrs \subseteq Key
    /\ {MaxSamples, MaxElems, MaxReloads} \subseteq Nat

VARIABLES
    enabled, sample, \* FLOW_MONITOR_ENABLED, FLOW_MONITOR_SAMPLE_MASK + 1
    trie,            \* flow_monitor_cidrs: the keys it covers
    map, count,      \* flow_monitor_counters: element per key; packets per element
    elems,           \* number of elements inserted so far
    pc, key, ptr,    \* monitor_flow, per CPU
    samples,         \* bound: packets sampled so far
    cfgPtr,          \* the published configuration
    dpc, next,       \* reload: control point and new settings
    reloads,
    rpc, rcfg,       \* Tick: control point and the configuration it was given
    rset,            \* r.settings, a set of at most one element
    prev, hasPrev,   \* r.prev
    todo, cur,       \* the scan
    rebase,          \* changed || r.prev == nil
    published,       \* flow_alerts.jsonl
    taken,           \* history: samples accounted per key
    disturbed,       \* history: a counter of the key was evicted or refused
    hits,            \* history: samples per key since its last scan
    whits,           \* history: the same for the window that is being scanned
    prevBy,          \* history: the settings under which prev was scanned
    failed, wrote    \* history: a scan failed since prev was; the last write succeeded

packets  == <<map, count, elems, pc, key, ptr, samples, taken, disturbed, hits>>
globals  == <<enabled, sample, trie>>
reload   == <<cfgPtr, dpc, next, reloads>>
reporter == <<rpc, rcfg, rset, prev, hasPrev, todo, cur, rebase, published, whits, prevBy,
              failed, wrote>>
vars     == <<packets, globals, reload, reporter>>

Elem == 1 .. MaxElems

----------------------------------------------------------------------------
(* monitor_flow *)

Goto(c, l) == pc' = [pc EXCEPT ![c] = l]

\* Enabled, and chosen by the random draw (a packet not chosen changes nothing).
Choose(c, k) ==
    /\ pc[c] = "idle" /\ enabled /\ samples < MaxSamples
    /\ samples' = samples + 1 /\ key' = [key EXCEPT ![c] = k]
    /\ Goto(c, "match")
    /\ UNCHANGED <<map, count, elems, ptr, taken, disturbed, hits,
                   globals, reload, reporter>>

Match(c) ==
    /\ pc[c] = "match" /\ Goto(c, IF key[c] \in trie THEN "look" ELSE "idle")
    /\ UNCHANGED <<map, count, elems, key, ptr, samples, taken, disturbed, hits,
                   globals, reload, reporter>>

LookUnchecked(c) ==
    LET e == map[key[c]]
    IN /\ pc[c] \in {"look", "again"}
       /\ ptr' = [ptr EXCEPT ![c] = e]
       /\ Goto(c, IF e = 0 /\ pc[c] = "look" THEN "insert" ELSE "add")
       /\ UNCHANGED <<map, count, elems, key, samples, taken, disturbed, hits,
                      globals, reload, reporter>>

\* The first lookup, and the one after a refused insert; the latter may lose the sample.
Look(c) ==
    LET e == map[key[c]]
    IN /\ pc[c] \in {"look", "again"}
       /\ ptr' = [ptr EXCEPT ![c] = e]
       /\ Goto(c, IF e # 0 THEN "add" ELSE IF pc[c] = "look" THEN "insert" ELSE "idle")
       /\ UNCHANGED <<map, count, elems, key, samples, taken, disturbed, hits,
                      globals, reload, reporter>>

\* The sample of CPU c is in the counters.
Account(c) ==
    /\ taken' = [taken EXCEPT ![key[c]] = @ + 1]
    /\ hits' = [hits EXCEPT ![key[c]] = @ + 1]

Add(c) ==
    /\ pc[c] = "add" /\ Goto(c, "idle")
    /\ count' = [count EXCEPT ![ptr[c]] = @ + 1]
    /\ Account(c)
    /\ UNCHANGED <<map, elems, key, ptr, samples, disturbed, globals, reload, reporter>>

InsertAny(c) ==
    /\ pc[c] = "insert" /\ elems < MaxElems /\ elems' = elems + 1
    /\ map' = [map EXCEPT ![key[c]] = elems + 1]
    /\ count' = [count EXCEPT ![elems + 1] = 1]
    /\ Account(c) /\ Goto(c, "idle")
    /\ UNCHANGED <<key, ptr, samples, disturbed, globals, reload, reporter>>

\* BPF_NOEXIST: refused if a racing CPU inserted the tuple, or for lack of memory.
Insert(c) ==
    /\ pc[c] = "insert"
    /\ \/ /\ map[key[c]] = 0 /\ elems < MaxElems /\ elems' = elems + 1
          /\ map' = [map EXCEPT ![key[c]] = elems + 1]
          /\ count' = [count EXCEPT ![elems + 1] = 1]
          /\ Account(c) /\ Goto(c, "idle")
       \/ /\ map[key[c]] # 0 \/ Fails
          /\ Goto(c, "again")
          /\ UNCHANGED <<map, count, elems, taken, hits>>
    /\ UNCHANGED <<key, ptr, samples, disturbed, globals, reload, reporter>>

\* The LRU map drops a counter.
Evict(k) ==
    /\ map[k] # 0 /\ elems < MaxElems
    /\ map' = [map EXCEPT ![k] = 0] /\ disturbed' = [disturbed EXCEPT ![k] = TRUE]
    /\ UNCHANGED <<count, elems, pc, key, ptr, samples, taken, hits,
                   globals, reload, reporter>>

----------------------------------------------------------------------------
(* reload(): see Control.tla for the whole of it *)

ReloadBegin(s) ==
    /\ dpc = "idle" /\ reloads < MaxReloads /\ reloads' = reloads + 1
    /\ next' = s /\ dpc' = "trie"
    /\ IF s.enabled THEN UNCHANGED <<enabled, sample>> ELSE enabled' = FALSE /\ sample' = s.sample
    /\ UNCHANGED <<packets, trie, cfgPtr, reporter>>

SyncTrie ==
    /\ dpc = "trie" /\ trie' = next.cidrs
    /\ dpc' = IF next.enabled THEN "mask" ELSE "store"
    /\ UNCHANGED <<packets, enabled, sample, cfgPtr, next, reloads, reporter>>

SetMask ==
    /\ dpc = "mask" /\ dpc' = "enable" /\ sample' = next.sample
    /\ UNCHANGED <<packets, enabled, trie, cfgPtr, next, reloads, reporter>>

Enable ==
    /\ dpc = "enable" /\ dpc' = "store" /\ enabled' = TRUE
    /\ UNCHANGED <<packets, sample, trie, cfgPtr, next, reloads, reporter>>

Store ==
    /\ dpc = "store" /\ dpc' = "idle" /\ cfgPtr' = next
    /\ UNCHANGED <<packets, globals, next, reloads, reporter>>

----------------------------------------------------------------------------
(* Reporter.Tick *)

ChangedAtStartOnly == rset = {}

Changed == rset # {cfgPtr}

TickQuiet ==
    /\ rpc = "idle" /\ rcfg' = cfgPtr /\ rset' = {cfgPtr}
    /\ IF ~cfgPtr.enabled \/ cfgPtr.cidrs = {}
       THEN /\ hasPrev' = FALSE /\ UNCHANGED <<rpc, todo, rebase>>
       ELSE /\ rpc' = "scan" /\ todo' = Key /\ rebase' = (Changed \/ ~hasPrev)
            /\ UNCHANGED hasPrev
    /\ UNCHANGED <<packets, globals, reload, prev, cur, whits, prevBy, failed, published, wrote>>

\* r.write: a write that fails leaves the last snapshot in place.
Write(alerts) ==
    \/ wrote' = TRUE /\ published' = alerts
    \/ Fails /\ wrote' = FALSE /\ UNCHANGED published

\* Nothing to account: the public snapshot is replaced all the same.
Tick ==
    /\ rpc = "idle" /\ rcfg' = cfgPtr /\ rset' = {cfgPtr}
    /\ IF ~cfgPtr.enabled \/ cfgPtr.cidrs = {}
       THEN /\ hasPrev' = FALSE /\ Write({})
            /\ UNCHANGED <<rpc, todo, rebase>>
       ELSE /\ rpc' = "scan" /\ todo' = Key /\ rebase' = (Changed \/ ~hasPrev)
            /\ UNCHANGED <<hasPrev, published, wrote>>
    /\ UNCHANGED <<packets, globals, reload, prev, cur, whits, prevBy, failed>>

\* collectInto reads one counter.
Scan(k) ==
    /\ rpc = "scan" /\ k \in todo /\ todo' = todo \ {k}
    /\ cur' = [cur EXCEPT ![k] = IF map[k] = 0 THEN 0 ELSE count[map[k]]]
    /\ whits' = [whits EXCEPT ![k] = hits[k]] /\ hits' = [hits EXCEPT ![k] = 0]
    /\ UNCHANGED <<map, count, elems, pc, key, ptr, samples, taken, disturbed,
                   globals, reload, rpc, rcfg, rset, prev, hasPrev, rebase, published, prevBy,
                   failed, wrote>>

\* The scan fails: r.prev stays, and so does what was sampled since.
ScanFails ==
    /\ Fails /\ rpc = "scan" /\ rpc' = "idle" /\ failed' = TRUE
    /\ hits' = [k \in Key |-> IF k \in todo THEN hits[k] ELSE hits[k] + whits[k]]
    /\ UNCHANGED <<map, count, elems, pc, key, ptr, samples, taken, disturbed,
                   globals, reload, rcfg, rset, prev, hasPrev, todo, cur, rebase, published,
                   whits, prevBy, wrote>>

DeltaUnsigned(k) == (cur[k] + 256 - prev[k]) % 256

\* A counter below its previous value was recreated.
Delta(k) == IF cur[k] >= prev[k] THEN cur[k] - prev[k] ELSE cur[k]

\* alertsFrom: the keys whose estimated rate exceeds the threshold of their rule.
Alerting == {k \in rcfg.cidrs : rcfg.sample * Delta(k) > Threshold}

Finish ==
    /\ rpc = "scan" /\ todo = {} /\ rpc' = "idle"
    /\ prev' = cur /\ hasPrev' = TRUE /\ prevBy' = rcfg /\ failed' = FALSE
    /\ Write(IF rebase THEN {} ELSE Alerting)
    /\ UNCHANGED <<packets, globals, reload, rcfg, rset, todo, cur, rebase, whits>>

----------------------------------------------------------------------------
Init ==
    /\ cfgPtr \in Settings /\ next = cfgPtr /\ dpc = "idle" /\ reloads = 0
    /\ enabled = cfgPtr.enabled /\ sample = cfgPtr.sample /\ trie = cfgPtr.cidrs
    /\ map = [k \in Key |-> 0] /\ count = [e \in Elem |-> 0] /\ elems = 0
    /\ pc = [c \in CPU |-> "idle"] /\ key \in [CPU -> {CHOOSE k \in Key : TRUE}]
    /\ ptr = [c \in CPU |-> 0] /\ samples = 0
    /\ taken = [k \in Key |-> 0] /\ disturbed = [k \in Key |-> FALSE]
    /\ hits = [k \in Key |-> 0] /\ whits = hits /\ prevBy = cfgPtr
    /\ failed = FALSE /\ wrote = TRUE
    /\ rpc = "idle" /\ rcfg = cfgPtr /\ rset = {} /\ prev = [k \in Key |-> 0] /\ hasPrev = FALSE
    /\ todo = {} /\ cur = prev /\ rebase = FALSE /\ published = {}

monitor_flow(c) ==
    \/ \E k \in Key : Choose(c, k)
    \/ Match(c) \/ Look(c) \/ Add(c) \/ Insert(c)

Reload   == SyncTrie \/ SetMask \/ Enable \/ Store
Reporter == Tick \/ ScanFails \/ Finish \/ \E k \in Key : Scan(k)

Next ==
    \/ \E c \in CPU : monitor_flow(c)
    \/ \E k \in Key : Evict(k)
    \/ \E s \in Settings : ReloadBegin(s)
    \/ Reload
    \/ Reporter

\* The one-second worker and a reload that has begun keep running.
Fairness == WF_vars(Reload) /\ WF_vars(Reporter)

Spec == Init /\ [][Next]_vars /\ Fairness

----------------------------------------------------------------------------
(* Properties *)

\* Types and control points; an element is pointed to only once it exists.
TypeOK ==
    /\ cfgPtr \in Settings /\ next \in Settings /\ rcfg \in Settings
    /\ enabled \in BOOLEAN /\ sample \in Nat /\ trie \subseteq Key
    /\ elems \in 0 .. MaxElems /\ map \in [Key -> 0 .. elems] /\ count \in [Elem -> Nat]
    /\ pc \in [CPU -> {"idle", "match", "look", "insert", "again", "add"}]
    /\ key \in [CPU -> Key] /\ ptr \in [CPU -> 0 .. elems]
    /\ dpc \in {"idle", "trie", "mask", "enable", "store"} /\ rpc \in {"idle", "scan"}
    /\ rset \subseteq Settings /\ published \subseteq Key /\ todo \subseteq Key
    /\ hasPrev \in BOOLEAN /\ rebase \in BOOLEAN
    /\ prev \in [Key -> Nat] /\ cur \in [Key -> Nat]
    /\ \A c \in CPU : pc[c] = "add" => ptr[c] # 0

\* "A racing CPU may have inserted the same tuple.  Preserve this sample": as long as
\* no counter of the key was evicted, its counter holds every sample accounted.
SamplesPreserved ==
    \A k \in Key : ~disturbed[k] => taken[k] = IF map[k] = 0 THEN 0 ELSE count[map[k]]

\* An alert never rests on packets that were not sampled in its window, also when a
\* counter was evicted, recreated or scanned while CPUs were adding to it.
NoPhantom ==
    [][Finish /\ ~rebase => \A k \in Alerting : Delta(k) <= whits[k]]_vars

\* "A configuration transition publishes an empty baseline window": the two scans
\* an alert is computed from were taken for the same settings, if none failed between.
BaselineAfterChange ==
    [][Finish /\ ~rebase /\ ~failed /\ Alerting # {} => prevBy = rcfg]_vars

\* Once monitoring is off for good and the snapshot can be written again, the
\* published alerts disappear.
AlertsCleared == <>[](~cfgPtr.enabled /\ wrote) => <>[](published = {})

=============================================================================
