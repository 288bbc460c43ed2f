-------------------------- MODULE FlowMonitorProofs --------------------------
(***************************************************************************)
(* Theorems about FlowMonitor for any number of CPUs, keys, settings,      *)
(* samples, evictions and reloads.  The inductive invariant says which key *)
(* a counter belongs to while CPUs still hold pointers to evicted ones,    *)
(* and how far a counter may be from the last reading of it.               *)
(***************************************************************************)
EXTENDS FlowMonitor, TLAPS

\* The histories and bounds, which TypeOK leaves out.
HistoryOK ==
    /\ taken \in [Key -> Nat] /\ hits \in [Key -> Nat] /\ whits \in [Key -> Nat]
    /\ disturbed \in [Key -> BOOLEAN] /\ failed \in BOOLEAN
    /\ samples \in Nat /\ reloads \in Nat /\ prevBy \in Settings

\* What a lookup of the key's counter would read.
Held(k) == IF map[k] = 0 THEN 0 ELSE count[map[k]]

\* An element counts one key: no two keys have the same, and a CPU that holds a pointer
\* to one that is still in the map holds it for its own key.
OneKeyEach ==
    /\ \A k, l \in Key : map[k] # 0 /\ map[k] = map[l] => k = l
    /\ \A c \in CPU : pc[c] = "add" => \A k \in Key : map[k] = ptr[c] => k = key[c]

\* A key that was never evicted has one element, which every CPU about to add points to.
Undisturbed ==
    \A c \in CPU : pc[c] = "add" /\ ~disturbed[key[c]] => ptr[c] = map[key[c]]

\* From reading a to reading b at most n samples were counted; b may be that of a counter
\* inserted since.
Within(a, b, n) == (a <= b /\ b <= a + n) \/ b <= n

\* The counter against its last reading, and that reading against the one before: hits
\* and whits bound what came between.
Accounted ==
    /\ \A k \in Key : (rpc = "idle" \/ k \in todo) => Within(prev[k], Held(k), hits[k])
    /\ \A k \in Key : (rpc = "scan" /\ k \notin todo) =>
          Within(prev[k], cur[k], whits[k]) /\ Within(cur[k], Held(k), hits[k])

\* Whose settings prev was scanned under, as long as no scan failed since.
Provenance ==
    /\ rpc = "scan" => rset = {rcfg}
    /\ rpc = "idle" /\ hasPrev /\ ~failed => rset = {prevBy}
    /\ rpc = "scan" /\ ~rebase /\ ~failed => prevBy = rcfg

MonitorInv ==
    TypeOK /\ HistoryOK /\ OneKeyEach /\ Undisturbed /\ SamplesPreserved /\ Accounted /\ Provenance

----------------------------------------------------------------------------
(* Types *)

\* A settings section names CIDRs of the key space (config.Validate).
LEMMA SettingsShape ==
    ASSUME NEW s \in Settings
    PROVE  s.enabled \in BOOLEAN /\ s.sample \in Nat /\ s.cidrs \subseteq Key
BY MonitorConstants

\* The bounds are numbers.
LEMMA Bounds == MaxElems \in Nat /\ MaxSamples \in Nat /\ MaxReloads \in Nat
BY MonitorConstants

\* An element number that is not zero is one of a counter.
LEMMA NonzeroIsElem ==
    ASSUME TypeOK, NEW e \in 0 .. elems, e # 0
    PROVE  e \in Elem
<1>1. elems \in Nat /\ elems <= MaxElems
  BY Bounds DEF TypeOK
<1> QED
  BY <1>1, Bounds DEF Elem

\* The daemon starts with empty maps and no reading.
LEMMA TypeInit == Init => TypeOK /\ HistoryOK
<1> SUFFICES ASSUME Init PROVE TypeOK /\ HistoryOK
  OBVIOUS
<1>1. (CHOOSE k \in Key : TRUE) \in Key
  BY MonitorConstants
<1>2. key \in [CPU -> Key]
  BY <1>1 DEF Init
<1>3. enabled \in BOOLEAN /\ sample \in Nat /\ trie \subseteq Key
  BY SettingsShape DEF Init
<1>4. elems \in 0 .. MaxElems /\ map \in [Key -> 0 .. elems] /\ count \in [Elem -> Nat]
      /\ ptr \in [CPU -> 0 .. elems]
  BY Bounds DEF Init
<1>5. TypeOK
  BY <1>2, <1>3, <1>4 DEF Init, TypeOK
<1>6. HistoryOK
  BY DEF Init, HistoryOK
<1> QED
  BY <1>5, <1>6

\* Every step of monitor_flow on a CPU keeps the types; a pointer that is followed is
\* never nil, also after a refused insert.
LEMMA TypeFlow ==
    ASSUME TypeOK, HistoryOK, NEW c \in CPU, monitor_flow(c)
    PROVE  TypeOK' /\ HistoryOK'
<1> USE MonitorConstants DEF TypeOK, HistoryOK, packets, globals, reload, reporter, Goto
<1>1. CASE \E k \in Key : Choose(c, k)
  BY <1>1 DEF Choose
<1>2. CASE Match(c)
  BY <1>2 DEF Match
<1>3. CASE Look(c)
  BY <1>3 DEF Look
<1>4. CASE Add(c)
  <2>1. ptr[c] \in Elem
    <3>1. ptr[c] \in 0 .. elems /\ ptr[c] # 0
      BY <1>4 DEF Add
    <3> QED
      BY <3>1, NonzeroIsElem
  <2>2. count' \in [Elem -> Nat] /\ taken' \in [Key -> Nat] /\ hits' \in [Key -> Nat]
    BY <1>4, <2>1 DEF Add, Account
  <2> QED
    BY <1>4, <2>2 DEF Add
<1>5. CASE Insert(c)
  <2>1. CASE UNCHANGED elems
    BY <1>5, <2>1 DEF Insert, Account
  <2>2. CASE elems' = elems + 1
    <3>1. /\ elems + 1 \in 0 .. MaxElems /\ elems + 1 \in Elem
          /\ 0 .. elems \subseteq 0 .. elems + 1
      BY <1>5, <2>2, Bounds DEF Insert, Elem
    <3>2. map' \in [Key -> 0 .. elems'] /\ ptr' \in [CPU -> 0 .. elems']
      BY <1>5, <2>2, <3>1 DEF Insert
    <3>3. count' \in [Elem -> Nat] /\ taken' \in [Key -> Nat] /\ hits' \in [Key -> Nat]
      BY <1>5, <2>2, <3>1 DEF Insert, Account
    <3> QED
      BY <1>5, <2>2, <3>1, <3>2, <3>3 DEF Insert
  <2> QED
    BY <1>5, <2>1, <2>2 DEF Insert
<1> QED
  BY <1>1, <1>2, <1>3, <1>4, <1>5 DEF monitor_flow

\* The map, the reload and the reporter keep the types.
LEMMA TypeRest ==
    ASSUME TypeOK, HistoryOK,
           \/ \E k \in Key : Evict(k)
           \/ \E s \in Settings : ReloadBegin(s)
           \/ Reload \/ Reporter
    PROVE  TypeOK' /\ HistoryOK'
<1> USE MonitorConstants DEF TypeOK, HistoryOK, packets, globals, reload, reporter
<1>1. CASE \E k \in Key : Evict(k)
  BY <1>1 DEF Evict
<1>2. CASE \E s \in Settings : ReloadBegin(s)
  <2> PICK s \in Settings : ReloadBegin(s)
    BY <1>2
  <2>1. enabled' \in BOOLEAN /\ sample' \in Nat
    BY SettingsShape DEF ReloadBegin
  <2> QED
    BY <2>1 DEF ReloadBegin
<1>3. CASE Reload
  BY <1>3, SettingsShape DEF Reload, SyncTrie, SetMask, Enable, Store
<1>4. CASE Tick
  BY <1>4 DEF Tick, Write, Changed
<1>5. CASE \E k \in Key : Scan(k)
  <2> PICK k \in Key : Scan(k)
    BY <1>5
  <2>1. map[k] # 0 => map[k] \in Elem
    <3>1. map[k] \in 0 .. elems
      OBVIOUS
    <3> QED
      BY <3>1, NonzeroIsElem
  <2>2. cur' \in [Key -> Nat] /\ hits' \in [Key -> Nat] /\ whits' \in [Key -> Nat]
    BY <2>1 DEF Scan
  <2> QED
    BY <2>2 DEF Scan
<1>6. CASE ScanFails
  BY <1>6 DEF ScanFails
<1>7. CASE Finish
  <2>1. Alerting \subseteq Key
    BY SettingsShape DEF Alerting
  <2> QED
    BY <1>7, <2>1 DEF Finish, Write
<1> QED
  BY <1>1, <1>2, <1>3, <1>4, <1>5, <1>6, <1>7 DEF Reporter

\* The types hold in every reachable state, for any number of CPUs and keys: in
\* particular monitor_flow never adds through a nil pointer.
THEOREM TypeCorrect == Spec => []TypeOK
<1>1. Init => TypeOK /\ HistoryOK
  BY TypeInit
<1>2. TypeOK /\ HistoryOK /\ [Next]_vars => (TypeOK /\ HistoryOK)'
  <2> SUFFICES ASSUME TypeOK, HistoryOK, [Next]_vars PROVE (TypeOK /\ HistoryOK)'
    OBVIOUS
  <2>1. CASE UNCHANGED vars
    BY <2>1 DEF vars, packets, globals, reload, reporter, TypeOK, HistoryOK
  <2>2. CASE Next
    BY <2>2, TypeFlow, TypeRest DEF Next
  <2> QED
    BY <2>1, <2>2
<1> QED
  BY <1>1, <1>2, PTL DEF Spec

----------------------------------------------------------------------------
(* Bounds on the growth of a counter *)

\* A sample keeps the bound, whether it went to the counter or to an evicted one.
LEMMA WithinAdd ==
    ASSUME NEW a \in Nat, NEW b \in Nat, NEW n \in Nat, Within(a, b, n)
    PROVE  Within(a, b + 1, n + 1) /\ Within(a, b, n + 1)
BY DEF Within

\* An evicted counter, and one just inserted with its first sample, are within any bound.
LEMMA WithinFresh ==
    ASSUME NEW a \in Nat, NEW n \in Nat
    PROVE  Within(a, 0, n) /\ Within(a, 1, n + 1) /\ Within(a, a, 0)
BY DEF Within

\* Two windows in a row: a failed scan puts the hits of both together.
LEMMA WithinJoin ==
    ASSUME NEW a \in Nat, NEW b \in Nat, NEW d \in Nat, NEW m \in Nat, NEW n \in Nat,
           Within(a, b, m), Within(b, d, n)
    PROVE  Within(a, d, n + m)
BY DEF Within

\* What a lookup reads is a number.
LEMMA HeldType ==
    ASSUME TypeOK, NEW k \in Key
    PROVE  Held(k) \in Nat
<1>1. map[k] \in 0 .. elems
  BY DEF TypeOK
<1>2. map[k] # 0 => map[k] \in Elem
  BY <1>1, NonzeroIsElem
<1> QED
  BY <1>2 DEF TypeOK, Held

----------------------------------------------------------------------------
(* The counters: whose they are and what they hold *)

Counters == OneKeyEach /\ Undisturbed /\ SamplesPreserved

\* Only monitor_flow and evictions touch the counters.
LEMMA CountersFrame ==
    ASSUME Counters, UNCHANGED <<map, count, pc, key, ptr, taken, disturbed>>
    PROVE  Counters'
BY DEF Counters, OneKeyEach, Undisturbed, SamplesPreserved

\* What __sync_fetch_and_add does to the counter of every key: one more for the CPU's
\* key, unless its element was evicted meanwhile; nothing for any other key.
LEMMA AddHeld ==
    ASSUME TypeOK, HistoryOK, Counters, NEW c \in CPU, Add(c), NEW k \in Key
    PROVE  /\ map[k] = ptr[c] => k = key[c] /\ Held(k)' = Held(k) + 1
           /\ map[k] # ptr[c] => Held(k)' = Held(k)
<1>1. ptr[c] \in 0 .. elems /\ ptr[c] # 0 /\ key[c] \in Key
  BY DEF TypeOK, Add
<1>2. ptr[c] \in Elem
  BY <1>1, NonzeroIsElem
<1>3. map' = map /\ count' = [count EXCEPT ![ptr[c]] = @ + 1]
  BY DEF Add
<1>4. map[k] = ptr[c] => k = key[c]
  BY DEF Counters, OneKeyEach, Add
<1>5. map[k] \in 0 .. elems
  BY DEF TypeOK
<1>6. map[k] # 0 => map[k] \in Elem
  BY <1>5, NonzeroIsElem
<1>7. count \in [Elem -> Nat]
  BY DEF TypeOK
<1> QED
  BY <1>1, <1>2, <1>3, <1>4, <1>6, <1>7 DEF Held

\* An insert gives its key a counter of one and leaves those of the others alone.
LEMMA InsertHeld ==
    ASSUME TypeOK, NEW c \in CPU, Insert(c), elems' = elems + 1, NEW k \in Key
    PROVE  Held(k)' = IF k = key[c] THEN 1 ELSE Held(k)
<1>1. elems + 1 \in Elem /\ elems + 1 # 0 /\ elems \in Nat
  BY Bounds DEF TypeOK, Insert, Elem
<1>2. map[k] \in 0 .. elems /\ map \in [Key -> 0 .. elems] /\ count \in [Elem -> Nat]
  BY DEF TypeOK
<1>3. map[k] # 0 => map[k] \in Elem /\ map[k] # elems + 1
  BY <1>1, <1>2, NonzeroIsElem
<1>4. /\ map' = [map EXCEPT ![key[c]] = elems + 1]
      /\ count' = [count EXCEPT ![elems + 1] = 1]
  BY <1>1 DEF Insert
<1> QED
  BY <1>1, <1>2, <1>3, <1>4 DEF Held

\* A step of monitor_flow keeps counters apart and loses no sample of an undisturbed key.
LEMMA CountersFlow ==
    ASSUME TypeOK, HistoryOK, Counters, NEW c \in CPU, monitor_flow(c)
    PROVE  Counters'
<1> USE DEF Counters
<1>0. key[c] \in Key /\ map \in [Key -> 0 .. elems]
      /\ pc \in [CPU -> {"idle", "match", "look", "insert", "again", "add"}]
      /\ key \in [CPU -> Key] /\ ptr \in [CPU -> 0 .. elems]
  BY DEF TypeOK
<1>1. CASE \E k \in Key : Choose(c, k)
  <2> PICK l \in Key : Choose(c, l)
    BY <1>1
  <2>1. UNCHANGED <<map, count, ptr, taken, disturbed>> /\ pc'[c] = "match"
        /\ \A d \in CPU : pc'[d] = "add" => pc[d] = "add" /\ key'[d] = key[d]
    BY <1>0 DEF Choose, Goto
  <2> QED
    BY <2>1 DEF OneKeyEach, Undisturbed, SamplesPreserved
<1>2. CASE Match(c)
  <2>1. UNCHANGED <<map, count, key, ptr, taken, disturbed>>
        /\ \A d \in CPU : pc'[d] = "add" => pc[d] = "add"
    BY <1>0, <1>2 DEF Match, Goto
  <2> QED
    BY <2>1 DEF OneKeyEach, Undisturbed, SamplesPreserved
<1>3. CASE Look(c)
  <2>1. /\ UNCHANGED <<map, count, key, taken, disturbed>>
        /\ \A d \in CPU : pc'[d] = "add" =>
              \/ d # c /\ pc[d] = "add" /\ ptr'[d] = ptr[d]
              \/ d = c /\ ptr'[d] = map[key[d]] /\ map[key[d]] # 0
    BY <1>0, <1>3 DEF Look, Goto
  <2> QED
    BY <1>0, <2>1 DEF OneKeyEach, Undisturbed, SamplesPreserved
<1>4. CASE Add(c)
  <2>1. UNCHANGED <<map, key, ptr, disturbed>> /\ \A d \in CPU : pc'[d] = "add" => pc[d] = "add"
    BY <1>0, <1>4 DEF Add, Goto
  <2>2. OneKeyEach' /\ Undisturbed'
    BY <2>1 DEF OneKeyEach, Undisturbed
  <2>3. ASSUME NEW k \in Key, ~disturbed'[k] PROVE taken'[k] = Held(k)'
    <3>1. taken[k] = Held(k) /\ taken \in [Key -> Nat]
      BY <2>1, <2>3 DEF SamplesPreserved, Held, HistoryOK
    <3>2. CASE k = key[c]
      <4>1. map[k] = ptr[c]
        BY <1>4, <2>1, <2>3, <3>2 DEF Undisturbed, Add
      <4>2. taken'[k] = taken[k] + 1
        BY <1>0, <1>4, <3>1, <3>2 DEF Add, Account
      <4> QED
        BY <1>4, <3>1, <4>1, <4>2, AddHeld
    <3>3. CASE k # key[c]
      <4>1. map[k] # ptr[c] /\ taken'[k] = taken[k]
        BY <1>0, <1>4, <3>1, <3>3 DEF OneKeyEach, Add, Account
      <4> QED
        BY <1>4, <3>1, <4>1, AddHeld
    <3> QED
      BY <3>2, <3>3
  <2> QED
    BY <2>2, <2>3 DEF SamplesPreserved, Held
<1>5. CASE Insert(c)
  <2>1. /\ UNCHANGED <<key, ptr, disturbed>> /\ pc'[c] # "add"
        /\ \A d \in CPU : pc'[d] = "add" => pc[d] = "add"
    BY <1>0, <1>5 DEF Insert, Goto
  <2>2. CASE UNCHANGED elems
    <3>1. UNCHANGED <<map, count, taken>>
      BY <1>5, <2>2 DEF Insert, TypeOK
    <3> QED
      BY <2>1, <3>1 DEF OneKeyEach, Undisturbed, SamplesPreserved
  <2>3. CASE elems' = elems + 1
    <3>1. /\ elems \in Nat /\ map[key[c]] = 0
          /\ map' = [map EXCEPT ![key[c]] = elems + 1]
          /\ taken' = [taken EXCEPT ![key[c]] = @ + 1]
      BY <1>5, <2>3 DEF Insert, Account, TypeOK
    <3>2. \A k \in Key : map[k] # elems + 1
      BY <1>0, <3>1
    <3>3. \A d \in CPU : ptr[d] # elems + 1
      BY <1>0, <3>1
    <3>4. \A k \in Key : map'[k] = IF k = key[c] THEN elems + 1 ELSE map[k]
      BY <1>0, <3>1
    <3>5. OneKeyEach'
      BY <1>0, <2>1, <3>2, <3>3, <3>4 DEF OneKeyEach
    <3>6. Undisturbed'
      <4> SUFFICES ASSUME NEW d \in CPU, pc'[d] = "add", ~disturbed'[key'[d]]
                   PROVE  ptr'[d] = map'[key'[d]]
        BY DEF Undisturbed
      <4>1. ptr[d] = map[key[d]] /\ ptr[d] # 0
        BY <2>1 DEF Undisturbed, TypeOK
      <4> QED
        BY <1>0, <2>1, <3>1, <3>4, <4>1
    <3>7. ASSUME NEW k \in Key, ~disturbed'[k] PROVE taken'[k] = Held(k)'
      <4>1. taken[k] = Held(k) /\ taken \in [Key -> Nat]
        BY <2>1, <3>7 DEF SamplesPreserved, Held, HistoryOK
      <4>2. k = key[c] => taken[k] = 0
        BY <3>1, <4>1 DEF Held
      <4> QED
        BY <1>0, <1>5, <2>3, <3>1, <4>1, <4>2, InsertHeld
    <3> QED
      BY <3>5, <3>6, <3>7 DEF SamplesPreserved, Held
  <2> QED
    BY <1>5, <2>2, <2>3 DEF Insert
<1> QED
  BY <1>1, <1>2, <1>3, <1>4, <1>5 DEF monitor_flow

\* An eviction disturbs its key and no other.
LEMMA CountersEvict ==
    ASSUME TypeOK, HistoryOK, Counters, NEW k \in Key, Evict(k)
    PROVE  Counters'
<1>1. /\ UNCHANGED <<count, pc, key, ptr, taken>>
      /\ \A l \in Key : map'[l] = IF l = k THEN 0 ELSE map[l]
      /\ \A l \in Key : ~disturbed'[l] => l # k /\ ~disturbed[l]
  BY DEF Evict, TypeOK, HistoryOK
<1>2. \A c \in CPU : key[c] \in Key /\ (pc[c] = "add" => ptr[c] # 0)
  BY DEF TypeOK
<1> QED
  BY <1>1, <1>2 DEF Counters, OneKeyEach, Undisturbed, SamplesPreserved

----------------------------------------------------------------------------
(* Readings: how far a counter can be from them *)

\* A sample, or an insert with its first sample, is one hit more.
LEMMA AccountedFlow ==
    ASSUME TypeOK, HistoryOK, Counters, Accounted, NEW c \in CPU, monitor_flow(c)
    PROVE  Accounted'
<1>0. UNCHANGED <<rpc, todo, prev, cur, whits>>
  BY DEF monitor_flow, Choose, Match, Look, Add, Insert, reporter
<1>1. CASE UNCHANGED <<map, count, hits>>
  BY <1>0, <1>1 DEF Accounted, Held, Within
<1>2. CASE Add(c) \/ (Insert(c) /\ elems' = elems + 1)
  <2>1. /\ key[c] \in Key /\ hits \in [Key -> Nat]
        /\ hits' = [hits EXCEPT ![key[c]] = @ + 1]
    BY <1>2 DEF TypeOK, HistoryOK, Add, Insert, Account
  <2>2. ASSUME NEW k \in Key, NEW a \in Nat, Within(a, Held(k), hits[k])
        PROVE  Within(a, Held(k)', hits'[k])
    <3>1. Held(k) \in Nat /\ hits[k] \in Nat
      BY <2>1, HeldType
    <3>2. CASE k = key[c] /\ Add(c)
      <4>1. Held(k)' \in {Held(k), Held(k) + 1} /\ hits'[k] = hits[k] + 1
        BY <2>1, <3>2, AddHeld
      <4> QED
        BY <2>2, <3>1, <4>1, WithinAdd
    <3>3. CASE k = key[c] /\ Insert(c) /\ elems' = elems + 1
      <4>1. Held(k)' = 1 /\ hits'[k] = hits[k] + 1
        BY <2>1, <3>3, InsertHeld
      <4> QED
        BY <3>1, <4>1, WithinFresh
    <3>4. CASE k # key[c]
      <4>1. Held(k)' = Held(k)
        BY <1>2, <3>4, AddHeld, InsertHeld
      <4>2. hits'[k] = hits[k]
        BY <2>1, <3>4
      <4> QED
        BY <2>2, <4>1, <4>2
    <3> QED
      BY <1>2, <3>2, <3>3, <3>4
  <2>3. \A k \in Key : prev[k] \in Nat /\ cur[k] \in Nat
    BY DEF TypeOK
  <2>4. \A k \in Key : (rpc' = "idle" \/ k \in todo') => Within(prev'[k], Held(k)', hits'[k])
    BY <1>0, <2>2, <2>3 DEF Accounted
  <2>5. \A k \in Key : (rpc' = "scan" /\ k \notin todo') =>
           Within(prev'[k], cur'[k], whits'[k]) /\ Within(cur'[k], Held(k)', hits'[k])
    BY <1>0, <2>2, <2>3 DEF Accounted
  <2> QED
    BY <2>4, <2>5 DEF Accounted, Held, Within
<1> QED
  BY <1>1, <1>2 DEF monitor_flow, Choose, Match, Look, Insert

\* An evicted counter reads as zero, which no bound forbids.
LEMMA AccountedEvict ==
    ASSUME TypeOK, HistoryOK, Accounted, NEW k \in Key, Evict(k)
    PROVE  Accounted'
<1>1. /\ UNCHANGED <<count, hits, rpc, todo, prev, cur, whits>>
      /\ \A l \in Key : map'[l] = IF l = k THEN 0 ELSE map[l]
  BY DEF Evict, TypeOK, reporter
<1>2. \A l \in Key : prev[l] \in Nat /\ cur[l] \in Nat /\ hits[l] \in Nat
  BY DEF TypeOK, HistoryOK
<1>3. Held(k)' = 0 /\ \A l \in Key \ {k} : Held(l)' = Held(l)
  BY <1>1 DEF Held
<1>4. Within(prev[k], Held(k)', hits[k]) /\ Within(cur[k], Held(k)', hits[k])
  BY <1>2, <1>3, WithinFresh
<1>5. \A l \in Key : (rpc' = "idle" \/ l \in todo') => Within(prev'[l], Held(l)', hits'[l])
  BY <1>1, <1>3, <1>4 DEF Accounted
<1>6. \A l \in Key : (rpc' = "scan" /\ l \notin todo') =>
         Within(prev'[l], cur'[l], whits'[l]) /\ Within(cur'[l], Held(l)', hits'[l])
  BY <1>1, <1>3, <1>4 DEF Accounted
<1> QED
  BY <1>5, <1>6 DEF Accounted, Held, Within

\* The steps of the reporter move the readings on.  A failed scan leaves r.prev in place
\* and the samples of both windows belong to the next one.
LEMMA AccountedReporter ==
    ASSUME TypeOK, HistoryOK, Accounted, Reporter
    PROVE  Accounted'
<1>0. UNCHANGED <<map, count>>
  BY DEF Reporter, Tick, Scan, ScanFails, Finish, packets
<1>1. \A k \in Key : Held(k)' = Held(k)
  BY <1>0 DEF Held
<1>2. \A k \in Key : /\ prev[k] \in Nat /\ cur[k] \in Nat /\ hits[k] \in Nat /\ whits[k] \in Nat
                     /\ Held(k) \in Nat
  BY HeldType DEF TypeOK, HistoryOK
<1>3. rpc \in {"idle", "scan"} /\ todo \subseteq Key
  BY DEF TypeOK
<1> SUFFICES
      /\ \A k \in Key : (rpc' = "idle" \/ k \in todo') => Within(prev'[k], Held(k), hits'[k])
      /\ \A k \in Key : (rpc' = "scan" /\ k \notin todo') =>
            Within(prev'[k], cur'[k], whits'[k]) /\ Within(cur'[k], Held(k), hits'[k])
  BY <1>1 DEF Accounted, Held, Within
<1>4. CASE Tick
  BY <1>3, <1>4 DEF Tick, Accounted, packets
<1>5. CASE \E k \in Key : Scan(k)
  <2> PICK l \in Key : Scan(l)
    BY <1>5
  <2>1. /\ rpc = "scan" /\ l \in todo /\ UNCHANGED <<rpc, prev>> /\ todo' = todo \ {l}
        /\ cur'[l] = Held(l) /\ whits'[l] = hits[l] /\ hits'[l] = 0
        /\ \A k \in Key \ {l} : cur'[k] = cur[k] /\ whits'[k] = whits[k] /\ hits'[k] = hits[k]
    BY DEF Scan, Held, TypeOK, HistoryOK
  <2>2. Within(cur'[l], Held(l), hits'[l])
    BY <1>2, <2>1, WithinFresh
  <2>3. Within(prev[l], cur'[l], whits'[l])
    BY <2>1 DEF Accounted
  <2> QED
    BY <2>1, <2>2, <2>3 DEF Accounted
<1>6. CASE ScanFails
  <2>1. /\ rpc = "scan" /\ rpc' = "idle" /\ UNCHANGED <<todo, prev, cur, whits>>
        /\ \A k \in Key : hits'[k] = IF k \in todo THEN hits[k] ELSE hits[k] + whits[k]
    BY <1>6 DEF ScanFails
  <2>2. ASSUME NEW k \in Key PROVE Within(prev[k], Held(k), hits'[k])
    <3>1. CASE k \in todo
      BY <2>1, <3>1 DEF Accounted
    <3>2. CASE k \notin todo
      <4>1. Within(prev[k], cur[k], whits[k]) /\ Within(cur[k], Held(k), hits[k])
        BY <2>1, <3>2 DEF Accounted
      <4> QED
        BY <1>2, <2>1, <3>2, <4>1, WithinJoin
    <3> QED
      BY <3>1, <3>2
  <2> QED
    BY <2>1, <2>2
<1>7. CASE Finish
  BY <1>7 DEF Finish, Accounted, packets
<1> QED
  BY <1>4, <1>5, <1>6, <1>7 DEF Reporter

----------------------------------------------------------------------------
(* The theorems *)

\* Who scanned prev, across reloads, failed scans and windows without monitoring.
LEMMA ProvenanceStep ==
    ASSUME TypeOK, HistoryOK, Provenance, [Next]_vars
    PROVE  Provenance'
<1>1. CASE UNCHANGED <<rpc, rset, rcfg, hasPrev, failed, prevBy, rebase>>
  BY <1>1 DEF Provenance
<1>2. CASE Tick
  BY <1>2 DEF Tick, Changed, Provenance, TypeOK
<1>3. CASE ScanFails
  BY <1>3 DEF ScanFails, Provenance
<1>4. CASE Finish
  BY <1>4 DEF Finish, Provenance
<1>5. \/ Tick \/ ScanFails \/ Finish
      \/ UNCHANGED <<rpc, rset, rcfg, hasPrev, failed, prevBy, rebase>>
  BY DEF Next, vars, monitor_flow, Choose, Match, Look, Add, Insert, Evict, ReloadBegin, Reload,
         SyncTrie, SetMask, Enable, Store, Reporter, Scan, reporter
<1> QED
  BY <1>1, <1>2, <1>3, <1>4, <1>5

\* A reload writes neither counters nor readings.
LEMMA ReloadFrame ==
    ASSUME Reload \/ \E s \in Settings : ReloadBegin(s)
    PROVE  UNCHANGED <<packets, reporter>>
BY DEF Reload, ReloadBegin, SyncTrie, SetMask, Enable, Store

\* The whole inductive invariant.
THEOREM MonitorInvariant == Spec => []MonitorInv
<1> USE DEF MonitorInv
<1>1. Init => MonitorInv
  <2> SUFFICES ASSUME Init PROVE MonitorInv
    OBVIOUS
  <2>1. TypeOK /\ HistoryOK
    BY TypeInit
  <2>2. OneKeyEach /\ Undisturbed /\ SamplesPreserved
    BY DEF Init, OneKeyEach, Undisturbed, SamplesPreserved
  <2>3. Accounted
    BY DEF Init, Accounted, Held, Within
  <2>4. Provenance
    BY DEF Init, Provenance
  <2> QED
    BY <2>1, <2>2, <2>3, <2>4
<1>2. MonitorInv /\ [Next]_vars => MonitorInv'
  <2> SUFFICES ASSUME MonitorInv, [Next]_vars PROVE MonitorInv'
    OBVIOUS
  <2>1. Provenance'
    BY ProvenanceStep
  <2>2. Counters
    BY DEF Counters
  <2> SUFFICES (TypeOK /\ HistoryOK)' /\ Counters' /\ Accounted'
    BY <2>1 DEF Counters
  <2>3. CASE \E c \in CPU : monitor_flow(c)
    BY <2>2, <2>3, TypeFlow, CountersFlow, AccountedFlow
  <2>4. CASE \E k \in Key : Evict(k)
    BY <2>2, <2>4, TypeRest, CountersEvict, AccountedEvict
  <2>5. CASE Reload \/ \E s \in Settings : ReloadBegin(s)
    <3>1. UNCHANGED <<packets, reporter>>
      BY <2>5, ReloadFrame
    <3>2. Counters'
      BY <2>2, <3>1, CountersFrame DEF packets
    <3>3. Accounted'
      BY <3>1 DEF Accounted, Held, Within, packets, reporter
    <3> QED
      BY <2>5, <3>2, <3>3, TypeRest
  <2>6. CASE Reporter
    <3>1. UNCHANGED <<map, count, pc, key, ptr, taken, disturbed>>
      BY <2>6 DEF Reporter, Tick, Scan, ScanFails, Finish, packets
    <3> QED
      BY <2>2, <2>6, <3>1, CountersFrame, AccountedReporter, TypeRest
  <2>7. CASE UNCHANGED vars
    <3>1. Counters'
      BY <2>2, <2>7, CountersFrame DEF vars, packets
    <3>2. Accounted'
      BY <2>7 DEF vars, Accounted, Held, Within, packets, reporter
    <3> QED
      BY <2>7, <3>1, <3>2 DEF vars, packets, globals, reload, reporter, TypeOK, HistoryOK
  <2> QED
    BY <2>3, <2>4, <2>5, <2>6, <2>7 DEF Next
<1> QED
  BY <1>1, <1>2, PTL DEF Spec

\* "A racing CPU may have inserted the same tuple.  Preserve this sample": whatever CPUs
\* race on a key, its counter holds all their samples until one is evicted.
THEOREM SamplesArePreserved == Spec => []SamplesPreserved
BY MonitorInvariant, PTL DEF MonitorInv

\* accountDelta never attributes more packets to a window than were sampled in it.
THEOREM NoPhantomAlert == Spec => NoPhantom
<1>1. MonitorInv /\ [Next]_vars => [Finish /\ ~rebase => \A k \in Alerting : Delta(k) <= whits[k]]_vars
  <2> SUFFICES ASSUME MonitorInv, Finish, NEW k \in Alerting PROVE Delta(k) <= whits[k]
    OBVIOUS
  <2>1. k \in Key
    BY SettingsShape DEF Alerting, MonitorInv, TypeOK
  <2>2. prev[k] \in Nat /\ cur[k] \in Nat /\ whits[k] \in Nat
    BY <2>1 DEF MonitorInv, TypeOK, HistoryOK
  <2>3. Within(prev[k], cur[k], whits[k])
    BY <2>1 DEF MonitorInv, Accounted, Finish
  <2> QED
    BY <2>2, <2>3 DEF Within, Delta
<1> QED
  BY <1>1, MonitorInvariant, PTL DEF Spec, NoPhantom

\* "A configuration transition publishes an empty baseline window": two scans that an
\* alert is computed from belong to the same settings.
THEOREM BaselineIsFresh == Spec => BaselineAfterChange
<1>1. MonitorInv /\ [Next]_vars =>
          [Finish /\ ~rebase /\ ~failed /\ Alerting # {} => prevBy = rcfg]_vars
  BY DEF MonitorInv, Provenance, Finish
<1> QED
  BY <1>1, MonitorInvariant, PTL DEF Spec, BaselineAfterChange
=============================================================================
