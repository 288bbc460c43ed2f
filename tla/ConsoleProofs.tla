---------------------------- MODULE ConsoleProofs ----------------------------
(***************************************************************************)
(* Proofs about Console, for any desks: any configurations, texts, rules,  *)
(* flows and limits, and any number of edits, writes, jobs and failures.   *)
(***************************************************************************)
EXTENDS Console, WellFoundedInduction, TLAPS

----------------------------------------------------------------------------
(* The inductive invariant *)

\* A configuration whose lists are as sound as the files', and one that Load returns.
CidrsOf(c)     == [i \in DOMAIN c.cidrs |-> c.cidrs[i].cidr]
Listable(d, c) == WellFormed(c) /\ Unique(CidrsOf(c)) /\ (FilesListOnce(d) => Unique(c.server_allow))
Sound(d, c)    == Listable(d, c) /\ Loadable(c) /\ Load(c) = c

\* The steps of a Reattach, and those of its rollback after the file was written back.
Rollback == {"ragain", "rload", "rhash"}
Rejob    == {"rstop", "rdetach", "rstart", "rsave"} \cup Rollback
Asking   == modal \in {"reattach", "typed"}

\* Who runs: a closed console does nothing, the wizard runs only without a console and
\* before the service, and a Reattach keeps the service stopped until it starts it:
\* systemd starts no unit again that was stopped.
Actors ==
    /\ desk \in Desks
    /\ desk.open => wpc = "idle"
    /\ ~desk.open => modal = "closed" /\ (wpc \in {"idle", "save"} => svc = NoService /\ ~again)
    /\ modal = "closed" => apc = "idle" /\ loaded = Nothing /\ jpc = "idle"
    /\ apc # "idle" => loaded = Nothing
    /\ jpc \in {"rdetach", "rstart"} => svc = NoService /\ ~again

\* Every configuration in use has all its fields, and those the console holds are sound.
Configurations ==
    /\ file # Unreadable => DOMAIN file = Field
    /\ svc # NoService => DOMAIN svc = Field
    /\ wpc = "save" => DOMAIN wcfg = Field
    /\ desk.open =>
          /\ file # Unreadable => WellFormed(file) /\ (FilesListOnce(desk) => Unique(file.server_allow))
          /\ Sound(desk, base) /\ Listable(desk, staged)
          /\ apc # "idle" => Sound(desk, target) /\ Sound(desk, previous) /\ changes \subseteq Field
          /\ Asking => Sound(desk, previous)
          /\ loaded # Nothing => Sound(desk, loaded)
          /\ jpc = "rhash" => Sound(desk, jloaded)
          /\ jpc \in Rejob => Sound(desk, jprev)

\* The tables show the lists, until a reload; what Apply is saving has the same lists.
Tables ==
    /\ allowSelected \in Nat /\ ruleSelected \in Nat
    /\ allowRows \in Seq(STRING) /\ ruleRows \in Seq(Rule)
    /\ Open /\ ~reloaded =>
          /\ allowRows = staged.server_allow /\ ruleRows = staged.cidrs
          /\ apc # "idle" => target.server_allow = staged.server_allow /\ target.cidrs = staged.cidrs

\* Undisturbed, the hash stands for the file that base was loaded from, and what Apply or
\* a Reload has at hand belongs to the file as it is.
Based ==
    Open /\ ~raced =>
        /\ Loadable(hash) /\ Load(hash) = base
        /\ loaded # Nothing => Loadable(file) /\ loaded = Load(file)
        /\ jpc = "rhash" => Loadable(file) /\ jloaded = Load(file)
        /\ apc \in {"policy", "save"} => file = hash /\ Diff(base, target) \subseteq changes
        /\ apc = "rehash" => file = target

\* A daemon that has read the file and did not give up follows it in every live field; the
\* other fields in which it differs were told, or are about to be, unless a rollback
\* wrote the file under a daemon that systemd had started.
Follows ==
    svc # NoService /\ Loadable(file) =>
        /\ ~unread /\ ~refused => Diff(svc, Load(file)) \cap LiveFields = {}
        /\ ~raced /\ ~revived => Diff(svc, Load(file)) \ LiveFields
                        \subseteq told \cup (IF apc = "rehash" THEN changes ELSE {})

\* Where the data path is: under the directory the console knows, unless the operator is
\* being asked about a reattach and a job of before is still at work.
Located ==
    Open /\ ~postponed =>
        /\ Loadable(file)
        /\ jpc \in Rejob => apc = "idle" /\ loaded = Nothing /\ ~Asking /\ modal # "conflict"
        /\ apc # "idle" => ~Asking
        /\ loaded # Nothing => modal = "none" /\ loaded.pin_dir = activePin
        /\ apc # "rehash" /\ jpc \notin Rollback => Load(file).pin_dir = base.pin_dir
        /\ apc = "rehash" => Load(file).pin_dir = target.pin_dir
        /\ jpc \in Rollback => Load(file).pin_dir = activePin
        /\ jpc = "rhash" => jloaded.pin_dir = activePin
        /\ ~Asking /\ jpc \notin Rejob => base.pin_dir = activePin
        /\ Asking \/ apc # "idle" => previous.pin_dir = activePin
        /\ jpc \in Rejob => jprev.pin_dir = activePin
        /\ apc # "idle" /\ MovesPin => target.pin_dir = activePin
        /\ jpc = "rstart" => pins = {}
        /\ \/ \A p \in pins : p.dir = activePin
           \/ apc = "rehash" /\ jpc # "idle" /\ \A p \in pins : p.dir \in {activePin, target.pin_dir}
           \/ Asking /\ jpc # "idle"

\* A scan has listed what stayed in the tables and matches, up to where it is.
Flow         == [proto : {"TCP", "UDP"}, place : Nat \ {0}]
Listed(s, f) == Matches(s.query, f) => f \in ToSet(s.rows)
Passed(s, f) == (f.proto = "TCP" /\ s.map = "UDP") \/ (f.proto = s.map /\ f.place <= s.at)
Scanned(s)   ==
    /\ s.at \in Nat /\ s.scanned \in Nat /\ s.map \in {"TCP", "UDP"}
    /\ s.rows \in Seq(Flow) /\ Len(s.rows) <= desk.limit
    /\ \A f \in ToSet(s.rows) : Matches(s.query, f)
Scanning ==
    /\ table \subseteq Flow
    /\ scan.pc \in {"idle", "open", "error", "next", "end"}
    /\ "pc" \in DOMAIN scan
    /\ scan.pc \in {"next", "end"} =>
          /\ DOMAIN scan = {"pc", "query", "map", "at", "count", "rows", "scanned", "truncated", "steady"}
          /\ Scanned(scan) /\ scan.steady \subseteq table
    /\ scan.pc = "next" =>
          /\ Len(scan.rows) < desk.limit /\ scan.scanned <= desk.scanLimit
          /\ \A f \in scan.steady : Passed(scan, f) => Listed(scan, f)
    /\ scan.pc = "end" /\ ~scan.truncated => \A f \in scan.steady : Listed(scan, f)

ConsoleInv == Actors /\ Configurations /\ Tables /\ Based /\ Follows /\ Located

----------------------------------------------------------------------------
(* Configurations *)

\* The values that Validate puts in place need no repair themselves.
LEMMA SubstituteStays ==
    ASSUME NEW f, NEW v, Unset(f, v)
    PROVE  ~Unset(f, Substitute[f])
<1>1. /\ Substitute["udp_flow_max"] = 2^22 /\ Substitute["l1_size"] = 1024
      /\ Substitute["ttl_udp"] = 30 /\ Substitute["sample_every"] = 64
      /\ Substitute["max_flows"] = 2^18 /\ Substitute["stats_dir"] = "stats"
      /\ Substitute["pin_dir"] = "pin" /\ Substitute["stats_interval"] = 10
      /\ Substitute["gc_interval"] = 2
  BY DEF Substitute, Default
<1>2. ~(2^22 < 1024) /\ 2^18 # 0
  OBVIOUS
<1>3. CASE f = "udp_flow_max"
  BY <1>1, <1>2, <1>3 DEF Unset
<1>4. CASE f = "l1_size"
  BY <1>1, <1>2, <1>4 DEF Unset
<1>5. CASE f = "ttl_udp"
  BY <1>1, <1>2, <1>5 DEF Unset
<1>6. CASE f = "sample_every"
  BY <1>1, <1>2, <1>6 DEF Unset
<1>7. CASE f = "max_flows"
  BY <1>1, <1>2, <1>7 DEF Unset
<1>8. CASE f = "stats_dir"
  BY <1>1, <1>2, <1>8 DEF Unset
<1>9. CASE f = "pin_dir"
  BY <1>1, <1>2, <1>9 DEF Unset
<1>10. CASE f = "stats_interval"
  BY <1>1, <1>2, <1>10 DEF Unset
<1>11. CASE f = "gc_interval"
  BY <1>1, <1>2, <1>11 DEF Unset
<1>12. \/ f = "udp_flow_max" \/ f = "l1_size" \/ f = "ttl_udp" \/ f = "sample_every" \/ f = "max_flows"
       \/ f = "stats_dir" \/ f = "pin_dir" \/ f = "stats_interval" \/ f = "gc_interval"
  BY Zenon DEF Unset
<1> QED
  BY <1>3, <1>4, <1>5, <1>6, <1>7, <1>8, <1>9, <1>10, <1>11, <1>12

\* Validate repairs a configuration once and for all.
LEMMA RepairedTwice ==
    ASSUME NEW c
    PROVE  Repaired(Repaired(c)) = Repaired(c)
<1>1. \A f \in DOMAIN c : ~Unset(f, Repaired(c)[f])
  BY SubstituteStays DEF Repaired
<1>2. DOMAIN Repaired(c) = DOMAIN c
  BY DEF Repaired
<1>3. Repaired(Repaired(c)) = [f \in DOMAIN c |-> Repaired(c)[f]]
  BY <1>1, <1>2 DEF Repaired
<1>4. Repaired(c) = [f \in DOMAIN c |-> Repaired(c)[f]]
  BY DEF Repaired
<1> QED
  BY <1>3, <1>4

\* A repair touches neither the lists nor a pin_dir that is set.
LEMMA RepairKeeps ==
    ASSUME NEW c, DOMAIN c = Field
    PROVE  /\ DOMAIN Repaired(c) = Field
           /\ Repaired(c).server_allow = c.server_allow /\ Repaired(c).cidrs = c.cidrs
           /\ c.pin_dir # "" => Repaired(c).pin_dir = c.pin_dir
           /\ Repaired(c).pin_dir # ""
<1>1. {"server_allow", "cidrs", "pin_dir"} \subseteq Field
  BY DEF Field, LiveFields, ReattachFields
<1>2. Substitute["pin_dir"] # ""
  BY DEF Substitute, Default
<1>3. DOMAIN Repaired(c) = Field /\ \A f \in Field : ~Unset(f, c[f]) => Repaired(c)[f] = c[f]
  BY DEF Repaired
<1>4. ~Unset("server_allow", c.server_allow) /\ ~Unset("cidrs", c.cidrs)
  BY DEF Unset
<1>5. Unset("pin_dir", c.pin_dir) <=> c.pin_dir = ""
  BY DEF Unset
<1>6. Unset("pin_dir", c.pin_dir) => Repaired(c).pin_dir = Substitute["pin_dir"]
  BY <1>1 DEF Repaired
<1> QED
  BY <1>1, <1>2, <1>3, <1>4, <1>5, <1>6

\* What Load returns is a configuration that Load accepts as it is.
LEMMA LoadTwice ==
    ASSUME NEW c, DOMAIN c = Field, Validate(c)
    PROVE  Loadable(Repaired(c)) /\ Load(Repaired(c)) = Repaired(c) /\ Repaired(c) # Unreadable
<1>1. Repaired(c) # Unreadable
  <2>1. DOMAIN Repaired(c) = Field /\ "pin_dir" \in Field
    BY RepairKeeps DEF Field, ReattachFields
  <2>2. DOMAIN Unreadable = {}
    BY DEF Unreadable
  <2> QED
    BY <2>1, <2>2
<1>2. Validate(Repaired(c))
  BY RepairedTwice DEF Validate
<1> QED
  BY <1>1, <1>2, RepairedTwice DEF Loadable, Load

\* A file that loads gives a sound configuration.
LEMMA LoadSound ==
    ASSUME NEW d, NEW c, WellFormed(c), FilesListOnce(d) => Unique(c.server_allow), Validate(c)
    PROVE  Sound(d, Repaired(c))
<1>1. WellFormed(Repaired(c)) /\ Repaired(c).server_allow = c.server_allow
  BY RepairKeeps DEF WellFormed
<1>2. Unique(CidrsOf(Repaired(c)))
  <2>1. validateFlowMonitoring(Repaired(c))
    BY DEF Validate
  <2> QED
    BY <2>1 DEF validateFlowMonitoring, CidrsOf
<1> QED
  BY <1>1, <1>2, LoadTwice DEF Sound, Listable, WellFormed

----------------------------------------------------------------------------
(* What a change costs *)

\* Differences add up.
LEMMA DiffTriangle ==
    ASSUME NEW a, NEW b, NEW c
    PROVE  Diff(a, c) \subseteq Diff(a, b) \cup Diff(b, c)
BY DEF Diff

\* Validate repairs no field that the operator left as it was.
LEMMA DiffRepaired ==
    ASSUME NEW b, NEW s, DOMAIN b = Field, DOMAIN s = Field, Repaired(b) = b
    PROVE  Diff(b, Repaired(s)) \subseteq Diff(b, s)
BY DEF Diff, Repaired

\* A reload takes over exactly the live fields.
LEMMA LiveTaken ==
    ASSUME NEW c, NEW src, DOMAIN c = Field
    PROVE  /\ DOMAIN ApplyLiveFrom(c, src) = Field
           /\ Diff(ApplyLiveFrom(c, src), src) = Diff(c, src) \ LiveFields
<1>1. DOMAIN ApplyLiveFrom(c, src) = Field
  BY DEF ApplyLiveFrom
<1>2. \A f \in Field : f \notin LiveFields => ApplyLiveFrom(c, src)[f] = c[f]
  BY DEF ApplyLiveFrom, LiveFields
<1>3. \A f \in LiveFields : ApplyLiveFrom(c, src)[f] = src[f]
  <2>1. LiveFields \subseteq DOMAIN c
    BY DEF Field
  <2> QED
    BY <2>1 DEF ApplyLiveFrom, LiveFields
<1> QED
  BY <1>1, <1>2, <1>3 DEF Diff

\* The impact of some changes is that of the costliest of them.
LEMMA ImpactBounds ==
    ASSUME NEW S, S \subseteq Field
    PROVE  /\ Impact(S) \in 0 .. 3
           /\ Impact(S) < Restart => S \subseteq LiveFields
           /\ Impact(S) < Reattach => "pin_dir" \notin S
<1> DEFINE costs == {None} \cup {ImpactOf(f) : f \in S}
<1>1. costs \subseteq 0 .. 3 /\ 0 \in costs
  BY DEF ImpactOf, None, Live, Restart, Reattach
<1>2. \E x \in costs : \A y \in costs : x >= y
  <2> HIDE DEF costs
  <2> QED
    BY <1>1
<1>3. Impact(S) \in costs /\ \A y \in costs : Impact(S) >= y
  <2>1. Impact(S) = CHOOSE x \in costs : \A y \in costs : x >= y
    BY DEF Impact, Max
  <2> HIDE DEF costs
  <2> QED
    BY <1>2, <2>1
<1>4. \A f \in S : ImpactOf(f) \in costs
  OBVIOUS
<1> HIDE DEF costs
<1>5. \A f \in S : Impact(S) >= ImpactOf(f)
  BY <1>3, <1>4
<1>6. Impact(S) \in 0 .. 3
  BY <1>1, <1>3
<1>7. \A f \in S : f \notin LiveFields => ImpactOf(f) >= Restart
  BY DEF ImpactOf, Field, Restart, Reattach
<1>8. ImpactOf("pin_dir") = 3
  BY DEF ImpactOf, ReattachFields, Reattach
<1> QED
  BY <1>5, <1>6, <1>7, <1>8 DEF Restart, Reattach, ImpactOf, Live

----------------------------------------------------------------------------
(* The list editors *)

\* Replace and Add change one row and keep the others where they are.
LEMMA PutKeeps ==
    ASSUME NEW S, NEW s \in Seq(S), NEW e \in S, NEW row \in Nat
    PROVE  /\ PutAt(s, row, e) \in Seq(S)
           /\ \A j \in DOMAIN PutAt(s, row, e) :
                 \/ PutAt(s, row, e)[j] = e /\ j = (IF row \in DOMAIN s THEN row ELSE Len(s) + 1)
                 \/ j \in DOMAIN s /\ j # row /\ PutAt(s, row, e)[j] = s[j]
<1>1. CASE row \in DOMAIN s
  BY <1>1 DEF PutAt
<1>2. CASE row \notin DOMAIN s
  BY <1>2 DEF PutAt
<1> QED
  BY <1>1, <1>2

\* Delete moves the rows below up and changes none of them.
LEMMA RemoveKeeps ==
    ASSUME NEW S, NEW s \in Seq(S), NEW row \in DOMAIN s
    PROVE  /\ RemoveAt(s, row) \in Seq(S)
           /\ \A j \in DOMAIN RemoveAt(s, row) :
                 \/ j < row /\ j \in DOMAIN s /\ RemoveAt(s, row)[j] = s[j]
                 \/ j >= row /\ j + 1 \in DOMAIN s /\ RemoveAt(s, row)[j] = s[j + 1]
<1>1. row \in 1 .. Len(s)
  OBVIOUS
<1> DEFINE p == SubSeq(s, 1, row - 1)
           q == SubSeq(s, row + 1, Len(s))
<1>2. p \in Seq(S) /\ Len(p) = row - 1 /\ \A j \in 1 .. row - 1 : p[j] = s[j]
  BY <1>1
<1>3. q \in Seq(S) /\ Len(q) = Len(s) - row /\ \A j \in 1 .. Len(s) - row : q[j] = s[row + j]
  BY <1>1
<1>4. RemoveAt(s, row) = p \o q
  BY DEF RemoveAt
<1> HIDE DEF p, q
<1>5. p \o q \in Seq(S) /\ Len(p \o q) = Len(s) - 1
  BY <1>1, <1>2, <1>3
<1>6. ASSUME NEW j \in 1 .. Len(s) - 1
      PROVE  /\ j < row => (p \o q)[j] = s[j]
             /\ j >= row => (p \o q)[j] = s[j + 1]
  <2>1. CASE j < row
    BY <1>1, <1>2, <1>3, <2>1
  <2>2. CASE j >= row
    <3>1. (p \o q)[j] = q[j - (row - 1)]
      BY <1>1, <1>2, <1>3, <2>2
    <3>2. j - (row - 1) \in 1 .. Len(s) - row /\ row + (j - (row - 1)) = j + 1
      BY <1>1, <2>2
    <3> QED
      BY <1>1, <1>3, <2>2, <3>1, <3>2
  <2> QED
    BY <1>1, <2>1, <2>2
<1>7. DOMAIN (p \o q) = 1 .. Len(s) - 1 /\ Len(s) \in Nat
  BY <1>5
<1>8. ASSUME NEW j \in DOMAIN (p \o q)
      PROVE  \/ j < row /\ j \in DOMAIN s /\ (p \o q)[j] = s[j]
             \/ j >= row /\ j + 1 \in DOMAIN s /\ (p \o q)[j] = s[j + 1]
  <2>1. j \in 1 .. Len(s) - 1
    BY <1>7
  <2>2. j \in DOMAIN s /\ j + 1 \in DOMAIN s /\ (j < row \/ j >= row)
    BY <1>1, <1>7, <2>1
  <2> QED
    BY <1>6, <2>1, <2>2
<1> QED
  BY <1>4, <1>5, <1>8

\* A list of servers stays free of doubles when an entry that no other row has is put in,
\* or one is taken out.
LEMMA AllowUnique ==
    ASSUME NEW s \in Seq(STRING), Unique(s), NEW row \in Nat, NEW e \in STRING
    PROVE  /\ (\A i \in DOMAIN s : s[i] = e => i = row) => Unique(PutAt(s, row, e))
           /\ row \in DOMAIN s => Unique(RemoveAt(s, row))
<1>1. ASSUME \A i \in DOMAIN s : s[i] = e => i = row
      PROVE  Unique(PutAt(s, row, e))
  <2> DEFINE t == PutAt(s, row, e)
  <2>1. \A j \in DOMAIN t : \/ t[j] = e /\ j = (IF row \in DOMAIN s THEN row ELSE Len(s) + 1)
                            \/ j \in DOMAIN s /\ j # row /\ t[j] = s[j]
    BY PutKeeps
  <2> HIDE DEF t
  <2>2. Unique(t)
    BY <1>1, <2>1 DEF Unique
  <2> QED
    BY <2>2 DEF t
<1>2. ASSUME row \in DOMAIN s
      PROVE  Unique(RemoveAt(s, row))
  BY <1>2, RemoveKeeps DEF Unique
<1> QED
  BY <1>1, <1>2

\* The same for the rules, whose CIDRs must differ.
LEMMA RulesUnique ==
    ASSUME NEW s \in Seq(Rule), Unique([i \in DOMAIN s |-> s[i].cidr]), NEW row \in Nat, NEW r \in Rule
    PROVE  /\ (\A i \in DOMAIN s : s[i].cidr = r.cidr => i = row) =>
                 Unique([i \in DOMAIN PutAt(s, row, r) |-> PutAt(s, row, r)[i].cidr])
           /\ row \in DOMAIN s => Unique([i \in DOMAIN RemoveAt(s, row) |-> RemoveAt(s, row)[i].cidr])
<1>0. \A i, j \in DOMAIN s : s[i].cidr = s[j].cidr => i = j
  BY DEF Unique
<1>1. ASSUME \A i \in DOMAIN s : s[i].cidr = r.cidr => i = row
      PROVE  Unique([i \in DOMAIN PutAt(s, row, r) |-> PutAt(s, row, r)[i].cidr])
  <2> DEFINE t == PutAt(s, row, r)
  <2>1. \A j \in DOMAIN t : \/ t[j] = r /\ j = (IF row \in DOMAIN s THEN row ELSE Len(s) + 1)
                            \/ j \in DOMAIN s /\ j # row /\ t[j] = s[j]
    BY PutKeeps
  <2> HIDE DEF t
  <2>2. \A i, j \in DOMAIN t : t[i].cidr = t[j].cidr => i = j
    BY <1>0, <1>1, <2>1
  <2> QED
    BY <2>2 DEF Unique, t
<1>2. ASSUME row \in DOMAIN s
      PROVE  Unique([i \in DOMAIN RemoveAt(s, row) |-> RemoveAt(s, row)[i].cidr])
  <2> DEFINE t == RemoveAt(s, row)
  <2>1. /\ t \in Seq(Rule)
        /\ \A j \in DOMAIN t : \/ j < row /\ j \in DOMAIN s /\ t[j] = s[j]
                               \/ j >= row /\ j + 1 \in DOMAIN s /\ t[j] = s[j + 1]
    BY <1>2, RemoveKeeps
  <2> HIDE DEF t
  <2>2. \A i, j \in DOMAIN t : t[i].cidr = t[j].cidr => i = j
    BY <1>0, <2>1
  <2> QED
    BY <2>2 DEF Unique, t
<1> QED
  BY <1>1, <1>2

\* What an editing step must show: it starts and ends with the interface idle, and
\* changes nothing but Staged, the lists and the dialog.
LEMMA EditFrame ==
    ASSUME ConsoleInv, Idle, modal = "none", modal' \in {"none", "message"},
           UNCHANGED <<desk, system, wizard, base, hash, activePin, previous, apc, target, changes,
                       loaded, job, history>>,
           Listable(desk, staged'), allowSelected' \in Nat, ruleSelected' \in Nat,
           allowRows' \in Seq(STRING), ruleRows' \in Seq(Rule),
           ~reloaded => allowRows' = staged'.server_allow /\ ruleRows' = staged'.cidrs
    PROVE  ConsoleInv'
<1> USE DEF ConsoleInv, Idle, Open
<1>1. Actors'
  BY DEF Actors, system, wizard, job, Nothing
<1>2. Configurations'
  BY DEF Configurations, Actors, system, wizard, job, Nothing, Asking
<1>3. Tables'
  BY DEF Tables, history
<1>4. Based'
  BY DEF Based, system, job, history, Nothing
<1>5. Follows'
  BY DEF Follows, system, history
<1>6. Located'
  BY DEF Located, system, job, history, Nothing, Asking, MovesPin
<1> QED
  BY <1>1, <1>2, <1>3, <1>4, <1>5, <1>6

\* An open console has a sound staged configuration and selects rows.
LEMMA OpenConsole ==
    ASSUME ConsoleInv, Open
    PROVE  /\ desk \in Desks /\ desk.open /\ wpc = "idle"
           /\ Listable(desk, staged) /\ Sound(desk, base)
           /\ allowSelected \in Nat /\ ruleSelected \in Nat
           /\ allowRows \in Seq(STRING) /\ ruleRows \in Seq(Rule)
           /\ apc = "idle" /\ ~reloaded => allowRows = staged.server_allow /\ ruleRows = staged.cidrs
BY DEF ConsoleInv, Actors, Configurations, Tables, Open

\* Staging a list keeps the other fields.
LEMMA StagedList ==
    ASSUME NEW d, NEW c, Listable(d, c)
    PROVE  /\ \A l \in Seq(STRING) :
                 (FilesListOnce(d) => Unique(l)) => Listable(d, [c EXCEPT !.server_allow = l])
           /\ \A l \in Seq(Rule) :
                 Unique([i \in DOMAIN l |-> l[i].cidr]) => Listable(d, [c EXCEPT !.cidrs = l])
           /\ \A f \in Field \ {"server_allow", "cidrs"} : \A v : Listable(d, [c EXCEPT ![f] = v])
<1>1. {"server_allow", "cidrs"} \subseteq Field /\ DOMAIN c = Field
  BY DEF Field, LiveFields, Listable, WellFormed
<1> QED
  BY <1>1 DEF Listable, WellFormed, CidrsOf

\* A form stages a value or marks its field.
LEMMA FieldStep ==
    ASSUME ConsoleInv, NEW f \in DOMAIN desk.values, SetField(f) \/ Misspell(f)
    PROVE  ConsoleInv'
<1>1. Idle /\ Open /\ modal = "none"
  BY DEF SetField, Misspell, Editing, Idle
<1>2. /\ UNCHANGED <<desk, system, wizard, base, hash, activePin, previous, apc, target, changes,
                     loaded, job, history>>
      /\ modal' = modal /\ UNCHANGED <<allowRows, allowSelected, ruleRows, ruleSelected>>
  BY DEF SetField, Misspell, ui, lists, ctrl
<1>3. f \in Field \ {"server_allow", "cidrs"}
  BY <1>1, OpenConsole, DesksOK
<1>4. staged' = staged \/ \E v \in desk.values[f] : staged' = [staged EXCEPT ![f] = v]
  BY DEF SetField, Misspell, ctrl
<1>5. /\ Listable(desk, staged')
      /\ staged'.server_allow = staged.server_allow /\ staged'.cidrs = staged.cidrs
  <2>1. DOMAIN staged = Field /\ Listable(desk, staged)
    BY <1>1, OpenConsole DEF Listable, WellFormed
  <2>2. ASSUME NEW v \in desk.values[f], staged' = [staged EXCEPT ![f] = v]
        PROVE  /\ Listable(desk, staged')
               /\ staged'.server_allow = staged.server_allow /\ staged'.cidrs = staged.cidrs
    <3>1. Listable(desk, [staged EXCEPT ![f] = v])
      BY <1>3, <2>1, StagedList
    <3>2. f # "server_allow" /\ f # "cidrs"
      BY <1>3
    <3> QED
      BY <2>1, <2>2, <3>1, <3>2
  <2> QED
    BY <1>4, <2>1, <2>2
<1> QED
  BY <1>1, <1>2, <1>5, OpenConsole, EditFrame DEF Idle

\* Selecting a row changes neither list.
LEMMA SelectStep ==
    ASSUME ConsoleInv,
           \/ \E row \in DOMAIN allowRows : SelectAllow(row)
           \/ \E row \in DOMAIN ruleRows : SelectRule(row)
    PROVE  ConsoleInv'
<1>1. Idle /\ Open /\ modal = "none"
  BY DEF SelectAllow, SelectRule, Idle
<1>2. /\ UNCHANGED <<desk, system, wizard, base, hash, activePin, previous, apc, target, changes,
                     loaded, job, history>>
      /\ UNCHANGED <<modal, staged, allowRows, ruleRows>>
  BY DEF SelectAllow, SelectRule, ui, ctrl
<1>3. DOMAIN allowRows \subseteq Nat /\ DOMAIN ruleRows \subseteq Nat
  BY <1>1, OpenConsole
<1>4. allowSelected' \in Nat /\ ruleSelected' \in Nat
  BY <1>1, <1>3, OpenConsole DEF SelectAllow, SelectRule
<1> QED
  BY <1>1, <1>2, <1>4, OpenConsole, EditFrame DEF Idle

\* A list editor that refuses changes nothing but the dialog.
LEMMA RefuseStep ==
    ASSUME ConsoleInv, Idle, modal = "none", Refuse,
           UNCHANGED <<desk, system, fails, wizard, browser, base, hash, activePin, validation, job,
                       history, writes, jobs>>
    PROVE  ConsoleInv'
<1>1. Open
  BY DEF Idle
<1>2. /\ UNCHANGED <<desk, system, wizard, base, hash, activePin, previous, apc, target, changes,
                     loaded, job, history>>
      /\ modal' = "message"
      /\ UNCHANGED <<staged, allowRows, allowSelected, ruleRows, ruleSelected>>
  BY DEF Refuse, Message
<1> QED
  BY <1>1, <1>2, OpenConsole, EditFrame DEF Idle

\* Staging another allowlist keeps the invariant when the list is as sound as the files'.
LEMMA AllowStep ==
    ASSUME ConsoleInv, Idle, modal = "none", NEW l \in Seq(STRING), FilesListOnce(desk) => Unique(l),
           StageAllow(l),
           UNCHANGED <<desk, system, fails, wizard, browser, base, hash, activePin, validation, job,
                       history, writes, jobs>>
    PROVE  ConsoleInv'
<1>1. Open
  BY DEF Idle
<1>2. /\ UNCHANGED <<desk, system, wizard, base, hash, activePin, previous, apc, target, changes,
                     loaded, job, history>>
      /\ UNCHANGED <<modal, ruleRows, ruleSelected>> /\ allowRows' = l /\ allowSelected' = 0
      /\ staged' = [staged EXCEPT !.server_allow = l]
  BY DEF StageAllow, ui
<1>3. Listable(desk, staged')
  BY <1>1, <1>2, OpenConsole, StagedList
<1>4. staged'.server_allow = l /\ staged'.cidrs = staged.cidrs
  <2>1. DOMAIN staged = Field /\ "server_allow" \in Field
    BY <1>1, OpenConsole DEF Listable, WellFormed, Field, LiveFields
  <2> QED
    BY <1>2, <2>1
<1> QED
  BY <1>1, <1>2, <1>3, <1>4, OpenConsole, EditFrame DEF Idle

\* The same for the rules.
LEMMA RulesStep ==
    ASSUME ConsoleInv, Idle, modal = "none", NEW l \in Seq(Rule),
           Unique([i \in DOMAIN l |-> l[i].cidr]), StageRules(l),
           UNCHANGED <<desk, system, fails, wizard, browser, base, hash, activePin, validation, job,
                       history, writes, jobs>>
    PROVE  ConsoleInv'
<1>1. Open
  BY DEF Idle
<1>2. /\ UNCHANGED <<desk, system, wizard, base, hash, activePin, previous, apc, target, changes,
                     loaded, job, history>>
      /\ UNCHANGED <<modal, allowRows, allowSelected>> /\ ruleRows' = l /\ ruleSelected' = 0
      /\ staged' = [staged EXCEPT !.cidrs = l]
  BY DEF StageRules, ui
<1>3. Listable(desk, staged')
  BY <1>1, <1>2, OpenConsole, StagedList
<1>4. staged'.server_allow = staged.server_allow /\ staged'.cidrs = l
  <2>1. DOMAIN staged = Field /\ "cidrs" \in Field
    BY <1>1, OpenConsole DEF Listable, WellFormed, Field, LiveFields
  <2> QED
    BY <1>2, <2>1
<1> QED
  BY <1>1, <1>2, <1>3, <1>4, OpenConsole, EditFrame DEF Idle

\* Saving or deleting a server refuses, or stages a list without doubles.
LEMMA AllowEntryStep ==
    ASSUME ConsoleInv, (\E text \in desk.texts : saveAllowEntry(text)) \/ deleteAllowEntry
    PROVE  ConsoleInv'
<1>1. /\ Idle /\ Open /\ modal = "none"
      /\ UNCHANGED <<desk, system, fails, wizard, browser, base, hash, activePin, validation, job,
                     history, writes, jobs>>
  BY DEF saveAllowEntry, deleteAllowEntry, Editing, Idle
<1>2. /\ staged.server_allow \in Seq(STRING) /\ allowSelected \in Nat
      /\ FilesListOnce(desk) => Unique(staged.server_allow)
  BY <1>1, OpenConsole DEF Listable, WellFormed
<1>3. ASSUME deleteAllowEntry
      PROVE  ConsoleInv'
  <2>1. /\ allowSelected \in DOMAIN staged.server_allow
        /\ StageAllow(RemoveAt(staged.server_allow, allowSelected))
    BY <1>3 DEF deleteAllowEntry
  <2>2. FilesListOnce(desk) => Unique(RemoveAt(staged.server_allow, allowSelected))
    BY <1>2, <2>1, AllowUnique
  <2>3. RemoveAt(staged.server_allow, allowSelected) \in Seq(STRING)
    BY <1>2, <2>1, RemoveKeeps
  <2> QED
    BY <1>1, <2>1, <2>2, <2>3, AllowStep
<1>4. ASSUME NEW text \in desk.texts, saveAllowEntry(text)
      PROVE  ConsoleInv'
  <2>1. CASE text \notin DOMAIN Canon \/ ListedElsewhere(Canon[text])
    BY <1>1, <1>4, <2>1, RefuseStep DEF saveAllowEntry
  <2>2. CASE ~(text \notin DOMAIN Canon \/ ListedElsewhere(Canon[text]))
    <3> DEFINE e == Canon[text]
               l == PutAt(staged.server_allow, allowSelected, e)
    <3>1. e \in STRING /\ \A i \in DOMAIN staged.server_allow : staged.server_allow[i] = e => i = allowSelected
      BY <2>2, ConfigConstants DEF ListedElsewhere
    <3>2. StageAllow(l)
      BY <1>4, <2>2 DEF saveAllowEntry
    <3> HIDE DEF e
    <3>3. l \in Seq(STRING)
      BY <1>2, <3>1, PutKeeps
    <3>4. FilesListOnce(desk) => Unique(l)
      BY <1>2, <3>1, AllowUnique
    <3> HIDE DEF l
    <3> QED
      BY <1>1, <3>2, <3>3, <3>4, AllowStep
  <2> QED
    BY <2>1, <2>2
<1> QED
  BY <1>3, <1>4

\* A CIDR has at most one rule, so Replace and Delete hit the one row meant.
LEMMA RowFound ==
    ASSUME Listable(desk, staged), NEW cidr
    PROVE  /\ RowOf(cidr) \subseteq DOMAIN staged.cidrs /\ RowOf(cidr) \subseteq Nat \ {0}
           /\ RowOf(cidr) = {} \/ \E i \in Nat \ {0} : RowOf(cidr) = {i}
<1>1. /\ staged.cidrs \in Seq(Rule)
      /\ \A i, j \in DOMAIN staged.cidrs : staged.cidrs[i].cidr = staged.cidrs[j].cidr => i = j
  BY DEF Listable, WellFormed, Unique, CidrsOf
<1>2. DOMAIN staged.cidrs \subseteq Nat \ {0}
  BY <1>1
<1> QED
  BY <1>1, <1>2 DEF RowOf

\* Saving or deleting a rule refuses, or stages rules whose CIDRs differ.
LEMMA RuleEntryStep ==
    ASSUME ConsoleInv, NEW r \in desk.rules, saveFlowMonitorRule(r) \/ deleteFlowMonitorRule(r.cidr)
    PROVE  ConsoleInv'
<1>1. /\ Idle /\ Open /\ modal = "none"
      /\ UNCHANGED <<desk, system, fails, wizard, browser, base, hash, activePin, validation, job,
                     history, writes, jobs>>
  BY DEF saveFlowMonitorRule, deleteFlowMonitorRule, Editing, Idle
<1>2. /\ staged.cidrs \in Seq(Rule) /\ ruleSelected \in Nat /\ Listable(desk, staged)
      /\ Unique([i \in DOMAIN staged.cidrs |-> staged.cidrs[i].cidr])
  BY <1>1, OpenConsole DEF Listable, WellFormed, CidrsOf
<1>3. r \in Rule
  BY <1>1, OpenConsole, DesksOK
<1> DEFINE R == RowOf(r.cidr)
<1>4. /\ R \subseteq DOMAIN staged.cidrs /\ R \subseteq Nat \ {0}
      /\ R = {} \/ \E i \in Nat \ {0} : R = {i}
      /\ \A i \in DOMAIN staged.cidrs : staged.cidrs[i].cidr = r.cidr => i \in R
  BY <1>2, RowFound DEF RowOf
<1>5. ASSUME deleteFlowMonitorRule(r.cidr)
      PROVE  ConsoleInv'
  <2> DEFINE rows == IF ruleSelected \in DOMAIN staged.cidrs THEN {ruleSelected} ELSE R
             k == Min(rows)
  <2>1. IF rows = {} THEN Refuse ELSE StageRules(RemoveAt(staged.cidrs, k))
    BY <1>5 DEF deleteFlowMonitorRule
  <2>2. CASE rows = {}
    BY <1>1, <2>1, <2>2, RefuseStep
  <2>3. CASE rows # {}
    <3> HIDE DEF R
    <3>1. \E i \in DOMAIN staged.cidrs : i \in Nat /\ rows = {i}
      BY <1>2, <1>4, <2>3
    <3>2. k = CHOOSE x \in rows : \A y \in rows : x =< y
      BY DEF Min
    <3> HIDE DEF rows, k
    <3>3. k \in DOMAIN staged.cidrs /\ k \in Nat
      BY <3>1, <3>2
    <3> DEFINE l == RemoveAt(staged.cidrs, k)
    <3>4. StageRules(l)
      BY <2>1, <2>3
    <3>5. l \in Seq(Rule)
      BY <1>2, <3>3, RemoveKeeps
    <3>6. Unique([i \in DOMAIN l |-> l[i].cidr])
      BY <1>2, <1>3, <3>3, RulesUnique
    <3> HIDE DEF l
    <3> QED
      BY <1>1, <3>4, <3>5, <3>6, RulesStep
  <2> QED
    BY <2>2, <2>3
<1>6. ASSUME saveFlowMonitorRule(r)
      PROVE  ConsoleInv'
  <2> DEFINE S == {ruleSelected} \cup R
             k == Max(S)
  <2>1. CASE ~RuleValid(r) \/ (ruleSelected # 0 /\ R \ {ruleSelected} # {})
    BY <1>1, <1>6, <2>1, RefuseStep DEF saveFlowMonitorRule
  <2>2. CASE ~(~RuleValid(r) \/ (ruleSelected # 0 /\ R \ {ruleSelected} # {}))
    <3>1. StageRules(PutAt(staged.cidrs, k, r))
      BY <1>6, <2>2 DEF saveFlowMonitorRule
    <3>2. k = CHOOSE x \in S : \A y \in S : x >= y
      BY DEF Max
    <3> HIDE DEF R, k
    <3>3. k \in Nat /\ \A i \in R : i = k
      <4>1. CASE R = {}
        BY <1>2, <3>2, <4>1
      <4>2. CASE ruleSelected # 0 /\ R # {}
        BY <1>2, <1>4, <2>2, <3>2, <4>2
      <4>3. CASE ruleSelected = 0 /\ R # {}
        BY <1>2, <1>4, <3>2, <4>3
      <4> QED
        BY <4>1, <4>2, <4>3
    <3>4. \A i \in DOMAIN staged.cidrs : staged.cidrs[i].cidr = r.cidr => i = k
      BY <1>4, <3>3
    <3> DEFINE l == PutAt(staged.cidrs, k, r)
    <3>5. l \in Seq(Rule)
      BY <1>2, <1>3, <3>3, PutKeeps
    <3>6. Unique([i \in DOMAIN l |-> l[i].cidr])
      BY <1>2, <1>3, <3>3, <3>4, RulesUnique
    <3>7. StageRules(l)
      BY <3>1
    <3> HIDE DEF l
    <3> QED
      BY <1>1, <3>5, <3>6, <3>7, RulesStep
  <2> QED
    BY <2>1, <2>2
<1> QED
  BY <1>5, <1>6

----------------------------------------------------------------------------
(* Dialogs *)

\* A sound configuration is not Nothing.
LEMMA SoundIsSomething ==
    ASSUME NEW d, NEW c, Sound(d, c)
    PROVE  c # Nothing /\ DOMAIN c = Field /\ Repaired(c) = c
BY DEF Sound, Listable, Loadable, Load, Nothing, WellFormed

\* What a step must show that only replaces the dialog, or takes the result of a job: no
\* question about a reattach comes up, and one that goes away is put off.
LEMMA DialogFrame ==
    ASSUME ConsoleInv, Idle,
           UNCHANGED <<desk, system, wizard, ctrl, lists, previous, apc, target, changes, loaded,
                       jloaded, raced, reloaded>>,
           modal' # "closed", Asking' => Asking,
           \/ UNCHANGED <<jpc, jprev>>
           \/ jpc = "done" /\ jpc' = "idle" /\ ~Asking',
           ~postponed' => /\ ~postponed /\ (Asking => Asking')
                          /\ jpc \in Rejob => modal' # "conflict"
    PROVE  ConsoleInv'
<1> USE DEF ConsoleInv, Idle, Open
<1>1. Actors'
  BY DEF Actors, system, wizard, Nothing
<1>2. Configurations'
  BY DEF Configurations, Actors, system, wizard, ctrl, Nothing, Rejob, Rollback
<1>3. Tables'
  BY DEF Tables, lists, ctrl
<1>4. Based'
  BY DEF Based, system, ctrl, Nothing
<1>5. Follows'
  BY DEF Follows, system
<1>6. Located'
  BY DEF Located, system, ctrl, Nothing, MovesPin, Rejob, Rollback
<1> QED
  BY <1>1, <1>2, <1>3, <1>4, <1>5, <1>6

\* A Reattach at work, or a question about one, counts as reattaching.
LEMMA ReattachingKnown ==
    ASSUME ConsoleInv, Open
    PROVE  jpc \in Rejob \/ Asking => Reattaching
<1>1. jpc \in Rejob => Sound(desk, jprev)
  BY OpenConsole DEF ConsoleInv, Configurations
<1> QED
  BY <1>1, SoundIsSomething DEF Reattaching, Asking

\* Buttons, Help, q, the word to be typed and the end of a job replace the dialog.
LEMMA DialogStep ==
    ASSUME ConsoleInv, Dismiss \/ Interrupt \/ AskTyped \/ JobDone
    PROVE  ConsoleInv'
<1>1. Idle /\ UNCHANGED <<desk, system, wizard, ctrl, lists, previous, apc, target, changes, loaded,
                          jloaded, raced, reloaded>>
  BY DEF Dismiss, Interrupt, AskTyped, JobDone, job, history
<1>2. modal' # "closed" /\ (Asking' => Asking)
  BY DEF Dismiss, Interrupt, AskTyped, JobDone, Show, Asking
<1>3. \/ UNCHANGED <<jpc, jprev>>
      \/ jpc = "done" /\ jpc' = "idle" /\ ~Asking'
  BY DEF Dismiss, Interrupt, AskTyped, JobDone, Show, Asking, job
<1>4. ~postponed' => ~postponed /\ (Asking => Asking') /\ modal' # "conflict"
  BY DEF Dismiss, Interrupt, AskTyped, JobDone, Show, Asking, history
<1> QED
  BY <1>1, <1>2, <1>3, <1>4, DialogFrame

\* Nothing that the invariant speaks of changes.
LEMMA StutterStep ==
    ASSUME ConsoleInv, UNCHANGED <<desk, system, wizard, console>>
    PROVE  ConsoleInv'
BY DEF ConsoleInv, Actors, Configurations, Tables, Based, Follows, Located, system, wizard, console,
       ctrl, lists, ui, job, history, Open, Nothing, Asking, MovesPin

\* The Flows page touches the console only through an error's dialog.
LEMMA BrowserStep ==
    ASSUME ConsoleInv,
           \/ requestFlowRefresh \/ RefreshOpen \/ RefreshShow
           \/ BrowserNext /\ UNCHANGED <<console, bounds>>
    PROVE  ConsoleInv'
<1>1. CASE requestFlowRefresh \/ RefreshOpen \/ (BrowserNext /\ UNCHANGED <<console, bounds>>)
  BY <1>1, StutterStep DEF requestFlowRefresh, RefreshOpen, BrowserNext
<1>2. ASSUME RefreshShow
      PROVE  ConsoleInv'
  <2>1. CASE scan.pc = "end"
    BY <1>2, <2>1, StutterStep DEF RefreshShow, console, ui, history
  <2>2. CASE scan.pc # "end"
    <3>1. Idle /\ UNCHANGED <<desk, system, wizard, ctrl, lists, previous, apc, target, changes, loaded,
                              jloaded, raced, reloaded>>
      BY <1>2 DEF RefreshShow, job
    <3>2. modal' = "message" /\ ~Asking' /\ UNCHANGED <<jpc, jprev>>
      BY <1>2, <2>2 DEF RefreshShow, Show, Asking, job
    <3>3. ~postponed' => ~postponed /\ ~Asking
      BY <1>2, <2>2 DEF RefreshShow, Asking
    <3> QED
      BY <3>1, <3>2, <3>3, DialogFrame
  <2> QED
    BY <2>1, <2>2
<1> QED
  BY <1>1, <1>2

----------------------------------------------------------------------------
(* Apply *)

\* What Apply will write if it goes ahead: a sound configuration with the lists on screen,
\* whose differences from base are among the changes, and which keeps the directory
\* unless the changes call for a reattach.
LEMMA TargetSound ==
    ASSUME ConsoleInv, Open, Validate(staged)
    PROVE  LET t == Repaired(staged)
           IN /\ Sound(desk, t) /\ t.server_allow = staged.server_allow /\ t.cidrs = staged.cidrs
              /\ Diff(base, t) \subseteq Diff(base, staged)
              /\ Impact(Diff(base, staged)) < Reattach => t.pin_dir = base.pin_dir
<1> DEFINE t == Repaired(staged)
<1>1. Listable(desk, staged) /\ WellFormed(staged) /\ Sound(desk, base) /\ DOMAIN staged = Field
  BY OpenConsole DEF Listable, WellFormed
<1>2. Repaired(base) = base /\ DOMAIN base = Field
  BY <1>1, SoundIsSomething
<1>3. Sound(desk, t)
  BY <1>1, LoadSound DEF Listable
<1>4. t.server_allow = staged.server_allow /\ t.cidrs = staged.cidrs
  BY <1>1, RepairKeeps
<1>5. Diff(base, t) \subseteq Diff(base, staged)
  BY <1>1, <1>2, DiffRepaired
<1>6. ASSUME Impact(Diff(base, staged)) < Reattach
      PROVE  t.pin_dir = base.pin_dir
  <2>1. Diff(base, staged) \subseteq Field /\ "pin_dir" \in Field
    BY DEF Diff, Field, ReattachFields
  <2>2. "pin_dir" \notin Diff(base, t)
    BY <1>5, <1>6, <2>1, ImpactBounds
  <2> QED
    BY <2>1, <2>2 DEF Diff
<1> QED
  BY <1>3, <1>4, <1>5, <1>6

\* Apply refuses, finds a conflict, or goes ahead; whatever reattach was still to be decided
\* on counts as put off.
LEMMA ApplyStep ==
    ASSUME ConsoleInv, apply
    PROVE  ConsoleInv'
<1>1. /\ Idle /\ Open
      /\ UNCHANGED <<desk, system, wizard, ctrl, lists, loaded, jpc, jprev, jloaded, raced, reloaded>>
      /\ ~postponed' => ~postponed /\ ~Asking /\ jpc \notin Rejob
  <2>1. Idle /\ Open
    BY DEF apply, Idle
  <2> QED
    BY <2>1, ReattachingKnown DEF apply, job
<1>2. ASSUME modal' \in {"message", "conflict"}, UNCHANGED <<apc, target, changes, previous>>
      PROVE  ConsoleInv'
  BY <1>1, <1>2, DialogFrame DEF Asking
<1>3. ASSUME ~Changed, Validate(staged), apc' = "policy", target' = Repaired(staged),
             changes' = Diff(base, staged), previous' = base, UNCHANGED modal
      PROVE  ConsoleInv'
  <2> USE DEF ConsoleInv, Idle, Open
  <2>1. /\ Sound(desk, target') /\ target'.server_allow = staged.server_allow
        /\ target'.cidrs = staged.cidrs /\ Diff(base, target') \subseteq changes'
        /\ Impact(changes') < Reattach => target'.pin_dir = base.pin_dir
    BY <1>1, <1>3, TargetSound
  <2>2. changes' \subseteq Field
    BY <1>3 DEF Diff
  <2>3. Actors'
    BY <1>1, <1>3 DEF Actors, system, wizard, Nothing
  <2>4. Configurations'
    BY <1>1, <1>3, <2>1, <2>2, OpenConsole DEF Configurations, system, wizard, ctrl, Nothing, Asking
  <2>5. Tables'
    BY <1>1, <1>3, <2>1 DEF Tables, lists, ctrl
  <2>6. Based'
    BY <1>1, <1>3, <2>1 DEF Based, Changed, system, ctrl, Nothing
  <2>7. Follows'
    BY <1>1, <1>3 DEF Follows, system
  <2>8. Located'
    BY <1>1, <1>3, <2>1 DEF Located, system, ctrl, Nothing, Asking, MovesPin, Rejob, Rollback
  <2> QED
    BY <2>3, <2>4, <2>5, <2>6, <2>7, <2>8
<1> QED
  BY <1>2, <1>3 DEF apply, Show

\* The policy maps may refuse, which ends Apply.
LEMMA ApplyPolicyStep ==
    ASSUME ConsoleInv, ApplyPolicy
    PROVE  ConsoleInv'
<1> USE DEF ConsoleInv, Open
<1>1. /\ apc = "policy"
      /\ \/ apc' = "save" /\ UNCHANGED modal
         \/ apc' = "idle" /\ modal' = "message"
      /\ UNCHANGED <<desk, system, wizard, ctrl, lists, previous, target, changes, loaded, job, history>>
  BY DEF ApplyPolicy, Show
<1>2. Actors'
  BY <1>1 DEF Actors, system, wizard, job, Nothing
<1>3. Configurations'
  BY <1>1 DEF Configurations, system, wizard, ctrl, job, Nothing, Asking
<1>4. Tables'
  BY <1>1 DEF Actors, Tables, lists, ctrl, history
<1>5. Based'
  BY <1>1 DEF Actors, Based, system, ctrl, job, history, Nothing
<1>6. Follows'
  BY <1>1 DEF Follows, system, history
<1>7. Located'
  BY <1>1 DEF Actors, Located, system, ctrl, job, history, Nothing, Asking, MovesPin, Rejob, Rollback
<1> QED
  BY <1>2, <1>3, <1>4, <1>5, <1>6, <1>7

\* The save replaces the file that base was loaded from, so what the daemon lacks of the
\* new one is what it lacked of the old one, and the changes.
LEMMA ApplySaveStep ==
    ASSUME ConsoleInv, ApplySave
    PROVE  ConsoleInv'
<1> USE DEF ConsoleInv, Open
<1>1. /\ apc = "save"
      /\ \/ file' = target /\ unread' = (svc # NoService) /\ apc' = "rehash" /\ UNCHANGED modal
         \/ UNCHANGED <<file, unread>> /\ apc' = "idle" /\ modal' = "message"
      /\ raced' = (raced \/ jpc = "rhash")
      /\ UNCHANGED <<desk, svc, again, pins, told, refused, revived, wizard, ctrl, lists, previous, target,
                     changes, loaded, job, reloaded, postponed>>
  BY DEF ApplySave, Show, Overwrite
<1>2. modal # "closed" /\ desk.open /\ loaded = Nothing
  BY <1>1 DEF Actors
<1>3. /\ Sound(desk, target) /\ Loadable(target) /\ Load(target) = target /\ target # Unreadable
      /\ DOMAIN target = Field /\ WellFormed(target)
      /\ FilesListOnce(desk) => Unique(target.server_allow)
  BY <1>1, <1>2 DEF Configurations, Sound, Listable, Loadable, WellFormed
<1>4. Actors'
  BY <1>1 DEF Actors, system, wizard, job, Nothing
<1>5. Configurations'
  BY <1>1, <1>2, <1>3 DEF Configurations, wizard, ctrl, job, Nothing, Asking
<1>6. Tables'
  BY <1>1, <1>2 DEF Tables, lists, ctrl
<1>7. Based'
  BY <1>1, <1>2, <1>3 DEF Based, ctrl, job, Nothing
<1>8. Follows'
  <2>1. CASE apc' = "idle"
    BY <1>1, <2>1 DEF Follows
  <2>2. CASE apc' = "rehash" /\ svc # NoService /\ ~raced' /\ ~revived
    <3>1. /\ file = hash /\ Loadable(hash) /\ Load(hash) = base /\ Diff(base, target) \subseteq changes
      BY <1>1, <1>2, <2>2 DEF Based
    <3>2. Diff(svc, base) \ LiveFields \subseteq told
      BY <1>1, <2>2, <3>1 DEF Follows
    <3>3. Diff(svc, target) \subseteq Diff(svc, base) \cup Diff(base, target)
      BY DiffTriangle
    <3> QED
      BY <1>1, <1>3, <2>2, <3>1, <3>2, <3>3 DEF Follows
  <2>3. CASE apc' = "rehash" /\ (svc = NoService \/ raced' \/ revived)
    BY <1>1, <2>3 DEF Follows
  <2> QED
    BY <1>1, <2>1, <2>2, <2>3
<1>9. Located'
  BY <1>1, <1>2, <1>3 DEF Located, ctrl, job, Nothing, Asking, MovesPin, Rejob, Rollback
<1> QED
  BY <1>4, <1>5, <1>6, <1>7, <1>8, <1>9

\* Afterwards base is what was saved; fields that a reload does not reach are told, and
\* the directory stays the known one until the reattach is done.  A file that cannot be
\* read back leaves the old base beside the new file.
LEMMA ApplyRehashStep ==
    ASSUME ConsoleInv, ApplyRehash
    PROVE  ConsoleInv'
<1> USE DEF ConsoleInv, Open
<1>0. /\ apc = "rehash" /\ apc' = "idle"
      /\ UNCHANGED <<desk, file, svc, unread, again, pins, refused, revived, wizard, lists, previous, target,
                     changes, loaded, job, reloaded>>
  BY DEF ApplyRehash
<1>F. ASSUME UNCHANGED <<ctrl, told>>, raced', postponed' = (postponed \/ ~MovesPin), modal' = "message"
      PROVE  ConsoleInv'
  <2>1. modal # "closed" /\ desk.open /\ loaded = Nothing
    BY <1>0 DEF Actors
  <2>2. Actors'
    BY <1>0, <1>F, <2>1 DEF Actors, wizard, job, Nothing
  <2>3. Configurations'
    BY <1>0, <1>F, <2>1 DEF Configurations, wizard, ctrl, job, Nothing, Asking
  <2>4. Tables' /\ Based' /\ Follows'
    BY <1>0, <1>F, <2>1 DEF Tables, Based, Follows, lists, ctrl
  <2>5. Located'
    BY <1>0, <1>F, <2>1 DEF Located, ctrl, job, Nothing, Asking, MovesPin, Rejob, Rollback
  <2> QED
    BY <2>2, <2>3, <2>4, <2>5
<1> SUFFICES ASSUME base' = target, staged' = target, hash' = file,
                    activePin' = IF MovesPin THEN target.pin_dir ELSE activePin,
                    told' = IF Impact(changes) >= Restart THEN told \cup changes ELSE told,
                    modal' = CASE Impact(changes) = Reattach -> "reattach"
                               [] Impact(changes) = Restart -> "restart"
                               [] OTHER -> "message",
                    UNCHANGED <<raced, postponed>>
             PROVE  ConsoleInv'
  BY <1>F DEF ApplyRehash, Show
<1>1. /\ apc = "rehash" /\ apc' = "idle" /\ base' = target /\ staged' = target /\ hash' = file
      /\ activePin' = IF MovesPin THEN target.pin_dir ELSE activePin
      /\ told' = IF Impact(changes) >= Restart THEN told \cup changes ELSE told
      /\ UNCHANGED <<desk, file, svc, unread, again, pins, refused, revived, wizard, lists, previous, target,
                     changes, loaded, job, raced, reloaded, postponed>>
  BY <1>0
<1>2. modal # "closed" /\ desk.open /\ loaded = Nothing
  BY <1>1 DEF Actors
<1>3. Sound(desk, target) /\ Sound(desk, previous) /\ changes \subseteq Field
  BY <1>1, <1>2 DEF Configurations
<1>4. /\ Loadable(target) /\ Load(target) = target /\ Listable(desk, target)
  BY <1>3 DEF Sound
<1>5. /\ Impact(changes) < Restart => changes \subseteq LiveFields
      /\ Impact(changes) \in 0 .. 3
  BY <1>3, ImpactBounds
<1>6. /\ Impact(changes) = Reattach => modal' = "reattach"
      /\ Impact(changes) # Reattach => modal' \in {"restart", "message"}
  BY DEF Restart, Reattach
<1>7. /\ MovesPin => modal' \in {"restart", "message"}
      /\ ~MovesPin => modal' = "reattach"
  BY <1>5, <1>6 DEF MovesPin, Reattach
<1>8. Actors'
  BY <1>1, <1>2, <1>7 DEF Actors, wizard, job, Nothing
<1>9. Configurations'
  BY <1>1, <1>2, <1>3, <1>4 DEF Configurations, wizard, job, Nothing, Asking
<1>10. Tables'
  BY <1>1, <1>2 DEF Tables, lists, history
<1>11. Based'
  BY <1>1, <1>2, <1>4 DEF Based, job, history, Nothing
<1>12. Follows'
  <2>1. changes \ LiveFields \subseteq told' /\ told \subseteq told'
    BY <1>1, <1>5 DEF Restart
  <2> QED
    BY <1>1, <2>1 DEF Follows, history
<1>13. Located'
  BY <1>1, <1>2, <1>7 DEF Located, job, history, Nothing, Asking, Rejob, Rollback
<1> QED
  BY <1>8, <1>9, <1>10, <1>11, <1>12, <1>13

----------------------------------------------------------------------------
(* Reload, Quit and the start of jobs *)

\* A file that loads gives the console a sound configuration.
LEMMA FileSound ==
    ASSUME ConsoleInv, Loadable(file)
    PROVE  DOMAIN Load(file) = Field /\ (desk.open => Sound(desk, Load(file)))
<1>1. file # Unreadable /\ Validate(file) /\ DOMAIN file = Field
  BY DEF ConsoleInv, Configurations, Loadable
<1>2. ASSUME desk.open
      PROVE  Sound(desk, Load(file))
  <2>1. WellFormed(file) /\ (FilesListOnce(desk) => Unique(file.server_allow))
    BY <1>1, <1>2 DEF ConsoleInv, Configurations
  <2> QED
    BY <1>1, <2>1, LoadSound DEF Load
<1> QED
  BY <1>1, <1>2, RepairKeeps DEF Load

\* Reload reads the file, and says so when it cannot.
LEMMA ReloadLoadStep ==
    ASSUME ConsoleInv, ReloadLoad
    PROVE  ConsoleInv'
<1> USE DEF ConsoleInv, Open, Idle
<1>1. /\ Idle /\ modal = "conflict"
      /\ UNCHANGED <<desk, system, wizard, ctrl, lists, previous, apc, target, changes, job, history>>
  BY DEF ReloadLoad
<1>2. CASE ~Loadable(file)
  <2>1. modal' = "message" /\ loaded' = loaded
    BY <1>2 DEF ReloadLoad, Show
  <2> QED
    BY <1>1, <2>1, DialogFrame DEF Asking, job, history
<1>3. CASE Loadable(file)
  <2>1. loaded' = Load(file) /\ modal' = "none" /\ Sound(desk, Load(file))
    BY <1>1, <1>3, FileSound, OpenConsole DEF ReloadLoad, Show
  <2>2. Actors'
    BY <1>1, <2>1 DEF Actors, system, wizard, job
  <2>3. Configurations'
    BY <1>1, <2>1 DEF Configurations, system, wizard, ctrl, job, Asking
  <2>4. Tables'
    BY <1>1, <2>1 DEF Tables, lists, ctrl, history
  <2>5. Based'
    BY <1>1, <1>3, <2>1 DEF Based, system, ctrl, job, history
  <2>6. Follows'
    BY <1>1 DEF Follows, system, history
  <2>7. Located'
    BY <1>1, <2>1 DEF Located, system, ctrl, job, history, Asking, MovesPin, Rejob, Rollback
  <2> QED
    BY <2>2, <2>3, <2>4, <2>5, <2>6, <2>7
<1> QED
  BY <1>2, <1>3

\* Reload takes what it read for the contents of the file as it is now.
LEMMA ReloadHashStep ==
    ASSUME ConsoleInv, ReloadHash
    PROVE  ConsoleInv'
<1> USE DEF ConsoleInv, Open
<1>1. /\ modal # "closed" /\ loaded # Nothing /\ base' = loaded /\ staged' = loaded /\ hash' = file
      /\ loaded' = Nothing /\ reloaded' = TRUE /\ modal' = "message"
      /\ UNCHANGED <<desk, system, wizard, activePin, lists, previous, apc, target, changes, job, raced,
                     postponed>>
  BY DEF ReloadHash, Show
<1>2. apc = "idle" /\ desk.open
  BY <1>1 DEF Actors
<1>3. Sound(desk, loaded) /\ Listable(desk, loaded)
  BY <1>1, <1>2 DEF Configurations, Sound
<1>4. Actors'
  BY <1>1, <1>2 DEF Actors, system, wizard, job
<1>5. Configurations'
  BY <1>1, <1>2, <1>3 DEF Configurations, system, wizard, job, Asking
<1>6. Tables'
  BY <1>1, <1>2 DEF Tables, lists
<1>7. Based'
  BY <1>1, <1>2 DEF Based, system, job
<1>8. Follows'
  BY <1>1 DEF Follows, system
<1>9. Located'
  BY <1>1, <1>2 DEF Located, system, job, Asking, MovesPin, Rejob, Rollback
<1> QED
  BY <1>4, <1>5, <1>6, <1>7, <1>8, <1>9

\* A console that ends takes its job with it.
LEMMA QuitStep ==
    ASSUME ConsoleInv, Quit
    PROVE  ConsoleInv'
<1> USE DEF ConsoleInv, Open, Idle
<1>1. /\ Idle /\ modal' = "closed" /\ jpc' = "idle"
      /\ UNCHANGED <<desk, system, wizard, ctrl, lists, previous, apc, target, changes, loaded, history>>
  BY DEF Quit, Show
<1>2. Actors'
  BY <1>1 DEF Actors, system, wizard, Nothing
<1>3. Configurations'
  BY <1>1 DEF Configurations, system, wizard, ctrl, Nothing, Asking, Rejob, Rollback
<1>4. Tables'
  BY <1>1 DEF Tables, lists, ctrl, history
<1>5. Based' /\ Located'
  BY <1>1 DEF Based, Located
<1>6. Follows'
  BY <1>1 DEF Follows, system, history
<1> QED
  BY <1>2, <1>3, <1>4, <1>5, <1>6

\* A job starts when none is at work; a Reattach starts with the configuration that the
\* dialog kept.
LEMMA LaunchStep ==
    ASSUME ConsoleInv, LaunchService \/ LaunchReattach
    PROVE  ConsoleInv'
<1> USE DEF ConsoleInv, Open, Idle
<1>1. /\ Idle /\ jpc = "idle" /\ modal' = "message"
      /\ \/ modal \in {"none", "restart"} /\ jpc' \in {"start", "stop", "restart", "detach"}
         \/ modal = "typed" /\ jpc' = "rstop" /\ jprev' = previous
      /\ UNCHANGED <<desk, system, wizard, ctrl, lists, previous, apc, target, changes, loaded, jloaded,
                     history>>
  BY DEF LaunchService, LaunchReattach, Launch, Show
<1>2. modal # "closed"
  BY <1>1
<1>3. Actors'
  BY <1>1, <1>2 DEF Actors, system, wizard, Nothing
<1>4. Configurations'
  BY <1>1, <1>2 DEF Configurations, system, wizard, ctrl, Nothing, Asking, Rejob, Rollback
<1>5. Tables'
  BY <1>1, <1>2 DEF Tables, lists, ctrl, history
<1>6. Based'
  BY <1>1, <1>2 DEF Based, system, ctrl, history, Nothing
<1>7. Follows'
  BY <1>1 DEF Follows, system, history
<1>8. Located'
  BY <1>1, <1>2 DEF Located, system, ctrl, history, Nothing, Asking, MovesPin, Rejob, Rollback
<1> QED
  BY <1>3, <1>4, <1>5, <1>6, <1>7, <1>8

----------------------------------------------------------------------------
(* Jobs *)

\* Stopping the service leaves no daemon to disagree with the file.
LEMMA JobStopStep ==
    ASSUME ConsoleInv, JobStop
    PROVE  ConsoleInv'
<1> USE DEF ConsoleInv, Open
<1>1. /\ jpc \in {"stop", "restart", "detach", "rstop"}
      /\ UNCHANGED <<desk, file, pins, told, refused, revived, wizard, ctrl, lists, ui, jprev, jloaded, raced,
                     reloaded>>
  BY DEF JobStop, JobElse
<1>2. \/ /\ svc' = NoService /\ unread' = FALSE /\ again' = FALSE /\ postponed' = postponed
         /\ jpc = "rstop" => jpc' = "rdetach"
         /\ jpc # "rstop" => jpc' \in {"done", "start", "unpin"}
      \/ /\ UNCHANGED <<svc, unread>> /\ jpc' \in {"unpin", "done"}
         /\ postponed' = (postponed \/ jpc = "rstop")
  BY <1>1 DEF JobStop
<1>3. modal # "closed" /\ desk.open
  BY <1>1 DEF Actors
<1>4. Actors'
  BY <1>1, <1>2, <1>3 DEF Actors, wizard, ui, Nothing
<1>5. Configurations'
  BY <1>1, <1>2, <1>3 DEF Configurations, wizard, ctrl, ui, Nothing, Asking, Rejob, Rollback
<1>6. Tables'
  BY <1>1 DEF Tables, lists, ctrl, ui
<1>7. Based'
  BY <1>1, <1>2, <1>3 DEF Based, ctrl, ui, Nothing
<1>8. Follows'
  BY <1>1, <1>2 DEF Follows, ui
<1>9. Located'
  BY <1>1, <1>2, <1>3 DEF Located, ctrl, ui, Nothing, Asking, MovesPin, Rejob, Rollback
<1> QED
  BY <1>4, <1>5, <1>6, <1>7, <1>8, <1>9

\* What a Detach leaves under its directory, if anything, is what was there, or maps.
LEMMA PathsLeft ==
    ASSUME NEW dir
    PROVE  /\ \A p \in Detached(dir) : p \in pins /\ p.dir # dir
           /\ \A P \in DetachFails(dir) : \A p \in P : p \in pins \/ p.dir = dir
<1>1. OnlyMaps(dir).dir = dir
  BY DEF OnlyMaps
<1>2. \A p \in Detached(dir) : p \in pins /\ p.dir # dir
  BY DEF Detached
<1> QED
  BY <1>1, <1>2 DEF DetachFails

\* A Reattach that detaches leaves no data path behind.
LEMMA JobUnpinStep ==
    ASSUME ConsoleInv, JobUnpin
    PROVE  ConsoleInv'
<1> USE DEF ConsoleInv, Open
<1>1. /\ jpc \in {"unpin", "rdetach"}
      /\ UNCHANGED <<desk, file, svc, unread, again, told, refused, revived, wizard, ctrl, lists, ui, jprev,
                     jloaded, raced, reloaded, postponed>>
  BY DEF JobUnpin, JobElse, service
<1>2. /\ jpc = "unpin" => /\ jpc' = "done"
                          /\ \A p \in pins' : p \in pins \/ p.dir = activePin
      /\ jpc = "rdetach" => \/ jpc' = "rstart" /\ \A p \in pins' : p \in pins /\ p.dir # jprev.pin_dir
                            \/ jpc' = "rsave" /\ \A p \in pins' : p \in pins \/ p.dir = jprev.pin_dir
  BY <1>1, PathsLeft DEF JobUnpin
<1>3. modal # "closed" /\ desk.open
  BY <1>1 DEF Actors
<1>4. Actors'
  BY <1>1, <1>2, <1>3 DEF Actors, wizard, ui, Nothing
<1>5. Configurations'
  BY <1>1, <1>2, <1>3 DEF Configurations, wizard, ctrl, ui, Nothing, Asking, Rejob, Rollback
<1>6. Tables'
  BY <1>1 DEF Tables, lists, ctrl, ui
<1>7. Based'
  BY <1>1, <1>2, <1>3 DEF Based, ctrl, ui, Nothing
<1>8. Follows'
  BY <1>1, <1>2 DEF Follows, ui
<1>9. Located'
  <2>1. ASSUME ~postponed, jpc = "rdetach", jpc' = "rstart"
        PROVE  pins' = {}
    BY <1>2, <1>3, <2>1 DEF Located, Rejob
  <2> QED
    BY <1>1, <1>2, <1>3, <2>1 DEF Located, ctrl, ui, Nothing, Asking, MovesPin, Rejob, Rollback
<1> QED
  BY <1>4, <1>5, <1>6, <1>7, <1>8, <1>9

\* However far a daemon gets, the only data path that is new or changed is the one under
\* its directory.
LEMMA PathsReached ==
    ASSUME NEW c
    PROVE  /\ PathAt(c.pin_dir).dir = c.pin_dir
           /\ WithTrusted(c).dir = c.pin_dir /\ WithBoth(c).dir = c.pin_dir /\ Stuck(c).dir = c.pin_dir
           /\ \A P \in Reached(c) : \A p \in P : p \in pins \/ p.dir = c.pin_dir
<1>1. PathAt(c.pin_dir).dir = c.pin_dir
  <2>1. CASE Pinned(c.pin_dir)
    BY <2>1 DEF PathAt, Pinned
  <2>2. CASE ~Pinned(c.pin_dir)
    BY <2>2 DEF PathAt, OnlyMaps
  <2> QED
    BY <2>1, <2>2
<1>2. WithTrusted(c).dir = c.pin_dir
  BY <1>1 DEF WithTrusted
<1>3. WithBoth(c).dir = c.pin_dir
  BY <1>2 DEF WithBoth
<1>4. Stuck(c).dir = c.pin_dir
  BY <1>1, <1>2 DEF Stuck
<1> QED
  BY <1>1, <1>2, <1>3, <1>4 DEF Reached, Pin

\* A unit that starts reads the file: the daemon agrees with it in every field.
LEMMA Started ==
    ASSUME ConsoleInv, StartUnit \/ StartUnitFails, UNCHANGED <<raced, apc, changes>>
    PROVE  /\ file' = file /\ Follows' /\ (svc' # NoService => DOMAIN svc' = Field)
           /\ StartUnitFails => svc' = NoService
           /\ svc # NoService => UNCHANGED <<svc, again, pins>>
           /\ pins' # pins => Loadable(file)
           /\ \A p \in pins' : p \in pins \/ p.dir = Load(file).pin_dir
<1> USE DEF ConsoleInv
<1>1. CASE UNCHANGED <<file, svc, unread, again, pins, told, refused, revived>>
  BY <1>1 DEF Follows, Configurations, StartUnitFails
<1>2. CASE StartUnit /\ svc = NoService
  <2>1. /\ Loadable(file) /\ svc' = Load(file) /\ file' = file /\ unread' = FALSE
        /\ pins' = Pin(WithBoth(Load(file)))
    BY <1>2 DEF StartUnit
  <2>2. Diff(svc', Load(file')) = {} /\ DOMAIN svc' = Field
    BY <2>1, FileSound DEF Diff
  <2>3. \A p \in pins' : p \in pins \/ p.dir = Load(file).pin_dir
    BY <2>1, PathsReached DEF Pin
  <2>4. Follows'
    BY <2>2 DEF Follows
  <2> QED
    BY <1>2, <2>1, <2>2, <2>3, <2>4 DEF StartUnitFails
<1>3. CASE StartUnitFails
  <2>1. svc = NoService /\ svc' = NoService /\ file' = file
    BY <1>3 DEF StartUnitFails
  <2>2. \/ pins' = pins
        \/ Loadable(file) /\ pins' = Pin(Stuck(Load(file)))
        \/ Loadable(file) /\ pins' \in Reached(Load(file))
    BY <1>3 DEF StartUnitFails
  <2>3. \A p \in pins' : p \in pins \/ p.dir = Load(file).pin_dir
    BY <2>2, PathsReached DEF Pin
  <2> QED
    BY <2>1, <2>2, <2>3 DEF Follows
<1> QED
  BY <1>1, <1>2, <1>3 DEF StartUnit, service

\* A service that a job starts pins its data path where the file says, which is where the
\* console looks after a Reattach, and where it looked all along after a rollback.  What a
\* failed Reattach leaves under another directory counts as put off.
LEMMA JobStartStep ==
    ASSUME ConsoleInv, JobStart
    PROVE  ConsoleInv'
<1> USE DEF ConsoleInv, Open
<1>1. /\ jpc \in {"start", "rstart", "ragain"}
      /\ UNCHANGED <<desk, wizard, base, staged, hash, lists, ui, jprev, jloaded, raced, reloaded>>
      /\ StartUnit \/ StartUnitFails
  BY DEF JobStart, JobElse
<1>2. /\ file' = file /\ Follows' /\ (svc' # NoService => DOMAIN svc' = Field)
      /\ pins' # pins => Loadable(file)
      /\ \A p \in pins' : p \in pins \/ p.dir = Load(file).pin_dir
  BY <1>1, Started DEF ui
<1>3. /\ ~postponed' => ~postponed
      /\ jpc = "start" => jpc' = "done" /\ activePin' = activePin
      /\ jpc = "ragain" => jpc' = "rload" /\ activePin' = activePin
      /\ jpc = "rstart" => \/ jpc' = "done" /\ activePin' = base.pin_dir
                           \/ /\ jpc' = "rsave" /\ activePin' = activePin
                              /\ ~postponed' => (Loadable(file) => Load(file).pin_dir = jprev.pin_dir)
  <2> HIDE DEF ConsoleInv
  <2>1. ~postponed' => ~postponed
    BY DEF JobStart
  <2>2. CASE jpc = "start"
    BY <2>1, <2>2 DEF JobStart
  <2>3. CASE jpc = "ragain"
    BY <2>1, <2>3 DEF JobStart
  <2>4. CASE jpc = "rstart"
    BY <2>1, <2>4 DEF JobStart
  <2> QED
    BY <1>1, <2>1, <2>2, <2>3, <2>4
<1>4. modal # "closed" /\ desk.open
  BY <1>1 DEF Actors
<1>5. Actors'
  BY <1>1, <1>2, <1>3, <1>4 DEF Actors, wizard, ui, Nothing
<1>6. Configurations'
  BY <1>1, <1>2, <1>3, <1>4 DEF Configurations, wizard, ui, Nothing, Asking, Rejob, Rollback
<1>7. Tables'
  BY <1>1 DEF Tables, lists, ui
<1>8. Based'
  BY <1>1, <1>2, <1>3, <1>4 DEF Based, ui, Nothing
<1>9. Located'
  <2>1. CASE jpc = "start"
    BY <1>1, <1>2, <1>3, <1>4, <2>1 DEF Located, ui, Nothing, Asking, MovesPin, Rejob, Rollback
  <2>2. CASE jpc = "ragain"
    BY <1>1, <1>2, <1>3, <1>4, <2>2 DEF Located, ui, Nothing, Asking, MovesPin, Rejob, Rollback
  <2>3. CASE jpc = "rstart"
    BY <1>1, <1>2, <1>3, <1>4, <2>3 DEF Located, ui, Nothing, Asking, MovesPin, Rejob, Rollback
  <2> QED
    BY <1>1, <2>1, <2>2, <2>3
<1> QED
  BY <1>2, <1>5, <1>6, <1>7, <1>8, <1>9

\* A unit that systemd starts again reads the file, too; under another directory than the
\* console's that counts as put off.
LEMMA RespawnStep ==
    ASSUME ConsoleInv, Respawn
    PROVE  ConsoleInv'
<1> USE DEF ConsoleInv, Open
<1>1. /\ svc = NoService /\ again /\ (StartUnit \/ StartUnitFails)
      /\ ~postponed' => ~postponed /\ (Loadable(file) => Load(file).pin_dir = activePin)
      /\ UNCHANGED <<desk, wizard, ctrl, lists, ui, job, raced, reloaded>>
  BY DEF Respawn
<1>2. /\ file' = file /\ Follows' /\ (svc' # NoService => DOMAIN svc' = Field)
      /\ pins' # pins => Loadable(file)
      /\ \A p \in pins' : p \in pins \/ p.dir = Load(file).pin_dir
  BY <1>1, Started DEF ui
<1>3. jpc \notin {"rdetach", "rstart"} /\ (desk.open \/ wpc \notin {"idle", "save"})
  BY <1>1, DesksOK DEF Actors
<1>4. Actors'
  BY <1>1, <1>3 DEF Actors, wizard, ui, job, Nothing
<1>5. Configurations'
  BY <1>1, <1>2 DEF Configurations, wizard, ctrl, ui, job, Nothing, Asking
<1>6. Tables'
  BY <1>1 DEF Tables, lists, ctrl, ui
<1>7. Based'
  BY <1>1, <1>2 DEF Based, ctrl, ui, job, Nothing
<1>8. Located'
  BY <1>1, <1>2, <1>3 DEF Located, ctrl, ui, job, Nothing, Asking, MovesPin, Rejob, Rollback
<1> QED
  BY <1>2, <1>4, <1>5, <1>6, <1>7, <1>8

\* The rollback writes back the configuration of the data path that is still pinned.
LEMMA JobSavePreviousStep ==
    ASSUME ConsoleInv, JobSavePrevious
    PROVE  ConsoleInv'
<1> USE DEF ConsoleInv, Open
<1>1. /\ jpc = "rsave"
      /\ \/ /\ file' = jprev /\ unread' = (svc # NoService) /\ jpc' = "ragain" /\ postponed' = postponed
            /\ revived' = (revived \/ svc # NoService)
         \/ jpc' = "done" /\ postponed' = TRUE /\ UNCHANGED <<file, unread, revived>>
      /\ raced' = (raced \/ apc # "idle" \/ loaded # Nothing)
      /\ UNCHANGED <<desk, svc, again, pins, told, refused, wizard, ctrl, lists, ui, jprev, jloaded, reloaded>>
  BY DEF JobSavePrevious, Overwrite
<1>2. modal # "closed" /\ desk.open
  BY <1>1 DEF Actors
<1>3. /\ Sound(desk, jprev) /\ Loadable(jprev) /\ Load(jprev) = jprev /\ jprev # Unreadable
      /\ DOMAIN jprev = Field /\ WellFormed(jprev)
      /\ FilesListOnce(desk) => Unique(jprev.server_allow)
  BY <1>1, <1>2 DEF Configurations, Sound, Listable, Loadable, WellFormed, Rejob
<1>4. Actors'
  BY <1>1, <1>2 DEF Actors, wizard, ui, Nothing
<1>5. Configurations'
  BY <1>1, <1>2, <1>3 DEF Configurations, wizard, ctrl, ui, Nothing, Asking, Rejob, Rollback
<1>6. Tables'
  BY <1>1 DEF Tables, lists, ctrl, ui
<1>7. Based'
  BY <1>1, <1>2 DEF Based, ctrl, ui, Nothing
<1>8. Follows'
  BY <1>1, <1>2 DEF Follows
<1>9. Located'
  BY <1>1, <1>2, <1>3 DEF Located, ctrl, ui, Nothing, Asking, MovesPin, Rejob, Rollback
<1> QED
  BY <1>4, <1>5, <1>6, <1>7, <1>8, <1>9

\* The rollback's Reload, in the goroutine of the job.
LEMMA JobReloadStep ==
    ASSUME ConsoleInv, JobReload
    PROVE  ConsoleInv'
<1> USE DEF ConsoleInv, Open
<1>1. /\ UNCHANGED <<desk, system, wizard, activePin, lists, ui, jprev, raced, postponed>>
      /\ \/ /\ jpc = "rload" /\ UNCHANGED <<base, staged, hash, reloaded>>
            /\ \/ Loadable(file) /\ jloaded' = Load(file) /\ jpc' = "rhash"
               \/ ~Loadable(file) /\ jpc' = "done"
         \/ /\ jpc = "rhash" /\ jpc' = "done" /\ reloaded' = TRUE
            /\ base' = jloaded /\ staged' = jloaded /\ hash' = file
  BY DEF JobReload, JobElse, ctrl
<1>2. modal # "closed" /\ desk.open
  BY <1>1 DEF Actors
<1>3. Loadable(file) => Sound(desk, Load(file))
  BY <1>2, FileSound
<1>4. jpc = "rhash" => Sound(desk, jloaded) /\ Listable(desk, jloaded)
  BY <1>2 DEF Configurations, Sound
<1>5. Actors'
  BY <1>1, <1>2 DEF Actors, system, wizard, ui, Nothing
<1>6. Configurations'
  BY <1>1, <1>2, <1>3, <1>4 DEF Configurations, system, wizard, ui, Nothing, Asking, Rejob, Rollback
<1>7. Tables'
  BY <1>1 DEF Tables, lists, ui
<1>8. Based'
  BY <1>1, <1>2 DEF Based, system, ui, Nothing
<1>9. Follows'
  BY <1>1 DEF Follows, system, ui
<1>10. Located'
  BY <1>1, <1>2 DEF Located, system, ui, Nothing, Asking, MovesPin, Rejob, Rollback
<1> QED
  BY <1>5, <1>6, <1>7, <1>8, <1>9, <1>10

----------------------------------------------------------------------------
(* Other programs, the daemon and the wizard *)

\* A program that writes the file tells what the daemon will not take over, and disturbs
\* an Apply or Reload under way.
LEMMA ExternalWriteStep ==
    ASSUME ConsoleInv, NEW c \in desk.files, ExternalWrite(c)
    PROVE  ConsoleInv'
<1> USE DEF ConsoleInv, Open
<1>1. /\ file' = c /\ unread' = (svc # NoService)
      /\ svc # NoService /\ Loadable(c) => told' = told \cup (Diff(svc, Load(c)) \ LiveFields)
      /\ raced' = (raced \/ apc # "idle" \/ loaded # Nothing \/ jpc = "rhash")
      /\ ~postponed' => /\ ~postponed /\ Loadable(c) /\ Loadable(file)
                        /\ Load(c).pin_dir = Load(file).pin_dir
      /\ UNCHANGED <<desk, svc, again, pins, refused, revived, wizard, ctrl, lists, ui, job, reloaded>>
  BY DEF ExternalWrite, Overwrite
<1>2. c # Unreadable => /\ WellFormed(c) /\ DOMAIN c = Field
                        /\ FilesListOnce(desk) => Unique(c.server_allow)
  BY DesksOK DEF Actors, WellFormed, FilesListOnce
<1>3. Actors'
  BY <1>1 DEF Actors, wizard, ui, job, Nothing
<1>4. Configurations'
  BY <1>1, <1>2 DEF Configurations, wizard, ctrl, ui, job, Nothing, Asking
<1>5. Tables'
  BY <1>1 DEF Tables, lists, ctrl, ui
<1>6. Based'
  BY <1>1 DEF Based, ctrl, ui, job, Nothing
<1>7. Follows'
  BY <1>1 DEF Follows, ui
<1>8. Located'
  BY <1>1 DEF Located, ctrl, ui, job, Nothing, Asking, MovesPin
<1> QED
  BY <1>3, <1>4, <1>5, <1>6, <1>7, <1>8

\* The daemon takes over the live fields, so that it differs from the file only where it
\* did before, and in no live field, unless it gives up.
LEMMA DaemonReloadStep ==
    ASSUME ConsoleInv, DaemonReload, UNCHANGED console
    PROVE  ConsoleInv'
<1> USE DEF ConsoleInv, Open
<1>1. /\ svc # NoService /\ unread' = FALSE
      /\ \/ Loadable(file) /\ svc' = ApplyLiveFrom(svc, Load(file)) /\ refused' = FALSE
         \/ Loadable(file) /\ svc' = svc /\ refused' = TRUE
         \/ ~Loadable(file) /\ svc' = svc
      /\ UNCHANGED <<desk, file, again, pins, told, revived, wizard, ctrl, lists, ui, job, history>>
  BY DEF DaemonReload, console
<1>2. /\ DOMAIN svc' = Field
      /\ Loadable(file) => \/ Diff(svc', Load(file)) = Diff(svc, Load(file)) \ LiveFields
                           \/ svc' = svc /\ refused' = TRUE
  BY <1>1, LiveTaken DEF Configurations
<1>3. wpc \notin {"idle", "save"} \/ desk.open
  BY <1>1, DesksOK DEF Actors
<1>4. Actors'
  <2>1. jpc \notin {"rdetach", "rstart"}
    BY <1>1 DEF Actors
  <2> QED
    BY <1>1, <1>3, <2>1 DEF Actors, wizard, ui, job, Nothing
<1>5. Configurations'
  BY <1>1, <1>2 DEF Configurations, wizard, ctrl, ui, job, Nothing, Asking
<1>6. Tables'
  BY <1>1 DEF Tables, lists, ctrl, ui, history
<1>7. Based'
  BY <1>1 DEF Based, ctrl, ui, job, history, Nothing
<1>8. Follows'
  BY <1>1, <1>2 DEF Follows, ui, history
<1>9. Located'
  BY <1>1 DEF Located, ctrl, ui, job, history, Nothing, Asking, MovesPin
<1> QED
  BY <1>4, <1>5, <1>6, <1>7, <1>8, <1>9

\* A daemon that dies agrees with anything; a job that stopped the service has none to die.
LEMMA CrashStep ==
    ASSUME ConsoleInv, Crash, UNCHANGED console
    PROVE  ConsoleInv'
<1> USE DEF ConsoleInv, Open
<1>1. /\ svc # NoService /\ svc' = NoService
      /\ UNCHANGED <<desk, file, pins, told, wizard, ctrl, lists, ui, job, history>>
  BY DEF Crash, console
<1>2. jpc \notin {"rdetach", "rstart"} /\ (desk.open \/ wpc \notin {"idle", "save"})
  BY <1>1, DesksOK DEF Actors
<1>3. Actors'
  BY <1>1, <1>2 DEF Actors, wizard, ui, job, Nothing
<1>4. Configurations'
  BY <1>1 DEF Configurations, wizard, ctrl, ui, job, Nothing, Asking
<1>5. Tables' /\ Based' /\ Follows'
  BY <1>1 DEF Tables, Based, Follows, lists, ctrl, ui, job, history, Nothing
<1>6. Located'
  BY <1>1 DEF Located, ctrl, ui, job, history, Nothing, Asking, MovesPin
<1> QED
  BY <1>3, <1>4, <1>5, <1>6

\* The wizard writes a complete configuration, before there is a service.
LEMMA SetupStep ==
    ASSUME ConsoleInv, SetupNext, UNCHANGED console
    PROVE  ConsoleInv'
<1> USE DEF ConsoleInv, Open
<1>1. ~desk.open /\ modal = "closed" /\ desk \in Desks
  BY DesksOK DEF Actors, SetupNext, SetupSave, SetupEnable, SetupStart
<1>2. UNCHANGED <<desk, ctrl, lists, ui, job, history>>
  BY DEF SetupNext, SetupAsk, SetupSave, SetupEnable, SetupStart, console
<1>3. modal' = "closed" /\ apc = "idle" /\ apc' = "idle" /\ UNCHANGED <<raced, changes>>
  BY <1>1, <1>2 DEF Actors, ui, history
<1>4. Tables' /\ Based' /\ Located'
  BY <1>1, <1>2, <1>3 DEF Tables, Based, Located, lists, ctrl
<1>5. ASSUME NEW a \in desk.sessions, NEW h \in desk.hosts, SetupAsk(a, h)
      PROVE  Actors' /\ Configurations' /\ Follows'
  <2>1. /\ wpc = "idle" /\ UNCHANGED system
        /\ \/ wpc' = "failed"
           \/ wpc' = "save" /\ \E r : wcfg' = Answers(a, r)
    BY <1>5 DEF SetupAsk, system
  <2>2. \A r : DOMAIN Answers(a, r) = Field
    <3>1. DOMAIN Default = Field
      BY DEF Default, Field, ReattachFields, RestartFields, LiveFields
    <3>2. \A r : DOMAIN Answers(a, r) = DOMAIN Default
      BY DEF Answers
    <3> QED
      BY <3>1, <3>2
  <2> QED
    BY <1>1, <1>2, <1>3, <2>1, <2>2 DEF Actors, Configurations, Follows, system, ui, job, Nothing
<1>6. ASSUME SetupSave
      PROVE  Actors' /\ Configurations' /\ Follows'
  <2>1. /\ wpc = "save" /\ wpc' \in {"failed", "enable"} /\ UNCHANGED <<svc, again>>
        /\ file' = file \/ file' = Repaired(wcfg)
    BY <1>6 DEF SetupSave, Overwrite
  <2>2. svc = NoService /\ DOMAIN Repaired(wcfg) = Field
    BY <1>1, <2>1, RepairKeeps DEF Actors, Configurations
  <2> QED
    BY <1>1, <1>2, <1>3, <2>1, <2>2 DEF Actors, Configurations, Follows, ui, job, Nothing
<1>7. ASSUME SetupEnable
      PROVE  Actors' /\ Configurations' /\ Follows'
  BY <1>1, <1>2, <1>3, <1>7 DEF SetupEnable, Actors, Configurations, Follows, system, ui, job, Nothing
<1>8. ASSUME SetupStart
      PROVE  Actors' /\ Configurations' /\ Follows'
  <2>1. wpc' \in {"done", "failed"}
    BY <1>8 DEF SetupStart
  <2>2. /\ file' = file /\ Follows' /\ (svc' # NoService => DOMAIN svc' = Field)
    <3>1. CASE StartUnit \/ StartUnitFails
      BY <1>3, <3>1, Started
    <3>2. CASE UNCHANGED system
      BY <1>3, <3>2 DEF Follows, Configurations, system
    <3> QED
      BY <1>8, <3>1, <3>2 DEF SetupStart
  <2> QED
    BY <1>1, <1>2, <1>3, <2>1, <2>2 DEF Actors, Configurations, ui, job, Nothing
<1> QED
  BY <1>4, <1>5, <1>6, <1>7, <1>8 DEF SetupNext

----------------------------------------------------------------------------
(* Results *)

\* The console opens on a configuration that loads, over a data path pinned where that
\* configuration says.
LEMMA InitConsole ==
    ASSUME Init
    PROVE  ConsoleInv
<1>1. /\ desk \in Desks /\ desk.open \in BOOLEAN /\ file \in desk.initial
      /\ file # Unreadable => WellFormed(file) /\ DOMAIN file = Field
      /\ FilesListOnce(desk) /\ file # Unreadable => Unique(file.server_allow)
  BY DesksOK DEF Init, WellFormed, FilesListOnce
<1>2. wpc = "idle" /\ apc = "idle" /\ loaded = Nothing /\ jpc = "idle" /\ jloaded = Nothing
  BY DEF Init
<1>3. CASE desk.open
  <2>1. /\ Loadable(file) /\ svc = Load(file) /\ (\A p \in pins : p.dir = svc.pin_dir) /\ modal = "none"
        /\ base = Load(file) /\ activePin = base.pin_dir /\ staged = base /\ hash = file
        /\ allowRows = base.server_allow /\ ruleRows = base.cidrs /\ allowSelected = 0 /\ ruleSelected = 0
    BY <1>3 DEF Init
  <2>2. Sound(desk, base) /\ Listable(desk, base) /\ WellFormed(base) /\ DOMAIN base = Field
    <3>1. Validate(file) /\ file # Unreadable
      BY <2>1 DEF Loadable
    <3>2. Sound(desk, Repaired(file))
      BY <1>1, <3>1, LoadSound
    <3> QED
      BY <2>1, <3>2 DEF Load, Sound, Listable, WellFormed
  <2>3. Actors
    BY <1>1, <1>2, <1>3, <2>1 DEF Actors
  <2>4. Configurations
    BY <1>1, <1>2, <1>3, <2>1, <2>2 DEF Configurations, Asking, Rejob, Rollback
  <2>5. Tables
    BY <1>2, <2>1, <2>2 DEF Tables, WellFormed
  <2>6. Based
    BY <1>2, <2>1 DEF Based
  <2>7. Follows
    BY <2>1 DEF Follows, Diff
  <2>8. Located
    BY <1>2, <2>1 DEF Located, Asking, Rejob, Rollback
  <2> QED
    BY <2>3, <2>4, <2>5, <2>6, <2>7, <2>8 DEF ConsoleInv
<1>4. CASE ~desk.open
  <2>1. /\ svc = NoService /\ again = FALSE /\ modal = "closed" /\ allowRows = <<>> /\ ruleRows = <<>>
        /\ allowSelected = 0 /\ ruleSelected = 0
    BY <1>4 DEF Init
  <2> QED
    BY <1>1, <1>2, <1>4, <2>1 DEF ConsoleInv, Actors, Configurations, Tables, Based, Follows, Located, Open
<1> QED
  BY <1>1, <1>3, <1>4

\* Every step of the interface, the job, the daemon, the wizard and other programs keeps
\* the invariant.
THEOREM ConsoleInvariant == Spec => []ConsoleInv
<1>1. Init => ConsoleInv
  BY InitConsole
<1>2. ConsoleInv /\ [Next]_vars => ConsoleInv'
  <2> SUFFICES ASSUME ConsoleInv, [Next]_vars
               PROVE  ConsoleInv'
    OBVIOUS
  <2>1. CASE UNCHANGED vars
    BY <2>1, StutterStep DEF vars
  <2>2. CASE Next
    <3>1. ASSUME NEW f \in DOMAIN desk.values, SetField(f) \/ Misspell(f)
          PROVE  ConsoleInv'
      BY <3>1, FieldStep
    <3>2. ASSUME \/ \E row \in DOMAIN allowRows : SelectAllow(row)
                 \/ \E row \in DOMAIN ruleRows : SelectRule(row)
          PROVE  ConsoleInv'
      BY <3>2, SelectStep
    <3>3. ASSUME (\E text \in desk.texts : saveAllowEntry(text)) \/ deleteAllowEntry
          PROVE  ConsoleInv'
      BY <3>3, AllowEntryStep
    <3>4. ASSUME NEW r \in desk.rules, saveFlowMonitorRule(r) \/ deleteFlowMonitorRule(r.cidr)
          PROVE  ConsoleInv'
      BY <3>4, RuleEntryStep
    <3>5. ASSUME apply \/ ApplyPolicy \/ ApplySave \/ ApplyRehash
          PROVE  ConsoleInv'
      BY <3>5, ApplyStep, ApplyPolicyStep, ApplySaveStep, ApplyRehashStep
    <3>6. ASSUME Dismiss \/ ReloadLoad \/ ReloadHash \/ Interrupt \/ Quit
          PROVE  ConsoleInv'
      BY <3>6, DialogStep, ReloadLoadStep, ReloadHashStep, QuitStep
    <3>7. ASSUME LaunchService \/ AskTyped \/ LaunchReattach
          PROVE  ConsoleInv'
      BY <3>7, DialogStep, LaunchStep
    <3>8. ASSUME JobStop \/ JobUnpin \/ JobStart \/ JobSavePrevious \/ JobReload \/ JobDone
          PROVE  ConsoleInv'
      BY <3>8, JobStopStep, JobUnpinStep, JobStartStep, JobSavePreviousStep, JobReloadStep, DialogStep
    <3>9. ASSUME NEW c \in desk.files, ExternalWrite(c)
          PROVE  ConsoleInv'
      BY <3>9, ExternalWriteStep
    <3>10. ASSUME DaemonReload \/ Crash \/ SetupNext, UNCHANGED <<browser, console, bounds>>
           PROVE  ConsoleInv'
      BY <3>10, DaemonReloadStep, CrashStep, SetupStep
    <3>12. ASSUME Respawn
           PROVE  ConsoleInv'
      BY <3>12, RespawnStep
    <3>11. ASSUME \/ requestFlowRefresh \/ RefreshOpen \/ RefreshShow
                  \/ BrowserNext /\ UNCHANGED <<console, bounds>>
           PROVE  ConsoleInv'
      BY <3>11, BrowserStep
    <3> QED
      BY <2>2, <3>1, <3>2, <3>3, <3>4, <3>5, <3>6, <3>7, <3>8, <3>9, <3>10, <3>11, <3>12 DEF Next
  <2> QED
    BY <2>1, <2>2
<1> QED
  BY <1>1, <1>2, PTL DEF Spec

\* No lost update: whatever the file holds when Apply replaces it is what base was loaded
\* from, unless the file was written while another Apply or Reload was at work.
THEOREM NoLostUpdate == Spec => OverwritesOnlyBase
<1>1. ConsoleInv => (apc = "save" => (Loadable(file) /\ Load(file) = base) \/ raced)
  BY DEF ConsoleInv, Actors, Based, Open
<1>2. ConsoleInv /\ [Next]_vars =>
        [apc = "save" /\ apc' = "rehash" => (Loadable(file) /\ Load(file) = base) \/ raced]_vars
  BY <1>1
<1> QED
  BY <1>2, ConsoleInvariant, PTL DEF Spec, OverwritesOnlyBase

\* What Apply calls live is live: a daemon that has read the file differs from it only in
\* fields that somebody was told about, unless its reload gave up or it came up by itself
\* before a rollback wrote the file.
THEOREM LiveIsLive == Spec => []NothingPending
<1>1. ConsoleInv => NothingPending
  BY DEF ConsoleInv, Follows, NothingPending
<1> QED
  BY <1>1, ConsoleInvariant, PTL

\* The list editors hit the row on screen and list nothing twice.
THEOREM ListsAreSound == Spec => []ListsSound
<1>1. ConsoleInv => ListsSound
  <2> SUFFICES ASSUME ConsoleInv, Open
               PROVE  /\ ~reloaded => allowRows = staged.server_allow /\ ruleRows = staged.cidrs
                      /\ FilesListOnce(desk) => Unique(staged.server_allow)
                      /\ Unique([i \in DOMAIN staged.cidrs |-> staged.cidrs[i].cidr])
    BY DEF ListsSound
  <2>1. Listable(desk, staged)
    BY OpenConsole
  <2> QED
    BY <2>1 DEF ConsoleInv, Tables, Listable, CidrsOf
<1> QED
  BY <1>1, ConsoleInvariant, PTL

\* No program is attached where the console does not look, whatever jobs, crashes and
\* restarts did: unless a reattach is still to be decided on or was put off, or a start
\* under another directory failed half-way or was systemd's own.
THEOREM DataPathIsFound == Spec => []PinKnown
<1>1. ConsoleInv => PinKnown
  BY DEF ConsoleInv, Located, PinKnown, Reattaching, Asking
<1> QED
  BY <1>1, ConsoleInvariant, PTL

----------------------------------------------------------------------------
(* The flow browser *)

\* An entry added to the table is the only one that is new.
LEMMA RowAdded ==
    ASSUME NEW s \in Seq(Flow), NEW f \in Flow
    PROVE  /\ Append(s, f) \in Seq(Flow) /\ Len(Append(s, f)) = Len(s) + 1
           /\ ToSet(Append(s, f)) = ToSet(s) \cup {f}
<1> DEFINE t == Append(s, f)
<1>1. t \in Seq(Flow) /\ Len(t) = Len(s) + 1 /\ Len(s) \in Nat
  OBVIOUS
<1>2. DOMAIN t = 1 .. Len(s) + 1 /\ DOMAIN s = 1 .. Len(s)
  OBVIOUS
<1>3. t[Len(s) + 1] = f /\ \A i \in 1 .. Len(s) : t[i] = s[i]
  OBVIOUS
<1> HIDE DEF t
<1>4. ToSet(t) = {t[i] : i \in 1 .. Len(s) + 1} /\ ToSet(s) = {s[i] : i \in 1 .. Len(s)}
  BY <1>2 DEF ToSet
<1>5. \A i \in 1 .. Len(s) + 1 : i \in 1 .. Len(s) \/ i = Len(s) + 1
  BY <1>1
<1>6. 1 .. Len(s) \subseteq 1 .. Len(s) + 1 /\ Len(s) + 1 \in 1 .. Len(s) + 1
  BY <1>1
<1>7. ToSet(t) = ToSet(s) \cup {f}
  BY <1>3, <1>4, <1>5, <1>6
<1> QED
  BY <1>1, <1>7 DEF t

\* Among the keys that are left there is a first one.
LEMMA FirstKey ==
    ASSUME NEW K, K \subseteq Flow, K # {}
    PROVE  LET f == CHOOSE g \in K : \A h \in K : g.place <= h.place
           IN f \in K /\ \A h \in K : f.place <= h.place
<1> DEFINE P == {g.place : g \in K}
<1>1. P \subseteq Nat /\ P # {}
  BY DEF Flow
<1>2. \E p \in P : \A q \in P : p <= q
  <2> HIDE DEF P
  <2>1. PICK p \in P : \A q \in P : ~ (<<q, p>> \in OpToRel(<, Nat))
    BY <1>1, NatLessThanWellFounded, WFMin
  <2>2. \A q \in P : ~(q < p)
    BY <1>1, <2>1, Zenon DEF OpToRel
  <2> QED
    BY <1>1, <2>2
<1>3. \E g \in K : \A h \in K : g.place <= h.place
  BY <1>2
<1> QED
  BY <1>3

\* The keys left are flows of the table that is being read, and one that is not left was
\* passed.
LEMMA KeysLeft ==
    ASSUME Scanning, scan.pc = "next"
    PROVE  /\ NextKeys \subseteq {f \in table : f.proto = scan.map} /\ NextKeys \subseteq Flow
           /\ \A f \in table : f.proto = scan.map /\ ~(f.place <= scan.at) => f \in NextKeys
<1>1. scan.at \in Nat /\ table \subseteq Flow
  BY DEF Scanning, Scanned
<1> DEFINE here == {f \in table : f.proto = scan.map}
           from == IF \E f \in here : f.place = scan.at THEN scan.at ELSE 0
<1>2. NextKeys = {f \in here : f.place > from}
  BY DEF NextKeys
<1>3. from \in Nat /\ from <= scan.at
  BY <1>1
<1>4. \A f \in here : f.place \in Nat
  BY <1>1 DEF Flow
<1> HIDE DEF from
<1> QED
  BY <1>1, <1>2, <1>3, <1>4

\* A turn of the loop passes one flow and lists it if it matches, or ends the scan with
\* the mark that it was cut short.
LEMMA VisitStep ==
    ASSUME desk \in Desks, desk' = desk, Scanning, ScanVisit
    PROVE  Scanning' /\ shown' = shown
<1> DEFINE f    == CHOOSE g \in NextKeys : \A h \in NextKeys : g.place <= h.place
           over == scan.scanned >= desk.scanLimit
           rows == IF ~over /\ Matches(scan.query, f) THEN Append(scan.rows, f) ELSE scan.rows
           s    == [scan EXCEPT !.at = f.place, !.count = @ + 1, !.scanned = @ + 1, !.rows = rows]
<1>1. /\ scan.pc = "next" /\ NextKeys # {} /\ UNCHANGED <<table, shown>>
      /\ scan' = Limited(s)
  BY DEF ScanVisit
<1>2. /\ DOMAIN scan = {"pc", "query", "map", "at", "count", "rows", "scanned", "truncated", "steady"}
      /\ Scanned(scan) /\ scan.steady \subseteq table /\ table \subseteq Flow
      /\ Len(scan.rows) < desk.limit /\ scan.scanned <= desk.scanLimit
      /\ \A g \in scan.steady : Passed(scan, g) => Listed(scan, g)
  BY <1>1 DEF Scanning
<1>3. desk.limit \in Nat /\ desk.scanLimit \in Nat
  BY DesksOK
<1>4. f \in NextKeys /\ \A h \in NextKeys : f.place <= h.place
  BY <1>1, KeysLeft, FirstKey
<1> HIDE DEF f
<1>5. f \in Flow /\ f.proto = scan.map /\ f.place \in Nat
  BY <1>1, <1>4, KeysLeft DEF Flow
<1>6. /\ s.at = f.place /\ s.scanned = scan.scanned + 1 /\ s.rows = rows /\ s.pc = scan.pc
      /\ s.query = scan.query /\ s.map = scan.map /\ s.steady = scan.steady /\ DOMAIN s = DOMAIN scan
  BY <1>2
<1>7. /\ rows \in Seq(Flow) /\ Len(rows) <= Len(scan.rows) + 1 /\ ToSet(scan.rows) \subseteq ToSet(rows)
      /\ \A g \in ToSet(rows) : Matches(scan.query, g)
      /\ ~over /\ Matches(scan.query, f) => f \in ToSet(rows)
  <2>1. scan.rows \in Seq(Flow) /\ \A g \in ToSet(scan.rows) : Matches(scan.query, g)
    BY <1>2 DEF Scanned
  <2> QED
    BY <1>5, <2>1, RowAdded
<1> HIDE DEF s, rows
<1>8. Scanned(s)
  BY <1>2, <1>3, <1>5, <1>6, <1>7 DEF Scanned
<1>9. CASE s.scanned > desk.scanLimit \/ Len(s.rows) >= desk.limit
  <2>1. scan' = [s EXCEPT !.pc = "end", !.truncated = TRUE]
    BY <1>1, <1>9 DEF Limited
  <2>2. /\ scan'.pc = "end" /\ scan'.truncated = TRUE /\ DOMAIN scan' = DOMAIN scan
        /\ scan'.at = s.at /\ scan'.scanned = s.scanned /\ scan'.map = s.map /\ scan'.rows = s.rows
        /\ scan'.query = s.query /\ scan'.steady = s.steady
    BY <1>2, <1>6, <2>1
  <2>3. Scanned(scan')
    BY <1>8, <2>2 DEF Scanned
  <2> QED
    BY <1>1, <1>2, <1>6, <2>2, <2>3 DEF Scanning, Scanned
<1>10. CASE ~(s.scanned > desk.scanLimit \/ Len(s.rows) >= desk.limit)
  <2>1. scan' = s
    BY <1>1, <1>10 DEF Limited
  <2>2. s.scanned <= desk.scanLimit /\ ~over /\ Len(s.rows) < desk.limit
    <3>1. Len(s.rows) \in Nat /\ s.scanned \in Nat /\ scan.scanned \in Nat
      BY <1>2, <1>8 DEF Scanned
    <3> QED
      BY <1>3, <1>6, <1>10, <3>1
  <2>3. ASSUME NEW g \in scan.steady, Passed(s, g)
        PROVE  Listed(s, g)
    <3>1. CASE Passed(scan, g)
      BY <1>2, <1>6, <1>7, <3>1 DEF Listed
    <3>2. CASE ~Passed(scan, g)
      <4>1. g \in table /\ g \in Flow /\ g.proto = scan.map /\ ~(g.place <= scan.at) /\ g.place <= f.place
        BY <1>2, <1>6, <2>3, <3>2 DEF Passed
      <4>2. f.place <= g.place /\ g.place \in Nat
        BY <1>1, <1>4, <4>1, KeysLeft DEF Flow
      <4>3. g = f
        BY <1>5, <4>1, <4>2 DEF Flow
      <4> QED
        BY <1>6, <1>7, <2>2, <4>3 DEF Listed
    <3> QED
      BY <3>1, <3>2
  <2> QED
    BY <1>1, <1>2, <1>6, <1>8, <2>1, <2>2, <2>3 DEF Scanning, Scanned
<1> QED
  BY <1>1, <1>9, <1>10

\* A table that is done, or not asked for, holds nothing more to list.
LEMMA EndStep ==
    ASSUME desk \in Desks, desk' = desk, Scanning, ScanEnd
    PROVE  Scanning' /\ shown' = shown
<1>1. /\ scan.pc = "next" /\ UNCHANGED <<table, shown>>
      /\ ~Selected(scan.query, scan.map) \/ NextKeys = {} \/ Aborted
  BY DEF ScanEnd
<1>2. /\ DOMAIN scan = {"pc", "query", "map", "at", "count", "rows", "scanned", "truncated", "steady"}
      /\ Scanned(scan) /\ scan.steady \subseteq table /\ table \subseteq Flow
      /\ Len(scan.rows) < desk.limit /\ scan.scanned <= desk.scanLimit
      /\ \A g \in scan.steady : Passed(scan, g) => Listed(scan, g)
  BY <1>1 DEF Scanning
<1>3. CASE Selected(scan.query, scan.map) /\ Aborted
  <2>1. scan' = [scan EXCEPT !.pc = "error"]
    BY <1>3 DEF ScanEnd
  <2>2. scan'.pc = "error" /\ "pc" \in DOMAIN scan'
    BY <1>2, <2>1
  <2> QED
    BY <1>1, <1>2, <2>2 DEF Scanning
<1>4. CASE ~(Selected(scan.query, scan.map) /\ Aborted)
  <2>1. ~Selected(scan.query, scan.map) \/ NextKeys = {}
    BY <1>1, <1>4
  <2>2. \A g \in scan.steady : g.proto = scan.map => Listed(scan, g)
    <3>1. CASE ~Selected(scan.query, scan.map)
      BY <3>1 DEF Listed, Matches
    <3>2. CASE NextKeys = {}
      BY <1>1, <1>2, <3>2, KeysLeft DEF Passed
    <3> QED
      BY <2>1, <3>1, <3>2
  <2>3. CASE scan.map = "UDP"
    <3>1. scan' = [scan EXCEPT !.pc = "end"]
      BY <1>4, <2>3 DEF ScanEnd
    <3>2. /\ scan'.pc = "end" /\ DOMAIN scan' = DOMAIN scan /\ scan'.at = scan.at
          /\ scan'.scanned = scan.scanned /\ scan'.map = scan.map /\ scan'.rows = scan.rows
          /\ scan'.query = scan.query /\ scan'.steady = scan.steady
      BY <1>2, <3>1
    <3>3. \A g \in scan.steady : Listed(scan, g)
      BY <1>2, <2>2, <2>3 DEF Passed, Flow
    <3>4. \A g \in scan.steady : Listed(scan', g)
      BY <3>2, <3>3 DEF Listed
    <3> QED
      BY <1>1, <1>2, <3>2, <3>4 DEF Scanning, Scanned
  <2>4. CASE scan.map = "TCP"
    <3>1. scan' = [scan EXCEPT !.map = "UDP", !.at = 0, !.count = 0]
      BY <1>4, <2>4 DEF ScanEnd
    <3>2. /\ scan'.pc = "next" /\ DOMAIN scan' = DOMAIN scan /\ scan'.at = 0
          /\ scan'.scanned = scan.scanned /\ scan'.map = "UDP" /\ scan'.rows = scan.rows
          /\ scan'.query = scan.query /\ scan'.steady = scan.steady
      BY <1>1, <1>2, <3>1
    <3>3. \A g \in scan.steady : Passed(scan', g) => g.proto = "TCP"
      BY <1>2, <3>2 DEF Passed, Flow
    <3>4. \A g \in scan.steady : Passed(scan', g) => Listed(scan', g)
      BY <2>2, <2>4, <3>2, <3>3 DEF Listed
    <3> QED
      BY <1>1, <1>2, <3>2, <3>4 DEF Scanning, Scanned
  <2> QED
    BY <1>2, <2>3, <2>4 DEF Scanned
<1> QED
  BY <1>3, <1>4

\* Flows that come do not count, flows that go need not be listed.
LEMMA ChurnStep ==
    ASSUME desk \in Desks, desk' = desk, Scanning, Churn
    PROVE  Scanning' /\ shown' = shown
<1>1. PICK f \in desk.flows :
        IF f \in table
        THEN /\ table' = table \ {f}
             /\ scan' = IF "steady" \in DOMAIN scan THEN [scan EXCEPT !.steady = @ \ {f}] ELSE scan
        ELSE table' = table \cup {f} /\ UNCHANGED scan
  BY DEF Churn
<1>2. f \in Flow /\ table \subseteq Flow /\ table' \subseteq Flow /\ shown' = shown
  BY <1>1, DesksOK DEF Scanning, Flow, Churn
<1>3. CASE UNCHANGED scan
  <2>1. scan.pc \in {"next", "end"} => scan.steady \subseteq table'
    BY <1>1, <1>3 DEF Scanning
  <2> QED
    BY <1>2, <1>3, <2>1 DEF Scanning, Scanned
<1>4. CASE f \in table /\ "steady" \in DOMAIN scan
  <2>1. scan' = [scan EXCEPT !.steady = scan.steady \ {f}] /\ table' = table \ {f}
    BY <1>1, <1>4
  <2>2. /\ scan'.steady = scan.steady \ {f} /\ DOMAIN scan' = DOMAIN scan
        /\ \A x \in DOMAIN scan : x # "steady" => scan'[x] = scan[x]
    BY <1>4, <2>1
  <2>3. scan'.pc = scan.pc
    BY <2>2 DEF Scanning
  <2>4. CASE scan.pc \notin {"next", "end"}
    BY <1>2, <2>2, <2>3, <2>4 DEF Scanning
  <2>5. CASE scan.pc \in {"next", "end"}
    <3>1. /\ scan'.at = scan.at /\ scan'.scanned = scan.scanned /\ scan'.map = scan.map
          /\ scan'.rows = scan.rows /\ scan'.query = scan.query /\ scan'.truncated = scan.truncated
      BY <2>2, <2>5 DEF Scanning
    <3> QED
      BY <1>2, <2>1, <2>2, <2>3, <2>5, <3>1 DEF Scanning, Scanned, Passed, Listed
  <2> QED
    BY <2>4, <2>5
<1> QED
  BY <1>1, <1>2, <1>3, <1>4

\* A refresh starts with an empty table, and shows what its scan ends with.
LEMMA RefreshStep ==
    ASSUME desk \in Desks, Scanning, BrowseComplete, requestFlowRefresh \/ RefreshOpen \/ RefreshShow
    PROVE  Scanning' /\ BrowseComplete'
<1>1. desk' = desk /\ table' = table
  BY DEF requestFlowRefresh, RefreshOpen, RefreshShow
<1>2. desk.limit \in Nat \ {0} /\ desk.scanLimit \in Nat
  BY DesksOK
<1>3. ASSUME requestFlowRefresh
      PROVE  Scanning' /\ BrowseComplete'
  <2>1. shown' = shown /\ \E q \in desk.queries : scan' = [pc |-> "open", query |-> q]
    BY <1>3 DEF requestFlowRefresh
  <2> QED
    BY <1>1, <2>1 DEF Scanning, BrowseComplete
<1>4. ASSUME RefreshOpen
      PROVE  Scanning' /\ BrowseComplete'
  <2>1. shown' = shown /\ scan' = (IF Pinned(activePin) THEN StartScan(scan.query)
                                   ELSE [scan EXCEPT !.pc = "error"])
    BY <1>4 DEF RefreshOpen
  <2>2. CASE ~Pinned(activePin)
    <3>1. scan'.pc = "error" /\ "pc" \in DOMAIN scan'
      BY <2>1, <2>2 DEF Scanning
    <3> QED
      BY <1>1, <2>1, <3>1 DEF Scanning, BrowseComplete
  <2>3. CASE Pinned(activePin)
    <3>1. /\ scan'.pc = "next" /\ scan'.at = 0 /\ scan'.scanned = 0 /\ scan'.map = "TCP"
          /\ scan'.rows = <<>> /\ scan'.steady = table
          /\ DOMAIN scan' = {"pc", "query", "map", "at", "count", "rows", "scanned", "truncated", "steady"}
      BY <2>1, <2>3 DEF StartScan
    <3>2. \A f \in table : ~Passed(scan', f)
      BY <3>1 DEF Passed, Scanning, Flow
    <3>3. Scanned(scan')
      BY <1>2, <3>1 DEF Scanned, ToSet
    <3> QED
      BY <1>1, <1>2, <2>1, <3>1, <3>2, <3>3 DEF Scanning, Scanned, BrowseComplete
  <2> QED
    BY <2>2, <2>3
<1>5. ASSUME RefreshShow
      PROVE  Scanning' /\ BrowseComplete'
  <2>1. scan' = Quiet
    BY <1>5 DEF RefreshShow
  <2>2. Scanning'
    BY <1>1, <2>1 DEF Scanning, Quiet
  <2>3. CASE scan.pc # "end"
    BY <1>1, <1>5, <2>2, <2>3 DEF RefreshShow, BrowseComplete
  <2>4. CASE scan.pc = "end"
    <3>1. /\ shown'.query = scan.query /\ shown'.rows = scan.rows /\ shown'.truncated = scan.truncated
          /\ shown'.steady = scan.steady
      BY <1>5, <2>4 DEF RefreshShow
    <3>2. /\ Scanned(scan) /\ (~scan.truncated => \A f \in scan.steady : Listed(scan, f))
      BY <2>4 DEF Scanning
    <3> QED
      BY <1>1, <2>2, <3>1, <3>2 DEF BrowseComplete, Scanned, Listed
  <2> QED
    BY <2>2, <2>3, <2>4
<1> QED
  BY <1>3, <1>4, <1>5

\* Nothing else touches the Flows page.
LEMMA ScanStep ==
    ASSUME desk \in Desks, Scanning, BrowseComplete, [Next]_vars
    PROVE  Scanning' /\ BrowseComplete'
<1>1. CASE requestFlowRefresh \/ RefreshOpen \/ RefreshShow
  BY <1>1, RefreshStep
<1>2. CASE BrowserNext
  <2>1. desk' = desk /\ (ScanVisit \/ ScanEnd \/ Churn)
    BY <1>2 DEF BrowserNext
  <2>2. Scanning' /\ shown' = shown
    BY <2>1, VisitStep, EndStep, ChurnStep
  <2> QED
    BY <2>1, <2>2 DEF BrowseComplete
<1>3. CASE UNCHANGED <<desk, table, scan, shown>>
  BY <1>3 DEF Scanning, Scanned, BrowseComplete
<1>4. ASSUME \/ \E f \in DOMAIN desk.values : SetField(f) \/ Misspell(f)
             \/ \E row \in DOMAIN allowRows : SelectAllow(row)
             \/ \E row \in DOMAIN ruleRows : SelectRule(row)
             \/ \E text \in desk.texts : saveAllowEntry(text)
             \/ deleteAllowEntry
             \/ \E r \in desk.rules : saveFlowMonitorRule(r) \/ deleteFlowMonitorRule(r.cidr)
      PROVE  UNCHANGED <<desk, browser>>
  BY <1>4 DEF SetField, Misspell, SelectAllow, SelectRule, saveAllowEntry, deleteAllowEntry,
              saveFlowMonitorRule, deleteFlowMonitorRule
<1>5. ASSUME \/ apply \/ ApplyPolicy \/ ApplySave \/ ApplyRehash
             \/ Dismiss \/ ReloadLoad \/ ReloadHash \/ Interrupt \/ Quit
             \/ LaunchService \/ AskTyped \/ LaunchReattach
      PROVE  UNCHANGED <<desk, browser>>
  BY <1>5 DEF apply, ApplyPolicy, ApplySave, ApplyRehash, Dismiss, ReloadLoad, ReloadHash, Interrupt, Quit,
              LaunchService, AskTyped, LaunchReattach, Launch
<1>6. ASSUME JobStop \/ JobUnpin \/ JobStart \/ JobSavePrevious \/ JobReload \/ JobDone
      PROVE  UNCHANGED <<desk, browser>>
  BY <1>6 DEF JobStop, JobUnpin, JobStart, JobSavePrevious, JobReload, JobDone, JobElse
<1>7. ASSUME \/ \E c \in desk.files : ExternalWrite(c)
             \/ Respawn
             \/ (DaemonReload \/ Crash \/ SetupNext) /\ UNCHANGED <<browser, console, bounds>>
      PROVE  UNCHANGED <<desk, browser>>
  BY <1>7 DEF ExternalWrite, Respawn, DaemonReload, Crash, SetupNext, SetupAsk, SetupSave, SetupEnable, SetupStart
<1>8. CASE UNCHANGED vars
  BY <1>3, <1>8 DEF vars, browser
<1>9. CASE Next
  BY <1>1, <1>2, <1>3, <1>4, <1>5, <1>6, <1>7, <1>9 DEF Next, browser
<1> QED
  BY <1>8, <1>9

\* The Flows page misses no flow that stayed and matches, unless it says "truncated",
\* however the tables change under the scan.
THEOREM BrowserIsComplete == Spec => []BrowseComplete
<1>1. Init => Scanning /\ BrowseComplete
  <2> SUFFICES ASSUME Init
               PROVE  Scanning /\ BrowseComplete
    OBVIOUS
  <2>1. desk \in Desks /\ table = desk.flows /\ scan = Quiet /\ shown = Quiet
    BY DEF Init
  <2> QED
    BY <2>1, DesksOK DEF Scanning, BrowseComplete, Quiet, Flow
<1>2. ConsoleInv /\ Scanning /\ BrowseComplete /\ [Next]_vars => Scanning' /\ BrowseComplete'
  BY ScanStep DEF ConsoleInv, Actors
<1> QED
  BY <1>1, <1>2, ConsoleInvariant, PTL DEF Spec

----------------------------------------------------------------------------
(* The wizard's recommendation *)

\* A set of numbers that is not empty has a least one.
LEMMA LeastNumber ==
    ASSUME NEW S \in SUBSET Nat, S # {}
    PROVE  Min(S) \in S /\ \A y \in S : Min(S) <= y
<1>1. PICK x \in S : \A y \in S : ~ (<<y, x>> \in OpToRel(<, Nat))
  BY NatLessThanWellFounded, WFMin
<1>2. \A y \in S : ~(y < x)
  BY <1>1, Zenon DEF OpToRel
<1>3. \A y \in S : x <= y
  BY <1>2
<1> QED
  BY <1>3 DEF Min

\* The least known figure is a figure that is known, and no other is smaller.
LEMMA LeastKnown ==
    ASSUME NEW S \in SUBSET Nat
    PROVE  /\ LeastOf(S) \in Nat /\ (S # {} => LeastOf(S) \in S)
           /\ \A x \in S : LeastOf(S) <= x
BY LeastNumber DEF LeastOf

\* Of two figures the smaller known one counts.
LEMMA SmallerKnown ==
    ASSUME NEW x \in Nat, NEW y \in Nat
    PROVE  LET l == LeastOf({x, y} \ {0})
           IN /\ l \in Nat /\ (x > 0 => l <= x) /\ (y > 0 => l <= y)
              /\ l = 0 => x = 0 /\ y = 0
<1> DEFINE S == {x, y} \ {0}
           l == LeastOf(S)
<1>1. l \in Nat /\ (S # {} => l \in S) /\ \A z \in S : l <= z
  BY LeastKnown
<1>2. (x > 0 => x \in S) /\ (y > 0 => y \in S) /\ 0 \notin S
  OBVIOUS
<1> HIDE DEF l, S
<1>3. l \in Nat /\ (x > 0 => l <= x) /\ (y > 0 => l <= y) /\ (l = 0 => x = 0 /\ y = 0)
  BY <1>1, <1>2
<1> QED
  BY <1>3 DEF l, S

\* What detection finds: no more than the host has, nor than any cgroup on the way up
\* allows or has left.
LEMMA Detected ==
    ASSUME NEW h \in Host
    PROVE  LET r == DetectHostResources(h)
               max(i) == parseMemoryValue(h.cgroups[i].max, h.total)
           IN /\ r.effective \in Nat /\ r.headroom \in Nat /\ r.possible \in Nat \ {0}
              /\ h.total > 0 => r.effective <= h.total
              /\ h.available > 0 => r.headroom <= h.available
              /\ \A i \in DOMAIN h.cgroups : max(i) > 0 =>
                    /\ r.effective <= max(i)
                    /\ max(i) > h.cgroups[i].cur => r.headroom <= max(i) - h.cgroups[i].cur
<1> DEFINE max(i)  == parseMemoryValue(h.cgroups[i].max, h.total)
           limited == {i \in DOMAIN h.cgroups : max(i) > 0}
           roomy   == {j \in limited : max(j) > h.cgroups[j].cur}
           limits  == {max(i) : i \in limited}
           rooms   == {max(i) - h.cgroups[i].cur : i \in roomy}
           g       == detectCgroupMemory(h)
<1>1. /\ h.total \in Nat /\ h.available \in Nat /\ h.possible \in Nat /\ h.online \in Nat
      /\ \A i \in DOMAIN h.cgroups : h.cgroups[i].max \in Nat /\ h.cgroups[i].cur \in Nat
  <2>1. h.cgroups \in Seq([max : Nat, cur : Nat])
    BY DEF Host
  <2>2. \A S : \A s \in Seq(S) : \A i \in DOMAIN s : s[i] \in S
    OBVIOUS
  <2>3. \A i \in DOMAIN h.cgroups : h.cgroups[i] \in [max : Nat, cur : Nat]
    BY <2>1, <2>2, Zenon
  <2> QED
    BY <2>3 DEF Host
<1>2. \A i \in DOMAIN h.cgroups : max(i) \in Nat
  BY <1>1 DEF parseMemoryValue
<1>3. g.limit = LeastOf(limits) /\ g.headroom = LeastOf(rooms)
  BY DEF detectCgroupMemory
<1> HIDE DEF max
<1>4. limits \in SUBSET Nat /\ rooms \in SUBSET Nat /\ 0 \notin limits /\ 0 \notin rooms
  BY <1>1, <1>2
<1>5. /\ \A i \in DOMAIN h.cgroups : max(i) > 0 => max(i) \in limits
      /\ \A i \in DOMAIN h.cgroups : max(i) > 0 /\ max(i) > h.cgroups[i].cur =>
            max(i) - h.cgroups[i].cur \in rooms
  OBVIOUS
<1> HIDE DEF limits, rooms, g
<1>6. /\ g.limit \in Nat /\ (limits # {} => g.limit \in limits) /\ \A x \in limits : g.limit <= x
      /\ g.headroom \in Nat /\ (rooms # {} => g.headroom \in rooms) /\ \A x \in rooms : g.headroom <= x
  BY <1>3, <1>4, LeastKnown
<1>7. ASSUME NEW i \in DOMAIN h.cgroups, max(i) > 0
      PROVE  /\ 0 < g.limit /\ g.limit <= max(i)
             /\ max(i) > h.cgroups[i].cur => 0 < g.headroom /\ g.headroom <= max(i) - h.cgroups[i].cur
  <2>1. max(i) \in limits /\ (max(i) > h.cgroups[i].cur => max(i) - h.cgroups[i].cur \in rooms)
    BY <1>5, <1>7
  <2>2. g.limit # 0 /\ g.limit <= max(i)
    BY <1>4, <1>6, <2>1
  <2>3. max(i) > h.cgroups[i].cur => g.headroom # 0 /\ g.headroom <= max(i) - h.cgroups[i].cur
    BY <1>4, <1>6, <2>1
  <2> QED
    BY <1>6, <2>2, <2>3
<1> DEFINE e == LeastOf({h.total, g.limit} \ {0})
           l == LeastOf({h.available, g.headroom} \ {0})
           p == IF h.possible > 0 THEN h.possible ELSE h.online
           r == DetectHostResources(h)
<1>8. /\ r.effective = e /\ r.headroom = (IF l > 0 THEN l ELSE e)
      /\ r.possible = (IF p > 0 THEN p ELSE 1)
  BY DEF DetectHostResources, g
<1>9. /\ e \in Nat /\ (h.total > 0 => e <= h.total) /\ (g.limit > 0 => e <= g.limit)
  BY <1>1, <1>6, SmallerKnown
<1>10. /\ l \in Nat /\ (h.available > 0 => l <= h.available) /\ (g.headroom > 0 => l <= g.headroom)
       /\ l = 0 => h.available = 0 /\ g.headroom = 0
  BY <1>1, <1>6, SmallerKnown
<1>11. r.possible \in Nat \ {0}
  BY <1>1, <1>8
<1> HIDE DEF e, l, p, r
<1>12. /\ r.effective \in Nat /\ r.headroom \in Nat
       /\ h.total > 0 => r.effective <= h.total
       /\ h.available > 0 => r.headroom <= h.available
  BY <1>1, <1>8, <1>9, <1>10
<1>13. ASSUME NEW i \in DOMAIN h.cgroups, max(i) > 0
       PROVE  /\ r.effective <= max(i)
              /\ max(i) > h.cgroups[i].cur => r.headroom <= max(i) - h.cgroups[i].cur
  <2>1. h.cgroups[i].cur \in Nat /\ max(i) \in Nat
    BY <1>1, <1>2
  <2> QED
    BY <1>6, <1>7, <1>8, <1>9, <1>10, <1>13, <2>1
<1> QED
  BY <1>11, <1>12, <1>13 DEF r, max

\* Numbers below a bound have a greatest one.
LEMMA GreatestNumber ==
    ASSUME NEW S \in SUBSET Nat, S # {}, NEW b \in Nat, \A x \in S : x <= b
    PROVE  Max(S) \in S
<1> DEFINE T == {b - x : x \in S}
<1>1. T \in SUBSET Nat /\ T # {}
  <2>1. \A x \in S : b - x \in Nat
    OBVIOUS
  <2> QED
    BY <2>1
<1>2. Min(T) \in T /\ \A y \in T : Min(T) <= y
  BY <1>1, LeastNumber
<1>3. PICK x \in S : Min(T) = b - x
  BY <1>2
<1>4. \A y \in S : b - x <= b - y
  BY <1>2, <1>3
<1>5. \A y \in S : x >= y
  BY <1>4
<1> QED
  BY <1>5 DEF Max

\* Powers of two, one by one: exponents are out of the provers' arithmetic.
LEMMA PowersBelow ==
    ASSUME NEW p \in PowersOfTwo(30)
    PROVE  p \in Nat /\ (p <= 2^16 => p \in PowersOfTwo(16))
<1>1. PICK i \in 0 .. 30 : p = 2^i
  BY DEF PowersOfTwo
<1>2. /\ 2^0 \in Nat /\ 2^1 \in Nat /\ 2^2 \in Nat /\ 2^3 \in Nat /\ 2^4 \in Nat /\ 2^5 \in Nat
      /\ 2^6 \in Nat /\ 2^7 \in Nat /\ 2^8 \in Nat /\ 2^9 \in Nat /\ 2^10 \in Nat /\ 2^11 \in Nat
      /\ 2^12 \in Nat /\ 2^13 \in Nat /\ 2^14 \in Nat /\ 2^15 \in Nat /\ 2^16 \in Nat /\ 2^17 \in Nat
      /\ 2^18 \in Nat /\ 2^19 \in Nat /\ 2^20 \in Nat /\ 2^21 \in Nat /\ 2^22 \in Nat /\ 2^23 \in Nat
      /\ 2^24 \in Nat /\ 2^25 \in Nat /\ 2^26 \in Nat /\ 2^27 \in Nat /\ 2^28 \in Nat /\ 2^29 \in Nat
      /\ 2^30 \in Nat
  OBVIOUS
<1>3. /\ ~(2^17 <= 2^16) /\ ~(2^18 <= 2^16) /\ ~(2^19 <= 2^16) /\ ~(2^20 <= 2^16) /\ ~(2^21 <= 2^16)
      /\ ~(2^22 <= 2^16) /\ ~(2^23 <= 2^16) /\ ~(2^24 <= 2^16) /\ ~(2^25 <= 2^16) /\ ~(2^26 <= 2^16)
      /\ ~(2^27 <= 2^16) /\ ~(2^28 <= 2^16) /\ ~(2^29 <= 2^16) /\ ~(2^30 <= 2^16)
  OBVIOUS
<1>4. \/ i = 0 \/ i = 1 \/ i = 2 \/ i = 3 \/ i = 4 \/ i = 5 \/ i = 6 \/ i = 7 \/ i = 8
      \/ i = 9 \/ i = 10 \/ i = 11 \/ i = 12 \/ i = 13 \/ i = 14 \/ i = 15 \/ i = 16 \/ i = 17
      \/ i = 18 \/ i = 19 \/ i = 20 \/ i = 21 \/ i = 22 \/ i = 23 \/ i = 24 \/ i = 25 \/ i = 26
      \/ i = 27 \/ i = 28 \/ i = 29 \/ i = 30
  OBVIOUS
<1>5. p \in Nat
  BY <1>1, <1>2, <1>4, Zenon
<1>6. i \in 0 .. 16 \/ ~(p <= 2^16)
  <2>1. i \in 0 .. 16 \/ \/ i = 17 \/ i = 18 \/ i = 19 \/ i = 20 \/ i = 21 \/ i = 22 \/ i = 23
                          \/ i = 24 \/ i = 25 \/ i = 26 \/ i = 27 \/ i = 28 \/ i = 29 \/ i = 30
    BY <1>4
  <2> QED
    BY <1>1, <1>3, <2>1, Zenon
<1>7. i \in 0 .. 16 => p \in PowersOfTwo(16)
  BY <1>1 DEF PowersOfTwo
<1> QED
  BY <1>5, <1>6, <1>7

\* The L1 size is the largest power of two that fits.
LEMMA FloorIsPower ==
    ASSUME NEW v \in Nat, v # 0
    PROVE  floorPowerOfTwo(v) \in PowersOfTwo(30)
<1> DEFINE S == {p \in {2^i : i \in 0 .. 30} : p <= v}
<1>1. S \subseteq PowersOfTwo(30)
  BY DEF PowersOfTwo
<1>2. S \in SUBSET Nat /\ \A p \in S : p <= v
  BY <1>1, PowersBelow
<1>3. S # {}
  <2>1. 2^0 = 1
    OBVIOUS
  <2>2. 2^0 \in S
    BY <2>1
  <2> QED
    BY <2>2
<1>4. floorPowerOfTwo(v) = Max(S)
  BY DEF floorPowerOfTwo
<1> HIDE DEF S
<1> QED
  BY <1>1, <1>2, <1>3, <1>4, GreatestNumber

\* The smaller and the larger of two numbers.
LEMMA OfTwo ==
    ASSUME NEW x \in Nat, NEW y \in Nat
    PROVE  /\ Min({x, y}) \in {x, y} /\ Min({x, y}) <= x /\ Min({x, y}) <= y
           /\ Max({x, y}) \in Nat /\ Max({x, y}) >= x /\ Max({x, y}) >= y
<1>1. \E m \in {x, y} : \A z \in {x, y} : m <= z
  OBVIOUS
<1>2. \E m \in {x, y} : \A z \in {x, y} : m >= z
  OBVIOUS
<1>3. Min({x, y}) \in {x, y} /\ \A z \in {x, y} : Min({x, y}) <= z
  BY <1>1 DEF Min
<1>4. Max({x, y}) \in {x, y} /\ \A z \in {x, y} : Max({x, y}) >= z
  BY <1>2 DEF Max
<1> QED
  BY <1>3, <1>4

\* The tables recommended take no more than four fifths of what is free, apart from the
\* smallest tables, the fixed maps and rounding.
LEMMA Recommended ==
    ASSUME NEW res, res.effective \in Nat, res.headroom \in Nat, res.possible \in Nat \ {0}
    PROVE  LET rec == RecommendDedicated(res)
           IN /\ \A room \in Nat : room >= res.effective \div 3 \/ room >= res.headroom =>
                    FitsRoom(rec, room)
              /\ rec.l1_size = 0 \/ rec.l1_size \in PowersOfTwo(16)
<1> DEFINE m        == Min({res.effective \div 3, res.headroom})
           budget   == (m * 4) \div 5
           fixed    == fixedMapBytes + statsBytesPerCPU * res.possible
           perSlot  == l1EntryBytes * res.possible
           fit      == (res.effective \div 100) \div perSlot
           fitting  == Min({floorPowerOfTwo(fit), 2^16})
           wanted   == IF fitting < 2^12 THEN 0 ELSE fitting
           slots    == IF fixed + wanted * perSlot >= budget THEN 0 ELSE wanted
           l1Bytes  == slots * perSlot
           flows    == IF budget > fixed + l1Bytes THEN budget - fixed - l1Bytes ELSE 0
           tcp      == clamp64(roundDown1024(((flows * 4) \div 5) \div flowEntryEstimate), 1024, 2^26)
           udp      == clamp64(roundDown1024((flows \div 5) \div flowEntryEstimate), 1024, 2^24)
           rec      == RecommendDedicated(res)
<1>1. /\ rec.l1_size = slots /\ rec.fixed = fixed
      /\ rec.estimated = fixed + l1Bytes + flowEntryEstimate * (tcp + udp)
  BY DEF RecommendDedicated
<1>2. /\ m \in Nat /\ m <= res.effective \div 3 /\ m <= res.headroom
      /\ res.effective \div 3 \in Nat
  BY OfTwo
<1>3. perSlot \in Nat \ {0} /\ fixed \in Nat
  BY DEF l1EntryBytes, fixedMapBytes, statsBytesPerCPU
<1>4. fit \in Nat
  <2>1. res.effective \div 100 \in Nat
    OBVIOUS
  <2> HIDE DEF perSlot
  <2> QED
    BY <1>3, <2>1
<1>5. fitting \in Nat /\ (fitting \in PowersOfTwo(16) \/ fitting = 0)
  <2> HIDE DEF fit
  <2>1. floorPowerOfTwo(fit) = 0 \/ floorPowerOfTwo(fit) \in PowersOfTwo(30)
    BY <1>4, FloorIsPower DEF floorPowerOfTwo
  <2>2. floorPowerOfTwo(fit) \in Nat /\ 2^16 \in Nat
    BY <2>1, PowersBelow
  <2>3. fitting \in {floorPowerOfTwo(fit), 2^16} /\ fitting <= 2^16
    BY <2>2, OfTwo
  <2>4. 2^16 \in PowersOfTwo(16)
    BY DEF PowersOfTwo
  <2> HIDE DEF fitting
  <2> QED
    BY <2>1, <2>2, <2>3, <2>4, PowersBelow
<1>6. wanted \in Nat /\ (wanted \in PowersOfTwo(16) \/ wanted = 0)
  <2> HIDE DEF fitting
  <2> QED
    BY <1>5
<1>7. budget \in Nat
  BY <1>2
<1> HIDE DEF m, budget, fixed, perSlot, fit, fitting, wanted
<1>8. /\ slots \in Nat /\ (slots \in PowersOfTwo(16) \/ slots = 0)
      /\ l1Bytes \in Nat /\ (l1Bytes = 0 \/ fixed + l1Bytes < budget)
  <2>1. CASE fixed + wanted * perSlot >= budget
    <3>1. slots = 0
      BY <2>1
    <3> QED
      BY <1>3, <3>1
  <2>2. CASE ~(fixed + wanted * perSlot >= budget)
    <3>1. slots = wanted /\ l1Bytes = wanted * perSlot
      BY <2>2
    <3>2. wanted * perSlot \in Nat
      BY <1>3, <1>6
    <3> HIDE DEF slots, l1Bytes
    <3> QED
      BY <1>3, <1>6, <1>7, <2>2, <3>1, <3>2
  <2> QED
    BY <2>1, <2>2
<1> HIDE DEF slots, l1Bytes
<1>9. /\ flows \in Nat /\ (flows = 0 \/ fixed + l1Bytes + flows = budget)
      /\ flows = 0 => l1Bytes = 0
  BY <1>3, <1>7, <1>8
<1> HIDE DEF flows
<1>10. /\ tcp \in Nat /\ udp \in Nat /\ flowEntryEstimate * (tcp + udp) <= flows + 128 * 2048
  <2> USE DEF flowEntryEstimate
  <2> DEFINE a == ((flows * 4) \div 5) \div flowEntryEstimate
             b == (flows \div 5) \div flowEntryEstimate
  <2>1. a \in Nat /\ b \in Nat /\ 128 * (a + b) <= flows
    BY <1>9
  <2> HIDE DEF a, b
  <2>2. /\ roundDown1024(a) \in Nat /\ roundDown1024(a) <= a
        /\ roundDown1024(b) \in Nat /\ roundDown1024(b) <= b
    BY <2>1 DEF roundDown1024
  <2>3. tcp \in Nat /\ tcp <= a + 1024 /\ udp \in Nat /\ udp <= b + 1024
    <3>1. 2^26 > 1024 /\ 2^24 > 1024 /\ 2^26 \in Nat /\ 2^24 \in Nat
      OBVIOUS
    <3>2. tcp = clamp64(roundDown1024(a), 1024, 2^26) /\ udp = clamp64(roundDown1024(b), 1024, 2^24)
      BY DEF a, b
    <3> QED
      BY <2>1, <2>2, <3>1, <3>2 DEF clamp64
  <2> HIDE DEF tcp, udp
  <2> QED
    BY <1>9, <2>1, <2>3
<1> HIDE DEF tcp, udp, rec
<1>11. ASSUME NEW room \in Nat, room >= res.effective \div 3 \/ room >= res.headroom
       PROVE  FitsRoom(rec, room)
  <2>1. m <= room
    BY <1>2, <1>11
  <2>2. budget <= (room \div 5) * 4 + 4 /\ (room \div 5) * 4 + 4 \in Nat
    BY <1>2, <2>1 DEF budget
  <2> DEFINE top == Max({(room \div 5) * 4 + 4, fixed})
  <2>3. top \in Nat /\ top >= (room \div 5) * 4 + 4 /\ top >= fixed
    BY <1>3, <2>2, OfTwo
  <2> HIDE DEF top
  <2>4. fixed + l1Bytes + flows <= top
    BY <1>3, <1>7, <1>8, <1>9, <2>2, <2>3
  <2>5. rec.estimated <= top + flowEntryEstimate * 2048
    BY <1>1, <1>3, <1>8, <1>9, <1>10, <2>3, <2>4 DEF flowEntryEstimate
  <2> QED
    BY <1>1, <2>5 DEF top, FitsRoom
<1> QED
  BY <1>1, <1>8, <1>11 DEF rec

\* Whatever host the wizard detects, its recommendation fits there.
LEMMA AskFits ==
    ASSUME desk \in Desks, NEW a \in desk.sessions, NEW h \in desk.hosts, SetupAsk(a, h), FitsHost
    PROVE  FitsHost'
<1> DEFINE res    == DetectHostResources(h)
           rec    == RecommendDedicated(res)
           max(i) == parseMemoryValue(h.cgroups[i].max, h.total)
<1>1. h \in Host
  BY DesksOK
<1>2. UNCHANGED wrec \/ wrec' = [host |-> h, rec |-> rec]
  BY DEF SetupAsk
<1>3. /\ res.effective \in Nat /\ res.headroom \in Nat /\ res.possible \in Nat \ {0}
      /\ h.total > 0 => res.effective <= h.total
      /\ h.available > 0 => res.headroom <= h.available
      /\ \A i \in DOMAIN h.cgroups : max(i) > 0 =>
            /\ res.effective <= max(i)
            /\ max(i) > h.cgroups[i].cur => res.headroom <= max(i) - h.cgroups[i].cur
  BY <1>1, Detected
<1>4. /\ h.total \in Nat /\ h.available \in Nat
      /\ \A i \in DOMAIN h.cgroups : max(i) \in Nat /\ h.cgroups[i].cur \in Nat
  <2>1. h.total \in Nat /\ h.available \in Nat /\ h.cgroups \in Seq([max : Nat, cur : Nat])
    BY <1>1 DEF Host
  <2>2. \A S : \A s \in Seq(S) : \A i \in DOMAIN s : s[i] \in S
    OBVIOUS
  <2>3. \A i \in DOMAIN h.cgroups : h.cgroups[i] \in [max : Nat, cur : Nat]
    BY <2>1, <2>2, Zenon
  <2> QED
    BY <2>1, <2>3 DEF parseMemoryValue
<1> HIDE DEF res, max
<1>5. /\ \A room \in Nat : room >= res.effective \div 3 \/ room >= res.headroom => FitsRoom(rec, room)
      /\ rec.l1_size = 0 \/ rec.l1_size \in PowersOfTwo(16)
  BY <1>3, Recommended
<1> HIDE DEF rec
<1>6. h.total > 0 => FitsRoom(rec, h.total \div 3)
  BY <1>3, <1>4, <1>5
<1>7. h.available > 0 => FitsRoom(rec, h.available)
  BY <1>3, <1>4, <1>5
<1>8. ASSUME NEW i \in DOMAIN h.cgroups, max(i) > 0
      PROVE  FitsRoom(rec, max(i) \div 3) /\ (max(i) > h.cgroups[i].cur => FitsRoom(rec, max(i) - h.cgroups[i].cur))
  <2>1. max(i) \in Nat /\ h.cgroups[i].cur \in Nat /\ res.effective <= max(i)
    BY <1>3, <1>4, <1>8
  <2>2. max(i) \div 3 \in Nat /\ max(i) \div 3 >= res.effective \div 3
    BY <1>3, <2>1
  <2>3. max(i) > h.cgroups[i].cur =>
          max(i) - h.cgroups[i].cur \in Nat /\ max(i) - h.cgroups[i].cur >= res.headroom
    BY <1>3, <1>8, <2>1
  <2> QED
    BY <1>5, <2>2, <2>3
<1>9. Fits(rec, h)
  BY <1>5, <1>6, <1>7, <1>8 DEF Fits, max
<1>10. CASE wrec' = [host |-> h, rec |-> rec]
  BY <1>9, <1>10 DEF FitsHost
<1>11. CASE UNCHANGED wrec
  BY <1>11 DEF FitsHost, Nothing
<1> QED
  BY <1>2, <1>10, <1>11

\* What the wizard recommends fits the host and every cgroup it runs in: four fifths of
\* the room, apart from the fixed maps and the smallest tables.
THEOREM RecommendationFits == Spec => []FitsHost
<1>1. Init => FitsHost
  BY DEF Init, FitsHost
<1>2. ConsoleInv /\ FitsHost /\ [Next]_vars => FitsHost'
  <2> SUFFICES ASSUME ConsoleInv, FitsHost, [Next]_vars
               PROVE  FitsHost'
    OBVIOUS
  <2>1. desk \in Desks
    BY DEF ConsoleInv, Actors
  <2>2. ASSUME UNCHANGED wrec
        PROVE  FitsHost'
    BY <2>2 DEF FitsHost, Nothing
  <2>3. ASSUME \/ \E f \in DOMAIN desk.values : SetField(f) \/ Misspell(f)
               \/ \E row \in DOMAIN allowRows : SelectAllow(row)
               \/ \E row \in DOMAIN ruleRows : SelectRule(row)
               \/ \E text \in desk.texts : saveAllowEntry(text)
               \/ deleteAllowEntry
               \/ \E r \in desk.rules : saveFlowMonitorRule(r) \/ deleteFlowMonitorRule(r.cidr)
        PROVE  UNCHANGED wizard
    BY <2>3 DEF SetField, Misspell, SelectAllow, SelectRule, saveAllowEntry, deleteAllowEntry,
                saveFlowMonitorRule, deleteFlowMonitorRule
  <2>4. ASSUME \/ apply \/ ApplyPolicy \/ ApplySave \/ ApplyRehash
               \/ Dismiss \/ ReloadLoad \/ ReloadHash \/ Interrupt \/ Quit
               \/ LaunchService \/ AskTyped \/ LaunchReattach
        PROVE  UNCHANGED wizard
    BY <2>4 DEF apply, ApplyPolicy, ApplySave, ApplyRehash, Dismiss, ReloadLoad, ReloadHash, Interrupt,
                Quit, LaunchService, AskTyped, LaunchReattach, Launch
  <2>5. ASSUME JobStop \/ JobUnpin \/ JobStart \/ JobSavePrevious \/ JobReload \/ JobDone
        PROVE  UNCHANGED wizard
    BY <2>5 DEF JobStop, JobUnpin, JobStart, JobSavePrevious, JobReload, JobDone, JobElse
  <2>6. ASSUME \/ \E c \in desk.files : ExternalWrite(c)
               \/ Respawn \/ DaemonReload \/ Crash \/ requestFlowRefresh \/ RefreshOpen \/ RefreshShow \/ BrowserNext
               \/ UNCHANGED vars
        PROVE  UNCHANGED wizard
    BY <2>6 DEF ExternalWrite, Respawn, DaemonReload, Crash, requestFlowRefresh, RefreshOpen, RefreshShow, BrowserNext, vars
  <2>7. ASSUME SetupNext
        PROVE  FitsHost'
    <3>1. CASE SetupSave \/ SetupEnable \/ SetupStart
      BY <2>2, <3>1 DEF SetupSave, SetupEnable, SetupStart
    <3>2. CASE \E a \in desk.sessions, h \in desk.hosts : SetupAsk(a, h)
      BY <2>1, <3>2, AskFits
    <3> QED
      BY <2>7, <3>1, <3>2 DEF SetupNext
  <2> QED
    BY <2>2, <2>3, <2>4, <2>5, <2>6, <2>7 DEF Next, wizard
<1> QED
  BY <1>1, <1>2, ConsoleInvariant, PTL DEF Spec
==============================================================================
