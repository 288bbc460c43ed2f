-------------------------------- MODULE Stats --------------------------------
(***************************************************************************)
(* The packet counters of xdp_filter and their readers.  Every CPU bumps   *)
(* its own copy of a counter while it handles a frame; Collect() reads     *)
(* copy after copy while the CPUs go on counting, and the daemon's         *)
(* Reporter, the console's sampler or `xdpfilter status` turn two readings *)
(* into rates.  Bytes are counted wherever packets are and left out; rates *)
(* and their baseline are fixed-point numbers (Scale) instead of float64.  *)
(***************************************************************************)
EXTENDS Naturals, Sequences, FiniteSets, FiniteSetsExt, Functions, SequencesExt

CONSTANTS
    Reasons, MapFail,  \* enum drop_reason; RSN_MAP_FAIL of it is no drop
    Vlans,             \* outer VLAN ids seen
    Cpus, Sites,       \* the installations considered: reader, traffic, faults, bounds
    Scale, MinRate, Factor,   \* fixed point; 1000 drops per second in it; ten times the baseline
    Modulus            \* 2^64, the width of a counter

GlobalWords == {"rx", "redir", "drop", "other", "l1", "rst"}  \* nonip and nontcp are "other"
Counter == ({"g"} \X GlobalWords) \cup ({"reason"} \X Reasons)
             \cup ({"vpkts", "vdrops"} \X Vlans)
G(w) == <<"g", w>>

Outcomes == {"forward", "other", "l1", "mapfail", "drop", "monitor", "rst", "bootstrap"}

ASSUME StatsConstants ==
    /\ MapFail \in Reasons /\ IsFiniteSet(Reasons) /\ IsFiniteSet(Vlans) /\ IsFiniteSet(Cpus)
    /\ Scale \in Nat \ {0} /\ MinRate \in Nat /\ Factor \in Nat \ {0} /\ Modulus \in Nat \ {0}
    /\ \A s \in Sites :
          /\ s.reader \in {"daemon", "console", "status"} /\ s.cpus \subseteq Cpus
          /\ s.outcomes \subseteq Outcomes /\ s.reasons \subseteq Reasons
          /\ s.frames \in 0 .. Modulus - 1 /\ s.faults \in Nat /\ s.swaps \in Nat /\ s.ticks \in Nat
          /\ s.intervals \subseteq Nat \ {0}

VARIABLES
    site,         \* the installation, one of Sites
    attached,     \* the number of the map set in use, 0 when the data path is detached
    sets,         \* map sets created so far
    ctr,          \* the counters of each map set, per CPU
    todo,         \* per CPU: the map set and the counters the frame at hand will still bump
    snap, at,     \* the reading being made, and the next cell to read (0: none being made)
    reading,      \* the map set the reader holds open
    prev,         \* the last completed reading, Nil if there is none
    shown,        \* the report: totals, increases and the seconds between two readings
    baseline, since, raised,  \* per reason: EMA, spikeSince (0: no spike), rate it began with
    reported, lapsed,  \* history: all increases shown so far; counters a lookup ever failed for
    now, frames, ticks, faults  \* clock and bounds

traffic == <<attached, sets, ctr, todo, frames>>
spikes  == <<baseline, since, raised>>
ledger  == <<reported, lapsed>>
vars    == <<site, traffic, snap, at, reading, prev, shown, spikes, ledger, now, ticks, faults>>

Zero == [k \in Counter |-> 0]
Nil  == [val |-> Zero, bad |-> {}, when |-> 0]
MapSet == 1 .. site.swaps + 1

\* What happened to a counter since the beginning, over all CPUs and map sets.
Copies(k) == [x \in MapSet \X Cpus |-> ctr[x[1]][x[2]][k]]
Events == [k \in Counter |-> SumFunctionOnSet(Copies(k), MapSet \X Cpus)]
----------------------------------------------------------------------------
(* The data path *)

\* do_drop_tcp answers with a RST; the other ways out are do_forward and do_drop.
RstReply(r) == <<<<"reason", r>>, G("rst")>>

\* The counters an outcome bumps, in program order.
Bumps(o, r, v) ==
    <<G("rx"), <<"vpkts", v>>>> \o
    CASE o = "forward"   -> <<G("redir")>>
      [] o \in {"other", "l1"} -> <<G(o), G("redir")>>
      [] o = "mapfail"   -> <<<<"reason", MapFail>>, G("redir")>>
      [] o = "drop"      -> <<<<"reason", r>>, G("drop"), <<"vdrops", v>>>>
      [] o = "monitor"   -> <<<<"reason", r>>, G("redir")>>
      [] o = "rst"       -> RstReply(r)
      [] o = "bootstrap" -> <<>>

Receive(c) ==
    /\ attached # 0 /\ c \in site.cpus /\ todo[c].left = <<>> /\ frames < site.frames
    /\ \E o \in site.outcomes, r \in site.reasons, v \in Vlans :
          todo' = [todo EXCEPT ![c] = [set |-> attached, left |-> Bumps(o, r, v)]]
    /\ frames' = frames + 1
    /\ UNCHANGED <<site, attached, sets, ctr, snap, at, reading, prev, shown, spikes, ledger, now, ticks, faults>>

Bump(c) ==
    /\ todo[c].left # <<>>
    /\ ctr' = [ctr EXCEPT ![todo[c].set][c][Head(todo[c].left)] = @ + 1]
    /\ todo' = [todo EXCEPT ![c].left = Tail(@)]
    /\ UNCHANGED <<site, attached, sets, frames, snap, at, reading, prev, shown, spikes, ledger, now, ticks, faults>>

\* The data path is torn down, or comes up with maps of its own; a frame and a
\* reader keep the maps they hold.
Detach ==
    /\ attached # 0 /\ sets < Cardinality(MapSet)
    /\ attached' = 0
    /\ UNCHANGED <<site, sets, ctr, todo, frames, snap, at, reading, prev, shown, spikes, ledger, now, ticks, faults>>

Attach ==
    /\ attached = 0
    /\ sets' = sets + 1 /\ attached' = sets + 1
    /\ UNCHANGED <<site, ctr, todo, frames, snap, at, reading, prev, shown, spikes, ledger, now, ticks, faults>>

----------------------------------------------------------------------------
(* Collect: stats_global, then every reason, then every VLAN *)

GlobalElem  == <<{"g"} \X GlobalWords>>
ReasonElems == SetToSeq({{<<"reason", r>>} : r \in Reasons})
VlanElems   == SetToSeq({{<<"vpkts", v>>, <<"vdrops", v>>} : v \in Vlans})

\* The map elements in the order they are looked up, each with its words.
ReasonsFirst == ReasonElems \o GlobalElem \o VlanElems
Lookups      == GlobalElem \o ReasonElems \o VlanElems

\* A lookup copies its element CPU by CPU.
CellsOf ==
    [s \in Sites |->
        LET cpu == SetToSeq(s.cpus)
            n   == Len(cpu)
        IN [j \in 1 .. Len(Lookups) * n |->
              LET i == 1 + ((j - 1) \div n)
              IN [lookup |-> i, cpu |-> cpu[1 + ((j - 1) % n)], words |-> Lookups[i]]]]
Cells == CellsOf[site]

\* The ticker fires after one interval, or later when the reader was slow.  The
\* daemon holds the maps it attached with; the others open the pinned ones.
Begin(dt) ==
    /\ at = 0 /\ ticks < site.ticks
    /\ \/ site.reader = "daemon" /\ UNCHANGED reading
       \/ site.reader # "daemon" /\ attached # 0 /\ reading' = attached
    /\ at' = 1 /\ ticks' = ticks + 1 /\ now' = now + dt
    /\ snap' = [Nil EXCEPT !.when = now + dt]
    /\ UNCHANGED <<site, traffic, prev, shown, spikes, ledger, faults>>

Blank == [total |-> Zero, more |-> Zero, secs |-> 0]

\* OpenPinned finds nothing: the console forgets the last reading.
Unavailable(dt) ==
    /\ at = 0 /\ ticks < site.ticks
    /\ site.reader = "console" /\ attached = 0
    /\ ticks' = ticks + 1 /\ now' = now + dt
    /\ prev' = Nil /\ shown' = Blank
    /\ UNCHANGED <<site, traffic, snap, at, reading, spikes, ledger, faults>>

Copy ==
    /\ at \in DOMAIN Cells
    /\ snap' = [snap EXCEPT !.val = [k \in Counter |->
                  @[k] + IF k \in Cells[at].words THEN ctr[reading][Cells[at].cpu][k] ELSE 0]]
    /\ at' = at + 1
    /\ UNCHANGED <<site, traffic, reading, prev, shown, spikes, ledger, now, ticks, faults>>

\* A lookup that fails: fatal for stats_global (`status` then reports zeroes), and
\* passed over, leaving zeroes, for a reason or a VLAN.
LookupFails ==
    /\ at \in DOMAIN Cells /\ faults < site.faults
    /\ \A i \in 1 .. at - 1 : Cells[i].lookup # Cells[at].lookup
    /\ faults' = faults + 1
    /\ IF G("rx") \in Cells[at].words
       THEN /\ at' = 0 /\ snap' = Nil /\ UNCHANGED lapsed
            /\ shown' = IF site.reader = "status" THEN Blank ELSE shown
       ELSE /\ at' = 1 + Cardinality({i \in DOMAIN Cells : Cells[i].lookup <= Cells[at].lookup})
            /\ snap' = [snap EXCEPT !.bad = @ \cup Cells[at].words]
            /\ lapsed' = lapsed \cup Cells[at].words /\ UNCHANGED shown
    /\ UNCHANGED <<site, traffic, reading, prev, spikes, reported, now, ticks>>

----------------------------------------------------------------------------
(* From readings to rates *)

Secs == IF prev = Nil THEN 0 ELSE snap.when - prev.when

\* A VLAN without packets or drops is no row of the report.
Row(k) ==
    k[1] \in {"vpkts", "vdrops"} =>
        snap.val[<<"vpkts", k[2]>>] > 0 \/ snap.val[<<"vdrops", k[2]>>] > 0

\* Reporter.render subtracts modulo the width of the counter.  prevPkts has no case
\* for the row "rst replies", which is therefore compared with zero.
Previous(k) == IF k = G("rst") THEN 0 ELSE prev.val[k]
Increase(k) ==
    IF prev = Nil \/ ~Row(k) \/ (k[1] = "reason" /\ snap.val[k] = 0) THEN 0
    ELSE (snap.val[k] + Modulus - Previous(k)) % Modulus

\* Rates() takes a counter that went down for one that started afresh.
GainUnguarded(k) == IF Secs = 0 \/ ~Row(k) THEN 0 ELSE snap.val[k] - prev.val[k]

Gain(k) ==
    IF Secs = 0 \/ ~Row(k) \/ snap.val[k] < prev.val[k] THEN 0
    ELSE snap.val[k] - prev.val[k]

\* detectSpike: a spike is kept out of the baseline.
Rate(r)   == (Increase(<<"reason", r>>) * Scale) \div Secs
Judged(r) == Secs > 0 /\ snap.val[<<"reason", r>>] # 0
Spiking(r) ==
    /\ Judged(r) /\ baseline[r] # 0
    /\ Rate(r) > MinRate /\ Rate(r) > baseline[r] * Factor

Smoothed(r) == Max({1, (3 * Rate(r) + 7 * baseline[r]) \div 10})

LearnsSpike(r) ==
    IF ~Judged(r) THEN baseline[r]
    ELSE IF baseline[r] = 0 THEN Rate(r) ELSE Smoothed(r)

Learned(r) ==
    IF ~Judged(r) \/ Spiking(r) THEN baseline[r]
    ELSE IF baseline[r] = 0 THEN Rate(r) ELSE Smoothed(r)

\* A first rate only sets the baseline; spikeSince is left alone then.
DetectSpikes ==
    /\ baseline' = [r \in Reasons |-> Learned(r)]
    /\ since' = [r \in Reasons |->
                   IF ~Judged(r) \/ baseline[r] = 0 THEN since[r]
                   ELSE IF ~Spiking(r) THEN 0
                   ELSE IF since[r] = 0 THEN snap.when ELSE since[r]]
    /\ raised' = [r \in Reasons |->
                    IF ~Judged(r) \/ baseline[r] = 0 THEN raised[r]
                    ELSE IF ~Spiking(r) THEN 0
                    ELSE IF since[r] = 0 THEN Rate(r) ELSE raised[r]]

Done == at = Len(Cells) + 1 /\ at' = 0 /\ snap' = Nil

Show(more) ==
    /\ shown' = [total |-> snap.val, more |-> more, secs |-> Secs]
    /\ reported' = [k \in Counter |-> reported[k] + more[k]]

\* Tick: the reading counts even when stats.txt cannot be written.
Tick ==
    /\ Done /\ site.reader = "daemon"
    /\ DetectSpikes
    /\ prev' = snap
    /\ \/ Show([k \in Counter |-> Increase(k)]) /\ UNCHANGED faults
       \/ faults < site.faults /\ faults' = faults + 1 /\ UNCHANGED <<shown, reported>>
    /\ UNCHANGED <<site, traffic, reading, lapsed, now, ticks>>

SampleKeepsFirst ==
    /\ Done /\ site.reader = "console"
    /\ prev' = IF prev = Nil THEN snap ELSE prev
    /\ Show([k \in Counter |-> Gain(k)])
    /\ UNCHANGED <<site, traffic, reading, spikes, lapsed, now, ticks, faults>>

Sample ==
    /\ Done /\ site.reader = "console"
    /\ prev' = snap
    /\ Show([k \in Counter |-> Gain(k)])
    /\ UNCHANGED <<site, traffic, reading, spikes, lapsed, now, ticks, faults>>

PrintStatus ==
    /\ Done /\ site.reader = "status"
    /\ shown' = [Blank EXCEPT !.total = snap.val]
    /\ UNCHANGED <<site, traffic, reading, prev, spikes, ledger, now, ticks, faults>>

----------------------------------------------------------------------------
Init ==
    /\ site \in Sites
    /\ attached = 1 /\ sets = 1
    /\ ctr = [s \in MapSet |-> [c \in Cpus |-> Zero]]
    /\ todo = [c \in Cpus |-> [set |-> 1, left |-> <<>>]]
    /\ snap = Nil /\ at = 0 /\ reading = 1 /\ prev = Nil /\ shown = Blank
    /\ baseline = [r \in Reasons |-> 0] /\ since = baseline /\ raised = baseline
    /\ reported = Zero /\ lapsed = {}
    /\ now = 0 /\ frames = 0 /\ ticks = 0 /\ faults = 0

Next ==
    \/ \E c \in Cpus : Receive(c) \/ Bump(c)
    \/ Detach \/ Attach
    \/ \E dt \in site.intervals : Begin(dt) \/ Unavailable(dt)
    \/ Copy \/ LookupFails \/ Tick \/ Sample \/ PrintStatus

Spec == Init /\ [][Next]_vars

----------------------------------------------------------------------------
(* Properties *)

Snapshots == [val : [Counter -> Nat], bad : SUBSET Counter, when : Nat]

\* Every variable keeps its type, and the reader holds a map set that was created.
TypeOK ==
    /\ site \in Sites /\ sets \in MapSet /\ attached \in {0, sets} /\ reading \in 1 .. sets
    /\ ctr \in [MapSet -> [Cpus -> [Counter -> Nat]]]
    /\ todo \in [Cpus -> [set : 1 .. sets, left : Seq(Counter)]]
    /\ snap \in Snapshots /\ prev \in Snapshots /\ at \in 0 .. Len(Cells) + 1
    /\ shown.total \in [Counter -> Nat] /\ shown.more \in [Counter -> Nat]
    /\ baseline \in [Reasons -> Nat] /\ since \in [Reasons -> Nat] /\ raised \in [Reasons -> Nat]

\* Every drop and every reset in a reading is accounted for by a reason in the same
\* reading, however the reading interleaves with the counting: do_drop and
\* do_drop_tcp bump the reason first and Collect reads the reasons last.
EveryDropHasReason ==
    at = Len(Cells) + 1 /\ snap.bad = {} =>
        SumFunctionOnSet([r \in Reasons |-> snap.val[<<"reason", r>>]], Reasons)
            >= snap.val[G("drop")] + snap.val[G("rst")]

\* No packet is shown in two intervals: all increases a reader has shown of a counter
\* add up to no more than was ever counted, over reports that could not be written,
\* readings that were given up and data paths that were replaced.  Two rows of the
\* code do repeat packets and are excepted: a reason or a VLAN a lookup of which has
\* failed (it was taken for zero, so its whole total is shown again), and "rst
\* replies" in stats.txt (always compared with zero).
ShownOnce ==
    \A k \in Counter \ lapsed : (k = G("rst") => site.reader # "daemon") => reported[k] <= Events[k]

\* A spike is not learned: once detectSpike has called one, it keeps the time it began
\* and ends only when the rate has fallen below the one it began with.  A flood that is
\* there at the first rate of a reason is its baseline, and never a spike.
SpikeSustained ==
    [][\A r \in Reasons : since[r] # 0 =>
          \/ since'[r] = since[r]
          \/ since'[r] = 0 /\ Rate(r) < raised[r]]_vars
=============================================================================
