-------------------------------- MODULE Tuning --------------------------------
(***************************************************************************)
(* internal/tuning: the performance profile that the daemon applies on     *)
(* every start (and `xdpfilter tune` and the console on demand), and the   *)
(* snapshot file with which Restore undoes it.  Nothing serialises the     *)
(* processes that apply and restore, and each may die at any point.        *)
(*                                                                         *)
(* A knob is a pair <<kind, port>>; port "" marks the machine-wide ones.   *)
(* One knob stands for all knobs of its kind and port that the code treats *)
(* alike (three to five sysctls, three features, the queues of a port).    *)
(* Reading a knob, recording its value in memory and writing it is one     *)
(* step: a crash in between is a crash before the step.                    *)
(***************************************************************************)
EXTENDS Integers, Sequences, FiniteSets, FiniteSetsExt, SequencesExt, TLC

CONSTANTS
    Proc,        \* processes that may apply or restore
    Boxes,       \* values the knobs may have at first
    Topologies,  \* what the ports and the CPUs allow
    Configs,     \* configurations: the tuning section, tune and housekeeping_core
    MaxValue,    \* bound on the numbers a knob, a CPU or a limit may be
    MaxStarts,   \* bound on calls of Apply and Restore
    MaxFaults    \* bound on writes that fail, processes that die within a call, reboots

Port  == {"trusted", "untrusted"}
Knob  == {"sysctl", "irqbalance", "governor"} \X {""}
             \cup {"feature", "ring", "channels", "priv", "rss", "irq"} \X Port
Value == 0 .. MaxValue

Absent == -1     \* a knob that the driver or kernel lacks reads as ""
Keep   == -2     \* the configuration leaves the knob alone

Reading == Value \cup {Absent}

ASSUME TuningConstants ==
    /\ Boxes \subseteq [Knob -> Reading] /\ Boxes # {}
    /\ \A t \in Topologies :
          /\ DOMAIN t = {"local", "online", "allowed", "channels", "ring"}
          /\ t.local \in [Port -> SUBSET Value]
          /\ {t.online, t.allowed} \subseteq SUBSET Value
          /\ {t.channels, t.ring} \subseteq [Port -> Value]
    /\ \A c \in Configs :
          /\ DOMAIN c = {"tune", "irqbal", "channels", "ring", "housekeeping", "want"}
          /\ {c.tune, c.irqbal} \subseteq BOOLEAN /\ {c.channels, c.ring} \subseteq Value
          /\ c.housekeeping \in Value \cup {-1}
          /\ c.want \in [{"sysctl", "feature", "priv", "rss", "governor"} -> Value \cup {Keep}]
    /\ {MaxValue, MaxStarts, MaxFaults} \subseteq Nat

None == [k \in {} |-> 0]   \* a snapshot that records nothing

VARIABLES
    topo, boot,  \* the machine, and the values its knobs have after a boot
    box,         \* value of every knob
    file,        \* tuning.orig.json: "none", "torn" (truncated) or the snapshot in `saved`
    saved,
    persist,     \* 99-xdpfilter.conf, read at boot; Keep when there is none
    proc,        \* per process: control point, Tuner and local variables
    starts, faults,
    undo,        \* history: the box as the last Apply found it, once it ran alone and to
                 \* its end; None from the start of another on
    lost         \* history: knobs whose restoring write failed since

machine == <<topo, boot, box, persist>>
disk    == <<file, saved>>
bounds  == <<starts, faults>>
history == <<undo, lost>>
vars    == <<machine, disk, proc, bounds, history>>

----------------------------------------------------------------------------
(* Pure parts *)

\* An empty constraint is ignored.
intersectCPUs(base, constraints) ==
    {c \in base : \A s \in constraints : s = {} \/ c \in s}

\* The CPUs near the port, minus the housekeeping core (-1: the last of them).
numaCores(c, port) ==
    LET near == IF topo.local[port] = {} THEN topo.online ELSE topo.local[port]
        cpus == intersectCPUs(near, {topo.online, topo.allowed})
        hk   == IF c.housekeeping < 0 /\ cpus # {} THEN Max(cpus) ELSE c.housekeeping
    IN IF cpus \ {hk} = {} THEN cpus ELSE cpus \ {hk}

\* Mutant: only the first port is resolved against its limits.
resolveFirstOnly(requested, ports) ==
    IF requested = 0 THEN Min({Head(ports).cpus, Max({1, Head(ports).maximum})}) ELSE requested

\* One pass over the ports; zero requests nothing and zero maximum limits nothing.
resolveCommonChannels(requested, ports) ==
    LET Narrow(resolved, port) ==
            LET cpus  == IF port.cpus = 0 THEN 1 ELSE port.cpus
                limit == IF port.maximum > 0 /\ port.maximum < cpus
                         THEN port.maximum ELSE cpus
            IN IF resolved = 0 \/ limit < resolved THEN limit ELSE resolved
    IN FoldLeft(Narrow, requested, ports)

ChannelLimit(c, port) ==
    [cpus    |-> Max({1, Cardinality(numaCores(c, port))}),
     maximum |-> IF box[<<"channels", port>>] = Absent THEN 0 ELSE topo.channels[port]]

commonChannels(c) ==
    resolveCommonChannels(c.channels, <<ChannelLimit(c, "trusted"), ChannelLimit(c, "untrusted")>>)

Clamp(v, max) == IF max > 0 /\ v > max THEN max ELSE v

\* The value the profile asks of a knob; n is the channel count resolved at the start.
Wanted(c, n, k) ==
    LET port == k[2]
    IN CASE k[1] = "ring" -> IF c.ring = 0 THEN Keep ELSE Clamp(c.ring, topo.ring[port])
         [] k[1] = "channels" -> IF n > 0 THEN n ELSE Keep
         [] k[1] = "irqbalance" -> IF c.irqbal THEN 0 ELSE Keep
         [] k[1] = "irq" -> IF c.irqbal /\ numaCores(c, port) # {}
                            THEN Min(numaCores(c, port)) ELSE Keep
         [] OTHER -> c.want[k[1]]

\* Is the value that Apply reads entered in the snapshot?  The indirection table of RSS
\* never is; some kinds only when they are about to change; a sysctl even unread.
Records(k, cur, want) ==
    /\ want # Keep
    /\ CASE k[1] = "sysctl" -> cur # want
         [] k[1] \in {"feature", "governor"} -> cur \notin {Absent, want}
         [] k[1] = "rss" -> FALSE
         [] OTHER -> cur # Absent

\* The order in which Apply visits the knobs.
Profile ==
    << <<"sysctl", "">>,
       <<"feature", "trusted">>, <<"ring", "trusted">>, <<"channels", "trusted">>,
       <<"priv", "trusted">>, <<"rss", "trusted">>,
       <<"feature", "untrusted">>, <<"ring", "untrusted">>, <<"channels", "untrusted">>,
       <<"priv", "untrusted">>, <<"rss", "untrusted">>,
       <<"irqbalance", "">>, <<"irq", "trusted">>, <<"irq", "untrusted">>, <<"governor", "">> >>

\* The order in which Restore visits the kinds; map iteration picks within a kind.
RestoreOrder == <<"sysctl", "feature", "ring", "channels", "priv", "irq", "governor",
                  "irqbalance">>

----------------------------------------------------------------------------
(* Apply *)

Free == [at |-> "idle"]

Busy(p) == proc[p].at # "idle"

\* p starts; history: no call that is under way runs alone.
Join(p, r) ==
    proc' = [q \in Proc |-> IF q = p THEN r
                            ELSE IF Busy(q) THEN [proc[q] EXCEPT !.found = None]
                            ELSE proc[q]]

Advance(p, r) == proc' = [proc EXCEPT ![p] = r]

StartApply(p, c) ==
    /\ ~Busy(p) /\ starts < MaxStarts /\ c.tune
    /\ Join(p, [at |-> "apply", c |-> c, i |-> 1, n |-> 0, snap |-> None,
                found |-> IF \E q \in Proc : Busy(q) THEN None ELSE box])
    /\ starts' = starts + 1 /\ undo' = None /\ lost' = {}
    /\ UNCHANGED <<machine, disk, faults>>

Fault == faults < MaxFaults /\ faults' = faults + 1

\* A write that fails, or meets a knob the machine lacks, leaves the knob alone.
Put(k, v) ==
    \/ /\ box' = [box EXCEPT ![k] = IF box[k] = Absent THEN Absent ELSE v]
       /\ UNCHANGED faults
    \/ /\ Fault
       /\ UNCHANGED box

Record(p, k, want) ==
    LET snap == proc[p].snap
    IN IF Records(k, box[k], want)
       THEN [j \in DOMAIN snap \cup {k} |-> IF j = k THEN box[k] ELSE snap[j]] ELSE snap

ApplyKnob(p) ==
    LET r    == proc[p]
        k    == Profile[r.i]
        want == Wanted(r.c, r.n, k)
    IN /\ r.at = "apply" /\ r.i <= Len(Profile)
       /\ Advance(p, [r EXCEPT !.at = IF k[1] = "sysctl" THEN "persist" ELSE "apply",
                               !.i = r.i + 1, !.snap = Record(p, k, want)])
       /\ IF want \in {Keep, box[k]} THEN UNCHANGED <<box, faults>> ELSE Put(k, want)
       /\ UNCHANGED <<topo, boot, persist, disk, starts, history>>

\* Between the sysctls and the ports: sysctl.d is written, whether or not a sysctl had to
\* change, and the channel count is resolved once for both ports.
Persist(p) ==
    LET r    == proc[p]
        want == r.c.want["sysctl"]
    IN /\ r.at = "persist"
       /\ Advance(p, [r EXCEPT !.at = "apply", !.n = commonChannels(r.c)])
       /\ \/ persist' = want /\ UNCHANGED faults
          \/ Fault /\ UNCHANGED persist
       /\ UNCHANGED <<topo, boot, box, disk, starts, history>>

\* saveSnapshot: os.WriteFile truncates the file before it writes it, and may fail.
Truncate(p) ==
    /\ proc[p].at = "apply" /\ proc[p].i > Len(Profile)
    /\ file' = "torn" /\ saved' = None
    /\ Advance(p, [proc[p] EXCEPT !.at = "save"])
    /\ UNCHANGED <<machine, bounds, history>>

\* A Restore may have unlinked the file meanwhile, and another writer may have got in
\* between: the longer of the two texts then sticks out behind the shorter.
SaveSnapshot(p) ==
    /\ proc[p].at = "save"
    /\ file' \in IF file = "whole" THEN {"whole", "torn"}
                 ELSE IF file = "torn" THEN {"whole"} ELSE {"none"}
    /\ saved' = IF file' = "whole" THEN proc[p].snap ELSE None
    /\ undo' = proc[p].found /\ lost' = {}
    /\ Advance(p, Free)
    /\ UNCHANGED <<machine, bounds>>

\* A warning is logged and Apply returns all the same.
SaveFails(p) ==
    /\ \/ proc[p].at = "apply" /\ proc[p].i > Len(Profile)
       \/ proc[p].at = "save"
    /\ Fault
    /\ Advance(p, Free)
    /\ UNCHANGED <<machine, disk, starts, history>>

----------------------------------------------------------------------------
(* Restore *)

\* Mutant: the file is removed as soon as it has been read.
StartRestoreRemoving(p) ==
    /\ ~Busy(p) /\ starts < MaxStarts /\ file = "whole"
    /\ Join(p, [at |-> "restore", todo |-> DOMAIN saved, snap |-> saved, found |-> None])
    /\ starts' = starts + 1 /\ file' = "none" /\ saved' = None
    /\ UNCHANGED <<machine, faults, history>>

\* Without a file, or with one that does not parse, Restore returns an error.
StartRestore(p) ==
    /\ ~Busy(p) /\ starts < MaxStarts /\ file = "whole"
    /\ Join(p, [at |-> "restore", todo |-> DOMAIN saved, snap |-> saved, found |-> None])
    /\ starts' = starts + 1
    /\ UNCHANGED <<machine, disk, faults, history>>

Stage(k) == CHOOSE i \in DOMAIN RestoreOrder : RestoreOrder[i] = k[1]

\* Mutant: the channel count of a port is not put back.
RestoreSansChannels(p, k) ==
    LET r == proc[p]
    IN /\ r.at = "restore" /\ k \in r.todo /\ \A j \in r.todo : Stage(k) <= Stage(j)
       /\ Advance(p, [r EXCEPT !.todo = r.todo \ {k}])
       /\ IF k[1] = "channels" \/ r.snap[k] = Absent THEN UNCHANGED <<box, faults>>
          ELSE Put(k, r.snap[k])
       /\ lost' = IF faults' > faults /\ undo # None THEN lost \cup {k} ELSE lost
       /\ UNCHANGED <<topo, boot, persist, disk, starts, undo>>

\* irqbalance is only ever switched back on; errors of the writes are ignored.
RestoreKnob(p, k) ==
    LET r == proc[p]
        v == r.snap[k]
    IN /\ r.at = "restore" /\ k \in r.todo /\ \A j \in r.todo : Stage(k) <= Stage(j)
       /\ Advance(p, [r EXCEPT !.todo = r.todo \ {k}])
       /\ IF (k[1] = "irqbalance" /\ v = 0) \/ v = Absent
          THEN UNCHANGED <<box, faults>> ELSE Put(k, v)
       /\ lost' = IF faults' > faults /\ undo # None THEN lost \cup {k} ELSE lost
       /\ UNCHANGED <<topo, boot, persist, disk, starts, undo>>

\* The persisted sysctls stay behind.
RemoveSnapshot(p) ==
    /\ proc[p].at = "restore" /\ proc[p].todo = {}
    /\ file' = "none" /\ saved' = None
    /\ Advance(p, Free)
    /\ UNCHANGED <<machine, bounds, history>>

----------------------------------------------------------------------------
(* The environment *)

Crash(p) ==
    /\ Busy(p) /\ Fault
    /\ Advance(p, Free)
    /\ UNCHANGED <<machine, disk, starts, history>>

\* Boot values come back, except for sysctl.d and for a service that was disabled.
Reboot ==
    /\ Fault
    /\ box' = [k \in Knob |->
                  CASE k[1] = "sysctl" /\ boot[k] # Absent /\ persist # Keep -> persist
                    [] k[1] = "irqbalance" -> box[k]
                    [] OTHER -> boot[k]]
    /\ proc' = [p \in Proc |-> Free] /\ undo' = None /\ lost' = {}
    /\ UNCHANGED <<topo, boot, persist, disk, starts>>

Init ==
    /\ topo \in Topologies /\ box \in Boxes /\ boot = box
    /\ file = "none" /\ saved = None /\ persist = Keep
    /\ proc = [p \in Proc |-> Free]
    /\ starts = 0 /\ faults = 0
    /\ undo = None /\ lost = {}

Next ==
    \/ \E p \in Proc :
          \/ \E c \in Configs : StartApply(p, c)
          \/ ApplyKnob(p) \/ Persist(p) \/ Truncate(p) \/ SaveSnapshot(p) \/ SaveFails(p)
          \/ StartRestore(p)
          \/ \E k \in Knob : RestoreKnob(p, k)
          \/ RemoveSnapshot(p)
          \/ Crash(p)
    \/ Reboot

Spec == Init /\ [][Next]_vars

----------------------------------------------------------------------------
(* Properties *)

\* The knobs that the last completed Apply is answerable for.
Undoable == {k \in Knob : k[1] # "rss"} \ lost

(* "Restore reverts everything captured in the snapshot file" (tuning.go:385), and what   *)
(* the file captures is enough: as long as a knob differs from what the last completed    *)
(* Apply found there, the file holds that earlier value, through crashes of a Restore,    *)
(* restores by two processes and failing writes.  Excluded (undo = None): the snapshot of *)
(* an Apply that did not run alone, a later Apply that did not get to its snapshot, and a *)
(* reboot.                                                                                *)
StillUndoable ==
    undo # None => \A k \in Undoable :
        box[k] = undo[k] \/ (k \in DOMAIN saved /\ saved[k] = undo[k])

(* When a Restore is about to remove the file (tuning.go:424), every knob has the value   *)
(* that the Apply behind the snapshot found, except those that refused the write.         *)
RestoreUndoes ==
    \A p \in Proc :
        (proc[p].at = "restore" /\ proc[p].todo = {} /\ undo # None) =>
            \A k \in Undoable : box[k] = undo[k]

(* "Automatic channels use one common count across both ports, capped by each NIC's       *)
(* advertised combined-channel maximum and its online, process-allowed NUMA-local CPUs"   *)
(* (README.md:262): so it is when an undisturbed Apply is done, whatever is requested.    *)
PortsAlike ==
    \A p \in Proc :
        (proc[p].at = "save" /\ proc[p].found # None /\ faults = 0) =>
            LET Chan(port) == box[<<"channels", port>>]
                Having     == {port \in Port : Chan(port) # Absent}
                CPUs(port) == Cardinality(numaCores(proc[p].c, port))
            IN /\ Cardinality({Chan(port) : port \in Having}) <= 1
               /\ \A port \in Having :
                     /\ Chan(port) > 0
                     /\ \A q \in Port : Chan(port) <= Max({1, CPUs(q)})
                     /\ \A q \in Having : topo.channels[q] > 0 => Chan(port) <= topo.channels[q]
                     /\ proc[p].c.channels > 0 => Chan(port) <= proc[p].c.channels

(* "It ... snapshots originals so package removal (or `stop --detach --restore`) puts the *)
(* box back" (tuning.go:4-6): a Restore ends with the values from before the first start. *)
OriginalsComeBack ==
    \A p \in Proc :
        (proc[p].at = "restore" /\ proc[p].todo = {}) => \A k \in Undoable : box[k] = boot[k]

===============================================================================
