------------------------------- MODULE Control -------------------------------
(***************************************************************************)
(* How policy gets from the configuration file into the maps.  The daemon  *)
(* (cmdDaemon of cmd/xdpfilter/main.go) loads the file at start and again  *)
(* on SIGHUP or on a debounced inotify event; `xdpfilter mode` and the     *)
(* management console write the same maps and the same file from processes *)
(* of their own; anybody may edit the file; the daemon may die anywhere.   *)
(*                                                                         *)
(* ReloadPolicy() runs in the daemon and in the console: Caller tells its  *)
(* two activations apart.  SyncServerAllow and SyncFlowMonitorCIDRs are    *)
(* the same code on two maps, here two tables.                             *)
(***************************************************************************)
EXTENDS Naturals, FiniteSets

CONSTANTS
    Entry,      \* server_allow entries and monitored CIDRs
    Broken,     \* a file that config.Load rejects
    Boxes       \* the boxes considered: who is at work on each, and on what

Caller == {"daemon", "manage"}
Table  == {"allow", "cidrs"}
Mode   == {"monitor", "enforce"}

\* pol stands for every other toggle and TTL, iface for the structural fields.
Live(c)     == [mode |-> c.mode, pol |-> c.pol, tab |-> c.tab, mon |-> c.mon, sample |-> c.sample]
Features(c) == [mode |-> c.mode, pol |-> c.pol]

ASSUME ControlConstants ==
    \A b \in Boxes :
        /\ b.maxWrites \in Nat
        /\ b.actors \subseteq {"edit", "hup", "exit", "mode", "manage"}
        /\ b.capacity \in Nat /\ b.saveFails \in BOOLEAN
        /\ b.configs # {} /\ Broken \notin b.configs
        /\ \A c \in b.configs :
              /\ DOMAIN c = {"mode", "pol", "tab", "mon", "sample", "iface"}
              /\ c.mode \in Mode /\ c.mon \in BOOLEAN
              /\ c.tab \in [Table -> SUBSET Entry] /\ \A t \in Table : IsFiniteSet(c.tab[t])

VARIABLES
    box,        \* the box, one of Boxes
    file,       \* the YAML file: a configuration or Broken
    pinned,     \* the maps exist under the pin directory
    features,   \* the features map
    tables,     \* server_allow and flow_monitor_cidrs
    monitor,    \* FLOW_MONITOR_ENABLED and FLOW_MONITOR_SAMPLE_MASK
    cfgPtr,     \* the daemon's published configuration
    dpc, next,  \* daemon: control point; configuration being applied
    watching,   \* the inotify watch is in place
    event,      \* an inotify event for the file is queued
    timer,      \* the debounce timer is armed
    reloadCh,   \* the channel of capacity one
    sighup,     \* a SIGHUP waits in the signal channel
    rpc, rtab, target, stale,    \* ReloadPolicy, per caller
    mpc, mfv, mcfg,              \* xdpfilter mode: control point, features read, file read
    gpc, base, staged, hash,     \* console: control point, Base, Staged, file hash
    writes,     \* bound: edits and file-writing commands begun
    missed,     \* history: the file changed after the daemon read it and
                \*   before its watch was in place
    overlapped, \* history: the daemon was loading the file during the latest Apply
    halfApplied,\* history: an Apply gave up after it had changed the maps, without an undo
                \*   that had them to itself and brought back the file
    unsaved     \* history: a mode command changed the features and could not save the file;
                \*   this and halfApplied until the daemon begins to load the file again

maps    == <<pinned, features, tables>>
rp      == <<rpc, rtab, target, stale>>
daemon  == <<cfgPtr, dpc, next, monitor>>
watcher == <<watching, event, timer, reloadCh>>
modecmd == <<mpc, mfv, mcfg, unsaved>>
console == <<gpc, base, staged, hash, overlapped, halfApplied>>
disk    == <<file, writes, missed>>
vars    == <<box, maps, rp, daemon, watcher, sighup, modecmd, console, disk>>

Configs   == box.configs     \* configurations the operators write
Actors    == box.actors      \* which of "edit", "hup", "exit", "mode", "manage" take part
Capacity  == box.capacity    \* max_entries of either table (1024, 4096)
MaxWrites == box.maxWrites   \* bound on edits and commands that write the file
SaveFails == box.saveFails   \* may Save, or reading back, return an error (disk full)?

----------------------------------------------------------------------------
(* The file *)

Running == dpc # "down"

\* Any write replaces the file and queues an event if the watch exists.
Write(c) ==
    /\ file' = c
    /\ event' = (event \/ watching)
    /\ missed' = (missed \/ (Running /\ ~watching))

Budget == writes < MaxWrites /\ writes' = writes + 1

Edit(c) ==
    /\ "edit" \in Actors /\ Budget /\ Write(c)
    /\ UNCHANGED <<maps, rp, daemon, watching, timer, reloadCh, sighup, modecmd, console>>

----------------------------------------------------------------------------
(* ReloadPolicy: features first, then each table: delete stale, put wanted *)

Call(p, c) ==
    /\ rpc' = [rpc EXCEPT ![p] = "features"]
    /\ rtab' = [rtab EXCEPT ![p] = "allow"]
    /\ target' = [target EXCEPT ![p] = c]
    /\ stale' = [stale EXCEPT ![p] = {}]

Reap(p) == rpc' = [rpc EXCEPT ![p] = "off"] /\ UNCHANGED <<rtab, target, stale>>

Others == <<daemon, watcher, sighup, modecmd, console, disk>>

Want(p) == target[p].tab[rtab[p]]

PutFeatures(p) ==
    /\ rpc[p] = "features"
    /\ features' = Features(target[p])
    /\ rpc' = [rpc EXCEPT ![p] = "scan"]
    /\ UNCHANGED <<pinned, tables, rtab, target, stale, Others>>

ScanAll(p) ==
    /\ rpc[p] = "scan"
    /\ stale' = [stale EXCEPT ![p] = tables[rtab[p]]]
    /\ rpc' = [rpc EXCEPT ![p] = "delete"]
    /\ UNCHANGED <<maps, rtab, target, Others>>

Scan(p) ==
    /\ rpc[p] = "scan"
    /\ stale' = [stale EXCEPT ![p] = tables[rtab[p]] \ Want(p)]
    /\ rpc' = [rpc EXCEPT ![p] = "delete"]
    /\ UNCHANGED <<maps, rtab, target, Others>>

\* Deleting an entry another process deleted meanwhile is an error.
DeleteStale(p, e) ==
    /\ rpc[p] = "delete" /\ e \in stale[p]
    /\ stale' = [stale EXCEPT ![p] = @ \ {e}]
    /\ tables' = [tables EXCEPT ![rtab[p]] = @ \ {e}]
    /\ rpc' = [rpc EXCEPT ![p] = IF e \in tables[rtab[p]] THEN "delete" ELSE "failed"]
    /\ UNCHANGED <<pinned, features, rtab, target, Others>>

\* stale now holds the wanted entries still to be put.
DeletesDone(p) ==
    /\ rpc[p] = "delete" /\ stale[p] = {}
    /\ stale' = [stale EXCEPT ![p] = Want(p)]
    /\ rpc' = [rpc EXCEPT ![p] = "put"]
    /\ UNCHANGED <<maps, rtab, target, Others>>

\* A full hash map refuses a new entry.
PutWanted(p, e) ==
    LET t == tables[rtab[p]]
    IN /\ rpc[p] = "put" /\ e \in stale[p]
       /\ stale' = [stale EXCEPT ![p] = @ \ {e}]
       /\ IF e \in t \/ Cardinality(t) < Capacity
          THEN tables' = [tables EXCEPT ![rtab[p]] = @ \cup {e}] /\ UNCHANGED rpc
          ELSE rpc' = [rpc EXCEPT ![p] = "failed"] /\ UNCHANGED tables
       /\ UNCHANGED <<pinned, features, rtab, target, Others>>

PutsDone(p) ==
    /\ rpc[p] = "put" /\ stale[p] = {}
    /\ IF rtab[p] = "allow"
       THEN rtab' = [rtab EXCEPT ![p] = "cidrs"] /\ rpc' = [rpc EXCEPT ![p] = "scan"]
       ELSE UNCHANGED rtab /\ rpc' = [rpc EXCEPT ![p] = "done"]
    /\ UNCHANGED <<maps, target, stale, Others>>

ReloadPolicy(p) ==
    \/ PutFeatures(p) \/ Scan(p) \/ DeletesDone(p) \/ PutsDone(p)
    \/ \E e \in Entry : DeleteStale(p, e) \/ PutWanted(p, e)

----------------------------------------------------------------------------
(* cmdDaemon: start *)

\* config.Load, then dataplane.Load up to the policy maps.
Start ==
    /\ dpc = "down" /\ file # Broken
    /\ next' = file /\ dpc' = "load" /\ pinned' = TRUE
    /\ missed' = FALSE /\ halfApplied' = FALSE /\ unsaved' = FALSE /\ overlapped' = TRUE
    /\ Call("daemon", file)
    /\ UNCHANGED <<features, tables, cfgPtr, monitor, watcher, sighup, mpc, mfv, mcfg,
                   gpc, base, staged, hash, file, writes>>

LoadFailed ==
    /\ dpc = "load" /\ rpc["daemon"] = "failed"
    /\ dpc' = "down" /\ Reap("daemon")
    /\ UNCHANGED <<maps, cfgPtr, next, monitor, watcher, sighup, modecmd, console, disk>>

\* Programs loaded and attached, cfgPtr stored, READY=1, watchConfig spawned.
Attached ==
    /\ dpc = "load" /\ rpc["daemon"] = "done"
    /\ monitor' = [enabled |-> next.mon, sample |-> next.sample]
    /\ cfgPtr' = next /\ dpc' = "ready" /\ Reap("daemon")
    /\ UNCHANGED <<maps, next, watcher, sighup, modecmd, console, disk>>

NotifySignals ==
    /\ dpc = "ready" /\ dpc' = "select"
    /\ UNCHANGED <<maps, rp, cfgPtr, next, monitor, watcher, sighup, modecmd, console, disk>>

\* SIGTERM or a crash: the datapath and the maps stay, everything else is lost.
Down ==
    /\ dpc' = "down" /\ Reap("daemon")
    /\ watching' = FALSE /\ event' = FALSE /\ timer' = FALSE /\ reloadCh' = FALSE
    /\ sighup' = FALSE
    /\ UNCHANGED <<maps, cfgPtr, next, monitor, modecmd, console, disk>>

Exit == "exit" \in Actors /\ Running /\ Down

\* systemctl reload.  Until signal.Notify a SIGHUP has its default effect.
Hup ==
    /\ "hup" \in Actors /\ Running /\ dpc # "load" /\ ~sighup
    /\ IF dpc = "ready"
       THEN Down
       ELSE /\ sighup' = TRUE
            /\ UNCHANGED <<maps, rp, daemon, watcher, modecmd, console, disk>>

----------------------------------------------------------------------------
(* watchConfig *)

AddWatch ==
    /\ Running /\ dpc # "load" /\ ~watching
    /\ watching' = TRUE
    /\ UNCHANGED <<maps, rp, daemon, event, timer, reloadCh, sighup, modecmd, console, disk>>

\* Every batch of events restarts the timer.
ReadEvent ==
    /\ event /\ event' = FALSE /\ timer' = TRUE
    /\ UNCHANGED <<maps, rp, daemon, watching, reloadCh, sighup, modecmd, console, disk>>

FireUnbuffered ==
    /\ timer /\ timer' = FALSE /\ reloadCh' = (reloadCh \/ dpc = "select")
    /\ UNCHANGED <<maps, rp, daemon, watching, event, sighup, modecmd, console, disk>>

\* A send that finds the channel full is dropped: a reload is pending anyway.
Fire ==
    /\ timer /\ timer' = FALSE /\ reloadCh' = TRUE
    /\ UNCHANGED <<maps, rp, daemon, watching, event, sighup, modecmd, console, disk>>

----------------------------------------------------------------------------
(* reload() in the daemon's select loop *)

ApplyLiveFromSansSample(cur, src) == [src EXCEPT !.iface = cur.iface, !.sample = cur.sample]

\* The merged configuration: the live fields of src, the structural ones of cur.
ApplyLiveFrom(cur, src) == [src EXCEPT !.iface = cur.iface]

\* Receiving from a channel, config.Load and ApplyLiveFrom.
Begin ==
    /\ missed' = FALSE
    /\ IF file = Broken
       THEN UNCHANGED <<next, dpc, rp, halfApplied, unsaved, overlapped>>
       ELSE LET merged == ApplyLiveFrom(cfgPtr, file)
            IN /\ next' = merged
               /\ halfApplied' = FALSE /\ unsaved' = FALSE /\ overlapped' = TRUE
               /\ IF merged.mon
                  THEN dpc' = "policy" /\ Call("daemon", merged)
                  ELSE dpc' = "disable" /\ UNCHANGED rp
    /\ UNCHANGED <<maps, cfgPtr, monitor, mpc, mfv, mcfg, gpc, base, staged, hash, file, writes,
                   watching, event, timer>>

ReloadOnHup   == dpc = "select" /\ sighup /\ sighup' = FALSE /\ Begin /\ UNCHANGED reloadCh
ReloadOnEvent == dpc = "select" /\ reloadCh /\ reloadCh' = FALSE /\ Begin /\ UNCHANGED sighup

\* Monitoring off: the enable flag first, the mask is then unobserved.
DisableMonitor ==
    /\ dpc = "disable" /\ dpc' = "policy"
    /\ monitor' = [enabled |-> FALSE, sample |-> next.sample]
    /\ Call("daemon", next)
    /\ UNCHANGED <<maps, cfgPtr, next, watcher, sighup, modecmd, console, disk>>

PolicyDone ==
    /\ dpc = "policy" /\ rpc["daemon"] = "done" /\ Reap("daemon")
    /\ dpc' = IF next.mon THEN "mask" ELSE "store"
    /\ UNCHANGED <<maps, cfgPtr, next, monitor, watcher, sighup, modecmd, console, disk>>

\* ApplyFlowMonitorControl(cur); features and tables stay as they are.
PolicyFailed ==
    /\ dpc = "policy" /\ rpc["daemon"] = "failed" /\ Reap("daemon")
    /\ monitor' = [enabled |-> cfgPtr.mon, sample |-> cfgPtr.sample]
    /\ dpc' = "select"
    /\ UNCHANGED <<maps, cfgPtr, next, watcher, sighup, modecmd, console, disk>>

SetMaskLate ==
    /\ dpc = "mask" /\ dpc' = "enable"
    /\ monitor' = [monitor EXCEPT !.enabled = TRUE]
    /\ UNCHANGED <<maps, rp, cfgPtr, next, watcher, sighup, modecmd, console, disk>>

SetMask ==
    /\ dpc = "mask" /\ dpc' = "enable"
    /\ monitor' = [monitor EXCEPT !.sample = next.sample]
    /\ UNCHANGED <<maps, rp, cfgPtr, next, watcher, sighup, modecmd, console, disk>>

EnableMonitor ==
    /\ dpc = "enable" /\ dpc' = "store"
    /\ monitor' = [monitor EXCEPT !.enabled = TRUE]
    /\ UNCHANGED <<maps, rp, cfgPtr, next, watcher, sighup, modecmd, console, disk>>

StoreConfig ==
    /\ dpc = "store" /\ dpc' = "select" /\ cfgPtr' = next
    /\ UNCHANGED <<maps, rp, next, monitor, watcher, sighup, modecmd, console, disk>>

Daemon ==
    \/ Attached \/ LoadFailed \/ NotifySignals \/ ReloadOnHup \/ ReloadOnEvent
    \/ DisableMonitor \/ PolicyDone \/ PolicyFailed \/ SetMask \/ EnableMonitor \/ StoreConfig

----------------------------------------------------------------------------
(* cmdMode: SetModePinned, then the file *)

ModeRead(m) ==
    /\ "mode" \in Actors /\ mpc = "idle" /\ pinned /\ Budget
    /\ mfv' = [features EXCEPT !.mode = m] /\ mpc' = "put"
    /\ UNCHANGED <<maps, rp, daemon, watcher, sighup, mcfg, unsaved, console, file, missed>>

ModePut ==
    /\ mpc = "put" /\ features' = mfv /\ mpc' = "load"
    /\ UNCHANGED <<pinned, tables, rp, daemon, watcher, sighup, mfv, mcfg, unsaved, console, disk>>

\* A file that does not load is left alone.
ModeLoad ==
    /\ mpc = "load"
    /\ IF file = Broken
       THEN mpc' = "idle" /\ UNCHANGED mcfg
       ELSE mpc' = "save" /\ mcfg' = [file EXCEPT !.mode = mfv.mode]
    /\ UNCHANGED <<maps, rp, daemon, watcher, sighup, mfv, unsaved, console, disk>>

\* "mode changed in kernel but not saved" is a warning: the command is done all the same.
ModeSave ==
    /\ mpc = "save" /\ mpc' = "idle"
    /\ \/ Write(mcfg) /\ UNCHANGED unsaved
       \/ SaveFails /\ unsaved' = TRUE /\ UNCHANGED <<file, event, missed>>
    /\ UNCHANGED <<maps, rp, daemon, watching, timer, reloadCh, sighup, mfv, mcfg, console, writes>>

----------------------------------------------------------------------------
(* The console's Controller *)

\* Reload: the file is read twice, once to parse and once to hash.
ConsoleLoad ==
    /\ "manage" \in Actors /\ gpc = "idle" /\ file # Broken
    /\ base' = file /\ gpc' = "hash"
    /\ UNCHANGED <<maps, rp, daemon, watcher, sighup, modecmd, staged, hash, overlapped, halfApplied, disk>>

ConsoleHash ==
    /\ gpc = "hash" /\ hash' = file /\ gpc' = "loaded"
    /\ UNCHANGED <<maps, rp, daemon, watcher, sighup, modecmd, base, staged, overlapped, halfApplied, disk>>

\* Apply: the operator staged c; refused if the file no longer has the hash.  Without
\* pinned maps only the file is written.
ApplyCheck(c) ==
    /\ gpc = "loaded" /\ c # base /\ staged' = c /\ Budget
    /\ \/ hash # file /\ gpc' = "idle" /\ UNCHANGED rp
       \/ hash = file /\ pinned /\ gpc' = "policy" /\ Call("manage", c)
       \/ hash = file /\ ~pinned /\ gpc' = "offline" /\ UNCHANGED rp
    /\ overlapped' = (dpc \notin {"down", "ready", "select"})
    /\ UNCHANGED <<maps, daemon, watcher, sighup, modecmd, base, hash, halfApplied,
                   file, missed>>

ApplyPolicy ==
    /\ gpc = "policy" /\ rpc["manage"] \in {"done", "failed"} /\ Reap("manage")
    /\ IF rpc["manage"] = "done"
       THEN gpc' = "save" /\ UNCHANGED halfApplied
       ELSE gpc' = "loaded" /\ halfApplied' = TRUE
    /\ UNCHANGED <<maps, daemon, watcher, sighup, modecmd, base, staged, hash, overlapped, disk>>

ApplySave ==
    /\ gpc \in {"save", "offline"} /\ gpc' = "rehash" /\ Write(staged)
    /\ UNCHANGED <<maps, rp, daemon, watching, timer, reloadCh, sighup, modecmd,
                   base, staged, hash, overlapped, halfApplied, writes>>

\* Save failed: ReloadPolicy(c.Base), its error ignored.
ApplySaveFailed ==
    /\ SaveFails
    /\ \/ gpc = "save" /\ gpc' = "undo" /\ Call("manage", base)
       \/ gpc = "offline" /\ gpc' = "loaded" /\ UNCHANGED rp
    /\ UNCHANGED <<maps, daemon, watcher, sighup, modecmd, base, staged, hash,
                   overlapped, halfApplied, disk>>

ApplyUndone ==
    /\ gpc = "undo" /\ rpc["manage"] \in {"done", "failed"} /\ Reap("manage")
    /\ gpc' = "loaded"
    /\ halfApplied' = (halfApplied \/ overlapped \/ rpc["manage"] = "failed" \/ base # file)
    /\ UNCHANGED <<maps, daemon, watcher, sighup, modecmd, base, staged, hash, overlapped, disk>>

\* A file that cannot be read back leaves base and hash as they were.
ApplyRehash ==
    /\ gpc = "rehash" /\ gpc' = "loaded"
    /\ \/ hash' = file /\ base' = staged
       \/ SaveFails /\ UNCHANGED <<hash, base>>
    /\ UNCHANGED <<maps, rp, daemon, watcher, sighup, modecmd, staged, overlapped, halfApplied, disk>>

ModeCmd == (\E m \in Mode : ModeRead(m)) \/ ModePut \/ ModeLoad \/ ModeSave
Console ==
    \/ ConsoleLoad \/ ConsoleHash \/ ApplyPolicy \/ ApplySave \/ ApplySaveFailed
    \/ ApplyUndone \/ ApplyRehash
    \/ \E c \in Configs : ApplyCheck(c)

----------------------------------------------------------------------------
Init ==
    /\ box \in Boxes
    /\ file \in Configs /\ pinned = FALSE
    /\ features = [mode |-> "monitor", pol |-> "zero"]
    /\ tables = [t \in Table |-> {}]
    /\ monitor = [enabled |-> FALSE, sample |-> 0]
    /\ cfgPtr = file /\ next = file /\ dpc = "down"
    /\ watching = FALSE /\ event = FALSE /\ timer = FALSE /\ reloadCh = FALSE /\ sighup = FALSE
    /\ rpc = [p \in Caller |-> "off"] /\ rtab = [p \in Caller |-> "allow"]
    /\ target = [p \in Caller |-> file] /\ stale = [p \in Caller |-> {}]
    /\ mpc = "idle" /\ mfv = features /\ mcfg = file
    /\ gpc = "idle" /\ base = file /\ staged = file /\ hash = file
    /\ writes = 0 /\ missed = FALSE /\ overlapped = FALSE /\ halfApplied = FALSE /\ unsaved = FALSE

Step ==
    \/ \E p \in Caller : ReloadPolicy(p)
    \/ Start \/ Daemon \/ AddWatch \/ ReadEvent \/ Fire
    \/ ModeCmd \/ Console
    \/ \E c \in Configs \cup {Broken} : Edit(c)
    \/ Hup \/ Exit

Next == Step /\ UNCHANGED box

\* The daemon's goroutines and the commands in progress keep running; nothing
\* is assumed of operators, signals, crashes or restarts.
Fairness ==
    /\ \A p \in Caller : WF_vars(ReloadPolicy(p) /\ UNCHANGED box)
    /\ WF_vars(Daemon /\ UNCHANGED box) /\ WF_vars(AddWatch /\ UNCHANGED box)
    /\ WF_vars(ReadEvent /\ UNCHANGED box) /\ WF_vars(Fire /\ UNCHANGED box)
    /\ WF_vars((ModePut \/ ModeLoad \/ ModeSave) /\ UNCHANGED box)
    /\ WF_vars(UNCHANGED box /\ (ConsoleHash \/ ApplyPolicy \/ ApplySave \/ ApplyUndone \/ ApplyRehash))

Spec == Init /\ [][Next]_vars /\ Fairness

----------------------------------------------------------------------------
(* Properties *)

\* The datapath runs what configuration c says; a mode command that could not save has the
\* features to itself.
Agrees(c) ==
    /\ unsaved \/ features = Features(c)
    /\ tables = c.tab
    /\ monitor.enabled = c.mon /\ (c.mon => monitor.sample = c.sample)
    /\ Live(cfgPtr) = Live(c)

\* Validate bounds the number of CIDRs by the size of their trie, and server_allow not at
\* all: a longer list fails half-way through its reload.
Fits(c) == \A t \in Table : Cardinality(c.tab[t]) <= Capacity
AllFit  == \A c \in Configs : Fits(c)

Pending == sighup \/ reloadCh \/ timer \/ event
Busy    == mpc # "idle" \/ gpc \notin {"idle", "loaded"}

\* Whenever the daemon sits in its select loop with no reload pending and no
\* command in progress, the maps hold the policy of the file: no sequence of
\* edits, SIGHUPs, debounced events, crashes, failed reloads and concurrent mode changes
\* leaves a valid edit unapplied, unless it fell before the watch or its lists are longer
\* than the maps.  An Apply that could not save has undone itself, unless ReloadPolicy failed
\* or file and maps were in motion meanwhile; a mode command that could not save leaves
\* nothing different but the features.
SettledAgrees ==
    /\ dpc = "select" /\ ~Pending /\ ~Busy /\ file # Broken /\ Fits(file) /\ ~missed /\ ~halfApplied
    => Agrees(file)

\* No console session writes the maps beside the daemon.
DaemonAlone == "manage" \notin Actors

\* Flow monitoring is switched on only over a fully populated trie and with the
\* sampling mask in place ("populate the trie first and flip ... last"), as long as
\* the daemon alone writes the maps and no list is too long for them.
EnableLast ==
    [][DaemonAlone /\ AllFit /\ ~monitor.enabled /\ monitor'.enabled =>
          tables'["cidrs"] = next.tab["cidrs"] /\ monitor'.sample = next.sample]_vars

\* While the allowlist changes, an entry is present only if the running or the
\* requested configuration, or the map adopted at start, lists it; and an entry
\* that both list never disappears, as long as the daemon alone writes the maps and
\* no list is too long for them.
SyncWithinBounds ==
    DaemonAlone /\ AllFit /\ dpc = "policy" =>
        /\ cfgPtr.tab["allow"] \cap next.tab["allow"] \subseteq tables["allow"]
        /\ tables["allow"] \subseteq cfgPtr.tab["allow"] \cup next.tab["allow"]

\* A valid file that fits the maps and that the daemon can notice is eventually what the
\* datapath runs (its features excepted after a mode command that could not save them).
Converges ==
    <>[](Running /\ file # Broken /\ Fits(file) /\ ~missed /\ ~halfApplied /\ ~sighup)
        => <>[](file # Broken => Agrees(file))

=============================================================================
