---------------------------- MODULE ControlProofs ----------------------------
(***************************************************************************)
(* Theorems about Control for any boxes: any configurations, table sizes,  *)
(* operators and number of writes.  The inductive invariant follows one    *)
(* reload through its control points, and the undo of an Apply that could  *)
(* not save; what disturbs them (an edit not yet noticed, an Apply given   *)
(* up) is kept in Disturbed until the daemon reads the file again.         *)
(***************************************************************************)
EXTENDS Control, FiniteSetTheorems, TLAPS

ConfigFields == {"mode", "pol", "tab", "mon", "sample", "iface"}

\* What config.Load returns.
Shaped(c) ==
    /\ DOMAIN c = ConfigFields /\ c.mon \in BOOLEAN
    /\ c.tab \in [Table -> SUBSET Entry] /\ \A t \in Table : IsFiniteSet(c.tab[t])

\* Types, and which activation of ReloadPolicy runs at which control point.
ControlOK ==
    /\ box \in Boxes
    /\ file # Broken => Shaped(file)
    /\ Shaped(cfgPtr) /\ Shaped(next) /\ Shaped(mcfg) /\ Shaped(base) /\ Shaped(staged)
    /\ {watching, event, timer, reloadCh, sighup, missed, overlapped, halfApplied, unsaved}
          \subseteq BOOLEAN
    /\ tables \in [Table -> SUBSET Entry]
    /\ DOMAIN monitor = {"enabled", "sample"} /\ monitor.enabled \in BOOLEAN
    /\ dpc \in {"down", "load", "ready", "select", "disable", "policy", "mask", "enable", "store"}
    /\ rpc \in [Caller -> {"off", "features", "scan", "delete", "put", "done", "failed"}]
    /\ rtab \in [Caller -> Table] /\ stale \in [Caller -> SUBSET Entry]
    /\ DOMAIN target = Caller /\ \A p \in Caller : Shaped(target[p])
    /\ Running => pinned
    /\ rpc["daemon"] # "off" <=> dpc \in {"load", "policy"}
    /\ rpc["manage"] # "off" <=> gpc \in {"policy", "undo"}
    /\ gpc = "undo" => target["manage"] = base
    /\ gpc \in {"policy", "save", "undo"} /\ ~overlapped => dpc \in {"down", "ready", "select"}
    /\ rpc["daemon"] # "off" => target["daemon"] = next
    /\ DaemonAlone => gpc = "idle"

\* How far p's ReloadPolicy has got, if nobody else writes the tables.
Progress(p) ==
    LET t == rtab[p]
        w == Want(p)
    IN /\ rpc[p] = "features" => t = "allow"
       /\ t = "cidrs" => tables["allow"] = target[p].tab["allow"]
       /\ rpc[p] = "delete" => stale[p] = tables[t] \ w
       /\ rpc[p] = "put" => stale[p] \subseteq w /\ w \ stale[p] \subseteq tables[t] /\ tables[t] \subseteq w
       /\ rpc[p] = "done" => tables = target[p].tab
       /\ rpc[p] # "failed"

\* If every list the operators write fits, so do those on their way into the maps.
Listed ==
    AllFit => /\ file # Broken => Fits(file)
              /\ Fits(next) /\ Fits(mcfg) /\ Fits(staged)

\* The tables, as long as the daemon is the only one to write them.
AloneInv ==
    DaemonAlone /\ AllFit =>
        /\ dpc \in {"load", "policy"} => Progress("daemon")
        /\ dpc \in {"ready", "select", "disable"} => tables = cfgPtr.tab
        /\ dpc \in {"mask", "enable", "store"} => tables = next.tab
        /\ dpc = "enable" => monitor.sample = next.sample
        /\ dpc = "policy" =>
              /\ cfgPtr.tab["allow"] \cap next.tab["allow"] \subseteq tables["allow"]
              /\ tables["allow"] \subseteq cfgPtr.tab["allow"] \cup next.tab["allow"]

\* The daemon will read the file again, or is excused until it does.
Disturbed == Pending \/ missed \/ halfApplied \/ file = Broken

\* Between the console's first write to the maps and its save, or the end of its undo.
Applying == gpc \in {"policy", "save", "undo"}

Unsettled == Disturbed \/ Applying

\* The features, but for a mode command under way or one that could not save.
FeaturesAre(c) == mpc # "idle" \/ unsaved \/ features = Features(c)

\* The daemon's own part of Agrees.
Holding(c) ==
    /\ monitor.enabled = c.mon /\ (c.mon => monitor.sample = c.sample)
    /\ Live(cfgPtr) = Live(c)

\* The reload in progress is one of what the file now holds.
FollowsFile ==
    ~Unsettled /\ Fits(file) =>
        /\ dpc \notin {"down", "ready", "select"} => Live(next) = Live(file)
        /\ dpc \in {"load", "policy"} =>
              Progress("daemon") /\ (rpc["daemon"] # "features" => FeaturesAre(next))
        /\ dpc = "disable" => ~next.mon
        /\ dpc = "policy" /\ ~next.mon => ~monitor.enabled
        /\ dpc \in {"mask", "enable", "store"} => FeaturesAre(next) /\ tables = next.tab
        /\ dpc \in {"mask", "enable"} => next.mon
        /\ dpc \in {"enable", "store"} /\ next.mon => monitor.sample = next.sample
        /\ dpc = "store" => monitor.enabled = next.mon
        /\ dpc \in {"ready", "select"} => FeaturesAre(file) /\ tables = file.tab /\ Holding(file)

\* An Apply that has the maps to itself: the daemon still holds what the file says, and the
\* undo is on its way back there.
UndoInv ==
    ~Disturbed /\ Fits(file) /\ Applying /\ ~overlapped /\ Running =>
        /\ Holding(file)
        /\ gpc = "undo" /\ base = file =>
              Progress("manage") /\ (rpc["manage"] # "features" => FeaturesAre(file))

ControlInv == ControlOK /\ Listed /\ AloneInv /\ FollowsFile /\ UndoInv

----------------------------------------------------------------------------
(* Types and control points *)

USE DEF Caller, Table

\* What an operator writes has the shape of a configuration.
LEMMA ConfigsShaped ==
    ASSUME box \in Boxes
    PROVE  \A c \in Configs : Shaped(c) /\ c # Broken
BY ControlConstants DEF Configs, Shaped, ConfigFields

\* ApplyLiveFrom takes the live fields of the file, as does a change of mode all others.
LEMMA Merged ==
    ASSUME NEW c, NEW d, NEW m, Shaped(c)
    PROVE  /\ Shaped(ApplyLiveFrom(d, c)) /\ Live(ApplyLiveFrom(d, c)) = Live(c)
           /\ ApplyLiveFrom(d, c).tab = c.tab /\ ApplyLiveFrom(d, c).mon = c.mon
           /\ Shaped([c EXCEPT !.mode = m]) /\ [c EXCEPT !.mode = m].tab = c.tab
BY DEF Shaped, ConfigFields, ApplyLiveFrom, Live

\* The daemon is not running and nothing has been written.
LEMMA OKInit == Init => ControlOK
<1> SUFFICES ASSUME Init PROVE ControlOK
  OBVIOUS
<1>1. file \in Configs /\ box \in Boxes
  BY DEF Init
<1>2. Shaped(file)
  BY <1>1, ConfigsShaped
<1> QED
  BY <1>1, <1>2 DEF Init, ControlOK, Running

\* The steps of ReloadPolicy, in whichever process.
LEMMA OKPolicy ==
    ASSUME ControlOK, NEW p \in Caller, ReloadPolicy(p), UNCHANGED box
    PROVE  ControlOK'
<1> USE DEF ControlOK, Running, DaemonAlone, Actors, maps, rp, daemon, watcher, modecmd, console,
        disk, Others
<1>0. Want(p) \subseteq Entry
  BY DEF Want, Shaped
<1>1. CASE PutFeatures(p)
  BY <1>1 DEF PutFeatures
<1>2. CASE Scan(p)
  BY <1>2 DEF Scan
<1>3. CASE DeletesDone(p)
  BY <1>0, <1>3 DEF DeletesDone
<1>4. CASE PutsDone(p)
  BY <1>4 DEF PutsDone
<1>5. CASE \E e \in Entry : DeleteStale(p, e)
  BY <1>5 DEF DeleteStale
<1>6. CASE \E e \in Entry : PutWanted(p, e)
  BY <1>6 DEF PutWanted
<1> QED
  BY <1>1, <1>2, <1>3, <1>4, <1>5, <1>6 DEF ReloadPolicy

\* The daemon from its start to the end of a reload.
LEMMA OKDaemon ==
    ASSUME ControlOK, Start \/ Daemon, UNCHANGED box
    PROVE  ControlOK'
<1> USE DEF ControlOK, Running, DaemonAlone, Actors, maps, rp, daemon, watcher, modecmd, console,
        disk, Call, Reap
<1>1. CASE Start
  BY <1>1 DEF Start
<1>2. CASE Attached
  BY <1>2 DEF Attached, Shaped
<1>3. CASE LoadFailed \/ NotifySignals \/ PolicyDone
  BY <1>3 DEF LoadFailed, NotifySignals, PolicyDone
<1>4. CASE ReloadOnHup \/ ReloadOnEvent
  <2>1. Begin /\ dpc = "select" /\ {reloadCh', sighup'} \subseteq BOOLEAN
    BY <1>4 DEF ReloadOnHup, ReloadOnEvent
  <2>2. file # Broken => Shaped(ApplyLiveFrom(cfgPtr, file))
    BY Merged
  <2>3. CASE file = Broken
    BY <2>1, <2>3 DEF Begin
  <2>4. CASE file # Broken /\ UNCHANGED rp
    BY <2>1, <2>2, <2>4 DEF Begin
  <2>5. CASE file # Broken /\ Call("daemon", ApplyLiveFrom(cfgPtr, file)) /\ dpc' = "policy"
    BY <2>1, <2>2, <2>5 DEF Begin
  <2> QED
    BY <2>1, <2>3, <2>4, <2>5 DEF Begin
<1>5. CASE DisableMonitor
  BY <1>5 DEF DisableMonitor
<1>6. CASE PolicyFailed
  BY <1>6 DEF PolicyFailed, Shaped
<1>7. CASE SetMask \/ EnableMonitor \/ StoreConfig
  BY <1>7 DEF SetMask, EnableMonitor, StoreConfig
<1> QED
  BY <1>1, <1>2, <1>3, <1>4, <1>5, <1>6, <1>7 DEF Daemon

\* The watcher, the mode command, edits and signals.
LEMMA OKOutside ==
    ASSUME ControlOK, UNCHANGED box,
           \/ AddWatch \/ ReadEvent \/ Fire \/ ModeCmd \/ Hup \/ Exit
           \/ \E c \in Configs \cup {Broken} : Edit(c)
    PROVE  ControlOK'
<1> USE DEF ControlOK, Running, DaemonAlone, Actors, maps, rp, daemon, watcher, modecmd, console,
        disk, Reap
<1>1. CASE AddWatch \/ ReadEvent \/ Fire
  BY <1>1 DEF AddWatch, ReadEvent, Fire
<1>2. CASE ModeCmd
  <2>1. file # Broken => Shaped([file EXCEPT !.mode = mfv.mode])
    BY Merged
  <2>2. CASE ModeLoad
    BY <2>1, <2>2 DEF ModeLoad
  <2>3. CASE ModeSave
    BY <2>3 DEF ModeSave, Write
  <2>4. CASE ModePut \/ \E m \in Mode : ModeRead(m)
    BY <2>4 DEF ModePut, ModeRead
  <2> QED
    BY <1>2, <2>2, <2>3, <2>4 DEF ModeCmd
<1>3. CASE Hup \/ Exit
  <2>1. CASE Down
    BY <2>1 DEF Down
  <2>2. CASE Hup /\ ~Down
    BY <2>2 DEF Hup
  <2> QED
    BY <1>3, <2>1, <2>2 DEF Exit
<1>4. CASE \E c \in Configs \cup {Broken} : Edit(c)
  BY <1>4, ConfigsShaped DEF Edit, Write
<1> QED
  BY <1>1, <1>2, <1>3, <1>4

\* The console.
LEMMA OKConsole ==
    ASSUME ControlOK, Console, UNCHANGED box
    PROVE  ControlOK'
<1> USE DEF ControlOK, Running, DaemonAlone, Actors, maps, rp, daemon, watcher, modecmd, console,
        disk, Reap, Call
<1>1. CASE ConsoleLoad \/ ConsoleHash \/ ApplyRehash
  BY <1>1 DEF ConsoleLoad, ConsoleHash, ApplyRehash
<1>2. CASE \E c \in Configs : ApplyCheck(c)
  <2> PICK c \in Configs : ApplyCheck(c)
    BY <1>2
  <2>0. Shaped(c) /\ gpc = "loaded" /\ rpc["manage"] = "off"
    BY ConfigsShaped DEF ApplyCheck
  <2>1. CASE gpc' = "policy" /\ Call("manage", c)
    BY <2>0, <2>1 DEF ApplyCheck
  <2>2. CASE gpc' # "policy" /\ UNCHANGED rp
    BY <2>0, <2>2 DEF ApplyCheck
  <2> QED
    BY <2>1, <2>2 DEF ApplyCheck
<1>3. CASE ApplyPolicy \/ ApplyUndone
  BY <1>3 DEF ApplyPolicy, ApplyUndone
<1>4. CASE ApplySave
  BY <1>4 DEF ApplySave, Write
<1>5. CASE ApplySaveFailed
  BY <1>5 DEF ApplySaveFailed
<1> QED
  BY <1>1, <1>2, <1>3, <1>4, <1>5 DEF Console

\* All together.
LEMMA OKStep ==
    ASSUME ControlOK, [Next]_vars
    PROVE  ControlOK'
<1>1. CASE UNCHANGED vars
  BY <1>1 DEF vars, ControlOK, Running, DaemonAlone, Actors, maps, rp, daemon, watcher, modecmd,
              console, disk
<1>2. CASE Next
  BY <1>2, OKPolicy, OKDaemon, OKOutside, OKConsole DEF Next, Step
<1> QED
  BY <1>1, <1>2

----------------------------------------------------------------------------
(* One reload of the tables *)

\* A map that holds only wanted entries has room for another wanted one.
LEMMA RoomForWanted ==
    ASSUME ControlOK, NEW c, Shaped(c), Fits(c), NEW t \in Table,
           tables[t] \subseteq c.tab[t], NEW e \in c.tab[t], e \notin tables[t]
    PROVE  Cardinality(tables[t]) < Capacity
<1>1. IsFiniteSet(c.tab[t]) /\ Cardinality(c.tab[t]) <= Capacity
  BY DEF Shaped, Fits
<1>2. Capacity \in Nat
  BY ControlConstants DEF ControlOK, Capacity
<1>3. Cardinality(tables[t]) \in Nat /\ Cardinality(c.tab[t]) \in Nat
  BY <1>1, FS_Subset, FS_CardinalityType
<1>4. Cardinality(tables[t]) <= Cardinality(c.tab[t]) /\ Cardinality(tables[t]) # Cardinality(c.tab[t])
  BY <1>1, FS_Subset
<1> QED
  BY <1>1, <1>2, <1>3, <1>4

\* Delete-stale-then-put-wanted, undisturbed and with lists that fit, never fails and ends
\* with exactly the wanted tables.
LEMMA ProgressPolicy ==
    ASSUME ControlOK, NEW p \in Caller, Progress(p), Fits(target[p]), ReloadPolicy(p)
    PROVE  Progress(p)'
<1>0. /\ rtab \in [Caller -> Table] /\ stale \in [Caller -> SUBSET Entry]
      /\ tables \in [Table -> SUBSET Entry] /\ Shaped(target[p])
      /\ rpc \in [Caller -> {"off", "features", "scan", "delete", "put", "done", "failed"}]
  BY DEF ControlOK
<1>1. CASE PutFeatures(p)
  BY <1>0, <1>1 DEF PutFeatures, Progress, Want
<1>2. CASE Scan(p)
  BY <1>0, <1>2 DEF Scan, Progress, Want, maps
<1>3. CASE DeletesDone(p)
  BY <1>0, <1>3 DEF DeletesDone, Progress, Want, maps
<1>4. CASE PutsDone(p)
  <2>1. tables[rtab[p]] = target[p].tab[rtab[p]]
    BY <1>0, <1>4 DEF PutsDone, Progress, Want
  <2>2. CASE rtab[p] = "allow"
    BY <1>0, <1>4, <2>1, <2>2 DEF PutsDone, Progress, Want, maps
  <2>3. CASE rtab[p] = "cidrs"
    <3>1. tables["allow"] = target[p].tab["allow"] /\ tables["cidrs"] = target[p].tab["cidrs"]
      BY <1>0, <2>1, <2>3 DEF Progress
    <3>2. tables = target[p].tab
      BY <1>0, <3>1 DEF Shaped
    <3> QED
      BY <1>0, <1>4, <2>3, <3>1, <3>2 DEF PutsDone, Progress, Want, maps
  <2> QED
    BY <1>0, <2>2, <2>3
<1>5. CASE \E e \in Entry : DeleteStale(p, e)
  <2> PICK e \in Entry : DeleteStale(p, e)
    BY <1>5
  <2>1. e \in tables[rtab[p]]
    BY DEF DeleteStale, Progress
  <2> QED
    BY <1>0, <2>1 DEF DeleteStale, Progress, Want
<1>6. CASE \E e \in Entry : PutWanted(p, e)
  <2> PICK e \in Entry : PutWanted(p, e)
    BY <1>6
  <2>1. e \in target[p].tab[rtab[p]] /\ tables[rtab[p]] \subseteq target[p].tab[rtab[p]]
    BY <1>0 DEF PutWanted, Progress, Want
  <2>2. e \in tables[rtab[p]] \/ Cardinality(tables[rtab[p]]) < Capacity
    BY <1>0, <2>1, RoomForWanted
  <2> QED
    BY <1>0, <2>1, <2>2 DEF PutWanted, Progress, Want
<1> QED
  BY <1>1, <1>2, <1>3, <1>4, <1>5, <1>6 DEF ReloadPolicy

\* A call of ReloadPolicy starts with the features.
LEMMA ProgressCall ==
    ASSUME ControlOK, NEW p \in Caller, NEW c, Call(p, c)
    PROVE  Progress(p)' /\ rpc'[p] = "features"
<1>1. rpc'[p] = "features" /\ rtab'[p] = "allow"
  BY DEF ControlOK, Call
<1> QED
  BY <1>1 DEF Progress

\* The lists of merged and re-moded configurations are those of the file.
LEMMA ListedStep ==
    ASSUME ControlOK, Listed, [Next]_vars
    PROVE  Listed'
<1> SUFFICES ASSUME AllFit' PROVE (file # Broken => Fits(file))' /\ (Fits(next) /\ Fits(mcfg) /\ Fits(staged))'
  BY DEF Listed
<1>1. UNCHANGED box
  BY DEF Next, vars
<1>2. AllFit /\ UNCHANGED <<Configs, Capacity>>
  BY <1>1 DEF AllFit, Fits, Configs, Capacity
<1>3. /\ file # Broken => Fits(file)
      /\ Fits(next) /\ Fits(mcfg) /\ Fits(staged) /\ \A c \in Configs : Fits(c)
  BY <1>2 DEF Listed, AllFit
<1>4. file # Broken => /\ Fits(ApplyLiveFrom(cfgPtr, file)) /\ Fits([file EXCEPT !.mode = mfv.mode])
  BY <1>3, Merged DEF Fits, ControlOK
<1>5. /\ file' \in {file, mcfg, staged, Broken} \cup Configs
      /\ next' \in {next, file, ApplyLiveFrom(cfgPtr, file)} /\ (next' # next => file # Broken)
      /\ mcfg' \in {mcfg, [file EXCEPT !.mode = mfv.mode]} /\ (mcfg' # mcfg => file # Broken)
      /\ staged' \in {staged} \cup Configs
  <2> USE DEF vars, maps, rp, daemon, watcher, modecmd, console, disk, Others
  <2>1. CASE \E p \in Caller : ReloadPolicy(p)
    BY <2>1 DEF ReloadPolicy, PutFeatures, Scan, DeletesDone, PutsDone, DeleteStale, PutWanted
  <2>2. CASE Start \/ Daemon
    BY <2>2 DEF Start, Daemon, Attached, LoadFailed, NotifySignals, ReloadOnHup, ReloadOnEvent, Begin,
         DisableMonitor, PolicyDone, PolicyFailed, SetMask, EnableMonitor, StoreConfig
  <2>3. CASE AddWatch \/ ReadEvent \/ Fire \/ ModeCmd \/ Hup \/ Exit
    BY <2>3 DEF AddWatch, ReadEvent, Fire, ModeCmd, ModeRead, ModePut, ModeLoad, ModeSave, Write,
         Hup, Exit, Down
  <2>4. CASE Console
    BY <2>4 DEF Console, ConsoleLoad, ConsoleHash, ApplyCheck, ApplyPolicy, ApplySave, ApplySaveFailed,
         ApplyUndone, ApplyRehash, Write
  <2>5. CASE \E c \in Configs \cup {Broken} : Edit(c)
    BY <2>5 DEF Edit, Write
  <2> QED
    BY <2>1, <2>2, <2>3, <2>4, <2>5 DEF Next, Step
<1>6. (file' # Broken => Fits(file')) /\ Fits(next') /\ Fits(mcfg') /\ Fits(staged')
  BY <1>3, <1>4, <1>5
<1> QED
  BY <1>2, <1>6 DEF Fits

----------------------------------------------------------------------------
(* The daemon alone *)

\* What the daemon and its ReloadPolicy work on.
OwnState ==
    <<box, dpc, cfgPtr, next, monitor, tables, rpc["daemon"], rtab["daemon"], stale["daemon"],
      target["daemon"]>>

\* Watcher, mode command, editors and console leave it alone but for the console's own
\* ReloadPolicy.
LEMMA OthersLeaveIt ==
    ASSUME ControlOK, UNCHANGED box,
           \/ AddWatch \/ ReadEvent \/ Fire \/ ModeCmd \/ Console
           \/ \E c \in Configs \cup {Broken} : Edit(c)
           \/ Hup /\ dpc' # "down"
    PROVE  UNCHANGED OwnState
<1> USE DEF OwnState, maps, rp, daemon, watcher, modecmd, console, disk, Others
<1>1. CASE AddWatch \/ ReadEvent \/ Fire \/ \E c \in Configs \cup {Broken} : Edit(c)
  BY <1>1 DEF AddWatch, ReadEvent, Fire, Edit
<1>2. CASE ModeCmd
  BY <1>2 DEF ModeCmd, ModeRead, ModePut, ModeLoad, ModeSave
<1>3. CASE Console
  <2>1. CASE ConsoleLoad \/ ConsoleHash \/ ApplyRehash \/ ApplySave
    BY <2>1 DEF ConsoleLoad, ConsoleHash, ApplyRehash, ApplySave
  <2>2. CASE ApplyPolicy \/ ApplyUndone
    BY <2>2 DEF ApplyPolicy, ApplyUndone, Reap, ControlOK
  <2>3. CASE ApplySaveFailed
    BY <2>3 DEF ApplySaveFailed, Call, ControlOK
  <2>4. CASE \E c \in Configs : ApplyCheck(c)
    BY <2>4 DEF ApplyCheck, Call, ControlOK
  <2> QED
    BY <1>3, <2>1, <2>2, <2>3, <2>4 DEF Console
<1>4. CASE Hup /\ dpc' # "down"
  BY <1>4 DEF Hup, Down
<1> QED
  BY <1>1, <1>2, <1>3, <1>4

\* Progress is a matter of the tables and the caller's own state.
LEMMA ProgressFrame ==
    ASSUME NEW p \in Caller, Progress(p), UNCHANGED <<tables, rpc[p], rtab[p], stale[p], target[p]>>
    PROVE  Progress(p)'
BY DEF Progress, Want

\* Entries of the running and the requested allowlist, step by step.
LEMMA AlonePolicy ==
    ASSUME ControlOK, Listed, AloneInv, NEW p \in Caller, ReloadPolicy(p), UNCHANGED box
    PROVE  AloneInv'
<1> SUFFICES ASSUME DaemonAlone, AllFit PROVE AloneInv'
  BY DEF AloneInv, DaemonAlone, AllFit, Fits, Actors, Configs, Capacity
<1>0. /\ rtab \in [Caller -> Table] /\ stale \in [Caller -> SUBSET Entry]
      /\ tables \in [Table -> SUBSET Entry]
      /\ rpc["daemon"] # "off" => target["daemon"] = next
  BY DEF ControlOK
<1>1. rpc[p] # "off" /\ UNCHANGED <<dpc, cfgPtr, next, monitor>>
  BY DEF ReloadPolicy, PutFeatures, Scan, DeletesDone, PutsDone, DeleteStale, PutWanted, Others, daemon
<1>2. p = "daemon" /\ dpc \in {"load", "policy"} /\ target["daemon"] = next
  BY <1>1 DEF ControlOK
<1>3. Progress("daemon")' /\ Progress("daemon")
  BY <1>1, <1>2, ProgressPolicy DEF AloneInv, Listed
<1>4. ASSUME dpc = "policy"
      PROVE  /\ cfgPtr.tab["allow"] \cap next.tab["allow"] \subseteq tables'["allow"]
             /\ tables'["allow"] \subseteq cfgPtr.tab["allow"] \cup next.tab["allow"]
  <2>1. /\ cfgPtr.tab["allow"] \cap next.tab["allow"] \subseteq tables["allow"]
        /\ tables["allow"] \subseteq cfgPtr.tab["allow"] \cup next.tab["allow"]
    BY <1>4 DEF AloneInv
  <2>2. CASE UNCHANGED tables
    BY <2>1, <2>2
  <2>3. CASE \E e \in Entry : DeleteStale("daemon", e)
    BY <1>0, <1>2, <1>3, <2>1, <2>3 DEF DeleteStale, Progress, Want
  <2>4. CASE \E e \in Entry : PutWanted("daemon", e)
    BY <1>0, <1>2, <1>3, <2>1, <2>4 DEF PutWanted, Progress, Want
  <2> QED
    BY <1>2, <2>2, <2>3, <2>4 DEF ReloadPolicy, PutFeatures, Scan, DeletesDone, PutsDone, maps
<1> QED
  BY <1>1, <1>2, <1>3, <1>4 DEF AloneInv

\* The daemon's own steps.
LEMMA AloneDaemon ==
    ASSUME ControlOK, AloneInv, Start \/ Daemon, UNCHANGED box
    PROVE  AloneInv'
<1> SUFFICES ASSUME DaemonAlone, AllFit PROVE AloneInv'
  BY DEF AloneInv, DaemonAlone, AllFit, Fits, Actors, Configs, Capacity
<1> USE DEF AloneInv, maps, daemon, rp
<1>1. CASE Start
  BY <1>1, ProgressCall DEF Start
<1>2. CASE Attached
  BY <1>2 DEF Attached, Progress, ControlOK
<1>3. CASE LoadFailed \/ NotifySignals
  BY <1>3 DEF LoadFailed, NotifySignals
<1>4. CASE ReloadOnHup \/ ReloadOnEvent
  <2>1. Begin /\ dpc = "select" /\ UNCHANGED <<tables, cfgPtr, monitor>>
    BY <1>4 DEF ReloadOnHup, ReloadOnEvent, Begin
  <2>2. CASE dpc' = "policy" /\ Call("daemon", next')
    BY <2>1, <2>2, ProgressCall
  <2>3. CASE dpc' \in {"select", "disable"}
    BY <2>1, <2>3
  <2> QED
    BY <2>1, <2>2, <2>3 DEF Begin
<1>5. CASE DisableMonitor
  BY <1>5, ProgressCall DEF DisableMonitor
<1>6. CASE PolicyDone
  BY <1>6 DEF PolicyDone, Progress, ControlOK
<1>7. CASE PolicyFailed
  BY <1>7 DEF PolicyFailed, Progress
<1>8. CASE SetMask \/ EnableMonitor \/ StoreConfig
  BY <1>8 DEF SetMask, EnableMonitor, StoreConfig, ControlOK
<1> QED
  BY <1>1, <1>2, <1>3, <1>4, <1>5, <1>6, <1>7, <1>8 DEF Daemon

\* The tables the daemon alone writes are those of the configuration at hand.
LEMMA AloneStep ==
    ASSUME ControlOK, Listed, AloneInv, [Next]_vars
    PROVE  AloneInv'
<1>1. UNCHANGED box
  BY DEF Next, vars
<1>2. CASE UNCHANGED OwnState
  BY <1>2, ProgressFrame DEF AloneInv, OwnState, DaemonAlone, AllFit, Fits, Actors, Configs, Capacity
<1>3. CASE \E p \in Caller : ReloadPolicy(p)
  BY <1>1, <1>3, AlonePolicy
<1>4. CASE Start \/ Daemon
  BY <1>1, <1>4, AloneDaemon
<1>5. CASE dpc' = "down"
  BY <1>5 DEF AloneInv
<1>6. CASE UNCHANGED vars
  BY <1>2, <1>6 DEF vars, OwnState, maps, rp, daemon
<1> QED
  BY <1>1, <1>2, <1>3, <1>4, <1>5, <1>6, OthersLeaveIt DEF Next, Step, Exit, Down

----------------------------------------------------------------------------
(* The file and the maps *)

\* Nothing but the daemon's next look at the file makes a disturbed box undisturbed: a write
\* queues an event or counts as missed, an event becomes a timer and the timer a reload.
\* And where nothing is disturbed after a step, that step did not write the file.
LEMMA StaysDisturbed ==
    ASSUME ControlOK, [Next]_vars, Running, dpc' # "down", ~ReloadOnHup, ~ReloadOnEvent,
           ~Disturbed'
    PROVE  ~Disturbed /\ UNCHANGED file
<1> USE DEF Disturbed, Pending, Running, maps, rp, daemon, watcher, modecmd, console, disk, Others,
        Reap, Call
<1>0. /\ {watching, event, timer, reloadCh, sighup, missed, halfApplied} \subseteq BOOLEAN
      /\ pinned /\ dpc # "down"
  BY DEF ControlOK
<1>1. CASE UNCHANGED vars
  BY <1>1 DEF vars
<1>2. CASE \E p \in Caller : ReloadPolicy(p)
  BY <1>2 DEF ReloadPolicy, PutFeatures, Scan, DeletesDone, PutsDone, DeleteStale, PutWanted
<1>3. CASE Start \/ Daemon
  <2>1. ~Start
    BY <1>0 DEF Start
  <2> QED
    BY <1>3, <2>1 DEF Daemon, Attached, LoadFailed, NotifySignals, DisableMonitor, PolicyDone,
         PolicyFailed, SetMask, EnableMonitor, StoreConfig
<1>4. CASE AddWatch \/ ReadEvent \/ Fire
  BY <1>4 DEF AddWatch, ReadEvent, Fire
<1>5. CASE ModeCmd
  <2>1. CASE ModeLoad \/ ModePut \/ \E m \in Mode : ModeRead(m)
    BY <2>1 DEF ModeRead, ModePut, ModeLoad
  <2>2. CASE ModeSave
    <3>1. CASE Write(mcfg)
      BY <1>0, <2>2, <3>1 DEF ModeSave, Write
    <3>2. CASE UNCHANGED <<file, event, missed>>
      BY <2>2, <3>2 DEF ModeSave
    <3> QED
      BY <2>2, <3>1, <3>2 DEF ModeSave
  <2> QED
    BY <1>5, <2>1, <2>2 DEF ModeCmd
<1>6. CASE ConsoleLoad \/ ConsoleHash \/ ApplyRehash
  BY <1>6 DEF ConsoleLoad, ConsoleHash, ApplyRehash
<1>7. CASE ApplyPolicy \/ ApplyUndone \/ ApplySaveFailed
  <2>1. UNCHANGED <<file, missed, watcher, sighup>>
    BY <1>7 DEF ApplyPolicy, ApplyUndone, ApplySaveFailed
  <2>2. halfApplied => halfApplied'
    <3>1. CASE ApplyPolicy \/ ApplySaveFailed
      BY <3>1 DEF ApplyPolicy, ApplySaveFailed
    <3>2. CASE ApplyUndone
      BY <3>2 DEF ApplyUndone
    <3> QED
      BY <1>7, <3>1, <3>2
  <2> QED
    BY <2>1, <2>2
<1>8. CASE ApplySave
  BY <1>0, <1>8 DEF ApplySave, Write
<1>9. CASE \E c \in Configs : ApplyCheck(c)
  BY <1>0, <1>9 DEF ApplyCheck
<1>10. CASE \E c \in Configs \cup {Broken} : Edit(c)
  BY <1>0, <1>10 DEF Edit, Write
<1>11. CASE Hup \/ Exit
  BY <1>11 DEF Hup, Exit, Down
<1> QED
  BY <1>1, <1>2, <1>3, <1>4, <1>5, <1>6, <1>7, <1>8, <1>9, <1>10, <1>11 DEF Next, Step, Console

\* An Apply that has begun to change the maps ends undisturbed only by an undo that had them
\* to itself, did not fail and brought back the file.
LEMMA ApplyEnds ==
    ASSUME ControlOK, [Next]_vars, Running, dpc' # "down", ~ReloadOnHup, ~ReloadOnEvent,
           ~Disturbed', Applying, ~Applying'
    PROVE  ApplyUndone /\ gpc = "undo" /\ rpc["manage"] = "done" /\ ~overlapped /\ base = file
<1> USE DEF Disturbed, Pending, Running, Applying
<1>0. {overlapped, halfApplied, watching} \subseteq BOOLEAN /\ dpc # "down"
  BY DEF ControlOK
<1>1. gpc' # gpc /\ UNCHANGED box
  BY DEF Next, vars
<1>2. Console
  <2> USE DEF maps, rp, daemon, watcher, modecmd, console, disk, Others
  <2>1. CASE UNCHANGED vars
    BY <1>1, <2>1 DEF vars
  <2>2. CASE \E p \in Caller : ReloadPolicy(p)
    BY <1>1, <2>2 DEF ReloadPolicy, PutFeatures, Scan, DeletesDone, PutsDone, DeleteStale, PutWanted
  <2>3. CASE Start \/ Daemon
    BY <1>0, <1>1, <2>3 DEF Start, Daemon, Attached, LoadFailed, NotifySignals, DisableMonitor, PolicyDone,
         PolicyFailed, SetMask, EnableMonitor, StoreConfig
  <2>4. CASE AddWatch \/ ReadEvent \/ Fire \/ ModeCmd \/ Hup \/ Exit
    BY <1>1, <2>4 DEF AddWatch, ReadEvent, Fire, ModeCmd, ModeRead, ModePut, ModeLoad, ModeSave,
         Hup, Exit, Down
  <2>5. CASE \E c \in Configs \cup {Broken} : Edit(c)
    BY <1>1, <2>5 DEF Edit
  <2> QED
    BY <2>1, <2>2, <2>3, <2>4, <2>5 DEF Next, Step
<1>3. CASE ApplyUndone
  BY <1>0, <1>3 DEF ApplyUndone
<1>4. CASE ApplySave
  BY <1>0, <1>4 DEF ApplySave, Write
<1>5. CASE ApplyPolicy \/ ApplySaveFailed
  BY <1>5 DEF ApplyPolicy, ApplySaveFailed
<1> QED
  BY <1>2, <1>3, <1>4, <1>5 DEF Console, ConsoleLoad, ConsoleHash, ApplyRehash, ApplyCheck

\* The features a mode command leaves behind are saved, and the daemon told, or unsaved.
LEMMA FeaturesFrame ==
    ASSUME ControlOK, [Next]_vars, Running, dpc' # "down", ~ReloadOnHup, ~ReloadOnEvent,
           ~Disturbed', ~(\E p \in Caller : PutFeatures(p)), NEW c, FeaturesAre(c)
    PROVE  FeaturesAre(c)'
<1> USE DEF FeaturesAre, Disturbed, Pending, Running, maps, rp, daemon, watcher, modecmd, console, disk, Others
<1>0. {unsaved, watching} \subseteq BOOLEAN /\ dpc # "down"
  BY DEF ControlOK
<1>1. CASE UNCHANGED vars
  BY <1>1 DEF vars
<1>2. CASE \E p \in Caller : ReloadPolicy(p)
  BY <1>2 DEF ReloadPolicy, Scan, DeletesDone, PutsDone, DeleteStale, PutWanted
<1>3. CASE Start \/ Daemon
  BY <1>0, <1>3 DEF Start, Daemon, Attached, LoadFailed, NotifySignals, DisableMonitor, PolicyDone,
       PolicyFailed, SetMask, EnableMonitor, StoreConfig
<1>4. CASE ModeCmd
  BY <1>0, <1>4 DEF ModeCmd, ModeRead, ModePut, ModeLoad, ModeSave, Write
<1>5. CASE Console
  BY <1>5 DEF Console, ConsoleLoad, ConsoleHash, ApplyCheck, ApplyPolicy, ApplySave, ApplySaveFailed,
       ApplyUndone, ApplyRehash
<1>6. CASE AddWatch \/ ReadEvent \/ Fire \/ Hup \/ Exit \/ \E d \in Configs \cup {Broken} : Edit(d)
  BY <1>6 DEF AddWatch, ReadEvent, Fire, Edit, Hup, Exit, Down
<1> QED
  BY <1>1, <1>2, <1>3, <1>4, <1>5, <1>6 DEF Next, Step

\* The daemon is not started by anything but Start.
LEMMA StaysDown ==
    ASSUME ControlOK, [Next]_vars, ~Start, dpc' # "down"
    PROVE  Running
<1> SUFFICES ASSUME dpc = "down" PROVE FALSE
  BY DEF Running
<1>0. UNCHANGED box
  BY DEF Next, vars
<1>1. CASE \E p \in Caller : ReloadPolicy(p)
  BY <1>1 DEF ReloadPolicy, PutFeatures, Scan, DeletesDone, PutsDone, DeleteStale,
       PutWanted, Others, daemon
<1>2. CASE Daemon
  BY <1>2 DEF Daemon, Attached, LoadFailed, NotifySignals, ReloadOnHup, ReloadOnEvent, DisableMonitor,
       PolicyDone, PolicyFailed, SetMask, EnableMonitor, StoreConfig
<1>3. CASE UNCHANGED OwnState
  BY <1>3 DEF OwnState
<1>4. CASE UNCHANGED vars
  BY <1>4 DEF vars, daemon
<1> QED
  BY <1>0, <1>1, <1>2, <1>3, <1>4, OthersLeaveIt DEF Next, Step, Exit, Down

\* The daemon reads the file: at its start and at every reload.
LEMMA FollowsBegin ==
    ASSUME ControlOK, Start \/ ReloadOnHup \/ ReloadOnEvent, UNCHANGED box
    PROVE  FollowsFile'
<1> SUFFICES ASSUME ~Unsettled' PROVE FollowsFile'
  BY DEF FollowsFile
<1>1. file' = file /\ file # Broken /\ Shaped(file)
  BY DEF Start, ReloadOnHup, ReloadOnEvent, Begin, Unsettled, Disturbed, ControlOK
<1>2. CASE Start
  <2>1. dpc' = "load" /\ next' = file /\ Call("daemon", file)
    BY <1>2 DEF Start
  <2> QED
    BY <1>1, <2>1, ProgressCall DEF FollowsFile
<1>3. CASE ReloadOnHup \/ ReloadOnEvent
  <2>1. /\ next' = ApplyLiveFrom(cfgPtr, file)
        /\ \/ dpc' = "policy" /\ next'.mon /\ Call("daemon", next')
           \/ dpc' = "disable" /\ ~next'.mon
    BY <1>1, <1>3 DEF ReloadOnHup, ReloadOnEvent, Begin
  <2>2. Live(next') = Live(file)
    BY <1>1, <2>1, Merged
  <2> QED
    BY <1>1, <2>1, <2>2, ProgressCall DEF FollowsFile, Live
<1> QED
  BY <1>2, <1>3

\* What the daemon does once it has read the file.
LEMMA FollowsDaemon ==
    ASSUME ControlOK, FollowsFile, Daemon, ~ReloadOnHup, ~ReloadOnEvent, dpc' # "down",
           ~Unsettled, UNCHANGED <<file, box>>, \A c : FeaturesAre(c) => FeaturesAre(c)'
    PROVE  FollowsFile'
<1> SUFFICES ASSUME Fits(file) PROVE FollowsFile'
  BY DEF FollowsFile, Fits, Capacity
<1> USE DEF FollowsFile, maps, rp, daemon
<1>0. Shaped(next) /\ next.mon \in BOOLEAN /\ Shaped(file)
  BY DEF ControlOK, Shaped, Unsettled, Disturbed
<1>1. CASE Attached
  <2>1. tables = next.tab /\ FeaturesAre(next) /\ Live(next) = Live(file)
    BY <1>1 DEF Attached, Progress, ControlOK
  <2>2. /\ dpc' = "ready" /\ cfgPtr' = next /\ UNCHANGED tables
        /\ monitor' = [enabled |-> next.mon, sample |-> next.sample]
    BY <1>1 DEF Attached
  <2>3. Features(next) = Features(file) /\ next.tab = file.tab /\ Holding(file)'
    BY <2>1, <2>2 DEF Holding, Live, Features
  <2>4. FeaturesAre(file)'
    BY <2>1, <2>3 DEF FeaturesAre
  <2> QED
    BY <2>1, <2>2, <2>3, <2>4
<1>2. CASE NotifySignals
  BY <1>2 DEF NotifySignals, Holding
<1>3. CASE DisableMonitor
  <2>1. dpc' = "policy" /\ ~monitor'.enabled /\ Call("daemon", next) /\ UNCHANGED next
        /\ Live(next) = Live(file)
    BY <1>3 DEF DisableMonitor
  <2> QED
    BY <2>1, ProgressCall DEF Live
<1>4. CASE PolicyDone
  <2>1. tables = next.tab /\ FeaturesAre(next)' /\ Live(next) = Live(file)
    BY <1>4 DEF PolicyDone, Progress, ControlOK, FeaturesAre
  <2> QED
    BY <1>0, <1>4, <2>1 DEF PolicyDone, Live, ControlOK
<1>5. CASE PolicyFailed
  BY <1>5 DEF PolicyFailed, Progress
<1>6. CASE SetMask
  <2>1. FeaturesAre(next)'
    BY <1>6 DEF SetMask, FeaturesAre
  <2> QED
    BY <1>6, <2>1 DEF SetMask, ControlOK, Live
<1>7. CASE EnableMonitor
  <2>1. FeaturesAre(next)'
    BY <1>7 DEF EnableMonitor, FeaturesAre
  <2> QED
    BY <1>0, <1>7, <2>1 DEF EnableMonitor, ControlOK, Live
<1>8. CASE StoreConfig
  <2>1. Features(next) = Features(file) /\ next.tab = file.tab /\ Holding(file)'
    BY <1>0, <1>8 DEF StoreConfig, Holding, Live, Features
  <2>2. FeaturesAre(file)'
    BY <1>8, <2>1 DEF StoreConfig, FeaturesAre
  <2> QED
    BY <1>8, <2>1, <2>2 DEF StoreConfig
<1>9. CASE LoadFailed
  BY <1>9 DEF LoadFailed
<1> QED
  BY <1>1, <1>2, <1>3, <1>4, <1>5, <1>6, <1>7, <1>8, <1>9 DEF Daemon

\* A step of ReloadPolicy puts the features it was called with, or leaves them alone.
LEMMA PolicyFeatures ==
    ASSUME ControlOK, NEW p \in Caller, ReloadPolicy(p), NEW c, c = target[p],
           rpc[p] # "features" => FeaturesAre(c)
    PROVE  rpc'[p] # "features" => FeaturesAre(c)'
BY DEF ReloadPolicy, PutFeatures, Scan, DeletesDone, PutsDone, DeleteStale, PutWanted, maps, Others,
       modecmd, FeaturesAre, ControlOK

\* The tables under way, while no Apply writes them.
LEMMA FollowsPolicy ==
    ASSUME ControlOK, FollowsFile, NEW p \in Caller, ReloadPolicy(p), ~Unsettled,
           UNCHANGED <<file, box>>
    PROVE  FollowsFile'
<1> SUFFICES ASSUME Fits(file) PROVE FollowsFile'
  BY DEF FollowsFile, Fits, Capacity
<1>1. rpc[p] # "off" /\ UNCHANGED <<dpc, cfgPtr, next, monitor, target>>
  BY DEF ReloadPolicy, PutFeatures, Scan, DeletesDone, PutsDone, DeleteStale, PutWanted, Others, daemon
<1>2. p = "daemon" /\ dpc \in {"load", "policy"} /\ target["daemon"] = next
  BY <1>1 DEF ControlOK, Unsettled, Applying
<1>3. Live(next) = Live(file) /\ Progress("daemon")
  BY <1>2 DEF FollowsFile
<1>4. Fits(next)
  BY <1>3 DEF Fits, Live
<1>5. Progress("daemon")'
  BY <1>2, <1>3, <1>4, ProgressPolicy
<1>6. rpc'["daemon"] # "features" => FeaturesAre(next)'
  <2>1. rpc["daemon"] # "features" => FeaturesAre(next)
    BY <1>2 DEF FollowsFile
  <2>2. rpc'["daemon"] # "features" => FeaturesAre(target["daemon"])'
    BY <1>1, <1>2, <2>1, PolicyFeatures DEF FeaturesAre
  <2> QED
    BY <1>1, <1>2, <2>2 DEF FeaturesAre
<1> QED
  BY <1>1, <1>2, <1>3, <1>5, <1>6 DEF FollowsFile, Live

\* Whatever happens beside it, a settled daemon follows the file.
LEMMA FollowsStep ==
    ASSUME ControlOK, FollowsFile, UndoInv, [Next]_vars
    PROVE  FollowsFile'
<1>1. UNCHANGED box
  BY DEF Next, vars
<1>2. CASE Start \/ ReloadOnHup \/ ReloadOnEvent
  BY <1>1, <1>2, FollowsBegin
<1>3. CASE dpc' = "down"
  BY <1>3 DEF FollowsFile
<1>4. CASE ~Start /\ ~ReloadOnHup /\ ~ReloadOnEvent /\ dpc' # "down"
  <2> SUFFICES ASSUME ~Unsettled', Fits(file)' PROVE FollowsFile'
    BY DEF FollowsFile
  <2>1. Running
    BY <1>4, StaysDown
  <2>2. ~Disturbed /\ ~Disturbed' /\ UNCHANGED file /\ Fits(file)
    BY <1>1, <1>4, <2>1, StaysDisturbed DEF Unsettled, Fits, Capacity
  <2>3. CASE Applying
    <3>1. ApplyUndone /\ gpc = "undo" /\ rpc["manage"] = "done" /\ ~overlapped /\ base = file
      BY <1>4, <2>1, <2>2, <2>3, ApplyEnds DEF Unsettled
    <3>2. Holding(file) /\ Progress("manage") /\ FeaturesAre(file) /\ target["manage"] = file
      BY <2>1, <2>2, <2>3, <3>1 DEF UndoInv, ControlOK
    <3>3. tables = file.tab /\ dpc \in {"ready", "select"}
      BY <2>1, <2>3, <3>1, <3>2 DEF Progress, ControlOK, Applying, Running
    <3>4. UNCHANGED <<tables, features, mpc, unsaved, dpc, monitor, cfgPtr>>
      BY <3>1 DEF ApplyUndone, maps, modecmd, daemon
    <3> QED
      BY <2>2, <3>2, <3>3, <3>4 DEF FollowsFile, FeaturesAre, Holding
  <2>4. CASE ~Applying
    <3>0. ~Unsettled
      BY <2>2, <2>4 DEF Unsettled
    <3>1. CASE \E p \in Caller : ReloadPolicy(p)
      BY <1>1, <2>2, <3>0, <3>1, FollowsPolicy
    <3>2. CASE ~\E p \in Caller : ReloadPolicy(p)
      <4>1. ASSUME NEW c, FeaturesAre(c) PROVE FeaturesAre(c)'
        BY <1>4, <2>1, <2>2, <3>2, <4>1, FeaturesFrame DEF ReloadPolicy
      <4>2. CASE Daemon
        BY <1>1, <1>4, <2>2, <3>0, <4>1, <4>2, FollowsDaemon
      <4>3. CASE UNCHANGED OwnState
        <5>1. FeaturesAre(next) => FeaturesAre(next)'
          BY <4>1, <4>3 DEF OwnState, FeaturesAre
        <5>2. FeaturesAre(file) => FeaturesAre(file)'
          BY <2>2, <4>1 DEF FeaturesAre
        <5>3. Progress("daemon") => Progress("daemon")'
          BY <4>3, ProgressFrame DEF OwnState
        <5> QED
          BY <2>2, <3>0, <4>3, <5>1, <5>2, <5>3 DEF FollowsFile, OwnState, Holding
      <4>4. CASE UNCHANGED vars
        BY <4>3, <4>4 DEF vars, OwnState, maps, rp, daemon
      <4> QED
        BY <1>1, <1>4, <3>2, <4>2, <4>3, <4>4, OthersLeaveIt DEF Next, Step, Exit, Down
    <3> QED
      BY <3>1, <3>2
  <2> QED
    BY <2>3, <2>4
<1> QED
  BY <1>2, <1>3, <1>4

\* The undo, while daemon, editors and signals leave maps and file alone.
LEMMA UndoStep ==
    ASSUME ControlOK, FollowsFile, UndoInv, [Next]_vars
    PROVE  UndoInv'
<1> SUFFICES ASSUME ~Disturbed', Fits(file)', Applying', ~overlapped', Running'
             PROVE  /\ Holding(file)'
                    /\ (gpc = "undo" /\ base = file)' =>
                          Progress("manage")' /\ ((rpc["manage"] # "features")' => FeaturesAre(file)')
  BY DEF UndoInv
<1>0. UNCHANGED box /\ dpc' # "down"
  BY DEF Next, vars, Running
<1>1. ~Start /\ ~ReloadOnHup /\ ~ReloadOnEvent
  BY DEF Start, ReloadOnHup, ReloadOnEvent, Begin, Disturbed
<1>2. Running
  BY <1>0, <1>1, StaysDown
<1>3. ~Disturbed /\ UNCHANGED file /\ Fits(file)
  BY <1>0, <1>1, <1>2, StaysDisturbed DEF Fits, Capacity
<1>4. CASE ~Applying
  <2>1. \E c \in Configs : ApplyCheck(c)
    <3>1. gpc' # gpc
      BY <1>4 DEF Applying
    <3> USE DEF maps, rp, daemon, watcher, modecmd, console, disk, Others
    <3>2. CASE UNCHANGED vars
      BY <3>1, <3>2 DEF vars
    <3>3. CASE \E p \in Caller : ReloadPolicy(p)
      BY <3>1, <3>3 DEF ReloadPolicy, PutFeatures, Scan, DeletesDone, PutsDone, DeleteStale, PutWanted
    <3>4. CASE Daemon
      BY <1>1, <3>1, <3>4 DEF Daemon, Attached, LoadFailed, NotifySignals, DisableMonitor, PolicyDone,
           PolicyFailed, SetMask, EnableMonitor, StoreConfig
    <3>5. CASE AddWatch \/ ReadEvent \/ Fire \/ ModeCmd \/ Hup \/ Exit
      BY <3>1, <3>5 DEF AddWatch, ReadEvent, Fire, ModeCmd, ModeRead, ModePut, ModeLoad, ModeSave,
           Hup, Exit, Down
    <3>6. CASE \E c \in Configs \cup {Broken} : Edit(c)
      BY <3>1, <3>6 DEF Edit
    <3>7. CASE Console
      BY <1>4, <3>1, <3>7 DEF Console, ConsoleLoad, ConsoleHash, ApplyPolicy, ApplySave, ApplySaveFailed,
           ApplyUndone, ApplyRehash, Applying
    <3> QED
      BY <1>1, <3>2, <3>3, <3>4, <3>5, <3>6, <3>7 DEF Next, Step
  <2>2. /\ gpc' # "undo" /\ dpc \in {"ready", "select"}
        /\ UNCHANGED <<dpc, monitor, cfgPtr>>
    BY <1>2, <2>1 DEF ApplyCheck, daemon, Running, ControlOK
  <2>3. Holding(file)
    BY <1>3, <1>4, <2>2 DEF FollowsFile, Unsettled
  <2> QED
    BY <1>3, <2>2, <2>3 DEF Holding
<1>5. CASE Applying
  <2>1. UNCHANGED <<overlapped, base>>
    <3> USE DEF maps, rp, daemon, watcher, modecmd, console, disk, Others
    <3>2. CASE UNCHANGED vars
      BY <3>2 DEF vars
    <3>3. CASE \E p \in Caller : ReloadPolicy(p)
      BY <3>3 DEF ReloadPolicy, PutFeatures, Scan, DeletesDone, PutsDone, DeleteStale, PutWanted
    <3>4. CASE Daemon
      BY <1>1, <3>4 DEF Daemon, Attached, LoadFailed, NotifySignals, DisableMonitor, PolicyDone,
           PolicyFailed, SetMask, EnableMonitor, StoreConfig
    <3>5. CASE AddWatch \/ ReadEvent \/ Fire \/ ModeCmd \/ Hup \/ Exit
      BY <3>5 DEF AddWatch, ReadEvent, Fire, ModeCmd, ModeRead, ModePut, ModeLoad, ModeSave,
           Hup, Exit, Down
    <3>6. CASE \E c \in Configs \cup {Broken} : Edit(c)
      BY <3>6 DEF Edit
    <3>7. CASE Console
      BY <1>5, <3>7 DEF Console, ConsoleLoad, ConsoleHash, ApplyCheck, ApplyPolicy, ApplySave,
           ApplySaveFailed, ApplyUndone, ApplyRehash, Applying
    <3> QED
      BY <1>1, <3>2, <3>3, <3>4, <3>5, <3>6, <3>7 DEF Next, Step
  <2>2. /\ dpc \in {"ready", "select"} /\ Holding(file)
        /\ gpc = "undo" /\ base = file =>
              Progress("manage") /\ (rpc["manage"] # "features" => FeaturesAre(file))
    BY <1>2, <1>3, <1>5, <2>1 DEF UndoInv, ControlOK, Running, Applying
  <2>3. CASE \E p \in Caller : ReloadPolicy(p)
    <3> PICK p \in Caller : ReloadPolicy(p)
      BY <2>3
    <3>1. rpc[p] # "off" /\ UNCHANGED <<dpc, cfgPtr, monitor, target, gpc, base>>
      BY DEF ReloadPolicy, PutFeatures, Scan, DeletesDone, PutsDone, DeleteStale, PutWanted, Others,
           daemon, console
    <3>2. p = "manage"
      BY <2>2, <3>1 DEF ControlOK
    <3>3. Holding(file)'
      BY <1>3, <2>2, <3>1 DEF Holding
    <3>4. ASSUME gpc = "undo", base = file
          PROVE  Progress("manage")' /\ ((rpc["manage"] # "features")' => FeaturesAre(file)')
      <4>1. target["manage"] = file
        BY <3>4 DEF ControlOK
      <4>2. Progress("manage")'
        BY <1>3, <2>2, <3>2, <3>4, <4>1, ProgressPolicy
      <4>3. (rpc["manage"] # "features")' => FeaturesAre(target["manage"])'
        BY <2>2, <3>1, <3>2, <3>4, <4>1, PolicyFeatures DEF FeaturesAre
      <4> QED
        BY <1>3, <3>1, <4>1, <4>2, <4>3 DEF FeaturesAre
    <3> QED
      BY <1>3, <2>1, <3>1, <3>3, <3>4
  <2>4. CASE ~\E p \in Caller : ReloadPolicy(p)
    <3>1. FeaturesAre(file) => FeaturesAre(file)'
      BY <1>0, <1>1, <1>2, <1>3, <2>4, FeaturesFrame DEF ReloadPolicy, FeaturesAre
    <3>2. CASE Daemon
      <4>1. NotifySignals
        BY <1>1, <2>2, <3>2 DEF Daemon, Attached, LoadFailed, DisableMonitor, PolicyDone,
             PolicyFailed, SetMask, EnableMonitor, StoreConfig
      <4>2. Progress("manage") => Progress("manage")'
        BY <4>1, ProgressFrame DEF NotifySignals, maps, rp
      <4> QED
        BY <1>3, <2>2, <3>1, <4>1, <4>2 DEF NotifySignals, Holding, rp, console
    <3>3. CASE ApplySaveFailed
      <4>1. gpc' = "undo" => Call("manage", base)
        BY <1>5, <3>3 DEF ApplySaveFailed, Applying
      <4> QED
        BY <1>3, <2>2, <3>3, <4>1, ProgressCall DEF ApplySaveFailed, Holding, daemon
    <3>4. CASE UNCHANGED <<OwnState, rp, gpc>>
      <4>1. Progress("manage") => Progress("manage")'
        BY <3>4, ProgressFrame DEF OwnState, rp
      <4> QED
        BY <1>3, <2>1, <2>2, <3>1, <3>4, <4>1 DEF OwnState, rp, Holding
    <3>5. CASE UNCHANGED vars
      BY <3>4, <3>5 DEF vars, OwnState, maps, rp, daemon, console
    <3>6. CASE AddWatch \/ ReadEvent \/ Fire \/ ModeCmd \/ Hup \/ \E c \in Configs \cup {Broken} : Edit(c)
      <4>1. UNCHANGED <<rp, gpc>>
        BY <1>0, <3>6 DEF AddWatch, ReadEvent, Fire, ModeCmd, ModeRead, ModePut, ModeLoad, ModeSave,
             Hup, Down, Edit, console
      <4> QED
        BY <1>0, <3>4, <3>6, <4>1, OthersLeaveIt
    <3>7. CASE Console /\ ~ApplySaveFailed
      <4>1. ApplyPolicy /\ gpc' = "save"
        BY <1>5, <3>7 DEF Console, ConsoleLoad, ConsoleHash, ApplyCheck, ApplyPolicy, ApplySave,
             ApplyUndone, ApplyRehash, Applying
      <4> QED
        BY <1>3, <2>2, <4>1 DEF ApplyPolicy, Holding, daemon
    <3> QED
      BY <1>0, <1>1, <2>4, <3>2, <3>3, <3>5, <3>6, <3>7 DEF Next, Step, Exit, Down
  <2> QED
    BY <2>3, <2>4
<1> QED
  BY <1>4, <1>5

----------------------------------------------------------------------------
(* The theorems *)

\* The inductive invariant, for every box.
THEOREM ControlInvariant == Spec => []ControlInv
<1> USE DEF ControlInv
<1>1. Init => ControlInv
  <2> SUFFICES ASSUME Init PROVE ControlInv
    OBVIOUS
  <2>1. ControlOK
    BY OKInit
  <2>2. Listed
    BY DEF Init, Listed, AllFit
  <2>3. AloneInv /\ FollowsFile /\ UndoInv
    BY DEF Init, AloneInv, FollowsFile, UndoInv, Applying
  <2> QED
    BY <2>1, <2>2, <2>3
<1>2. ControlInv /\ [Next]_vars => ControlInv'
  BY OKStep, ListedStep, AloneStep, FollowsStep, UndoStep
<1> QED
  BY <1>1, <1>2, PTL DEF Spec

\* A settled daemon runs what the file says, for any edits, signals, crashes, mode changes,
\* console sessions, failed saves and failed reloads before; a mode command that could not
\* save leaves nothing different but the features.
THEOREM SettledDaemonAgrees == Spec => []SettledAgrees
<1>1. ControlInv => SettledAgrees
  BY DEF ControlInv, FollowsFile, SettledAgrees, Agrees, Holding, FeaturesAre, Unsettled, Disturbed,
       Applying, Busy
<1> QED
  BY <1>1, ControlInvariant, PTL

\* During a reload the allowlist stays between the old and the new one.
THEOREM SyncStaysWithinBounds == Spec => []SyncWithinBounds
<1>1. ControlInv => SyncWithinBounds
  BY DEF ControlInv, AloneInv, SyncWithinBounds
<1> QED
  BY <1>1, ControlInvariant, PTL

\* Flow monitoring is enabled last.
THEOREM MonitorEnabledLast == Spec => EnableLast
<1>1. ControlInv /\ [Next]_vars =>
        [DaemonAlone /\ AllFit /\ ~monitor.enabled /\ monitor'.enabled =>
          tables'["cidrs"] = next.tab["cidrs"] /\ monitor'.sample = next.sample]_vars
  <2> SUFFICES ASSUME ControlInv, Next, DaemonAlone, AllFit, ~monitor.enabled, monitor'.enabled
               PROVE  tables'["cidrs"] = next.tab["cidrs"] /\ monitor'.sample = next.sample
    OBVIOUS
  <2> USE DEF ControlInv
  <2>1. Attached \/ DisableMonitor \/ PolicyFailed \/ SetMask \/ EnableMonitor
    <3>1. monitor' # monitor
      OBVIOUS
    <3>2. UNCHANGED box
      BY DEF Next
    <3>3. CASE \E p \in Caller : ReloadPolicy(p)
      BY <3>1, <3>3 DEF ReloadPolicy, PutFeatures, Scan, DeletesDone, PutsDone, DeleteStale,
           PutWanted, Others, daemon
    <3>4. CASE Start \/ Daemon
      BY <3>1, <3>4 DEF Start, Daemon, LoadFailed, NotifySignals, ReloadOnHup, ReloadOnEvent, Begin,
           PolicyDone, StoreConfig
    <3>5. CASE Hup \/ Exit
      BY <3>1, <3>5 DEF Hup, Exit, Down, daemon
    <3> QED
      BY <3>1, <3>2, <3>3, <3>4, <3>5, OthersLeaveIt DEF Next, Step, OwnState
  <2>2. CASE Attached
    BY <2>2 DEF Attached, AloneInv, Progress, ControlOK, maps
  <2>3. CASE DisableMonitor
    BY <2>3 DEF DisableMonitor
  <2>4. CASE PolicyFailed
    BY <2>4 DEF PolicyFailed, AloneInv, Progress
  <2>5. CASE SetMask
    BY <2>5 DEF SetMask, ControlOK
  <2>6. CASE EnableMonitor
    BY <2>6 DEF EnableMonitor, AloneInv, ControlOK, maps
  <2> QED
    BY <2>1, <2>2, <2>3, <2>4, <2>5, <2>6
<1> QED
  BY <1>1, ControlInvariant, PTL DEF Spec, EnableLast
=============================================================================
