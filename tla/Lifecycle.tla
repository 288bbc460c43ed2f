------------------------------ MODULE Lifecycle ------------------------------
(***************************************************************************)
(* How the data path comes to life, outlives the daemon and is taken down: *)
(* Load(), Close() and Detach() of internal/dataplane/loader.go, the       *)
(* systemd unit around the daemon, `xdpfilter stop --detach` and the       *)
(* console's Reattach().  What persists is in the kernel: pinned maps and  *)
(* pinned links.  A link is named by the interface it attaches to (there   *)
(* is one XDP program per interface); it lives while a pin or a file       *)
(* descriptor of the daemon refers to it.                                  *)
(*                                                                         *)
(* Two maps stand for the pinned ones: "flows" is recreated when a         *)
(* structural size changes, "ctl" (features, tx_ports, ...) never is.      *)
(* Policy contents are Control.tla's subject.                              *)
(***************************************************************************)
EXTENDS Naturals

CONSTANTS
    Iface, NoIface,  \* network interfaces; no link
    Missing,         \* interfaces net.InterfaceByName does not find
    Refusing,        \* interfaces that refuse to attach a program
    Dir,             \* pin directories
    Configs,         \* structural configurations: port, pin, size
    Actors,          \* which of "edit", "restart", "detach", "reattach" take part
    MaxCmds,         \* bound on operator commands
    MaxCrashes,      \* bound on crashes
    MaxId            \* bound on map objects alive at one time

Role == {"T", "U"}
Id   == 1 .. MaxId

ASSUME LifecycleConstants ==
    /\ Configs # {} /\ NoIface \notin Iface
    /\ \A c \in Configs :
          /\ DOMAIN c = {"port", "pin", "size"} /\ c.pin \in Dir /\ c.size \in Nat
          /\ c.port \in [Role -> Iface] /\ c.port["T"] # c.port["U"]
    /\ MaxCmds \in Nat /\ MaxCrashes \in Nat /\ MaxId \in Nat

VARIABLES
    file,        \* the configuration file
    wanted, job, \* systemd: the unit is started; outcome of the last start job
    dpc, dcfg,   \* daemon: control point and configuration
    have, held,  \* daemon: map and link file descriptors
    pinned,      \* per directory: the pinned maps (0: none)
    size, tx,    \* per map object: max_entries; the ports in tx_ports
    link,        \* per directory and role: the pinned link
    prog,        \* per interface: the program of its link
    opc, goal,   \* operator command: control point; "detach" or "reattach"
    odir, prev,  \* its pin directory and previous configuration
    raced,       \* history: a daemon was started while a detach was under way
    cmds, crashes

unit     == <<wanted, job>>
daemon   == <<dpc, dcfg, have, held, raced>>
kernel   == <<pinned, size, tx, link, prog>>
operator == <<opc, goal, odir, prev, cmds>>
vars     == <<file, unit, daemon, kernel, operator, crashes>>

NoMaps == [flows |-> 0, ctl |-> 0]

\* A link is attached while something refers to it.
Attached(i) == (\E d \in Dir, r \in Role : link[d][r] = i) \/ \E r \in Role : held[r] = i

InUse(n) == \/ \E d \in Dir : n \in {pinned[d].flows, pinned[d].ctl}
            \/ n \in {have.flows, have.ctl}
            \/ \E i \in Iface : Attached(i) /\ n \in {prog[i].flows, prog[i].ctl}

FreeId == \E n \in Id : ~InUse(n)
NewId  == CHOOSE n \in Id : ~InUse(n)

----------------------------------------------------------------------------
(* The daemon: Load, then READY *)

Detaching == opc \in {"unlinkT", "unlinkU", "unpin"}

Start ==
    /\ dpc = "down" /\ wanted
    /\ \/ /\ \E r \in Role : file.port[r] \in Missing
          /\ job' = IF job = "pending" THEN "failed" ELSE job
          /\ UNCHANGED daemon
       \/ /\ \A r \in Role : file.port[r] \notin Missing
          /\ dpc' = "flows" /\ dcfg' = file /\ raced' = Detaching
          /\ UNCHANGED <<job, have, held>>
    /\ UNCHANGED <<file, wanted, kernel, operator, crashes>>

mapCompatible(n) == size[n] = dcfg.size

\* createOrAdoptShared: a compatible pinned map is adopted, any other replaced.
AdoptFlows ==
    LET p == pinned[dcfg.pin].flows
        n == IF p # 0 /\ mapCompatible(p) THEN p ELSE NewId
    IN /\ dpc = "flows" /\ FreeId /\ dpc' = "ctl"
       /\ have' = [have EXCEPT !.flows = n]
       /\ pinned' = [pinned EXCEPT ![dcfg.pin].flows = n]
       /\ size' = [size EXCEPT ![n] = dcfg.size]
       /\ UNCHANGED <<file, unit, dcfg, held, raced, tx, link, prog, operator, crashes>>

AdoptCtl ==
    LET p == pinned[dcfg.pin].ctl
        n == IF p # 0 THEN p ELSE NewId
    IN /\ dpc = "ctl" /\ FreeId /\ dpc' = "ports"
       /\ have' = [have EXCEPT !.ctl = n]
       /\ pinned' = [pinned EXCEPT ![dcfg.pin].ctl = n]
       /\ UNCHANGED <<file, unit, dcfg, held, raced, size, tx, link, prog, operator, crashes>>

\* An adopted tx_ports is rewritten under the programs that already use it.
PutPorts ==
    /\ dpc = "ports" /\ dpc' = "attachT"
    /\ tx' = [tx EXCEPT ![have.ctl] = dcfg.port]
    /\ UNCHANGED <<file, unit, dcfg, have, held, raced, pinned, size, link, prog, operator, crashes>>

AttachAt == [T |-> "attachT", U |-> "attachU"]
PinAt    == [T |-> "pinT", U |-> "pinU"]

\* The port is done: on to the next one, or READY.
Ready(r) ==
    /\ dpc' = IF r = "T" THEN "attachU" ELSE "run"
    /\ job' = IF r = "U" /\ job = "pending" THEN "ok" ELSE job

ProgOf(r) == [role |-> r, flows |-> have.flows, ctl |-> have.ctl]

AdoptLinkStale(r) ==
    LET l == link[dcfg.pin][r]
    IN /\ dpc = AttachAt[r] /\ l # NoIface
       /\ held' = [held EXCEPT ![r] = l]
       /\ Ready(r)
       /\ UNCHANGED <<file, wanted, dcfg, have, raced, kernel, operator, crashes>>

AdoptLinkByAttaching(r) ==
    /\ dpc = AttachAt[r] /\ link[dcfg.pin][r] # NoIface
    /\ dpc' = "down" /\ have' = NoMaps /\ held' = [q \in Role |-> NoIface]
    /\ job' = IF job = "pending" THEN "failed" ELSE job
    /\ UNCHANGED <<file, wanted, dcfg, raced, kernel, operator, crashes>>

\* attach(): a pinned link is adopted wherever it is attached, its program swapped.
AdoptLink(r) ==
    LET l == link[dcfg.pin][r]
    IN /\ dpc = AttachAt[r] /\ l # NoIface
       /\ prog' = [prog EXCEPT ![l] = ProgOf(r)]
       /\ held' = [held EXCEPT ![r] = l]
       /\ Ready(r)
       /\ UNCHANGED <<file, wanted, dcfg, have, raced, pinned, size, tx, link, operator, crashes>>

CreateLink(r) ==
    LET i == dcfg.port[r]
    IN /\ dpc = AttachAt[r] /\ link[dcfg.pin][r] = NoIface
       /\ ~Attached(i) /\ i \notin Refusing
       /\ prog' = [prog EXCEPT ![i] = ProgOf(r)]
       /\ held' = [held EXCEPT ![r] = i] /\ dpc' = PinAt[r]
       /\ UNCHANGED <<file, unit, dcfg, have, raced, pinned, size, tx, link, operator, crashes>>

PinLink(r) ==
    /\ dpc = PinAt[r]
    /\ link' = [link EXCEPT ![dcfg.pin][r] = held[r]]
    /\ Ready(r)
    /\ UNCHANGED <<file, wanted, dcfg, have, held, raced, pinned, size, tx, prog, operator, crashes>>

ReleaseLeaking ==
    /\ dpc' = "down" /\ have' = NoMaps /\ raced' = (raced /\ Detaching)
    /\ UNCHANGED <<held, dcfg, kernel>>

ReleaseUnpinning ==
    /\ dpc' = "down" /\ have' = NoMaps /\ held' = [r \in Role |-> NoIface]
    /\ raced' = (raced /\ Detaching)
    /\ link' = [link EXCEPT ![dcfg.pin] =
          [r \in Role |-> IF held[r] # NoIface THEN NoIface ELSE @[r]]]
    /\ UNCHANGED <<dcfg, pinned, size, tx, prog>>

\* Close() or the end of the process: descriptors go, pins stay.
Release ==
    /\ dpc' = "down" /\ have' = NoMaps /\ held' = [r \in Role |-> NoIface]
    /\ raced' = (raced /\ Detaching)
    /\ UNCHANGED <<dcfg, kernel>>

LoadError == Release /\ job' = IF job = "pending" THEN "failed" ELSE job

\* AttachXDP fails: what the other port has pinned by now stays pinned.
AttachRefused(r) ==
    LET i == dcfg.port[r]
    IN /\ dpc = AttachAt[r] /\ link[dcfg.pin][r] = NoIface
       /\ Attached(i) \/ i \in Refusing
       /\ LoadError
       /\ UNCHANGED <<file, wanted, operator, crashes>>

Daemon ==
    \/ Start \/ AdoptFlows \/ AdoptCtl \/ PutPorts
    \/ \E r \in Role : AdoptLink(r) \/ CreateLink(r) \/ PinLink(r) \/ AttachRefused(r)

Crash ==
    /\ crashes < MaxCrashes /\ crashes' = crashes + 1
    /\ dpc # "down"
    /\ LoadError
    /\ UNCHANGED <<file, wanted, operator>>

----------------------------------------------------------------------------
(* Operators *)

Command(a) == a \in Actors /\ cmds < MaxCmds /\ cmds' = cmds + 1

Edit(c) ==
    /\ Command("edit") /\ file' = c
    /\ UNCHANGED <<unit, daemon, kernel, opc, goal, odir, prev, crashes>>

\* systemctl start or restart.
Restart ==
    /\ Command("restart") /\ wanted' = TRUE /\ Release
    /\ UNCHANGED <<file, job, opc, goal, odir, prev, crashes>>

\* systemctl stop waits for the daemon.
StopUnit == wanted' = FALSE /\ Release

\* systemctl start waits for READY=1 or the end of the process.
StartUnit ==
    /\ wanted' = TRUE
    /\ job' = IF dpc = "run" THEN "ok" ELSE "pending"

BeginDetach ==
    /\ Command("detach") /\ opc = "idle"
    /\ StopUnit /\ opc' = "unlinkT" /\ goal' = "detach" /\ odir' = file.pin
    /\ UNCHANGED <<file, job, prev, crashes>>

\* Apply saved a configuration that needs a reattach; the console asks.
Apply(c) ==
    /\ Command("reattach") /\ opc = "idle"
    /\ c.port # file.port \/ c.pin # file.pin
    /\ file' = c /\ prev' = file /\ opc' = "asked"
    /\ UNCHANGED <<unit, daemon, kernel, goal, odir, crashes>>

BeginReattach ==
    /\ opc = "asked"
    /\ StopUnit /\ opc' = "unlinkT" /\ goal' = "reattach" /\ odir' = prev.pin
    /\ UNCHANGED <<file, job, prev, cmds, crashes>>

UnlinkAt == [T |-> "unlinkT", U |-> "unlinkU"]

UnlinkKeepingUntrusted(r) ==
    /\ opc = UnlinkAt[r]
    /\ link' = IF r = "T" THEN [link EXCEPT ![odir][r] = NoIface] ELSE link
    /\ opc' = IF r = "T" THEN "unlinkU" ELSE "unpin"
    /\ UNCHANGED <<file, unit, daemon, pinned, size, tx, prog, goal, odir, prev, cmds, crashes>>

\* Detach: first the links, then the maps.
Unlink(r) ==
    /\ opc = UnlinkAt[r]
    /\ link' = [link EXCEPT ![odir][r] = NoIface]
    /\ opc' = IF r = "T" THEN "unlinkU" ELSE "unpin"
    /\ UNCHANGED <<file, unit, daemon, pinned, size, tx, prog, goal, odir, prev, cmds, crashes>>

UnpinMaps ==
    /\ opc = "unpin"
    /\ pinned' = [pinned EXCEPT ![odir] = NoMaps]
    /\ opc' = IF goal = "detach" THEN "idle" ELSE "start"
    /\ UNCHANGED <<file, unit, daemon, size, tx, link, prog, goal, odir, prev, cmds, crashes>>

\* Detach reports an error: a map's pin could not be removed.
UnpinFails ==
    /\ opc = "unpin"
    /\ opc' = IF goal = "detach" THEN "idle" ELSE "save"
    /\ UNCHANGED <<file, unit, daemon, kernel, goal, odir, prev, cmds, crashes>>

StartNew ==
    /\ opc = "start" /\ opc' = "wait" /\ StartUnit
    /\ UNCHANGED <<file, daemon, kernel, goal, odir, prev, cmds, crashes>>

StartedNew ==
    /\ opc = "wait" /\ job \in {"ok", "failed"}
    /\ opc' = IF job = "ok" THEN "idle" ELSE "save"
    /\ UNCHANGED <<file, unit, daemon, kernel, goal, odir, prev, cmds, crashes>>

SavePrevious ==
    /\ opc = "save" /\ opc' = "restart" /\ file' = prev
    /\ UNCHANGED <<unit, daemon, kernel, goal, odir, prev, cmds, crashes>>

StartPrevious ==
    /\ opc = "restart" /\ opc' = "await" /\ StartUnit
    /\ UNCHANGED <<file, daemon, kernel, goal, odir, prev, cmds, crashes>>

\* "old configuration was restored" if the start succeeded.
StartedPrevious ==
    /\ opc = "await" /\ job \in {"ok", "failed"} /\ opc' = "idle"
    /\ UNCHANGED <<file, unit, daemon, kernel, goal, odir, prev, cmds, crashes>>

Operator ==
    \/ BeginReattach \/ UnpinMaps \/ UnpinFails \/ StartNew \/ StartedNew
    \/ SavePrevious \/ StartPrevious \/ StartedPrevious
    \/ \E r \in Role : Unlink(r)

----------------------------------------------------------------------------
Init ==
    /\ file \in Configs /\ wanted = TRUE /\ job = "none"
    /\ dpc = "down" /\ dcfg = file /\ have = NoMaps /\ held = [r \in Role |-> NoIface]
    /\ raced = FALSE
    /\ pinned = [d \in Dir |-> NoMaps]
    /\ size = [n \in Id |-> 0] /\ tx = [n \in Id |-> file.port]
    /\ link = [d \in Dir |-> [r \in Role |-> NoIface]]
    /\ prog = [i \in Iface |-> [role |-> "T", flows |-> 0, ctl |-> 0]]
    /\ opc = "idle" /\ goal = "detach" /\ odir = file.pin /\ prev = file
    /\ cmds = 0 /\ crashes = 0

Next ==
    \/ Daemon \/ Crash
    \/ \E c \in Configs : Edit(c) \/ Apply(c)
    \/ Restart \/ BeginDetach \/ Operator

\* A started process runs on, Restart=always starts the unit again, and a command
\* in progress goes on; nothing is assumed of operators.
Fairness == WF_vars(Daemon) /\ WF_vars(Operator)

Spec == Init /\ [][Next]_vars /\ Fairness

----------------------------------------------------------------------------
(* Properties *)

\* Control points and descriptors; the daemon holds a link only once it attaches.
TypeOK ==
    /\ file \in Configs /\ dcfg \in Configs /\ prev \in Configs /\ odir \in Dir
    /\ wanted \in BOOLEAN /\ job \in {"none", "pending", "ok", "failed"} /\ raced \in BOOLEAN
    /\ dpc \in {"down", "flows", "ctl", "ports", "attachT", "pinT", "attachU", "pinU", "run"}
    /\ opc \in {"idle", "asked", "unlinkT", "unlinkU", "unpin", "start", "wait", "save",
                "restart", "await"}
    /\ goal \in {"detach", "reattach"}
    /\ pinned \in [Dir -> [flows : 0 .. MaxId, ctl : 0 .. MaxId]]
    /\ have \in [flows : 0 .. MaxId, ctl : 0 .. MaxId]
    /\ size \in [Id -> Nat] /\ tx \in [Id -> [Role -> Iface]]
    /\ link \in [Dir -> [Role -> Iface \cup {NoIface}]]
    /\ held \in [Role -> Iface \cup {NoIface}]
    /\ prog \in [Iface -> [role : Role, flows : 0 .. MaxId, ctl : 0 .. MaxId]]
    /\ cmds \in 0 .. MaxCmds /\ crashes \in 0 .. MaxCrashes
    /\ dpc \in {"down", "flows", "ctl", "ports", "attachT"} => held["T"] = NoIface

\* The two programs of a running daemon work on one set of maps, the pinned one,
\* so both directions and every tool that opens the pins see the same flows.
OnePath ==
    \A r \in Role :
        /\ held[r] # NoIface /\ held[r] = link[dcfg.pin][r]
        /\ prog[held[r]] = [role |-> r, flows |-> pinned[dcfg.pin].flows,
                            ctl |-> pinned[dcfg.pin].ctl]
        /\ tx[pinned[dcfg.pin].ctl] = dcfg.port

\* Once Load returns, whatever crash interrupted earlier loads and whichever tables
\* were recreated, trusted and untrusted programs share the pinned maps.
RunningShares == dpc = "run" /\ ~raced => OnePath

\* "The data path survives a daemon restart with no interruption": a pinned program
\* leaves its interface in no step but Detach's.
BridgeStays ==
    [][\A i \in Iface :
          (\E d \in Dir, r \in Role : link[d][r] = i) /\ ~Attached(i)'
             => opc \in {"unlinkT", "unlinkU"}]_vars

\* After Detach nothing is attached through its pin directory any more.
DetachDarkens ==
    [][opc = "unpin" /\ opc' # "unpin" /\ ~raced =>
          \A i \in Iface : Attached(i) => \E d \in Dir \ {odir}, r \in Role : link[d][r] = i]_vars

\* No interface the file names is missing, refuses programs or is taken by a link
\* that the file's pin directory does not hold for that role.
Usable(c) ==
    \A r \in Role :
        /\ c.port[r] \notin Missing \cup Refusing
        /\ \A d \in Dir, q \in Role : link[d][q] = c.port[r] => d = c.pin /\ q = r

\* Loads that die half-way, with one program on the new tables and one on the old,
\* are healed by the restarts: the daemon ends up running on shared maps.
Heals ==
    <>[](wanted /\ opc = "idle" /\ ~raced /\ Usable(file)) => <>[](dpc = "run" /\ OnePath)

\* README: structural changes, interfaces among them, need a restart.  Once the
\* daemon runs on a configuration its programs are on the configured ports.
RestartTakesEffect == dpc = "run" => held = dcfg.port

=============================================================================
