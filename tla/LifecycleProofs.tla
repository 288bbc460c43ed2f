--------------------------- MODULE LifecycleProofs ---------------------------
(***************************************************************************)
(* Theorems about Lifecycle for any interfaces, pin directories,           *)
(* configurations, commands and crashes.  The inductive invariant says     *)
(* what a daemon half-way through Load has achieved, that no two pinned    *)
(* links are on one interface, and that a detach which no daemon ran into  *)
(* has the directory to itself.                                            *)
(***************************************************************************)
EXTENDS Lifecycle, TLAPS

\* The links a daemon holds at each control point.
Holding ==
    /\ dpc \in {"down", "flows", "ctl", "ports", "attachT"} => held["T"] = NoIface
    /\ dpc \notin {"pinU", "run"} => held["U"] = NoIface
    /\ dpc \in {"pinT", "attachU", "pinU", "run"} => held["T"] # NoIface
    /\ dpc \in {"pinU", "run"} => held["U"] # NoIface

\* One XDP link per interface, so a pinned link is pinned once; one that is about to be
\* pinned is not pinned yet, and its place is free.
LinksApart ==
    /\ \A d, e \in Dir, r, q \in Role :
          link[d][r] # NoIface /\ link[d][r] = link[e][q] => d = e /\ r = q
    /\ \A r \in Role : dpc = PinAt[r] =>
          /\ link[dcfg.pin][r] = NoIface
          /\ \A d \in Dir, q \in Role : link[d][q] # held[r]
          /\ \A q \in Role : q # r => held[q] # held[r]

\* A daemon that is not raced runs while no detach does; and a detach that no daemon ran
\* into has removed the links it is past.
Exclusive ==
    /\ dpc # "down" /\ ~raced => ~Detaching
    /\ opc \in {"unlinkU", "unpin"} /\ ~raced => link[odir]["T"] = NoIface
    /\ opc = "unpin" /\ ~raced => link[odir]["U"] = NoIface

\* What Load has achieved.
Loaded ==
    dpc # "down" /\ ~raced =>
        /\ dpc # "flows" => have.flows = pinned[dcfg.pin].flows
        /\ dpc \notin {"flows", "ctl"} => have.ctl = pinned[dcfg.pin].ctl /\ have.ctl \in Id
        /\ dpc \notin {"flows", "ctl", "ports"} => tx[have.ctl] = dcfg.port
        /\ dpc \in {"pinT", "attachU", "pinU", "run"} => prog[held["T"]] = ProgOf("T")
        /\ dpc \in {"attachU", "pinU", "run"} => held["T"] = link[dcfg.pin]["T"]
        /\ dpc \in {"pinU", "run"} => prog[held["U"]] = ProgOf("U")
        /\ dpc = "run" => held["U"] = link[dcfg.pin]["U"]

LifeInv == TypeOK /\ Holding /\ LinksApart /\ Exclusive /\ Loaded

----------------------------------------------------------------------------
(* Facts about the constants and the steps *)

\* What a configuration that passed config.Validate contains.
LEMMA ConfigFields ==
    ASSUME NEW c \in Configs
    PROVE  /\ c.pin \in Dir /\ c.size \in Nat /\ c.port \in [Role -> Iface]
           /\ \A r \in Role : c.port[r] \in Iface
           /\ c.port["T"] # c.port["U"]
  BY LifecycleConstants DEF Role

\* A map object that ebpf.NewMap creates is one that nothing refers to.
LEMMA NewIdFree ==
    ASSUME FreeId
    PROVE  NewId \in Id /\ ~InUse(NewId)
  BY DEF FreeId, NewId

\* The steps that touch neither the daemon nor the kernel: a start job that fails on a
\* missing interface, edits of the file, and an operator that waits or saves.
Quiet == UNCHANGED <<daemon, kernel>> /\ (Detaching' => Detaching)

\* The ends of a daemon: Close, a load error, a crash, a stop.
Ended == Release /\ (Detaching => UNCHANGED <<opc, odir>>)

\* Every step belongs to one of these.
LEMMA StepKinds ==
    ASSUME TypeOK, [Next]_vars
    PROVE  \/ Quiet /\ (Detaching' => UNCHANGED <<opc, odir>>)
           \/ Ended /\ opc' # "unlinkU" /\ opc' # "unpin"
           \/ Ended /\ UNCHANGED <<opc, odir>>
           \/ (Start /\ dpc' = "flows") \/ AdoptFlows \/ AdoptCtl \/ PutPorts
           \/ \E r \in Role : AdoptLink(r) \/ CreateLink(r) \/ PinLink(r)
           \/ \E r \in Role : Unlink(r)
           \/ UnpinMaps
  <1> USE DEF unit, daemon, kernel, operator, Detaching, Quiet, Ended
  <1>1. CASE UNCHANGED vars
    BY <1>1 DEF vars
  <1>2. CASE Daemon
    BY <1>2 DEF Daemon, Start, AttachRefused, LoadError
  <1>3. CASE Crash
    BY <1>3 DEF Crash, LoadError
  <1>4. CASE \E c \in Configs : Edit(c) \/ Apply(c)
    BY <1>4 DEF Edit, Apply
  <1>5. CASE Restart \/ BeginDetach \/ BeginReattach
    BY <1>5 DEF Restart, BeginDetach, BeginReattach, StopUnit
  <1>6. CASE UnpinFails \/ StartNew \/ StartedNew \/ SavePrevious \/ StartPrevious
             \/ StartedPrevious
    BY <1>6 DEF UnpinFails, StartNew, StartedNew, SavePrevious, StartPrevious,
                StartedPrevious
  <1>7. CASE UnpinMaps \/ \E r \in Role : Unlink(r)
    BY <1>7
  <1> QED
    BY <1>1, <1>2, <1>3, <1>4, <1>5, <1>6, <1>7 DEF Next, Operator

----------------------------------------------------------------------------
(* Type correctness *)

\* The descriptor arrays of a daemon that ended.
LEMMA EndedTypes ==
    ASSUME TypeOK, Release
    PROVE  /\ dpc' = "down" /\ dcfg' = dcfg /\ raced' \in BOOLEAN
           /\ have' \in [flows : 0 .. MaxId, ctl : 0 .. MaxId]
           /\ held' \in [Role -> Iface \cup {NoIface}] /\ held'["T"] = NoIface
           /\ UNCHANGED kernel
  BY LifecycleConstants DEF TypeOK, Release, NoMaps, Role

\* Load adopts or creates a map: its descriptor and its pin are objects that exist.
LEMMA AdoptTypes ==
    ASSUME TypeOK, AdoptFlows \/ AdoptCtl
    PROVE  TypeOK'
  <1> USE DEF unit, operator, kernel
  <1>1. dcfg.pin \in Dir /\ dcfg.size \in Nat
    BY ConfigFields DEF TypeOK
  <1>2. CASE AdoptFlows
    <2> DEFINE p == pinned[dcfg.pin].flows
               n == IF p # 0 /\ mapCompatible(p) THEN p ELSE NewId
    <2>1. p \in 0 .. MaxId
      BY <1>1 DEF TypeOK
    <2>2. NewId \in Id
      BY <1>2, NewIdFree DEF AdoptFlows
    <2>3. n \in 0 .. MaxId /\ n \in Id
      BY <2>1, <2>2 DEF Id
    <2>4. /\ have' = [have EXCEPT !.flows = n]
          /\ pinned' = [pinned EXCEPT ![dcfg.pin].flows = n]
          /\ size' = [size EXCEPT ![n] = dcfg.size]
      BY <1>2 DEF AdoptFlows
    <2> HIDE DEF n, p
    <2>5. have' \in [flows : 0 .. MaxId, ctl : 0 .. MaxId]
      BY <2>3, <2>4 DEF TypeOK
    <2>6. pinned' \in [Dir -> [flows : 0 .. MaxId, ctl : 0 .. MaxId]]
      BY <1>1, <2>3, <2>4 DEF TypeOK
    <2>7. size' \in [Id -> Nat]
      BY <1>1, <2>3, <2>4 DEF TypeOK
    <2> QED
      BY <1>2, <2>5, <2>6, <2>7 DEF AdoptFlows, TypeOK
  <1>3. CASE AdoptCtl
    <2> DEFINE p == pinned[dcfg.pin].ctl
               n == IF p # 0 THEN p ELSE NewId
    <2>1. p \in 0 .. MaxId
      BY <1>1 DEF TypeOK
    <2>2. NewId \in Id
      BY <1>3, NewIdFree DEF AdoptCtl
    <2>3. n \in 0 .. MaxId /\ n \in Id
      BY <2>1, <2>2 DEF Id
    <2>4. /\ have' = [have EXCEPT !.ctl = n]
          /\ pinned' = [pinned EXCEPT ![dcfg.pin].ctl = n]
      BY <1>3 DEF AdoptCtl
    <2> HIDE DEF n, p
    <2>5. have' \in [flows : 0 .. MaxId, ctl : 0 .. MaxId]
      BY <2>3, <2>4 DEF TypeOK
    <2>6. pinned' \in [Dir -> [flows : 0 .. MaxId, ctl : 0 .. MaxId]]
      BY <1>1, <2>3, <2>4 DEF TypeOK
    <2> QED
      BY <1>3, <2>5, <2>6 DEF AdoptCtl, TypeOK
  <1> QED
    BY <1>2, <1>3

\* attach(): the link of a port is adopted, or created and then pinned.
LEMMA AttachTypes ==
    ASSUME TypeOK, NEW r \in Role, AdoptLink(r) \/ CreateLink(r) \/ PinLink(r)
    PROVE  TypeOK'
  <1> USE LifecycleConstants DEF unit, operator
  <1>1. dcfg.pin \in Dir /\ dcfg.port[r] \in Iface
    BY ConfigFields DEF TypeOK
  <1>2. ProgOf(r) \in [role : Role, flows : 0 .. MaxId, ctl : 0 .. MaxId]
    BY DEF ProgOf, TypeOK
  <1>3. CASE AdoptLink(r)
    <2>1. link[dcfg.pin][r] \in Iface
      BY <1>1, <1>3 DEF AdoptLink, TypeOK
    <2>2. /\ prog' \in [Iface -> [role : Role, flows : 0 .. MaxId, ctl : 0 .. MaxId]]
          /\ held' \in [Role -> Iface \cup {NoIface}]
      BY <1>2, <1>3, <2>1 DEF AdoptLink, TypeOK
    <2> QED
      BY <1>3, <2>2 DEF AdoptLink, TypeOK, Ready, Role, AttachAt
  <1>4. CASE CreateLink(r)
    <2>1. /\ prog' \in [Iface -> [role : Role, flows : 0 .. MaxId, ctl : 0 .. MaxId]]
          /\ held' \in [Role -> Iface \cup {NoIface}]
      BY <1>1, <1>2, <1>4 DEF CreateLink, TypeOK
    <2> QED
      BY <1>4, <2>1 DEF CreateLink, TypeOK, PinAt, Role
  <1>5. CASE PinLink(r)
    <2>1. link' \in [Dir -> [Role -> Iface \cup {NoIface}]]
      BY <1>1, <1>5 DEF PinLink, TypeOK
    <2> QED
      BY <1>5, <2>1 DEF PinLink, TypeOK, Ready, Role, PinAt
  <1> QED
    BY <1>3, <1>4, <1>5

\* Every step keeps the types.
LEMMA TypeStep ==
    ASSUME TypeOK, [Next]_vars
    PROVE  TypeOK'
  <1> USE LifecycleConstants DEF unit, daemon, kernel, operator
  <1>1. CASE UNCHANGED vars
    BY <1>1 DEF vars, TypeOK
  <1>2. CASE Start
    <2>1. raced' \in BOOLEAN
      <3>1. Detaching \in BOOLEAN
        BY DEF Detaching
      <3> QED
        BY <1>2, <3>1 DEF Start, TypeOK
    <2> QED
      BY <1>2, <2>1 DEF Start, TypeOK
  <1>3. CASE AdoptFlows \/ AdoptCtl
    BY <1>3, AdoptTypes
  <1>4. CASE PutPorts
    <2>1. tx' \in [Id -> [Role -> Iface]]
      BY <1>4, ConfigFields DEF PutPorts, TypeOK
    <2> QED
      BY <1>4, <2>1 DEF PutPorts, TypeOK
  <1>5. CASE \E r \in Role : AdoptLink(r) \/ CreateLink(r) \/ PinLink(r)
    BY <1>5, AttachTypes
  <1>6. CASE \E r \in Role : AttachRefused(r)
    BY <1>6, EndedTypes DEF AttachRefused, LoadError, TypeOK
  <1>7. CASE Crash
    <2>1. crashes' \in 0 .. MaxCrashes
      BY <1>7 DEF Crash, TypeOK
    <2>2. Release /\ UNCHANGED <<file, wanted, operator>>
      BY <1>7 DEF Crash, LoadError
    <2>3. job' \in {"none", "pending", "ok", "failed"}
      BY <1>7 DEF Crash, LoadError, TypeOK
    <2> QED
      BY <2>1, <2>2, <2>3, EndedTypes DEF TypeOK
  <1>8. CASE \E c \in Configs : Edit(c) \/ Apply(c)
    <2>1. cmds' \in 0 .. MaxCmds
      BY <1>8 DEF Edit, Apply, Command, TypeOK
    <2> QED
      BY <1>8, <2>1 DEF Edit, Apply, TypeOK
  <1>9. CASE Restart
    <2>1. cmds' \in 0 .. MaxCmds
      BY <1>9 DEF Restart, Command, TypeOK
    <2> QED
      BY <1>9, <2>1, EndedTypes DEF Restart, TypeOK
  <1>10. CASE BeginDetach \/ BeginReattach
    <2>1. Release /\ wanted' = FALSE /\ opc' = "unlinkT"
      BY <1>10 DEF BeginDetach, BeginReattach, StopUnit
    <2>2. odir' \in Dir /\ goal' \in {"detach", "reattach"} /\ cmds' \in 0 .. MaxCmds
          /\ UNCHANGED <<file, job, prev, crashes>>
      BY <1>10, ConfigFields DEF BeginDetach, BeginReattach, Command, TypeOK
    <2> QED
      BY <2>1, <2>2, EndedTypes DEF TypeOK
  <1>11. CASE \E r \in Role : Unlink(r)
    <2>1. PICK r \in Role : Unlink(r)
      BY <1>11
    <2>2. link' \in [Dir -> [Role -> Iface \cup {NoIface}]]
      BY <2>1 DEF Unlink, TypeOK
    <2> QED
      BY <2>1, <2>2 DEF Unlink, TypeOK
  <1>12. CASE UnpinMaps
    <2>1. pinned' \in [Dir -> [flows : 0 .. MaxId, ctl : 0 .. MaxId]]
      BY <1>12 DEF UnpinMaps, TypeOK, NoMaps
    <2> QED
      BY <1>12, <2>1 DEF UnpinMaps, TypeOK
  <1>13. CASE UnpinFails \/ StartNew \/ StartedNew \/ SavePrevious \/ StartPrevious
              \/ StartedPrevious
    BY <1>13 DEF UnpinFails, StartNew, StartedNew, SavePrevious, StartPrevious,
                 StartedPrevious, StartUnit, TypeOK
  <1> QED
    BY <1>1, <1>2, <1>3, <1>4, <1>5, <1>6, <1>7, <1>8, <1>9, <1>10, <1>11, <1>12, <1>13
       DEF Next, Daemon, Operator

\* The first start of a fresh host.
LEMMA TypeInit == Init => TypeOK
  <1> SUFFICES ASSUME Init PROVE TypeOK
    OBVIOUS
  <1>1. file.pin \in Dir /\ file.port \in [Role -> Iface]
    BY ConfigFields DEF Init
  <1>2. MaxCmds \in Nat /\ MaxCrashes \in Nat /\ MaxId \in Nat
    BY LifecycleConstants
  <1>3. /\ have \in [flows : 0 .. MaxId, ctl : 0 .. MaxId]
        /\ pinned \in [Dir -> [flows : 0 .. MaxId, ctl : 0 .. MaxId]]
        /\ prog \in [Iface -> [role : Role, flows : 0 .. MaxId, ctl : 0 .. MaxId]]
    BY <1>2 DEF Init, NoMaps, Role
  <1>4. /\ link \in [Dir -> [Role -> Iface \cup {NoIface}]]
        /\ held \in [Role -> Iface \cup {NoIface}] /\ held["T"] = NoIface
    BY DEF Init, Role
  <1>5. size \in [Id -> Nat] /\ tx \in [Id -> [Role -> Iface]]
    BY <1>1 DEF Init
  <1>6. cmds \in 0 .. MaxCmds /\ crashes \in 0 .. MaxCrashes
    BY <1>2 DEF Init
  <1> QED
    BY <1>1, <1>3, <1>4, <1>5, <1>6 DEF Init, TypeOK

----------------------------------------------------------------------------
(* The links and the maps of a daemon *)

\* A daemon takes up its links one by one and gives them all back at once.
LEMMA HoldingStep ==
    ASSUME TypeOK, Holding, [Next]_vars
    PROVE  Holding'
  <1> USE LifecycleConstants DEF Role, daemon
  <1>1. CASE Quiet
    BY <1>1 DEF Quiet, Holding
  <1>2. CASE Ended
    BY <1>2 DEF Ended, Release, Holding
  <1>3. CASE (Start /\ dpc' = "flows") \/ AdoptFlows \/ AdoptCtl \/ PutPorts
    BY <1>3 DEF Start, AdoptFlows, AdoptCtl, PutPorts, Holding
  <1>4. CASE \E r \in Role : AdoptLink(r) \/ CreateLink(r) \/ PinLink(r)
    <2>1. PICK r \in Role : AdoptLink(r) \/ CreateLink(r) \/ PinLink(r)
      BY <1>4
    <2>2. dcfg.port[r] \in Iface
      BY ConfigFields DEF TypeOK
    <2>3. held \in [Role -> Iface \cup {NoIface}]
      BY DEF TypeOK
    <2>4. CASE AdoptLink(r)
      BY <2>3, <2>4 DEF AdoptLink, Ready, AttachAt, Holding
    <2>5. CASE CreateLink(r)
      BY <2>2, <2>3, <2>5 DEF CreateLink, AttachAt, PinAt, Holding
    <2>6. CASE PinLink(r)
      BY <2>6 DEF PinLink, Ready, PinAt, Holding
    <2> QED
      BY <2>1, <2>4, <2>5, <2>6
  <1>5. CASE (\E r \in Role : Unlink(r)) \/ UnpinMaps
    BY <1>5 DEF Unlink, UnpinMaps, Holding
  <1> QED
    BY <1>1, <1>2, <1>3, <1>4, <1>5, StepKinds

\* Only attach() pins a link, a new one at a free place; Detach removes them.
LEMMA LinksApartStep ==
    ASSUME TypeOK, Holding, LinksApart, [Next]_vars
    PROVE  LinksApart'
  <1> USE DEF daemon, kernel
  <1>t. /\ link \in [Dir -> [Role -> Iface \cup {NoIface}]]
        /\ held \in [Role -> Iface \cup {NoIface}]
        /\ dcfg.pin \in Dir /\ odir \in Dir
    BY ConfigFields DEF TypeOK
  <1>1. CASE Quiet
    BY <1>1 DEF Quiet, LinksApart
  <1>2. CASE Ended
    BY <1>2 DEF Ended, Release, LinksApart, PinAt, Role
  <1>3. CASE (Start /\ dpc' = "flows") \/ AdoptFlows \/ AdoptCtl \/ PutPorts
    BY <1>3 DEF Start, AdoptFlows, AdoptCtl, PutPorts, LinksApart, PinAt, Role
  <1>4. ASSUME NEW r \in Role, AdoptLink(r)
        PROVE  LinksApart'
    BY <1>4 DEF AdoptLink, Ready, LinksApart, PinAt, Role
  <1>5. ASSUME NEW r \in Role, CreateLink(r)
        PROVE  LinksApart'
    <2>1. /\ dcfg.port[r] \in Iface /\ UNCHANGED <<link, dcfg>>
          /\ held' = [held EXCEPT ![r] = dcfg.port[r]] /\ dpc' = PinAt[r]
          /\ link[dcfg.pin][r] = NoIface
      BY <1>5, ConfigFields DEF CreateLink, TypeOK
    <2>2. /\ \A d \in Dir, q \in Role : link[d][q] # dcfg.port[r]
          /\ \A q \in Role : held[q] # dcfg.port[r]
      BY <1>5 DEF CreateLink, Attached
    <2>3. \A q \in Role : PinAt[q] = PinAt[r] => q = r
      BY DEF PinAt, Role
    <2> QED
      BY <1>t, <2>1, <2>2, <2>3 DEF LinksApart
  <1>6. ASSUME NEW r \in Role, PinLink(r)
        PROVE  LinksApart'
    <2>1. \A q \in Role : dpc' # PinAt[q]
      BY <1>6 DEF PinLink, Ready, PinAt, Role
    <2>2. /\ link' = [link EXCEPT ![dcfg.pin][r] = held[r]]
          /\ \A d \in Dir, q \in Role : link[d][q] # held[r]
      BY <1>6 DEF PinLink, LinksApart
    <2> QED
      BY <1>t, <2>1, <2>2 DEF LinksApart
  <1>7. ASSUME NEW r \in Role, Unlink(r)
        PROVE  LinksApart'
    <2>1. link' = [link EXCEPT ![odir][r] = NoIface] /\ UNCHANGED <<dpc, dcfg, held>>
      BY <1>7 DEF Unlink
    <2>2. \A q \in Role : dpc = PinAt[q] => held[q] # NoIface
      BY DEF Holding, PinAt, Role
    <2>3. \A d \in Dir, q \in Role : link'[d][q] \in {link[d][q], NoIface}
      BY <1>t, <2>1
    <2> QED
      BY <1>t, <2>1, <2>2, <2>3 DEF LinksApart
  <1>8. CASE UnpinMaps
    BY <1>8 DEF UnpinMaps, LinksApart
  <1> QED
    BY <1>1, <1>2, <1>3, <1>4, <1>5, <1>6, <1>7, <1>8, StepKinds

\* systemctl stop waits for the daemon before Detach begins, and a daemon that is
\* started meanwhile is the raced one.
LEMMA ExclusiveStep ==
    ASSUME TypeOK, Exclusive, [Next]_vars
    PROVE  Exclusive'
  <1> USE DEF daemon, kernel, operator
  <1>t. link \in [Dir -> [Role -> Iface \cup {NoIface}]] /\ odir \in Dir
    BY DEF TypeOK
  <1>1. CASE Quiet /\ (Detaching' => UNCHANGED <<opc, odir>>)
    BY <1>1 DEF Quiet, Exclusive, Detaching
  <1>2. CASE Ended /\ opc' # "unlinkU" /\ opc' # "unpin"
    BY <1>2 DEF Ended, Release, Exclusive
  <1>3. CASE Ended /\ UNCHANGED <<opc, odir>>
    <2>1. /\ dpc' = "down" /\ UNCHANGED <<opc, odir, link>>
          /\ Detaching /\ ~raced' => ~raced
      BY <1>3 DEF Ended, Release
    <2> QED
      BY <2>1 DEF Exclusive, Detaching
  <1>4. CASE Start /\ dpc' = "flows"
    <2>1. /\ UNCHANGED <<opc, odir, link>>
          /\ ~raced' => ~Detaching
      BY <1>4 DEF Start
    <2> QED
      BY <2>1 DEF Exclusive, Detaching
  <1>5. CASE AdoptFlows \/ AdoptCtl \/ PutPorts
    BY <1>5 DEF AdoptFlows, AdoptCtl, PutPorts, Exclusive, Detaching
  <1>6. ASSUME NEW r \in Role, AdoptLink(r) \/ CreateLink(r) \/ PinLink(r)
        PROVE  Exclusive'
    <2>1. dpc # "down" /\ UNCHANGED <<raced, opc, odir>>
      BY <1>6 DEF AdoptLink, CreateLink, PinLink, AttachAt, PinAt, Role
    <2> QED
      BY <2>1 DEF Exclusive, Detaching
  <1>7. ASSUME NEW r \in Role, Unlink(r)
        PROVE  Exclusive'
    <2>1. link' = [link EXCEPT ![odir][r] = NoIface] /\ UNCHANGED <<dpc, odir, raced>>
      BY <1>7 DEF Unlink
    <2>2. /\ Detaching
          /\ r = "T" => opc' = "unlinkU"
          /\ r = "U" => opc = "unlinkU" /\ opc' = "unpin"
      BY <1>7 DEF Unlink, UnlinkAt, Role, Detaching
    <2>3. \A q \in Role : link'[odir][q] = IF q = r THEN NoIface ELSE link[odir][q]
      BY <1>t, <2>1
    <2> QED
      BY <2>1, <2>2, <2>3 DEF Exclusive, Role
  <1>8. CASE UnpinMaps
    BY <1>8 DEF UnpinMaps, Exclusive, Detaching
  <1> QED
    BY <1>1, <1>2, <1>3, <1>4, <1>5, <1>6, <1>7, <1>8, StepKinds

\* What createOrAdoptShared and the tx_ports update establish.
LEMMA MapsLoaded ==
    ASSUME TypeOK, Loaded, AdoptFlows \/ AdoptCtl \/ PutPorts
    PROVE  Loaded'
  <1>t. /\ dcfg.pin \in Dir
        /\ have \in [flows : 0 .. MaxId, ctl : 0 .. MaxId]
        /\ pinned \in [Dir -> [flows : 0 .. MaxId, ctl : 0 .. MaxId]]
        /\ tx \in [Id -> [Role -> Iface]]
    BY ConfigFields DEF TypeOK
  <1>1. CASE AdoptFlows
    <2>1. have'.flows = pinned'[dcfg'.pin].flows /\ dpc' = "ctl"
      BY <1>t, <1>1 DEF AdoptFlows
    <2> QED
      BY <2>1 DEF Loaded
  <1>2. CASE AdoptCtl
    <2>1. /\ dpc = "ctl" /\ dpc' = "ports" /\ UNCHANGED <<dcfg, raced>>
      BY <1>2 DEF AdoptCtl
    <2>2. /\ have'.flows = have.flows
          /\ pinned'[dcfg.pin].flows = pinned[dcfg.pin].flows
          /\ have'.ctl = pinned'[dcfg.pin].ctl
      BY <1>t, <1>2 DEF AdoptCtl
    <2>3. have'.ctl \in Id
      <3>1. NewId \in Id
        BY <1>2, NewIdFree DEF AdoptCtl
      <3>2. have'.ctl = IF pinned[dcfg.pin].ctl # 0 THEN pinned[dcfg.pin].ctl ELSE NewId
        BY <1>t, <1>2 DEF AdoptCtl
      <3> QED
        BY <1>t, <3>1, <3>2 DEF Id
    <2> QED
      BY <2>1, <2>2, <2>3 DEF Loaded
  <1>3. CASE PutPorts
    <2>1. /\ dpc = "ports" /\ dpc' = "attachT" /\ UNCHANGED <<dcfg, raced, have, pinned>>
          /\ tx' = [tx EXCEPT ![have.ctl] = dcfg.port]
      BY <1>3 DEF PutPorts
    <2> QED
      BY <1>t, <2>1 DEF Loaded
  <1> QED
    BY <1>1, <1>2, <1>3

\* What attach() establishes: the second port's link is not the first port's, so giving
\* it its program leaves the first one's alone.
LEMMA LinksLoaded ==
    ASSUME TypeOK, Holding, LinksApart, Loaded, NEW r \in Role,
           AdoptLink(r) \/ CreateLink(r) \/ PinLink(r)
    PROVE  Loaded'
  <1>t. /\ dcfg.pin \in Dir /\ dcfg.port[r] \in Iface
        /\ link \in [Dir -> [Role -> Iface \cup {NoIface}]]
        /\ held \in [Role -> Iface \cup {NoIface}]
        /\ prog \in [Iface -> [role : Role, flows : 0 .. MaxId, ctl : 0 .. MaxId]]
        /\ NoIface \notin Iface
    BY ConfigFields, LifecycleConstants DEF TypeOK
  <1>u. /\ UNCHANGED <<have, pinned, tx, dcfg, raced>>
        /\ ProgOf("T")' = ProgOf("T") /\ ProgOf("U")' = ProgOf("U")
    BY DEF AdoptLink, CreateLink, PinLink, ProgOf
  <1> SUFFICES ASSUME ~raced PROVE Loaded'
    BY <1>u DEF Loaded
  <1>1. CASE AdoptLink(r)
    <2> DEFINE l == link[dcfg.pin][r]
    <2>1. /\ l \in Iface /\ dpc = AttachAt[r] /\ link' = link
          /\ prog' = [prog EXCEPT ![l] = ProgOf(r)] /\ held' = [held EXCEPT ![r] = l]
          /\ dpc' = IF r = "T" THEN "attachU" ELSE "run"
      BY <1>t, <1>1 DEF AdoptLink, Ready
    <2>2. prog'[l] = ProgOf(r) /\ held'[r] = l
      BY <1>t, <2>1
    <2>3. CASE r = "T"
      BY <1>t, <1>u, <2>1, <2>2, <2>3 DEF Loaded, AttachAt, Role
    <2>4. CASE r = "U"
      <3>1. dpc = "attachU" /\ held["T"] = link[dcfg.pin]["T"] /\ held["T"] # NoIface
        BY <2>1, <2>4 DEF AttachAt, Loaded, Holding
      <3>2. link[dcfg.pin]["T"] # l
        BY <1>t, <2>4, <3>1 DEF LinksApart, Role
      <3>3. "T" \in Role /\ held["T"] \in Iface
        BY <1>t, <3>1 DEF Role
      <3>4. held'["T"] = held["T"]
        BY <1>t, <2>1, <2>4, <3>3
      <3>5. prog'[held["T"]] = prog[held["T"]]
        BY <1>t, <2>1, <3>1, <3>2, <3>3
      <3> QED
        BY <1>u, <2>1, <2>2, <2>4, <3>1, <3>4, <3>5 DEF Loaded
    <2> QED
      BY <2>3, <2>4 DEF Role
  <1>2. CASE CreateLink(r)
    <2> DEFINE i == dcfg.port[r]
    <2>1. /\ dpc = AttachAt[r] /\ dpc' = PinAt[r] /\ link' = link
          /\ prog' = [prog EXCEPT ![i] = ProgOf(r)] /\ held' = [held EXCEPT ![r] = i]
      BY <1>2 DEF CreateLink
    <2>2. prog'[i] = ProgOf(r) /\ held'[r] = i
      BY <1>t, <2>1
    <2>3. CASE r = "T"
      BY <1>u, <2>1, <2>2, <2>3 DEF Loaded, AttachAt, PinAt
    <2>4. CASE r = "U"
      <3>1. dpc = "attachU" /\ held["T"] = link[dcfg.pin]["T"] /\ held["T"] # NoIface
        BY <2>1, <2>4 DEF AttachAt, Loaded, Holding
      <3>2. held["T"] # i
        BY <1>2 DEF CreateLink, Attached, Role
      <3>3. "T" \in Role /\ held["T"] \in Iface
        BY <1>t, <3>1 DEF Role
      <3>4. held'["T"] = held["T"]
        BY <1>t, <2>1, <2>4, <3>3
      <3>5. prog'[held["T"]] = prog[held["T"]]
        BY <1>t, <2>1, <3>1, <3>2, <3>3
      <3> QED
        BY <1>u, <2>1, <2>2, <2>4, <3>1, <3>4, <3>5 DEF Loaded, PinAt
    <2> QED
      BY <2>3, <2>4 DEF Role
  <1>3. CASE PinLink(r)
    <2>1. /\ dpc = PinAt[r] /\ dpc' = IF r = "T" THEN "attachU" ELSE "run"
          /\ link' = [link EXCEPT ![dcfg.pin][r] = held[r]] /\ UNCHANGED <<held, prog>>
      BY <1>3 DEF PinLink, Ready
    <2>2. \A q \in Role : link'[dcfg.pin][q] = IF q = r THEN held[r] ELSE link[dcfg.pin][q]
      BY <1>t, <2>1
    <2> QED
      BY <1>u, <2>1, <2>2 DEF Loaded, PinAt, Role
  <1> QED
    BY <1>1, <1>2, <1>3

\* No other step reaches the maps and links of a daemon that is not raced.
LEMMA LoadedStep ==
    ASSUME LifeInv, [Next]_vars
    PROVE  Loaded'
  <1> USE DEF LifeInv, daemon, kernel
  <1>1. CASE Quiet
    BY <1>1 DEF Quiet, Loaded, ProgOf
  <1>2. CASE Ended
    BY <1>2 DEF Ended, Release, Loaded
  <1>3. CASE Start /\ dpc' = "flows"
    BY <1>3 DEF Loaded
  <1>4. CASE AdoptFlows \/ AdoptCtl \/ PutPorts
    BY <1>4, MapsLoaded
  <1>5. CASE \E r \in Role : AdoptLink(r) \/ CreateLink(r) \/ PinLink(r)
    BY <1>5, LinksLoaded
  <1>6. CASE (\E r \in Role : Unlink(r)) \/ UnpinMaps
    <2>1. Detaching /\ UNCHANGED <<dpc, raced>>
      BY <1>6 DEF Unlink, UnpinMaps, Detaching, UnlinkAt, Role
    <2> QED
      BY <2>1 DEF Loaded, Exclusive
  <1> QED
    BY <1>1, <1>2, <1>3, <1>4, <1>5, <1>6, StepKinds

----------------------------------------------------------------------------
(* Theorems *)

\* The inductive invariant: what Load has achieved at each point, that pinned links are
\* on interfaces of their own, and that an unraced detach is alone.
THEOREM LifeInvariant == Spec => []LifeInv
  <1>1. Init => LifeInv
    BY TypeInit, LifecycleConstants
       DEF LifeInv, Init, Holding, LinksApart, Exclusive, Loaded, PinAt, Role, Detaching
  <1>2. LifeInv /\ [Next]_vars => LifeInv'
    BY TypeStep, HoldingStep, LinksApartStep, ExclusiveStep, LoadedStep DEF LifeInv
  <1> QED
    BY <1>1, <1>2, PTL DEF Spec

\* Every state of the daemon, the pins and the operator commands is well typed.
THEOREM TypeCorrect == Spec => []TypeOK
  <1>1. LifeInv => TypeOK
    BY DEF LifeInv
  <1> QED
    BY <1>1, LifeInvariant, PTL

\* Once Load returns, both programs work on the pinned maps and forward to the
\* configured ports, after any crashes, restarts and edits.
THEOREM RunningDaemonShares == Spec => []RunningShares
  <1>1. LifeInv => RunningShares
    BY DEF LifeInv, Holding, Loaded, RunningShares, OnePath, ProgOf, Role
  <1> QED
    BY <1>1, LifeInvariant, PTL

\* No daemon step and no end of the daemon takes a pinned program off its interface;
\* only Detach's link removal does.
THEOREM BridgeSurvives == Spec => BridgeStays
  <1>1. LifeInv /\ [Next]_vars =>
          [\A i \in Iface : (\E d \in Dir, r \in Role : link[d][r] = i) /\ ~Attached(i)'
              => opc \in {"unlinkT", "unlinkU"}]_vars
    <2> SUFFICES ASSUME LifeInv, [Next]_vars, NEW i \in Iface,
                        NEW d \in Dir, NEW r \in Role, link[d][r] = i,
                        opc \notin {"unlinkT", "unlinkU"}
                 PROVE  link'[d][r] = i
      BY DEF Attached
    <2>t. /\ link \in [Dir -> [Role -> Iface \cup {NoIface}]] /\ dcfg.pin \in Dir
          /\ NoIface \notin Iface
      BY ConfigFields, LifecycleConstants DEF LifeInv, TypeOK
    <2>1. ~ \E q \in Role : Unlink(q)
      BY DEF Unlink, UnlinkAt, Role
    <2>2. CASE \E q \in Role : PinLink(q)
      <3>1. PICK q \in Role : PinLink(q)
        BY <2>2
      <3>2. link[dcfg.pin][q] = NoIface /\ link' = [link EXCEPT ![dcfg.pin][q] = held[q]]
        BY <3>1 DEF PinLink, LifeInv, LinksApart
      <3> QED
        BY <2>t, <3>2
    <2>3. CASE ~ \E q \in Role : PinLink(q)
      <3>1. link' = link
        BY <2>1, <2>3, StepKinds
           DEF LifeInv, Quiet, Ended, Release, Start, AdoptFlows, AdoptCtl, PutPorts, AdoptLink,
               CreateLink, UnpinMaps, kernel
      <3> QED
        BY <3>1
    <2> QED
      BY <2>2, <2>3
  <1> QED
    BY <1>1, LifeInvariant, PTL DEF Spec, BridgeStays

\* When Detach ends and no daemon was started during it, no program stays attached
\* through its pin directory.
THEOREM DetachLeavesDark == Spec => DetachDarkens
  <1>1. LifeInv /\ [Next]_vars =>
          [opc = "unpin" /\ opc' # "unpin" /\ ~raced =>
              \A i \in Iface : Attached(i) =>
                  \E d \in Dir \ {odir}, r \in Role : link[d][r] = i]_vars
    <2> SUFFICES ASSUME LifeInv, opc = "unpin", ~raced, NEW i \in Iface, Attached(i)
                 PROVE  \E d \in Dir \ {odir}, r \in Role : link[d][r] = i
      OBVIOUS
    <2>1. dpc = "down" /\ \A r \in Role : link[odir][r] = NoIface
      BY DEF LifeInv, Exclusive, Detaching, Role
    <2>2. \A r \in Role : held[r] = NoIface
      BY <2>1 DEF LifeInv, Holding, Role
    <2> QED
      BY <2>1, <2>2, LifecycleConstants DEF Attached
  <1> QED
    BY <1>1, LifeInvariant, PTL DEF Spec, DetachDarkens

=============================================================================
