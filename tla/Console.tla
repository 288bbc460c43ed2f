------------------------------- MODULE Console -------------------------------
(***************************************************************************)
(* The management console (internal/manage): the forms and list editors    *)
(* that stage changes, Apply and Reload of the controller, the dialogs and *)
(* the background jobs.  The user interface is one goroutine, a job is a   *)
(* second one; the daemon, other programs that write the file and the      *)
(* wizard run beside them.  Policy maps are Control's subject and the      *)
(* kernel side of a reattach is Lifecycle's; here a data path is the       *)
(* directory it is pinned under and the ports its links hold.              *)
(*                                                                         *)
(* The hash of the file stands for its contents.  Ctrl-S and q reach the   *)
(* console whatever dialog is open (keys); everything else needs the       *)
(* dialog closed.                                                          *)
(***************************************************************************)
EXTENDS Browser

VARIABLES
    base, staged,    \* Controller.Base, Controller.Staged
    hash,            \* Controller.hash
    activePin,       \* Controller.activePinDir
    validation,      \* fields whose text does not parse
    allowRows, allowSelected,   \* the allowlist table; the selected row, 0 for none
    ruleRows, ruleSelected,     \* the same for the CIDR rules
    modal,           \* the dialog on screen
    previous,        \* result.Previous, kept by the reattach dialog
    apc, target, changes,  \* Apply: control point, next, what it changes
    loaded,          \* Reload of the interface: what it loaded, before it hashes
    jpc, jprev,      \* the job: control point, previous
    jloaded,         \* Reload of the job: what it loaded
    edits, writes, jobs,  \* bounds
    raced,           \* history: the file was written while Apply or Reload was under way, or
                     \*   Apply could not read back what it had written
    reloaded,        \* history: Staged was replaced under the tables
    postponed        \* history: a reattach was put off, given up or overtaken by Apply; another
                     \*   program changed pin_dir; or a start under a pin_dir the console does not
                     \*   know failed half-way, or was systemd's own

ctrl    == <<base, staged, hash, activePin>>
lists   == <<allowRows, allowSelected, ruleRows, ruleSelected>>
ui      == <<modal, previous, apc, target, changes, loaded>>
job     == <<jpc, jprev, jloaded>>
bounds  == <<edits, writes, jobs>>
history == <<raced, reloaded, postponed>>
console == <<ctrl, validation, lists, ui, job, history>>
vars    == <<desk, system, fails, wizard, browser, console, bounds>>

Nothing == Unreadable    \* a configuration variable that is not in use

Open     == modal # "closed"
Idle     == Open /\ apc = "idle" /\ loaded = Nothing
Editing  == Idle /\ modal = "none" /\ edits < desk.edits /\ edits' = edits + 1
Reattaching == jprev # Nothing \/ modal \in {"reattach", "typed"}

----------------------------------------------------------------------------
(* Forms and lists: all they change is staged *)

Names == {"trusted_iface", "untrusted_iface", "pin_dir", "stats_dir"}

\* Text that parses is staged; text that does not marks the field.  An empty string
\* is staged and marks its field.
SetField(f) ==
    /\ Editing /\ \E v \in desk.values[f] : staged' = [staged EXCEPT ![f] = v]
    /\ validation' = IF f \in Names /\ staged'[f] = "" THEN validation \cup {f} ELSE validation \ {f}
    /\ UNCHANGED <<desk, system, fails, wizard, browser, base, hash, activePin, lists, ui, job, history, writes, jobs>>

Misspell(f) ==
    /\ Editing /\ f \in desk.numeric
    /\ validation' = validation \cup {f}
    /\ UNCHANGED <<desk, system, fails, wizard, browser, ctrl, lists, ui, job, history, writes, jobs>>

SelectAllow(row) ==
    /\ Idle /\ modal = "none" /\ allowSelected' = row
    /\ UNCHANGED <<desk, system, fails, wizard, browser, ctrl, validation, allowRows, ruleRows, ruleSelected,
                   ui, job, history, bounds>>

Message == modal' = "message" /\ UNCHANGED <<previous, apc, target, changes, loaded>>

\* The entry at the selected row is replaced, or one is added.
PutAt(list, row, e) == IF row \in DOMAIN list THEN [list EXCEPT ![row] = e] ELSE Append(list, e)

AnyRowReplaces(entry) == allowSelected = 0 /\ entry \in ToSet(staged.server_allow)
ListedElsewhere(entry) ==
    \E i \in DOMAIN staged.server_allow : staged.server_allow[i] = entry /\ i # allowSelected

Refuse == Message /\ UNCHANGED <<staged, allowRows, allowSelected, ruleRows, ruleSelected>>

StageAllow(list) ==
    /\ staged' = [staged EXCEPT !.server_allow = list]
    /\ allowRows' = list /\ allowSelected' = 0 /\ UNCHANGED <<ruleRows, ruleSelected, ui>>

saveAllowEntry(text) ==
    /\ Editing
    /\ IF text \notin DOMAIN Canon \/ ListedElsewhere(Canon[text]) THEN Refuse
       ELSE StageAllow(PutAt(staged.server_allow, allowSelected, Canon[text]))
    /\ UNCHANGED <<desk, system, fails, wizard, browser, base, hash, activePin, validation, job, history, writes, jobs>>

deleteAllowEntry ==
    /\ Editing /\ allowSelected \in DOMAIN staged.server_allow
    /\ StageAllow(RemoveAt(staged.server_allow, allowSelected))
    /\ UNCHANGED <<desk, system, fails, wizard, browser, base, hash, activePin, validation, job, history, writes, jobs>>

SelectRule(row) ==
    /\ Idle /\ modal = "none" /\ ruleSelected' = row
    /\ UNCHANGED <<desk, system, fails, wizard, browser, ctrl, validation, allowRows, allowSelected, ruleRows,
                   ui, job, history, bounds>>

StageRules(list) ==
    /\ staged' = [staged EXCEPT !.cidrs = list]
    /\ ruleRows' = list /\ ruleSelected' = 0 /\ UNCHANGED <<allowRows, allowSelected, ui>>

RowOf(cidr) == {i \in DOMAIN staged.cidrs : staged.cidrs[i].cidr = cidr}

\* A CIDR that has a rule replaces it, unless another row is selected.
saveFlowMonitorRule(r) ==
    /\ Editing
    /\ IF ~RuleValid(r) \/ (ruleSelected # 0 /\ RowOf(r.cidr) \ {ruleSelected} # {}) THEN Refuse
       ELSE StageRules(PutAt(staged.cidrs, Max({ruleSelected} \cup RowOf(r.cidr)), r))
    /\ UNCHANGED <<desk, system, fails, wizard, browser, base, hash, activePin, validation, job, history, writes, jobs>>

\* The selected rule goes, or the one whose CIDR was typed.
deleteFlowMonitorRule(cidr) ==
    /\ Editing
    /\ LET rows == IF ruleSelected \in DOMAIN staged.cidrs THEN {ruleSelected} ELSE RowOf(cidr)
       IN IF rows = {} THEN Refuse ELSE StageRules(RemoveAt(staged.cidrs, Min(rows)))
    /\ UNCHANGED <<desk, system, fails, wizard, browser, base, hash, activePin, validation, job, history, writes, jobs>>

----------------------------------------------------------------------------
(* Apply, in the interface's goroutine *)

Show(m) == modal' = m

NeverChanged == FALSE
Changed      == file # hash    \* ErrConfigChanged

\* Each of the early returns, then on to the policy maps.  Nothing keeps Ctrl-S from
\* coming while a dialog or a job is about to reattach.
apply ==
    /\ Idle
    /\ LET diff == Diff(base, staged)
       IN \/ /\ validation # {} \/ diff = {} \/ (~Changed /\ ~Validate(staged))
             /\ Show("message") /\ UNCHANGED <<apc, target, changes, previous>>
          \/ /\ validation = {} /\ diff # {} /\ Changed
             /\ Show("conflict") /\ UNCHANGED <<apc, target, changes, previous>>
          \/ /\ validation = {} /\ diff # {} /\ ~Changed /\ Validate(staged)
             /\ apc' = "policy" /\ target' = Repaired(staged) /\ changes' = diff /\ previous' = base
             /\ UNCHANGED modal
    /\ postponed' = (postponed \/ Reattaching)
    /\ UNCHANGED <<desk, system, fails, wizard, browser, ctrl, validation, lists, loaded, job, raced, reloaded, bounds>>

\* ReloadPolicy through the pins, if there are any, may fail.
ApplyPolicy ==
    /\ apc = "policy"
    /\ \/ /\ Pinned(activePin) => ~Overfull(target)
          /\ apc' = "save" /\ UNCHANGED <<modal, fails>>
       \/ /\ Pinned(activePin) /\ (MayFail \/ (Overfull(target) /\ UNCHANGED fails))
          /\ apc' = "idle" /\ Show("message")
    /\ UNCHANGED <<desk, system, wizard, browser, ctrl, validation, lists, previous, target, changes, loaded,
                   job, history, bounds>>

ApplySave ==
    /\ apc = "save"
    /\ \/ Overwrite(target) /\ apc' = "rehash" /\ UNCHANGED <<modal, fails>>
       \/ UNCHANGED <<file, unread>> /\ MayFail /\ apc' = "idle" /\ Show("message")
    /\ raced' = (raced \/ jpc = "rhash")
    /\ UNCHANGED <<desk, svc, again, pins, told, refused, revived, wizard, browser, ctrl, validation, lists,
                   previous, target, changes, loaded, job, reloaded, postponed, bounds>>

AlwaysMovesPin == TRUE
MovesPin       == Impact(changes) < Reattach

\* The new base is what was saved; the hash is that of whatever the file holds now.  A
\* file that cannot be read back leaves the old ones, and nobody is asked to restart.
ApplyRehash ==
    /\ apc = "rehash" /\ apc' = "idle"
    /\ \/ /\ base' = target /\ staged' = target /\ hash' = file
          /\ activePin' = IF MovesPin THEN target.pin_dir ELSE activePin
          /\ told' = IF Impact(changes) >= Restart THEN told \cup changes ELSE told
          /\ Show(CASE Impact(changes) = Reattach -> "reattach"
                    [] Impact(changes) = Restart -> "restart"
                    [] OTHER -> "message")
          /\ UNCHANGED <<fails, raced, postponed>>
       \/ /\ MayFail /\ Show("message") /\ UNCHANGED <<ctrl, told>>
          /\ raced' = TRUE /\ postponed' = (postponed \/ ~MovesPin)
    /\ UNCHANGED <<desk, file, svc, unread, again, pins, refused, revived, wizard, browser, validation, lists,
                   previous, target, changes, loaded, job, reloaded, bounds>>

----------------------------------------------------------------------------
(* Dialogs *)

\* A button that only closes the dialog: OK, Cancel, Later.
Dismiss ==
    /\ Idle /\ modal \in {"message", "conflict", "restart", "reattach", "typed", "quit"}
    /\ Show("none")
    /\ postponed' = (postponed \/ modal \in {"reattach", "typed"})
    /\ UNCHANGED <<desk, system, fails, wizard, browser, ctrl, validation, lists, previous, apc, target, changes,
                   loaded, job, raced, reloaded, bounds>>

\* "Reload" of the conflict dialog.  The error of a file that does not load is dropped.
ReloadLoad ==
    /\ Idle /\ modal = "conflict"
    /\ IF Loadable(file) THEN loaded' = Load(file) /\ Show("none")
                         ELSE Show("message") /\ UNCHANGED loaded
    /\ UNCHANGED <<desk, system, fails, wizard, browser, ctrl, validation, lists, previous, apc, target, changes,
                   job, history, bounds>>

\* Neither the tables nor the fields marked invalid follow the new Staged.
ReloadHash ==
    /\ Open /\ loaded # Nothing
    /\ base' = loaded /\ staged' = loaded /\ hash' = file /\ loaded' = Nothing
    /\ reloaded' = TRUE /\ Show("message")
    /\ UNCHANGED <<desk, system, fails, wizard, browser, activePin, validation, lists, previous, apc, target,
                   changes, job, raced, postponed, bounds>>

\* Help, or q with changes staged: the dialog takes the place of any other.
Interrupt ==
    /\ Idle /\ desk.keys
    /\ \/ Show("message")
       \/ Diff(base, staged) # {} /\ Show("quit")
    /\ postponed' = (postponed \/ modal \in {"reattach", "typed"})
    /\ UNCHANGED <<desk, system, fails, wizard, browser, ctrl, validation, lists, previous, apc, target, changes,
                   loaded, job, raced, reloaded, bounds>>

\* The console ends, and its job with it, wherever that is.
Quit ==
    /\ Idle /\ desk.keys /\ (Diff(base, staged) = {} \/ modal = "quit")
    /\ Show("closed") /\ jpc' = "idle" /\ jprev' = Nothing /\ jloaded' = Nothing
    /\ UNCHANGED <<desk, system, fails, wizard, browser, ctrl, validation, lists, previous, apc, target, changes,
                   loaded, history, bounds>>

----------------------------------------------------------------------------
(* Jobs: systemctl, detach and Reattach(previous) in a goroutine of their own.  Nothing in *)
(* the code keeps a second job from starting; here one runs at a time.                     *)

Launch(step, prev) ==
    /\ jpc = "idle" /\ jobs < desk.jobs /\ jobs' = jobs + 1
    /\ jpc' = step /\ jprev' = prev /\ Show("message")
    /\ UNCHANGED <<desk, system, fails, wizard, browser, ctrl, validation, lists, previous, apc, target, changes,
                   loaded, jloaded, history, edits, writes>>

LaunchService ==
    \/ \E a \in {"start", "stop", "restart", "detach"} : Idle /\ modal = "none" /\ Launch(a, Nothing)
    \/ Idle /\ modal = "restart" /\ Launch("restart", Nothing)

\* "Reattach now" asks for the word to be typed first.
AskTyped ==
    /\ Idle /\ modal = "reattach" /\ Show("typed")
    /\ UNCHANGED <<desk, system, fails, wizard, browser, ctrl, validation, lists, previous, apc, target, changes,
                   loaded, job, history, bounds>>

LaunchReattach == Idle /\ modal = "typed" /\ Launch("rstop", previous)

JobElse == <<desk, wizard, browser, validation, lists, ui, jprev, bounds, raced>>

\* Only Reattach gives up when the service cannot be stopped; detach goes on.
JobStop ==
    /\ jpc \in {"stop", "restart", "detach", "rstop"}
    /\ \/ /\ svc' = NoService /\ unread' = FALSE /\ again' = FALSE /\ UNCHANGED <<fails, postponed>>
          /\ jpc' = [stop |-> "done", restart |-> "start", detach |-> "unpin", rstop |-> "rdetach"][jpc]
       \/ /\ MayFail /\ UNCHANGED <<svc, unread, again>>
          /\ jpc' = IF jpc = "detach" THEN "unpin" ELSE "done"
          /\ postponed' = (postponed \/ jpc = "rstop")
    /\ UNCHANGED <<file, pins, told, refused, revived, ctrl, jloaded, reloaded, JobElse>>

JobUnpin ==
    /\ jpc \in {"unpin", "rdetach"}
    /\ LET dir == IF jpc = "unpin" THEN activePin ELSE jprev.pin_dir
       IN \/ /\ UNCHANGED fails /\ pins' = Detached(dir)
             /\ jpc' = IF jpc = "unpin" THEN "done" ELSE "rstart"
          \/ /\ MayFail /\ pins' \in DetachFails(dir)
             /\ jpc' = IF jpc = "unpin" THEN "done" ELSE "rsave"
    /\ UNCHANGED <<file, service, ctrl, jloaded, reloaded, postponed, JobElse>>

\* A start that fails under another directory may leave ports there.
JobStart ==
    /\ jpc \in {"start", "rstart", "ragain"}
    /\ \/ /\ StartUnit /\ jpc' = IF jpc = "ragain" THEN "rload" ELSE "done"
          /\ activePin' = IF jpc = "rstart" THEN base.pin_dir ELSE activePin
          /\ UNCHANGED postponed
       \/ /\ StartUnitFails /\ UNCHANGED activePin
          /\ jpc' = [start |-> "done", rstart |-> "rsave", ragain |-> "rload"][jpc]
          /\ postponed' = (postponed \/ (jpc = "rstart" /\ Loadable(file) /\ Load(file).pin_dir # jprev.pin_dir))
    /\ UNCHANGED <<base, staged, hash, jloaded, reloaded, JobElse>>

\* The rollback overwrites whatever the file holds by now; systemd may have started the
\* unit with that.
JobSavePrevious ==
    /\ jpc = "rsave"
    /\ \/ /\ Overwrite(jprev) /\ jpc' = "ragain" /\ UNCHANGED <<fails, postponed>>
          /\ revived' = (revived \/ svc # NoService)
       \/ /\ MayFail /\ jpc' = "done" /\ postponed' = TRUE /\ UNCHANGED <<file, unread, revived>>
    /\ raced' = (raced \/ apc # "idle" \/ loaded # Nothing)
    /\ UNCHANGED <<desk, svc, again, pins, told, refused, wizard, browser, ctrl, validation, lists, ui, jprev,
                   jloaded, bounds, reloaded>>

JobReload ==
    \/ /\ jpc = "rload"
       /\ IF Loadable(file) THEN jloaded' = Load(file) /\ jpc' = "rhash"
                            ELSE jpc' = "done" /\ UNCHANGED jloaded
       /\ UNCHANGED <<system, fails, ctrl, reloaded, postponed, JobElse>>
    \/ /\ jpc = "rhash" /\ jpc' = "done"
       /\ base' = jloaded /\ staged' = jloaded /\ hash' = file /\ jloaded' = Nothing
       /\ reloaded' = TRUE
       /\ UNCHANGED <<system, fails, activePin, postponed, JobElse>>

\* The result takes the place of whatever dialog is open, a question included.
JobDone ==
    /\ jpc = "done" /\ Idle
    /\ jpc' = "idle" /\ jprev' = Nothing /\ Show("message")
    /\ postponed' = (postponed \/ modal \in {"reattach", "typed"})
    /\ UNCHANGED <<desk, system, fails, wizard, browser, ctrl, validation, lists, previous, apc, target, changes,
                   loaded, jloaded, raced, reloaded, bounds>>

----------------------------------------------------------------------------
(* The Flows page: refreshFlows in a goroutine of its own *)

\* The Refresh button, r, or the sampler's timer: at most one refresh at a time, with
\* the filter as it is now.  A dialog on screen does not matter.
requestFlowRefresh ==
    /\ Idle /\ scan = Quiet /\ edits < desk.edits
    /\ \E q \in desk.queries : scan' = [pc |-> "open", query |-> q]
    /\ edits' = edits + 1
    /\ UNCHANGED <<desk, system, fails, wizard, table, shown, churns, console, writes, jobs>>

RefreshOpen ==
    /\ scan.pc = "open" /\ Open
    /\ scan' = IF Pinned(activePin) THEN StartScan(scan.query) ELSE [scan EXCEPT !.pc = "error"]
    /\ UNCHANGED <<desk, system, fails, wizard, table, shown, churns, console, bounds>>

\* An error takes the place of whatever dialog is open.
RefreshShow ==
    /\ scan.pc \in {"end", "error"} /\ Idle
    /\ scan' = Quiet
    /\ IF scan.pc = "end"
       THEN /\ shown' = [f \in {"query", "rows", "truncated", "steady"} |-> scan[f]]
            /\ UNCHANGED <<modal, postponed>>
       ELSE /\ Show("message") /\ UNCHANGED shown
            /\ postponed' = (postponed \/ modal \in {"reattach", "typed"})
    /\ UNCHANGED <<desk, system, fails, wizard, table, churns, ctrl, validation, lists, previous, apc,
                   target, changes, loaded, job, raced, reloaded, bounds>>

----------------------------------------------------------------------------
(* Other programs, and the whole *)

ExternalWrite(c) ==
    /\ writes < desk.writes /\ writes' = writes + 1 /\ c # file
    /\ Overwrite(c)
    /\ told' = IF svc # NoService /\ Loadable(c) THEN told \cup (Diff(svc, Load(c)) \ LiveFields) ELSE told
    /\ raced' = (raced \/ apc # "idle" \/ loaded # Nothing \/ jpc = "rhash")
    /\ postponed' = (postponed \/ (Loadable(c) /\ Loadable(file) => Load(c).pin_dir # Load(file).pin_dir))
    /\ UNCHANGED <<desk, svc, again, pins, refused, revived, fails, wizard, browser, ctrl, validation, lists, ui,
                   job, reloaded, edits, jobs>>

\* systemd (Restart=always) starts the unit again, beside whatever the console does.
Respawn ==
    /\ svc = NoService /\ again /\ (StartUnit \/ StartUnitFails)
    /\ postponed' = (postponed \/ (Loadable(file) /\ Load(file).pin_dir # activePin))
    /\ UNCHANGED <<desk, wizard, browser, ctrl, validation, lists, ui, job, raced, reloaded, bounds>>

Init ==
    /\ desk \in Desks /\ file \in desk.initial
    /\ desk.open => Loadable(file) /\ ~Overfull(Load(file))
    /\ fails = 0 /\ unread = FALSE /\ told = {} /\ again = FALSE /\ refused = FALSE /\ revived = FALSE
    /\ wpc = "idle" /\ wcfg = Nothing /\ wrec = Nothing
    /\ IF desk.open
       THEN /\ svc = Load(file) /\ modal = "none"
            /\ pins = {[dir |-> svc.pin_dir, trusted |-> svc.trusted_iface, untrusted |-> svc.untrusted_iface]}
            /\ base = Load(file) /\ activePin = base.pin_dir
       ELSE /\ svc = NoService /\ pins = {} /\ modal = "closed"
            /\ base = Nothing /\ activePin = ""
    /\ staged = base /\ hash = file /\ validation = {}
    /\ allowRows = (IF desk.open THEN base.server_allow ELSE <<>>) /\ allowSelected = 0
    /\ ruleRows = (IF desk.open THEN base.cidrs ELSE <<>>) /\ ruleSelected = 0
    /\ previous = Nothing /\ apc = "idle" /\ target = Nothing /\ changes = {} /\ loaded = Nothing
    /\ jpc = "idle" /\ jprev = Nothing /\ jloaded = Nothing
    /\ table = desk.flows /\ scan = Quiet /\ shown = Quiet /\ churns = 0
    /\ edits = 0 /\ writes = 0 /\ jobs = 0
    /\ raced = FALSE /\ reloaded = FALSE /\ postponed = FALSE

Next ==
    \/ \E f \in DOMAIN desk.values : SetField(f) \/ Misspell(f)
    \/ \E row \in DOMAIN allowRows : SelectAllow(row)
    \/ \E row \in DOMAIN ruleRows : SelectRule(row)
    \/ \E text \in desk.texts : saveAllowEntry(text)
    \/ deleteAllowEntry
    \/ \E r \in desk.rules : saveFlowMonitorRule(r) \/ deleteFlowMonitorRule(r.cidr)
    \/ apply \/ ApplyPolicy \/ ApplySave \/ ApplyRehash
    \/ Dismiss \/ ReloadLoad \/ ReloadHash \/ Interrupt \/ Quit
    \/ LaunchService \/ AskTyped \/ LaunchReattach
    \/ JobStop \/ JobUnpin \/ JobStart \/ JobSavePrevious \/ JobReload \/ JobDone
    \/ \E c \in desk.files : ExternalWrite(c)
    \/ Respawn
    \/ (DaemonReload \/ Crash \/ SetupNext) /\ UNCHANGED <<browser, console, bounds>>
    \/ requestFlowRefresh \/ RefreshOpen \/ RefreshShow
    \/ BrowserNext /\ UNCHANGED <<console, bounds>>

Spec == Init /\ [][Next]_vars

----------------------------------------------------------------------------
(* Properties *)

\* No lost update: Apply replaces only the very configuration its changes were made
\* from, unless the file was written while another Apply or Reload was at work.
OverwritesOnlyBase ==
    [][apc = "save" /\ apc' = "rehash" => (Loadable(file) /\ Load(file) = base) \/ raced]_vars

\* What Apply calls live is live: once the daemon has read the file, it differs from
\* the file only in fields somebody was told about (Diff against ApplyLiveFrom), unless
\* its reload gave up or it came up by itself before a rollback wrote the file.
NothingPending ==
    svc # NoService /\ ~unread /\ ~refused /\ ~revived /\ ~raced /\ apc = "idle" /\ Loadable(file) =>
        Diff(svc, Load(file)) \subseteq told

\* Validate lets a file list a server twice.
FilesListOnce(d) == \A c \in (d.initial \cup d.files) \ {Unreadable} : Unique(c.server_allow)

\* The list editors: a row on screen is the entry that Replace or Delete would hit, until
\* a reload, and no text is listed twice that the file does not list twice, whatever was
\* selected before.
ListsSound ==
    Open =>
        /\ ~reloaded => allowRows = staged.server_allow /\ ruleRows = staged.cidrs
        /\ FilesListOnce(desk) => Unique(staged.server_allow)
        /\ Unique([i \in DOMAIN staged.cidrs |-> staged.cidrs[i].cidr])

\* No program is attached where the console does not look, also after a Reattach that
\* failed: unless a reattach is still to be decided on or was put off, or a start under
\* another directory failed half-way or was systemd's own.
PinKnown ==
    Open /\ apc = "idle" /\ ~Reattaching /\ ~postponed =>
        \A p \in pins : Ports(p) # {} => p.dir = activePin

\* A table of flows that does not say "truncated" misses none that was there all the
\* time and matches the filter, whatever came and went during the scan.
BrowseComplete ==
    shown # Quiet =>
        /\ ~shown.truncated => {f \in shown.steady : Matches(shown.query, f)} \subseteq ToSet(shown.rows)
        /\ Len(shown.rows) <= desk.limit /\ \A f \in ToSet(shown.rows) : Matches(shown.query, f)

\* Of a room, four fifths may be used, apart from the fixed maps and the smallest tables.
FitsRoom(rec, room) ==
    rec.estimated <= Max({(room \div 5) * 4 + 4, rec.fixed}) + flowEntryEstimate * 2048

Fits(rec, h) ==
    LET max(i) == parseMemoryValue(h.cgroups[i].max, h.total)
    IN /\ h.total > 0 => FitsRoom(rec, h.total \div 3)
       /\ h.available > 0 => FitsRoom(rec, h.available)
       /\ \A i \in DOMAIN h.cgroups : max(i) > 0 =>
             /\ FitsRoom(rec, max(i) \div 3)
             /\ max(i) > h.cgroups[i].cur => FitsRoom(rec, max(i) - h.cgroups[i].cur)
       /\ rec.l1_size = 0 \/ rec.l1_size \in PowersOfTwo(16)

\* The recommendation fits a third of the memory and the room left in every cgroup
\* that has any, but for the fixed maps and the smallest tables.
FitsHost == wrec # Nothing => Fits(wrec.rec, wrec.host)
=============================================================================
