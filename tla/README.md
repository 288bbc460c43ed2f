# A TLA+ model of xdpfilter

xdpfilter is a transparent two-port bridge. One XDP program per port forwards every
frame to the other port, except what its connection tracking says is not a reply to
the protected host. A Go daemon loads the programs, pins maps and links under
`/sys/fs/bpf`, keeps the policy in the maps equal to a YAML file, sweeps the flow
tables and writes statistics and flow alerts. A command line and a terminal console
change the same maps and the same file from processes of their own.

This directory holds the modules that model it, the TLC configurations that check
them, and the TLAPS proofs. `PROJECT.json` lists components, runs, mutants, hazards,
theorems and, per definition, the source lines it stands for.

## 1. Inventory

| Component (source) | State | Operations | What makes it correct |
|---|---|---|---|
| Packet path, `bpf/filter.bpf.c` | `flows`, `udp_flows` (LRU), `features`, `server_allow` | one call of `xdp_filter` per packet: flag check, L1, `handle_outbound/inbound(_udp)`, forward, drop or RST | the peer reaches the host only on tuples the host used or the policy invites; SYN-ACKs match the ISN; closed flows drain |
| L1 cache, same file | per-CPU slots of key, tick, state | `l1_hit`, `l1_put` | a hit never stands for a tuple the tables did not hold in this tick |
| SYN buckets, `tbkt_charge` | `tokens`, `ts_ns` per key, written by all CPUs | look up or insert, refill, spend | no charge or credit is lost, no time is credited twice, the rate is kept |
| Flow collector, `dataplane/gc.go` | latched clock, keys to delete | iterate, then delete, for both tables | deletes what is idle, and gets to everything that stays idle |
| Live reload, `cmd/xdpfilter/main.go`, `dataplane/loader.go` | `cfgPtr`, signal and reload channels, inotify watch, debounce timer; the control maps | `reload`, `ReloadPolicy`, `ApplyFlowMonitorControl`, `watchConfig` | when all is quiet the maps say what the file says; nothing in between is outside old and new policy |
| `xdpfilter mode` | features value and file it read | read-modify-write of the map, then of the file | does not undo a concurrent reload for good |
| Console controller, `manage/controller.go` | `Base`, `Staged`, hash | `Reload`, `Apply`, `Reattach` | maps and file end up equal; when the save fails, the maps are put back as far as that goes |
| Data path lifecycle, `dataplane/loader.go` | pinned maps, pinned links, descriptors | `Load`, `Close`, `Detach`, adopted by the systemd unit | both programs share one set of maps; the bridge outlives the daemon; `Detach` takes it down |
| Flow monitoring, `monitor_flow`, `flowmonitor/flowmonitor.go` | sampling globals, CIDR trie, LRU counters; reporter's previous scan | sample, count, `Tick` | no sample lost to a race, no alert from packets that were not there or from two settings |
| Tuning, `tuning/tuning.go` | knobs of the machine, snapshot file, sysctl.d | `Apply`, `Restore` | what is restored is what was there before; a Restore that dies can be repeated; both ports get one channel count |
| Statistics, `stats/stats.go` and the counters of `filter.bpf.c` | per-CPU counters; last reading, baselines and spikes | count a frame, `Collect`, `Rates`, `Tick`, `PrintStatus`, the console's sampler | a reading taken while the CPUs count explains every drop, no packet is shown in two intervals (unless a lookup failed), and a spike that was called does not become its own baseline |
| Configuration, `config/config.go` | none | `Load`, `Validate`, `Diff`, `ApplyLiveFrom`, `Save` | what `Diff` calls live is what a reload takes over |
| Table sizing, `config/resources.go` | none | `DetectHostResources`, `RecommendDedicated` | the tables fit the host and every cgroup above the daemon |
| Console, `manage/manage.go` | staged configuration, tables, selections, the dialog on screen, background jobs | forms, list editors, keys, dialogs, jobs, flow page | no foreign edit is lost unseen, a row on screen is the entry it stands for, the console knows where the data path is |
| Flow browser, `dataplane/flows.go` | one scan at a time | `ScanFlows` | a list that does not say truncated is complete |
| Wizard, `wizard/wizard.go` | the configuration it puts together | ask, save, enable, start | writes only what `Load` accepts |
| Frame parsing, RST bytes | none | VLAN and IP parsing, checksum | not modelled |
| Probes, generated loaders, packaging scripts | none of their own | file and process I/O | not modelled |

How the parts meet: packets on all CPUs share the LRU tables with the collector and
with LRU eviction; the collector and the flow reporter read `cfgPtr`, the packets read
`features`, and a reload changes the two one after the other; daemon, console and mode
command update the same pinned maps and file without a lock; a crash leaves whatever
is pinned, and the next `Load` adopts it. Daemon, console and `status` read the counters
while all CPUs write them; the console's forms, its Apply and its jobs share one staged
configuration, and wizard, console, editors and daemon one file.

What is hard here: lock-free updates on several CPUs, state latched before a long
iteration and used after it, two-step updates of kernel state that survive a crash,
coalesced events, settings published after they took effect, and an interactive program
whose dialogs and background jobs may meet in any order. The `hazards` of
`PROJECT.json` list each place.

## 2. Modules

| Module | Role |
|---|---|
| `ReplyFilter` | abstract specification: tuples are open for a while after evidence; the peer is admitted only on open or invited tuples |
| `Datapath` | packet path, L1, eviction, clock, policy changes; refines `ReplyFilter` |
| `FlowGC` | extends `Datapath` with the collector's worker and the reload's two publications |
| `TokenBucket` | `tbkt_charge`, one memory access per step |
| `Control` | file, watcher, daemon main loop, `ReloadPolicy` (two callers), mode command, console |
| `Lifecycle` | `Load`/`Close`/`Detach` over pins and links, unit, crashes, `stop --detach`, `Reattach` |
| `FlowMonitor` | `monitor_flow` per CPU, the reload's order, `Reporter.Tick` |
| `Tuning` | `Apply` and `Restore` knob by knob in several processes, the snapshot file, failures and reboots |
| `Stats` | the counters of a frame, `Collect` cell by cell, the three readers |
| `Config` | the configuration as a record: defaults, `Validate`, `Diff`, `ApplyLiveFrom` |
| `Sizing` | what the wizard reads of a host, and the recommendation |
| `Setup` | the wizard, and what it shares with the console: file, service, pinned data paths; extends `Config` and `Sizing` |
| `Browser` | `ScanFlows` over tables in motion; extends `Setup` |
| `Console` | forms, lists, Apply, dialogs, jobs, flow page, composed with wizard, daemon and other writers; extends `Browser` |
| `DatapathProofs`, `TokenBucketProofs`, `ControlProofs`, `LifecycleProofs`, `FlowMonitorProofs`, `TuningProofs`, `StatsProofs`, `ConsoleProofs` | theorems about the module of that name; `DatapathProofs` also about `FlowGC`, `ConsoleProofs` also about what `Console` extends |
| `MC*` | instances for TLC |

### Datapath
A packet is one action per branch of its way through `xdp_filter`: `BadFlags`,
`L1Forward`, then the branches of `handle_outbound` (`OutSyn`, `OutRst`, `OutLive`,
`OutStrict`, `OutAdopt`), of `handle_inbound` (`InSynAck`, `InSyn`, `InRst`,
`InSegment`) and of the UDP handlers. Every branch contains the L1 write-through and
the verdict (`do_forward`, `do_drop`, `do_drop_tcp`) that follows it in the code. An
insert may fail (`ok`), a token may be refused (`tok`); `Evict` is the LRU's,
`ApplyFeatures` and `SyncServer` are the daemon's. The data of a packet is its side,
tuple, flags, sequence and acknowledgement number modulo `SeqMod`. `seen` and
`synIsn` are history variables: they guard nothing.

Not in this module: parsing before the handlers (VLAN, fragments, header lengths),
statistics (see `Stats`), the bytes of the RST, and two CPUs interleaving inside the
accesses to one `flow_val`.

### FlowGC
`SweepTcp`, `Visit`, `EndIteration`, `Delete`, `SweepUdp`, `EndSweep` are the worker's
steps; packets run between any two of them. The iterator may miss entries
(`EndIteration` at any time), and the latched clock may be a tick ahead of the coarse
clock of the packets. `Reload` and `Publish` are the moments the packets and the
collector learn of new TTLs. Tick differences wrap modulo `TickMod` as `uint32` does.

### TokenBucket
A call is `Lookup`, `Insert` (or `InsertFailed`), `ReadTs`, `CasTs`, `ReadRoom`,
`Add`, `ReadCur`, `Spend`. An element that is replaced or evicted lives on for the
CPUs that hold its pointer, hence numbered elements. `credited`, `paid`, `born`,
`version`, `since` and `covered` (the instants an element was credited for) are history.

### Control
`dpc` is the daemon's control point from `Start` over `load`, `ready` and the
`select` loop through one reload; `rpc` is `ReloadPolicy` per caller, with one action
per map update; `event`, `timer` and `reloadCh` are the inotify queue, the debounce
timer and the one-slot channel. A SIGHUP before `signal.Notify` kills the daemon, as
it does in Go. `Live` and `Features` say which fields a reload carries over. A save may
fail, the console's (`ApplySaveFailed`, which runs `ReloadPolicy` again with the base) and
the mode command's (`ModeSave`, after the map was changed). The exceptions of
`SettledAgrees` are history: `missed` (an edit before the watch), `halfApplied` (an Apply
that gave up without an undo, or whose undo failed or met a file or a daemon in motion;
`overlapped` says that the daemon was loading meanwhile) and, for the features alone,
`unsaved` (a mode command that could not save). `halfApplied` and `unsaved` end when the
daemon begins to load the file again. One more is a file whose lists do not fit the maps
(`Fits`): `Validate` bounds the CIDRs but not `server_allow`, and the map has 1024 entries.
`ApplyFlowMonitorControl` sets variables that `Load` has already set by name in the same
program (`setVar`), so that it fails neither before nor after `ReloadPolicy` in this model.

### Lifecycle
`have` and `held` are the daemon's descriptors, `pinned` and `link` the pin directory,
`prog` the program on each interface with the maps it uses. A map object is a number, reused
once nothing refers to it; a load waits for a free one (`FreeId`), a bound of the model that
is never met while there are more numbers than references. Two maps stand for the twelve:
`flows` is recreated when its size changes, `ctl` never is. Errors inside `Load` other than
a refused attach release the descriptors at that point, which is what `Crash` does as well.
The unit is `Type=notify`, `Restart=always`: `StartUnit` waits for `Ready` or the end of the
process. A daemon started by hand, outside the unit, is not covered.

### FlowMonitor
A counter is its packet count. `Insert` is `BPF_NOEXIST` and may be refused; the
second lookup may find nothing. `Finish` and the disabled branch of `Tick` end with
`Write`, which may fail. Rates are packets per window times the sampling factor.
`taken`, `disturbed`, `hits`, `whits`, `prevBy`, `failed` and `wrote` are history.

### Tuning
A knob is a kind and a port; one stands for all that the code treats alike. `Records`
is what each branch of `Apply` enters in the snapshot (sysctls, features and governors
only when they change, rings, channels, flags and affinities always, RSS never),
`Wanted` what it writes. `Truncate` and `SaveSnapshot` are the two halves of
`os.WriteFile`; `Persist` writes sysctl.d, which only `Reboot` reads. A previewed
(dry-run) `Apply`, one with `tune: false`, and a `Restore` without a readable file
change nothing and are no actions. `MaxValue` bounds the value of a knob. `undo`, `lost` and
the `found` field are history.

### Stats
`Bumps` is the sequence of counters for each way out of `xdp_filter` (forwarded, not TCP or
UDP, L1 hit, failed insert, drop, would-drop, RST, no policy yet); a frame bumps them one by
one on its CPU. `Collect` is one step per map element and CPU, in the order of the code;
`LookupFails` is fatal for the global element and passed over for the others. `Tick`,
`Sample` and `PrintStatus` are the three ends of a reading: the daemon subtracts modulo the
counter's width and judges spikes, the console treats a counter that went down as a fresh
one, `status` shows totals. `Detach` and `Attach` replace the map set under the readers: the
daemon goes on reading the maps it attached with, console and `status` open the pinned ones.
Counters do not wrap: an installation sees fewer frames than a 64-bit counter holds.
The words of an element are copied together per CPU; bytes, which are counted beside the
packets, and all formatting are left out. Baselines are fixed-point. `raised`, `reported`
(all increases shown so far) and `lapsed` (the counters a lookup ever failed for) are
history.

### Config, Sizing, Setup
A configuration is a record with the YAML names. `Repaired` and `Validate` are the two
halves of `Validate()`: `Unset` says what is replaced and `Substitute` by what. Texts are
reduced to whether they parse (`Canon`, `Cidrs`), and a file that does not has no fields
(`Unreadable`). A host is the numbers its `/proc` and `/sys` hold, 0 where one is missing. A
wizard session is a record of answers; an answer that would be asked for again is not a
separate step. The service is its running configuration. A data path is the directory it is
pinned under and the port of each link (`""` for none): `Load` creates or adopts the maps,
then adopts or attaches the trusted and the untrusted link, and a start that fails leaves
pinned what it had reached (`Stuck`, `Reached`), since `Close` unpins nothing. A port takes
one program, and a list of more servers than its map takes (`Overfull`, `allowMax`) stops a
start and a reload. A reload that gives up leaves the daemon as it was (`refused`). A unit
that failed or whose daemon died (`Crash`) is started again by systemd (`again`,
`Console`'s `Respawn`); one that came up this way before a rollback wrote the file back runs
another configuration (`revived`). How a start, a detach and a reattach work inside is
`Lifecycle`'s subject, and what a reload does to the maps is `Control`'s. `DesksOK` says what
the situations have in common; whoever has the console open does not run the wizard at the
same time. `told` (the fields that somebody was told need a restart or a reattach),
`refused` and `revived` are history.

### Browser
A flow is its table and its place in the hash order. `ScanVisit` is one turn of the loop;
`NextKeys` is the kernel's: the key after the last one, or the first again when that is
gone. `steady` is history: what was in the tables during the whole scan.

### Console
The interface is one goroutine (`apc` for Apply, `loaded` for Reload), a job another
(`jpc`), a flow refresh a third (`scan`). `modal` is the dialog on screen. Forms and lists
need it closed; Ctrl-S, `q`, `?` and a finishing job do not (`ui.keys` captures them first).
`activePin` is where the console looks for its maps. `raced` (the file was written while an
Apply, a Reload or the reload of a rollback was at work, or an Apply could not read back
what it had written), `reloaded` (the configuration was replaced under the tables) and
`postponed` (a reattach was put off, given up or overtaken; another program moved `pin_dir`;
a start under a `pin_dir` the console does not know failed half-way, or was systemd's own)
are history and state the exceptions of four properties. One job runs at a time, although
nothing in the code prevents a second; systemctl `reload`, `enable` and `disable` and the
tuning buttons leave this state alone and are no actions, and the alert table is only read.

## 3. Runs

| Run | Instance and bounds | Shows |
|---|---|---|
| `datapath` | 1 CPU, 1 tuple, 7 flag sets, 3 policies, 4 ticks, sequence space of 2 | types; `SynSentHasIsn`; refinement of `ReplyFilter` (`ReplyOnly`); `DrainStays` |
| `datapath_l1` | 2 CPUs, 2 tuples in one L1 slot, TCP and UDP, 2 ticks | `L1Authority` under collisions |
| `gc` | 1 tuple in both tables, 2 TTL policies, 3 ticks | `DeletesOnlyIdle`; `ExpiredIsSwept` |
| `bucket` | 2 CPUs, burst of 2 packets, 2 retries, 4 intervals, 2 elements | `Ledger`, `RefillOnce`, `RateBound`, `OpenOnlyContended` |
| `control` | five boxes, 757,000 states. A daemon with 2 configurations and a broken file beside an editor, exits and the mode command; with SIGHUPs; with mode commands that cannot save; the console beside an editor, with saves that fail; lists longer than their map. 2 or 3 writes | `SettledAgrees`, `SyncWithinBounds`, `EnableLast`, `Converges` |
| `lifecycle` | 5 interfaces (one missing, one refusing), 2 pin directories, 2 sizes; 2 commands, 2 crashes | `RunningShares`, `BridgeStays`, `DetachDarkens`, `Heals` |
| `monitor` | 2 CPUs, 1 tuple, 4 settings, failing inserts, scans and writes; 3 samples, 1 reload | `SamplesPreserved`, `NoPhantom`, `BaselineAfterChange`, `AlertsCleared` |
| `tuning` | 2 processes, 2 profiles, 2 machines with a dozen knobs between them, 2 topologies; 3 calls, 2 faults | `StillUndoable`, `RestoreUndoes`, `PortsAlike` |
| `stats` | 2 CPUs, 2 reasons, 1 VLAN; seven sites, about four million states: each reader, up to four readings in a row, lookups and reports that fail, a data path replaced under the daemon and under the console, and loads that make a spike | `EveryDropHasReason`, `ShownOnce`, `SpikeSustained` |
| `console` | eight desks, 900,000 states: forms beside another writer; each of the two lists under a reload, one with more servers than the map takes; one job around two changes; two jobs around one change and a writer; a Reattach with two failures; scans of 5 flows with both limits; 5 wizard sessions on 144 hosts | `OverwritesOnlyBase`, `NothingPending`, `ListsSound`, `PinKnown`, `BrowseComplete`, `FitsHost` |
| `restart_ports` | violation | after a restart with other interfaces the programs stay on the old ones |
| `tuning_twice` | violation | the second start's snapshot replaces the originals with tuned values |

Why the bounds are enough to be interesting: two TTLs and three or four ticks let an
entry be fresh, at its limit and expired; a sequence space of two makes every second
ISN wrap; two tuples in one slot make every put a collision; two CPUs and two retries
make lost CAS races, double refills and fail-open reachable; one more write than there
are configurations brings the file back to an earlier value; two crashes interrupt a
load and the load that repairs it; three samples let a counter be evicted, recreated
and overtake its previous value; three calls are an `Apply`, a `Restore` that dies and
the `Restore` that repeats it; four readings of two frames let a report repeat what an
earlier one has shown, after a failure or a replaced data path in between; two changes
around a job put an Apply before, into and after a Reattach, and two failures break the
Reattach and its rollback, or a start and systemd's next; five flows with limits of three
rows and five visits let a scan end by either limit, by an error, or complete. Deadlock
checking is off in every run: clocks, edit budgets and sample budgets are bounded, and the
system may be idle.

Fairness. `FlowGC`: the worker's timer fires again and again, a reload that applied
the features also publishes, and an iteration does not skip the same key for ever
(strong fairness of `Visit`). `Control`: goroutines and commands that are in progress
go on; nothing is assumed of edits, signals, exits or restarts. `Lifecycle`: a process
that was started runs on, the unit is restarted (`Restart=always`), a command in
progress goes on. `FlowMonitor`: the one-second worker and a reload that began go on;
`AlertsCleared` assumes in its premise that writes succeed eventually.

Each property has a mutant in `PROJECT.json`: a plausible slip in one definition
(an unbuffered channel, a plain store for a CAS, a missing TTL case, `BPF_ANY` for
`BPF_NOEXIST`, ...), kept in the module just before the definition it alters.

## 4. What is proved

Every safety invariant and every action property of the passing runs is a theorem; only the
liveness properties are not (see below). The theorems hold for every number of CPUs, tuples,
slots, policies, map sets, interfaces, processes, operators and writes, every rate, TTL and
table size, and every value of the bounds. Each proof module states an inductive invariant,
shows one lemma per action, and reads the theorems off it.

* `DatapathProofs`, packet path: `TypeCorrect`, `SynSentCarriesIsn`, `L1IsAuthoritative`,
  `Implements` (`Spec => ReplyOnly`, the refinement) and `DrainIsStable`. The inductive
  invariant adds to the properties that table entries have states of their own
  protocol (`TableKind`), that evidence is never in the future (`SeenPast`), that every
  entry is backed by evidence at its `last_seen` (`Backed`), and the same for cache
  entries whatever their age (`L1Backed`). Without `Backed` the refinement does not go
  through: an entry that is live only says when it was touched, and the abstract
  window counts from evidence. A packet's effect is first summarised as one of a few
  shapes (nothing changed, one TCP entry, one UDP entry, a deletion); each branch is
  shown to have one of the shapes, and each shape to preserve the invariant.
* `DatapathProofs`, collector: `SweptDatapath` (`GCSpec => Spec`: a delete of the collector is
  an eviction to the packets, the two publications of a reload are a policy change and
  nothing), hence `SweptImplements`; `GCTypeCorrect` and `OnlyIdleDeleted`. The latter needs
  `Evidenced`: what the sweep marked was past its TTL by the clock and the settings latched
  at the start of the sweep, which neither packets nor `Publish` change.
* `TokenBucketProofs`: `BucketTypes`, `NothingLost`, `CreditedOnce`, `OpenNeedsRivals` and
  `RateIsBounded`. The strengthening of the first four says which element a CPU in a call
  points to (`Pointing`), what its control point implies about the values it read
  (`Branches`), and that a call which lost n attempts has seen n writes by others
  (`Contended`). The rate needs more than that: the credits of all CPUs must not add up to
  more than the time that passed. `covered` holds the instants an element was credited for;
  `Covering` says that a refiller is about to credit none of them again, and `Earned` bounds
  what was credited by the rate times their number, so that no sum over CPUs is needed.
* `ControlProofs`: `SettledDaemonAgrees`, `SyncStaysWithinBounds` and `MonitorEnabledLast`.
  `Progress` says what each control point of `ReloadPolicy` has achieved; `AloneInv` follows a
  daemon that alone writes the maps, `FollowsFile` one beside the console and the mode
  command. The second rests on `Unsettled`: whoever disturbs a reload (an edit, a command
  half-way) leaves behind something that makes the daemon read the file again, and until
  it has, nothing is claimed. `UndoInv` follows an Apply that met no reload: the daemon still
  holds what the file says, and the undo brings the maps back there. A mode command that
  could not save is carried along as `unsaved` in `FeaturesAre`.
* `LifecycleProofs`: `TypeCorrect`, `RunningDaemonShares`, `BridgeSurvives` and
  `DetachLeavesDark`. `Loaded` says what `Load` has achieved at each control point, `Holding`
  which links it holds; `LinksApart` (no link is pinned twice, and one about to be pinned
  has its place free) is what keeps a second directory from pulling a program off under the
  first; `Exclusive` separates a detach from the daemons that run into it.
* `FlowMonitorProofs`: `TypeCorrect`, `SamplesArePreserved`, `NoPhantomAlert` and
  `BaselineIsFresh`. `OneKeyEach` and `Undisturbed` say whose counter a CPU points to while
  counters are evicted under it; `Accounted` bounds the distance between two readings of a
  counter by the hits between them, also when the later reading is of a new counter;
  `Provenance` follows the settings a reading was taken under.
* `TuningProofs`: `SnapshotSuffices`, `RestoreIsComplete` and `ChannelsAlike`. `Captured`
  follows an Apply that runs alone (what it has passed is recorded or unchanged, what is
  ahead is untouched), `Kept` the snapshot through any number of Restores at once;
  `SameKind` is needed because a knob that is missing is neither recorded nor written. For
  the channel counts, `ResolvesBoth` unfolds the pass over the two ports, `CommonFits` shows
  that its result suits both of them and the request whatever their limits, and `Alike` says
  that every port an undisturbed Apply has passed holds that count; it needs `SameKind`'s
  fact that no port comes or goes meanwhile.
* `StatsProofs`: `TypeCorrect`, `SpikesAreSustained`, `CountsShownOnce` and
  `DropsAreExplained`. `Room` says that a detached data path has a map set left; `Standing`
  that the baseline behind a spike has not moved since the spike began and was exceeded by
  far then, without which the end of a spike says nothing about the rate it began with. The
  other two are about sums over CPUs, reasons and map sets. The library's sum is a fold;
  `SumIsArea` identifies it with the cardinality of a set of pairs, by the well-foundedness
  of strict inclusion between finite sets, and lemmas on what a sum does when a term is
  taken out, grows or is zero follow. `CellsInOrder` and `LookupsOnce` say that a reading
  visits every copy of every counter once and the reasons after the drops, `BumpsInOrder`
  that a frame bumps no counter twice and a drop or a reset right after its reason.
  `CountInv` then compares a reading half-way with what is ahead of it: read and unread
  together never exceed the maps (`Within`) and, for the daemon, never fall below its last
  reading (`Rising`) but where a lookup failed (`Missed`), so that no difference is negative
  and none wraps (`Bounded`). `LedgerInv` adds up what was shown: for every counter there is
  a map set such that all that was shown of it was counted by the map sets before (`Below`)
  or is part of the last reading, which does not exceed what that map set holds (`Held`) and
  which a new reading of the same maps will not fall below (`Entry`). A report then adds to
  the sum what it adds to the reading, a reading of newer maps starts from nothing while the
  older ones move to `Below`, and a report that was not written only moves the reading.
  `AccountInv` does the same for drops against reasons: each map set is in balance at every
  moment, counting a CPU between the two bumps as a drop already (`Balanced`), and so are a
  reading and what it will still find (`Accounted`); a bump keeps the latter because a CPU
  whose drops are unread has its reasons unread as well (`ReasonsRemain`).
* `ConsoleProofs`: `NoLostUpdate`, `LiveIsLive`, `ListsAreSound`, `DataPathIsFound`,
  `BrowserIsComplete` and `RecommendationFits`. `Actors` and `Configurations` say who may be
  at work together and that what the console holds passed `Load`; `Based` ties base, hash and
  file together through Apply, Reload and a job's rollback; `Follows` bounds what the daemon
  may differ in; `Located` follows the pin directory through every point of a Reattach, its
  failure and its rollback, `PathsReached` and `PathsLeft` say that a start, however far it
  gets, and a detach, however far, touch one directory only, and `RespawnStep` and `CrashStep`
  put systemd beside all of it. The browser has an invariant of its own (`Scanning`: what was
  in the tables throughout and is behind the cursor is listed), and the recommendation is
  a chain of lemmas on integer division, minima and powers of two.

Assumptions: the named `ASSUME`s of the modules, evaluated by TLC on every run; nothing
else. They say that constants have their types and finite sets are finite, and further: `Key
# {}` (there is a tuple to monitor), `TickMod` positive (a 32-bit tick), `MaxValue` a
number, fewer frames than a packet counter of 64 bits can hold, and `DesksOK` (files have
all their fields, as `Load` starts from `Default`; the forms do not reach the lists; hosts
report natural numbers; console or wizard, not both). What a theorem holds under, beyond
that, stands in the property itself as a hypothesis (`Fits`, `AllFit`, `DaemonAlone`,
`FilesListOnce`, the history variables). Both values of each occur in the runs, but for
`FilesListOnce`, which is true of every desk.

Only model-checked: liveness (`ExpiredIsSwept`, `Converges`, `Heals`, `AlertsCleared`), as
fairness and ENABLED are out of the prover's reach. Nor does it instantiate the library's
induction principles, which take an operator; where a proof needs an induction (the sums of
`StatsProofs`), it is written for a set, with the least element of a well-founded order.

## 5. Where code and comments part

The two violation runs each refute a sentence quoted in `PROJECT.json`. Building the
models turned up more places of this kind for which no run is kept:

* the collector's deferred delete (`gc.go:101`) takes an entry that a packet touched or
  recreated after the visit (comment at `gc.go:85-87`);
* a scan that fails on the tick that notices changed settings consumes the change
  (`flowmonitor.go:86`, `:98`): the next tick compares across settings, which is why
  `BaselineAfterChange` excludes it;
* sysctl.d keeps the tuned sysctls after a `Restore`, RSS is never put back, and a
  `Restore` whose writes fail removes the snapshot all the same (`tuning.go:424`);
* `Apply` writes its snapshot last, not first (`tuning.go:66`, `:91`);
* an inbound SYN may replace an entry in `CLOSING`, which an inbound FIN can bring
  about during the host's handshake (comment at `filter.bpf.c:576-578`);
* a `SYN_RCVD` entry that an inbound RST moved to `CLOSING` is promoted to the established
  timeout by the server's own SYN-ACK (`filter.bpf.c:404-413`, comment at `:417-419`);
* a host segment that hits the L1 cache does not re-promote a flow (`README.md:90-91`);
* `do_drop_tcp` answers a RST with a RST (`filter.bpf.c:712`);
* two CPUs that credit successive intervals may use the same headroom
  (`filter.bpf.c:489`), and two that miss the bucket both insert it (`:470-474`);
* an edit between `config.Load` and the inotify watch is not seen (`main.go:159`, `:320`);
* `SyncServerAllow` deletes before it adds (`loader.go:478-481`);
* the console's `Apply` overlaps a reload (`main.go:241-243`) and overwrites an edit
  that lands between its hash check and its save (`controller.go:76`);
* the `Reload` at the end of a Reattach's rollback runs in the job's goroutine
  (`controller.go:161`, `:176`): one that loads the file before an Apply saves and hashes it
  after leaves the old `Base` beside the new hash, and the next Apply does not notice;
* `Validate` bounds neither the length of `server_allow` (the map has 1024 entries,
  `filter.bpf.c:148`, and a longer list fails half-way through every reload) nor duplicates
  in it;
* a start whose second port fails leaves the maps and the first link pinned
  (`loader.go:298`). With an unchanged `pin_dir` the daemon that a rollback starts adopts
  them; under a new `pin_dir` nobody looks there again: the link holds its port, and the
  rollback's start under the old directory fails on it (`controller.go:175`);
* systemd starts a failed unit again after two seconds (`xdpfilter.service:14`), while the
  rollback of a Reattach may not yet have written the old file back (`controller.go:172`): the
  unit then runs the configuration that is being withdrawn, and the rollback's `start` does
  nothing;
* `xdpfilter mode` whose save fails has changed the mode in the kernel all the same
  (`main.go:425`): map and file disagree until the file is loaded again;
* a reload that fails after its first update (`main.go:264`) leaves the daemon with its old
  configuration and the maps in between, also when the console has reported the change as
  live; nothing tries again before the next event;
* an Apply that cannot read back the file it saved (`controller.go:111`) keeps the old base
  and hash, so that the next one reports a foreign change;
* `Detach` leaves links that a daemon outside the unit holds (`loader.go:636`);
* the sampling mask changes before the settings are published (`flowmonitor.go:78-80`);
* the row "rst replies" has no case in `prevPkts`, so its rate is the total divided by the
  interval (`stats.go:262`, `:348`); the first rate of a reason, however high, only sets the
  baseline; of several spiking reasons only the last is reported (`:281`); a reason or VLAN
  whose lookup failed counts as zero and shows its whole total again in the next interval
  (`:147`, `:159`), which is why `ShownOnce` excepts both;
* a reading may show fewer processed than redirected packets, since CPUs are read one
  after the other;
* "Later" in the reattach dialog followed by a live Apply points the console at a directory
  that was never attached (`controller.go:117`);
* a Reattach that fails writes back the configuration from before its Apply over whatever
  was applied or edited since (`controller.go:157`, `:172`); quitting kills a Reattach under
  way (`manage.go:641`), and its result, or the error of a flow refresh, takes the place of
  a question that is on screen (`manage.go:697`, `:828`);
* after "Reload" the tables, forms and invalid marks still show the old configuration, as
  the dialog says; `_ = u.ctrl.Reload()` drops an error and reports success (`manage.go:606`);
* a list that was emptied is not the nil list `Load` made, so `Diff` reports a change
  (`config.go:400`; not in the model), and one server in two spellings is not noticed as a
  duplicate (`manage.go:221`);
* a flow deleted under the cursor restarts the iteration, so a scan may list a flow twice
  (`flows.go:67`);
* a cgroup that is full counts as one without a limit on headroom (`resources.go:175`), and
  hosts too small for the minimum tables are given them all the same (`:134`);
* the wizard replaces an existing file unasked, loses the session to a duplicate CIDR
  (`wizard.go:176`), and its start is no restart for a unit that runs (`:196`).

## 6. Plan

Done: the modules above, in the order datapath, buckets, collector, control,
lifecycle, monitoring, tuning, statistics, configuration, sizing, wizard, console, browser.

Proved, in this order: datapath and its refinement, buckets, monitoring, control, collector,
lifecycle, tuning, the buckets' rate, console with wizard and browser, statistics, the sums of
the statistics, the channel counts.

Next, modelling: a finer model of one `flow_val` under two CPUs; frame classification as a
function of a frame's shape.

Next, proving: the abstract promises behind the theorems stated as specifications of their
own (a reload as an atomic change of policy, a bucket as a rate limiter).

## 7. Not modelled

* Frame parsing and the bytes and checksum of the RST: pure functions of packet bytes.
* Interleavings of two CPUs inside one `flow_val`.
* The `flows` command's dump, `check`, probes, generated code, version metadata: read-only.
* Layout, focus and text of the terminal interface; the alert table.
* The parsing of ethtool, sysfs, `/proc`, YAML and CIDR texts beyond whether it succeeds.
* Packaging scripts.
