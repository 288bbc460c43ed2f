-------------------------------- MODULE Setup --------------------------------
(***************************************************************************)
(* The first-run wizard (internal/wizard/wizard.go) and what it shares     *)
(* with the console: the configuration file, the service and the pinned    *)
(* data paths.  A session is the list of answers an operator gives; a      *)
(* prompt that repeats until the answer is acceptable has one answer here. *)
(***************************************************************************)
EXTENDS Config, Sizing

CONSTANTS
    NoService,  \* the service is not running
    Desks       \* the situations considered: who does what, and bounds

\* A configuration has all the fields; its lists are lists.
Rule == [cidr : STRING, pps : Nat, mbps : Int]
WellFormed(c) ==
    DOMAIN c = Field /\ c.server_allow \in Seq(STRING) /\ c.cidrs \in Seq(Rule)

\* The forms do not reach the lists; whoever opens the console does not run the wizard.
ASSUME DesksOK ==
    \A d \in Desks :
        /\ \A c \in (d.initial \cup d.files) \ {Unreadable} : WellFormed(c)
        /\ DOMAIN d.values \subseteq Field \ {"server_allow", "cidrs"}
        /\ d.rules \subseteq Rule /\ d.hosts \subseteq Host
        /\ d.open \in BOOLEAN /\ (d.open => d.sessions = {})
        /\ d.flows \subseteq [proto : {"TCP", "UDP"}, place : Nat \ {0}]
        /\ d.limit \in Nat \ {0} /\ d.scanLimit \in Nat /\ d.allowMax \in Nat

VARIABLES
    desk,       \* the situation, one of Desks
    file,       \* the configuration file
    svc,        \* the configuration the daemon runs with, or NoService
    unread,     \* the file was written since the daemon last read it
    again,      \* the unit failed or its daemon died: systemd will start it again
    pins,       \* the pinned data paths: directory and the ports of the two links
    told,       \* history: changed fields known to need more than a reload
    refused,    \* history: the daemon's last reload gave up half-way
    revived,    \* history: the daemon runs what a rollback then replaced in the file
    fails,      \* bound: writes, service commands and daemons that failed
    wpc, wcfg,  \* wizard: control point and configuration
    wrec        \* wizard: the host and what was recommended for it

service == <<svc, unread, again, told, refused, revived>>
system  == <<file, svc, unread, again, pins, told, refused, revived>>
wizard  == <<wpc, wcfg, wrec>>

MayFail == fails < desk.fails /\ fails' = fails + 1

Overwrite(c) == file' = c /\ unread' = (svc # NoService)

----------------------------------------------------------------------------
(* The data path: maps and links pinned under a directory, "" for a link that is not *)

Ports(p)    == {p.trusted, p.untrusted} \ {""}
Pinned(dir) == \E p \in pins : p.dir = dir
Held(port)  == \E p \in pins : port \in Ports(p)

\* Load creates or adopts the maps, then adopts each link or attaches a new one.
OnlyMaps(dir) == [dir |-> dir, trusted |-> "", untrusted |-> ""]
PathAt(dir)   == IF Pinned(dir) THEN CHOOSE p \in pins : p.dir = dir ELSE OnlyMaps(dir)
WithTrusted(c) ==
    LET p == PathAt(c.pin_dir) IN IF p.trusted = "" THEN [p EXCEPT !.trusted = c.trusted_iface] ELSE p
WithBoth(c) ==
    LET p == WithTrusted(c) IN IF p.untrusted = "" THEN [p EXCEPT !.untrusted = c.untrusted_iface] ELSE p

Pin(p) == {q \in pins : q.dir # p.dir} \cup {p}

\* A port takes one program; the allowlist's map takes so many servers.
TrustedBusy(c)   == PathAt(c.pin_dir).trusted = "" /\ Held(c.trusted_iface)
UntrustedBusy(c) == PathAt(c.pin_dir).untrusted = "" /\ Held(c.untrusted_iface)
Overfull(c)      == Cardinality({Canon[t] : t \in ToSet(c.server_allow)}) > desk.allowMax

\* How far Load gets before it gives up, for good or by chance; Close unpins nothing.
Startable(c) == ~Overfull(c) /\ ~TrustedBusy(c) /\ ~UntrustedBusy(c)
Stuck(c)     == IF Overfull(c) \/ TrustedBusy(c) THEN PathAt(c.pin_dir) ELSE WithTrusted(c)
Reached(c)   ==
    {pins, Pin(PathAt(c.pin_dir)), Pin(Stuck(c))} \cup (IF Startable(c) THEN {Pin(WithBoth(c))} ELSE {})

\* Detach passes over links that do not go and reports maps that do not.
Detached(dir)    == {p \in pins : p.dir # dir}
DetachFails(dir) == {pins, Detached(dir) \cup {OnlyMaps(dir)}}

----------------------------------------------------------------------------
(* The service *)

\* systemctl start: nothing to do for a running unit; a daemon that starts reads the
\* file and adopts what it finds under its directory.
StartUnit ==
    /\ UNCHANGED <<file, fails>>
    /\ IF svc # NoService THEN UNCHANGED <<pins, service>>
       ELSE /\ Loadable(file) /\ Startable(Load(file)) /\ svc' = Load(file)
            /\ pins' = Pin(WithBoth(Load(file)))
            /\ unread' = FALSE /\ again' = FALSE /\ told' = {}
            /\ refused' = FALSE /\ revived' = FALSE

\* The command fails, or the daemon does and systemd tries again later.
StartUnitFails ==
    /\ svc = NoService /\ UNCHANGED <<file, svc, unread, told, refused, revived>>
    /\ \/ /\ ~Loadable(file) /\ UNCHANGED <<pins, fails>> /\ again' = TRUE
       \/ /\ Loadable(file) /\ ~Startable(Load(file)) /\ UNCHANGED fails /\ again' = TRUE
          /\ pins' = Pin(Stuck(Load(file)))
       \/ /\ Loadable(file) /\ MayFail /\ again' = TRUE /\ pins' \in Reached(Load(file))
       \/ MayFail /\ UNCHANGED <<pins, again>>

\* The daemon ends by itself; its data path stays pinned.
Crash ==
    /\ svc # NoService /\ MayFail
    /\ svc' = NoService /\ unread' = FALSE /\ again' = TRUE
    /\ UNCHANGED <<desk, file, pins, told, refused, revived, wizard>>

\* The daemon takes over the live part of a changed file, rejects the file, or gives up
\* on a policy that the maps do not take.
DaemonReload ==
    /\ svc # NoService /\ unread
    /\ unread' = FALSE
    /\ \/ ~Loadable(file) /\ UNCHANGED <<svc, refused, fails>>
       \/ /\ Loadable(file) /\ ~Overfull(Load(file)) /\ UNCHANGED fails
          /\ svc' = ApplyLiveFrom(svc, Load(file)) /\ refused' = FALSE
       \/ /\ Loadable(file) /\ (MayFail \/ (Overfull(Load(file)) /\ UNCHANGED fails))
          /\ UNCHANGED svc /\ refused' = TRUE
    /\ UNCHANGED <<desk, file, again, pins, told, revived, wizard>>

----------------------------------------------------------------------------
(* The wizard *)

\* A number that does not parse (-1) or does not suit gives way to the default.
promptU32(v, default, valid) == IF v >= 0 /\ valid THEN v ELSE default

\* No more than 4096 rules are asked for.
Capped(rules) == SubSeq(rules, 1, Min({Len(rules), 4096}))

Answers(a, rec) ==
    [Default EXCEPT
        !.trusted_iface = a.trusted, !.untrusted_iface = a.untrusted,
        !.xdp_mode = IF a.cap[a.trusted] = "native" /\ a.cap[a.untrusted] = "native"
                     THEN "native" ELSE "auto",
        !.mode = IF a.monitor THEN "monitor" ELSE "enforce", !.oos_strict = ~a.adopt,
        !.filter_udp = a.udp, !.reject_with_rst = a.rst, !.allow_inbound_syn = a.syn,
        !.allow_inbound_servers = a.allow,
        !.server_allow = IF a.allow THEN SelectSeq(a.servers, LAMBDA s : s \in DOMAIN Canon) ELSE @,
        !.flow_max = promptU32(a.flowMax, rec.flow_max, a.flowMax >= 1024),
        !.udp_flow_max = promptU32(a.udpMax, rec.udp_flow_max, a.udpMax >= 1024),
        !.l1_size = promptU32(a.l1, rec.l1_size,
                              a.l1 = 0 \/ (a.l1 >= 1024 /\ a.l1 \in PowersOfTwo(30))),
        !.enabled = a.monitoring,
        !.sample_every = IF a.monitoring THEN promptU32(a.sample, @, a.sample \in PowersOfTwo(16)) ELSE @,
        !.max_flows = IF a.monitoring THEN promptU32(a.maxFlows, @, a.maxFlows \in 1024 .. 2^20) ELSE @,
        !.cidrs = IF a.monitoring THEN Capped(SelectSeq(a.rules, RuleValid)) ELSE @,
        !.tune = a.tune]

SetupAsk(a, host) ==
    /\ wpc = "idle"
    /\ LET rec == RecommendDedicated(DetectHostResources(host))
       IN IF Cardinality(DOMAIN a.cap) < 2 \/ a.trusted = a.untrusted
          THEN wpc' = "failed" /\ UNCHANGED <<wcfg, wrec>>
          ELSE wpc' = "save" /\ wcfg' = Answers(a, rec) /\ wrec' = [host |-> host, rec |-> rec]
    /\ UNCHANGED <<desk, system, fails>>

\* Nothing is written when Validate refuses; an existing file is replaced unseen.
SetupSave ==
    /\ wpc = "save"
    /\ \/ /\ ~Validate(wcfg) /\ wpc' = "failed" /\ UNCHANGED <<file, unread, fails>>
       \/ /\ Validate(wcfg) /\ wpc' = "failed" /\ MayFail /\ UNCHANGED <<file, unread>>
       \/ /\ Validate(wcfg) /\ wpc' = "enable" /\ Overwrite(Repaired(wcfg)) /\ UNCHANGED fails
    /\ UNCHANGED <<desk, svc, again, pins, told, refused, revived, wcfg, wrec>>

\* A failing `systemctl enable` ends the wizard: the start is not tried.
SetupEnable ==
    /\ wpc = "enable"
    /\ \/ wpc' = "start" /\ UNCHANGED fails
       \/ wpc' = "failed" /\ MayFail
    /\ UNCHANGED <<desk, system, wcfg, wrec>>

SetupStart ==
    /\ wpc = "start"
    /\ \/ StartUnit /\ wpc' = "done"
       \/ StartUnitFails /\ wpc' = "failed"
       \/ UNCHANGED <<system, fails>> /\ wpc' = "done"
    /\ UNCHANGED <<desk, wcfg, wrec>>

SetupNext ==
    \/ \E a \in desk.sessions, h \in desk.hosts : SetupAsk(a, h)
    \/ SetupSave \/ SetupEnable \/ SetupStart
=============================================================================
