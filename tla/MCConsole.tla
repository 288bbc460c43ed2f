----------------------------- MODULE MCConsole -----------------------------
EXTENDS Console

Spellings == [t \in {"a:80", "a:080", "b:80", "c:80"} |-> IF t = "a:080" THEN "a:80" ELSE t]

MCRule(cidr, pps) == [cidr |-> cidr, pps |-> pps, mbps |-> 0]

Old == [Default EXCEPT !.trusted_iface = "t", !.untrusted_iface = "u",
                       !.server_allow = <<"a:080", "b:80">>, !.cidrs = <<MCRule("net1", 5)>>]

NoEdits == [f \in {} |-> {}]
Desk(values) ==
    [open |-> TRUE, initial |-> {Old}, values |-> values, numeric |-> {}, texts |-> {}, rules |-> {},
     files |-> {}, sessions |-> {}, hosts |-> {}, keys |-> FALSE,
     flows |-> {}, queries |-> {}, limit |-> 1, scanLimit |-> 0, maxEntries |-> 0, churns |-> 0, allowMax |-> 2,
     edits |-> 2, writes |-> 0, jobs |-> 0, fails |-> 0]

\* Forms with every kind of field beside another program that writes the file, also
\* one that needs repair and one that does not load.
Forms ==
    [Desk([mode |-> {"enforce"}, sample_every |-> {3}, udp_flow_max |-> {5}, stats_dir |-> {""}])
       EXCEPT !.numeric = {"sample_every"}, !.keys = TRUE, !.writes = 1, !.fails = 1, !.edits = 2,
              !.files = {[Old EXCEPT !.ttl_udp = 0, !.tune = FALSE, !.filter_udp = ~@], [Old EXCEPT !.flow_max = 5]}]

\* The two list editors, with texts and rules of every kind, more servers than the map
\* takes, and a reload under them.
Servers ==
    [Desk(NoEdits) EXCEPT !.texts = {"a:80", "b:80", "c:80", "junk"}, !.edits = 2, !.writes = 1,
         !.files = {[Old EXCEPT !.server_allow = <<"b:80">>],
                    [Old EXCEPT !.server_allow = <<"a:80", "b:80", "c:80">>]}]
Rules ==
    [Desk(NoEdits) EXCEPT !.edits = 2, !.writes = 1,
         !.rules = {MCRule("net1", 7), MCRule("net2", 1), MCRule("net2", 0), MCRule("host", 1)},
         !.files = {[Old EXCEPT !.cidrs = <<>>]}]

\* Changes of every impact and jobs that may fail anywhere: two changes around one job,
\* two jobs with a writer around one change, and a Reattach with two failures.
Jobs ==
    [Desk([pin_dir |-> {"pin2"}, ttl_syn |-> {20}, flow_max |-> {2048}]) EXCEPT
         !.edits = 2, !.jobs = 1, !.fails = 1]
Restarts ==
    [Jobs EXCEPT !.values = [pin_dir |-> {"pin2"}, flow_max |-> {2048}], !.edits = 1,
         !.jobs = 2, !.writes = 1, !.files = {[Old EXCEPT !.ttl_est = 60]}]
Failing ==
    [Jobs EXCEPT !.values = [pin_dir |-> {"pin2"}, trusted_iface |-> {"t2"}], !.edits = 1,
         !.keys = TRUE, !.fails = 2]

\* Refreshes of the Flows page over tables in motion, and a detach under them.
Flow(m, i) == [proto |-> m, place |-> i]
Browse ==
    [Desk(NoEdits) EXCEPT
         !.flows = {Flow("TCP", 1), Flow("TCP", 2), Flow("TCP", 3), Flow("UDP", 1), Flow("UDP", 2)},
         !.queries = {[proto |-> "ALL", hits |-> {Flow("TCP", 1), Flow("TCP", 3), Flow("UDP", 1)}],
                      [proto |-> "UDP", hits |-> {Flow("UDP", 1), Flow("UDP", 2)}]},
         !.limit = 3, !.scanLimit = 5, !.maxEntries = 3, !.churns = 2, !.jobs = 1, !.edits = 1]

Session ==
    [cap |-> [t |-> "native", u |-> "generic"], trusted |-> "t", untrusted |-> "u", monitor |-> TRUE,
     adopt |-> FALSE, udp |-> TRUE, rst |-> FALSE, syn |-> FALSE, allow |-> TRUE,
     servers |-> <<"a:080", "junk", "a:80">>, flowMax |-> -1, udpMax |-> 5, l1 |-> 3000,
     monitoring |-> TRUE, sample |-> 3, maxFlows |-> 2048,
     rules |-> <<MCRule("net1", 0), MCRule("net1", 1)>>, tune |-> FALSE]
Sessions ==
    {Session,
     [Session EXCEPT !.untrusted = "t"],
     [Session EXCEPT !.cap = [t |-> "native"]],
     [Session EXCEPT !.cap["u"] = "native", !.monitor = FALSE, !.monitoring = FALSE, !.allow = FALSE,
                     !.flowMax = 4096, !.udpMax = 2048, !.l1 = 0],
     [Session EXCEPT !.rules = <<MCRule("net1", 1), MCRule("net2", 2), MCRule("net1", 3)>>]}

MiB == 2^20
Hosts ==
    [total : {0, 32 * MiB, 256 * MiB, 1024 * MiB}, available : {0, 24 * MiB, 200 * MiB},
     possible : {0, 2, 64}, online : {2},
     cgroups : {<<>>, <<[max |-> 128 * MiB, cur |-> 16 * MiB], [max |-> 0, cur |-> 20 * MiB]>>,
                <<[max |-> 512 * MiB, cur |-> 1 * MiB], [max |-> 64 * MiB, cur |-> 40 * MiB]>>,
                <<[max |-> 64 * MiB, cur |-> 64 * MiB]>>}]

\* The wizard on a fresh box and over an existing file, on hosts of many sizes.
Wizard ==
    [Desk(NoEdits) EXCEPT !.open = FALSE, !.initial = {Unreadable, Old}, !.sessions = Sessions,
         !.hosts = Hosts, !.fails = 1]

AllDesks == {Forms, Servers, Rules, Jobs, Restarts, Failing, Browse, Wizard}
=============================================================================
