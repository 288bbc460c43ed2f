------------------------------ MODULE MCStats ------------------------------
EXTENDS Stats

\* Two CPUs race the daemon's reading; one CPU floods; one report after another, some
\* of which fail; the data path is replaced under the daemon, which keeps its maps, and
\* under the console; `status` reads once.
Racing  == [reader |-> "daemon", cpus |-> Cpus, outcomes |-> {"drop", "rst"},
            reasons |-> {"syn"}, frames |-> 2, ticks |-> 2, faults |-> 1, swaps |-> 0, intervals |-> {1}]
Flooded == [reader |-> "daemon", cpus |-> {"cpu0"}, outcomes |-> {"monitor"},
            reasons |-> {"syn"}, frames |-> 3, ticks |-> 4, faults |-> 0, swaps |-> 0, intervals |-> {1, 4}]
Steady  == [reader |-> "daemon", cpus |-> {"cpu0"}, outcomes |-> {"drop"},
            reasons |-> {"syn"}, frames |-> 2, ticks |-> 4, faults |-> 1, swaps |-> 0, intervals |-> {1}]
Kept    == [reader |-> "daemon", cpus |-> {"cpu0"}, outcomes |-> {"drop"},
            reasons |-> {"syn"}, frames |-> 2, ticks |-> 2, faults |-> 0, swaps |-> 1, intervals |-> {1}]
Swapped == [reader |-> "console", cpus |-> {"cpu0"}, outcomes |-> {"drop"},
            reasons |-> {"syn"}, frames |-> 2, ticks |-> 4, faults |-> 0, swaps |-> 1, intervals |-> {1}]
Patchy  == [reader |-> "console", cpus |-> {"cpu0"}, outcomes |-> {"drop"},
            reasons |-> {"syn"}, frames |-> 2, ticks |-> 4, faults |-> 1, swaps |-> 0, intervals |-> {1}]
Asked   == [reader |-> "status", cpus |-> Cpus, outcomes |-> Outcomes,
            reasons |-> Reasons, frames |-> 2, ticks |-> 1, faults |-> 1, swaps |-> 0, intervals |-> {1}]
AllSites == {Racing, Flooded, Steady, Kept, Swapped, Patchy, Asked}
=============================================================================
