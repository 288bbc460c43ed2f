------------------------------ MODULE MCControl ------------------------------
EXTENDS Control
CONSTANTS e1, e2

Config(m, pol, allow, cidrs, mon, sample) ==
    [mode |-> m, pol |-> pol, tab |-> [allow |-> allow, cidrs |-> cidrs],
     mon |-> mon, sample |-> sample, iface |-> "eth"]

\* Monitoring off and on; allowlists that overlap in nothing and in e1.
Off   == Config("monitor", "p0", {e1}, {}, FALSE, 1)
On    == Config("enforce", "p1", {e1, e2}, {e1}, TRUE, 2)
Other == [Config("enforce", "p0", {e2}, {e2}, TRUE, 4) EXCEPT !.iface = "other"]

\* A daemon beside an editor, crashes and the mode command, three writes long; with SIGHUPs
\* as well; with a mode command whose saves may fail; a console, also with failing saves,
\* beside an editor, with tables too small for both lists; and a daemon that is given a list
\* longer than its table.
Served   == [actors |-> {"edit", "exit", "mode"}, configs |-> {Off, On},
             capacity |-> 2, saveFails |-> FALSE, maxWrites |-> 3]
Signalled == [Served EXCEPT !.actors = @ \cup {"hup"}, !.maxWrites = 2]
ReadOnly == [Served EXCEPT !.saveFails = TRUE, !.maxWrites = 2]
Managed  == [actors |-> {"edit", "manage"}, configs |-> {Off, Other},
             capacity |-> 1, saveFails |-> TRUE, maxWrites |-> 2]
Overfull == [Served EXCEPT !.actors = {"edit", "exit"}, !.capacity = 1, !.maxWrites = 2]
AllBoxes == {Served, Signalled, ReadOnly, Managed, Overfull}
=============================================================================
