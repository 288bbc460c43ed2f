------------------------------- MODULE Browser -------------------------------
(***************************************************************************)
(* The bounded scan of the flow tables behind the console's Flows page     *)
(* (internal/dataplane/flows.go) while the data path and the sweep change  *)
(* them.  A flow is its table and its place in that table's hash order; a  *)
(* query is a table, or "ALL", and the flows its VLAN and text let pass.   *)
(***************************************************************************)
EXTENDS Setup

VARIABLES
    table,      \* the flows in the two tables
    scan,       \* the refresh under way: query, table, place in it, and FlowScan so far
    shown,      \* the last table on screen, with what was there throughout its scan
    churns      \* bound: flows created and deleted

browser == <<table, scan, shown, churns>>

Quiet == [pc |-> "idle"]

Selected(q, m) == q.proto \in {"ALL", m}
Matches(q, f)  == Selected(q, f.proto) /\ f \in q.hits

StartScan(q) ==
    [pc |-> "next", query |-> q, map |-> "TCP", at |-> 0, count |-> 0,
     rows |-> <<>>, scanned |-> 0, truncated |-> FALSE, steady |-> table]

\* External (kernel, ebpf library): the key after the last one, or the first one again
\* when the last one is gone; the iteration is given up after as many keys as the
\* table can hold.
NextKeys ==
    LET here == {f \in table : f.proto = scan.map}
        from == IF \E f \in here : f.place = scan.at THEN scan.at ELSE 0
    IN {f \in here : f.place > from}

Aborted == scan.count > desk.maxEntries

LimitUnnoticed(s) == [s EXCEPT !.pc = IF @ = "next" /\ Len(s.rows) >= desk.limit THEN "end" ELSE @]

\* The two limits of the loop's body.
Limited(s) ==
    IF s.scanned > desk.scanLimit \/ Len(s.rows) >= desk.limit
    THEN [s EXCEPT !.pc = "end", !.truncated = TRUE] ELSE s

\* One turn of the loop.  The entry over the scan limit is not looked at.
ScanVisit ==
    /\ scan.pc = "next" /\ Selected(scan.query, scan.map) /\ NextKeys # {} /\ ~Aborted
    /\ LET f    == CHOOSE g \in NextKeys : \A h \in NextKeys : g.place <= h.place
           over == scan.scanned >= desk.scanLimit
       IN scan' = Limited([scan EXCEPT
              !.at = f.place, !.count = @ + 1, !.scanned = @ + 1,
              !.rows = IF ~over /\ Matches(scan.query, f) THEN Append(@, f) ELSE @])
    /\ UNCHANGED <<table, shown, churns>>

\* A table is done or not asked for, or its iteration was aborted.
ScanEnd ==
    /\ scan.pc = "next" /\ (~Selected(scan.query, scan.map) \/ NextKeys = {} \/ Aborted)
    /\ scan' = IF Selected(scan.query, scan.map) /\ Aborted THEN [scan EXCEPT !.pc = "error"]
               ELSE IF scan.map = "UDP" THEN [scan EXCEPT !.pc = "end"]
               ELSE [scan EXCEPT !.map = "UDP", !.at = 0, !.count = 0]
    /\ UNCHANGED <<table, shown, churns>>

\* Packets create flows; eviction and the sweep delete them.
Churn ==
    /\ churns < desk.churns /\ churns' = churns + 1
    /\ \E f \in desk.flows :
          IF f \in table
          THEN /\ table' = table \ {f}
               /\ scan' = IF "steady" \in DOMAIN scan THEN [scan EXCEPT !.steady = @ \ {f}] ELSE scan
          ELSE table' = table \cup {f} /\ UNCHANGED scan
    /\ UNCHANGED shown

BrowserNext == (ScanVisit \/ ScanEnd \/ Churn) /\ UNCHANGED <<desk, system, fails, wizard>>
=============================================================================
