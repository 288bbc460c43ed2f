------------------------------- MODULE FlowGC -------------------------------
(***************************************************************************)
(* The sweep of the flow tables (internal/dataplane/gc.go) beside a data   *)
(* path that goes on handling packets.  GCOnce latches the clock once,     *)
(* iterates over the table one entry at a time and deletes the expired     *)
(* keys afterwards; the daemon's GC worker runs it on flows and then on    *)
(* udp_flows, with the configuration published in cfgPtr.                  *)
(***************************************************************************)
EXTENDS Datapath

CONSTANT TickMod   \* uint32 arithmetic on ticks wraps modulo TickMod

ASSUME TickModPositive == TickMod \in Nat \ {0}

VARIABLES
    cfg,     \* cfgPtr: the configuration the worker reads
    pc,      \* "idle" | "iterate" | "delete"
    table,   \* the table being swept: "tcp" | "udp"
    gcCfg,   \* cfgPtr as loaded at the start of the worker's run
    gcNow,   \* the latched tick
    todo,    \* keys the iterator has not reached
    doomed,  \* keys collected for deletion
    marked   \* history: the entry found under each key when it was visited

gcVars  == <<cfg, pc, table, gcCfg, gcNow, todo, doomed, marked>>
allVars == <<vars, gcVars>>

Table == IF table = "tcp" THEN flows ELSE udp_flows

ttlForStateNoUdp(st) == CASE st = "EST"     -> gcCfg.ttl_est
                          [] st = "CLOSING" -> gcCfg.ttl_closing
                          [] st = "UDP"     -> 3600
                          [] OTHER          -> gcCfg.ttl_syn

\* The TTLs come from the published configuration, not from the features map.
ttlForState(st) == CASE st = "EST"     -> gcCfg.ttl_est
                     [] st = "CLOSING" -> gcCfg.ttl_closing
                     [] st = "UDP"     -> gcCfg.ttl_udp
                     [] OTHER          -> gcCfg.ttl_syn

CollectUnguarded(v) == (gcNow + TickMod - v.last_seen) % TickMod > ttlForState(v.state)

\* now-val.LastSeen in uint32, for stamps not in the (apparent) future.
Collect(v) ==
    /\ ~(v.last_seen > gcNow)
    /\ (gcNow + TickMod - v.last_seen) % TickMod > ttlForState(v.state)

----------------------------------------------------------------------------
\* The worker fires: it loads cfgPtr and starts with the TCP table.  Userspace
\* reads CLOCK_MONOTONIC, which may be one tick ahead of the coarse clock.
SweepTcp(t) ==
    /\ pc = "idle"
    /\ t \in {now, now + 1}
    /\ pc' = "iterate" /\ table' = "tcp" /\ gcCfg' = cfg /\ gcNow' = t
    /\ todo' = Key /\ doomed' = {}
    /\ UNCHANGED <<vars, cfg, marked>>

\* The iterator yields an entry; an absent key is not yielded.
Visit(k) ==
    /\ pc = "iterate" /\ k \in todo
    /\ todo' = todo \ {k}
    /\ marked' = [marked EXCEPT ![k] = Table[k]]
    /\ doomed' = IF Present(Table[k]) /\ Collect(Table[k]) THEN doomed \cup {k} ELSE doomed
    /\ UNCHANGED <<vars, cfg, pc, table, gcCfg, gcNow>>

\* it.Err(): an aborted iteration only shortens the sweep.
EndIteration ==
    /\ pc = "iterate"
    /\ pc' = "delete" /\ todo' = {}
    /\ UNCHANGED <<vars, cfg, table, gcCfg, gcNow, doomed, marked>>

Delete(k) ==
    /\ pc = "delete" /\ k \in doomed
    /\ doomed' = doomed \ {k}
    /\ IF Present(Table[k])
       THEN /\ out' = Idle
            /\ IF table = "tcp"
               THEN /\ flows' = [flows EXCEPT ![k] = Absent]
                    /\ UNCHANGED udp_flows
               ELSE /\ udp_flows' = [udp_flows EXCEPT ![k] = Absent]
                    /\ UNCHANGED flows
            /\ UNCHANGED <<env, l1, seen, synIsn>>
       ELSE UNCHANGED vars
    /\ UNCHANGED <<cfg, pc, table, gcCfg, gcNow, todo, marked>>

\* The second GCOnce of the worker reuses c and latches the clock anew.
SweepUdp(t) ==
    /\ pc = "delete" /\ doomed = {} /\ table = "tcp"
    /\ t \in {now, now + 1}
    /\ pc' = "iterate" /\ table' = "udp" /\ gcNow' = t /\ todo' = Key
    /\ UNCHANGED <<vars, cfg, gcCfg, doomed, marked>>

EndSweepEarly ==
    /\ pc = "delete" /\ table = "udp"
    /\ pc' = "idle"
    /\ UNCHANGED <<vars, cfg, table, gcCfg, gcNow, todo, doomed, marked>>

EndSweep ==
    /\ pc = "delete" /\ doomed = {} /\ table = "udp"
    /\ pc' = "idle"
    /\ UNCHANGED <<vars, cfg, table, gcCfg, gcNow, todo, doomed, marked>>

----------------------------------------------------------------------------
\* reload(): the features map is written first, cfgPtr is stored last.
Reload(f) == features = cfg /\ ApplyFeatures(f) /\ UNCHANGED gcVars

Publish ==
    /\ cfg # features /\ cfg' = features
    /\ UNCHANGED <<vars, pc, table, gcCfg, gcNow, todo, doomed, marked>>

\* The allowlist plays no part in a sweep and is left as it is.
Traffic == (Packet \/ Tick \/ \E k \in Key : Evict(k)) /\ UNCHANGED gcVars

GCInit ==
    /\ Init
    /\ cfg = features /\ pc = "idle" /\ table = "tcp"
    /\ gcCfg = features /\ gcNow = 0 /\ todo = {} /\ doomed = {}
    /\ marked = [k \in Key |-> Absent]

Sweep ==
    \/ \E t \in {now, now + 1} : SweepTcp(t) \/ SweepUdp(t)
    \/ \E k \in Key : Visit(k) \/ Delete(k)
    \/ EndIteration
    \/ EndSweep

GCNext == Traffic \/ (\E f \in Policies : Reload(f)) \/ Publish \/ Sweep

\* The worker's loop and the reload goroutine always get to run again, and an
\* iteration does not miss the same key every time.
Fairness ==
    /\ WF_allVars(Sweep)
    /\ WF_allVars(Publish)
    /\ \A k \in Key : SF_allVars(Visit(k) /\ table = "tcp") /\ SF_allVars(Visit(k) /\ table = "udp")

GCSpec == GCInit /\ [][GCNext]_allVars /\ Fairness

----------------------------------------------------------------------------
(* Properties *)

\* The sweep's own state; between two runs of the worker no key is left over, so a
\* sweep never deletes on the evidence of an earlier one.
GCTypeOK ==
    /\ TypeOK
    /\ cfg \in Features /\ gcCfg \in Features
    /\ pc \in {"idle", "iterate", "delete"} /\ table \in {"tcp", "udp"}
    /\ gcNow \in Nat /\ todo \subseteq Key /\ doomed \subseteq Key
    /\ marked \in [Key -> FlowVal]
    /\ pc = "idle" => todo = {} /\ doomed = {}

\* An entry the sweep deletes had outlived its TTL by the latched clock, or was
\* rewritten between the visit and the delete: the unsigned delta of GCOnce never
\* takes a stamp newer than the latched clock for an old one.
DeletesOnlyIdle ==
    [][\A k \in Key :
          Delete(k) /\ Present(Table[k]) /\ Table[k] = marked[k] =>
              Table[k].last_seen + ttlForState(Table[k].state) < gcNow]_allVars

\* The worker's next sweeps get rid of every entry that stays expired, also when
\* the TTLs are changed while a sweep is running.
ExpiredIsSwept ==
    \A k \in Key :
        /\ (Present(flows[k]) /\ expired(flows[k])) ~> ~(Present(flows[k]) /\ expired(flows[k]))
        /\ (Present(udp_flows[k]) /\ expired(udp_flows[k]))
              ~> ~(Present(udp_flows[k]) /\ expired(udp_flows[k]))

=============================================================================
