------------------------------- MODULE MCTuning -------------------------------
(* Instances of Tuning for TLC. *)
EXTENDS Tuning
CONSTANTS daemon, console

Stock == [k \in Knob |-> CASE k[1] \in {"rss", "sysctl"} -> 0
                           [] k[1] \in {"channels", "irqbalance"} -> 1
                           [] k[1] = "irq" -> 2
                           [] OTHER -> 3]

\* Most of what is absent changes nothing but keeps the interleavings of two calls few:
\* a server with two plain ports, and a container with one rich port.
Has(kinds, port) == [k \in Knob |-> IF k[1] \in kinds /\ k[2] \in port THEN Stock[k] ELSE Absent]
Server    == Has({"sysctl", "irqbalance", "governor", "channels"}, Port \cup {""})
Container == Has({"feature", "ring", "channels", "priv", "rss", "irq"}, {"untrusted"})

Machines ==
    {[local    |-> [port \in Port |-> {}], online |-> 0 .. 3, allowed |-> {},
      channels |-> [trusted |-> 2, untrusted |-> 3], ring |-> [trusted |-> 3, untrusted |-> 1]],
     [local    |-> [trusted |-> {0, 1, 2}, untrusted |-> {2, 3}], online |-> 0 .. 3,
      allowed  |-> {0, 1, 3}, channels |-> [trusted |-> 3, untrusted |-> 0],
      ring     |-> [trusted |-> 0, untrusted |-> 2]]}

Full    == [tune |-> TRUE, irqbal |-> TRUE, channels |-> 0, ring |-> 2, housekeeping |-> -1,
            want |-> [sysctl |-> 1, feature |-> 0, priv |-> 1, rss |-> 1, governor |-> 1]]
Partial == [tune |-> TRUE, irqbal |-> FALSE, channels |-> 3, ring |-> 0, housekeeping |-> 0,
            want |-> [sysctl |-> 2, feature |-> Keep, priv |-> Keep, rss |-> Keep,
                      governor |-> 2]]

Both    == {Full, Partial}
OneConfig == {Full}
OneTuner  == {daemon}
Either  == {Server, Container}
Tuners  == {daemon, console}
Roles   == Permutations(Tuners)
===============================================================================
