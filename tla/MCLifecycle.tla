----------------------------- MODULE MCLifecycle -----------------------------
(* Instances of Lifecycle for TLC. *)
EXTENDS Lifecycle
CONSTANTS e0, e1, e2, e3, e4, d0, d1

Conf(t, u, d, n) == [port |-> [T |-> t, U |-> u], pin |-> d, size |-> n]

Small == Conf(e0, e1, d0, 1)
Large == Conf(e0, e1, d0, 2)
Moved == Conf(e2, e1, d0, 2)
Repin == Conf(e0, e1, d1, 1)
Gone  == Conf(e0, e3, d0, 1)
Refused == Conf(e2, e4, d0, 1)

Changes   == {Small, Large, Refused, Repin, Gone}
Moves     == {Small, Moved}
=============================================================================
