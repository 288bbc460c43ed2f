----------------------------- MODULE TuningProofs -----------------------------
(***************************************************************************)
(* Theorems about Tuning for any machine, configurations, processes and    *)
(* faults.  The inductive invariant follows an Apply that runs alone from  *)
(* its first knob to its snapshot, and the Restores that use it after; a   *)
(* second one, the channel count that such an Apply gives both ports.      *)
(***************************************************************************)
EXTENDS Tuning, FiniteSetTheorems, WellFoundedInduction, TLAPS

Applying == {"apply", "persist", "save"}

\* The local variables of Apply and of Restore.
Shape(r) ==
    \/ r = Free
    \/ /\ r.at \in Applying /\ r.c \in Configs /\ r.i \in Nat \ {0}
       /\ DOMAIN r = {"at", "c", "i", "n", "snap", "found"}
    \/ r.at = "restore" /\ r.found = None /\ DOMAIN r = {"at", "todo", "snap", "found"}

Shapes ==
    /\ topo \in Topologies /\ DOMAIN box = Knob /\ DOMAIN proc = Proc /\ faults \in Nat
    /\ \A p \in Proc : Shape(proc[p])

\* p applies, and no other call was under way at any time since it began.
Sole(p) == proc[p].at \in Applying /\ proc[p].found # None

Solo == \A p, q \in Proc : Sole(p) /\ p # q => ~Busy(q)

\* What no call changes: a knob that is not there, and an irqbalance that is off.
SameKind(before) ==
    \A k \in Knob :
        /\ box[k] = Absent <=> before[k] = Absent
        /\ k[1] = "irqbalance" /\ before[k] = 0 => box[k] = 0

\* An Apply that runs alone has yet to touch the knobs ahead of it, and has recorded what
\* it found of those it changed.
Capture(r) ==
    /\ r.at = "save" => file = "torn"
    /\ SameKind(r.found)
    /\ \A k \in DOMAIN r.snap : r.snap[k] = r.found[k]
    /\ \A k \in Knob : k[1] # "rss" => box[k] = r.found[k] \/ k \in DOMAIN r.snap
    /\ \A j \in r.i .. Len(Profile) : box[Profile[j]] = r.found[Profile[j]]

Captured == \A p \in Proc : Sole(p) => Capture(proc[p])

\* A Restore still has ahead of it every knob that is not as Apply found it.
Undoing(r) ==
    /\ \A k \in r.todo : r.snap[k] = undo[k]
    /\ \A k \in Undoable : box[k] = undo[k] \/ k \in r.todo

\* The snapshot behind undo, and the Restores that read it.
Kept ==
    undo # None =>
        /\ SameKind(undo)
        /\ \A k \in DOMAIN saved : saved[k] = undo[k]
        /\ \A k \in Undoable : box[k] = undo[k] \/ k \in DOMAIN saved
        /\ \A p \in Proc : Busy(p) => proc[p].at = "restore" /\ Undoing(proc[p])

TuningInv == Shapes /\ Solo /\ Captured /\ Kept

----------------------------------------------------------------------------
(* The operators *)

\* Apply visits fifteen knobs, each once.
LEMMA ProfileKnobs ==
    /\ Len(Profile) = 15
    /\ \A i \in 1 .. 15 : Profile[i] \in Knob
    /\ \A i, j \in 1 .. 15 : i # j => Profile[i] # Profile[j]
  <1>1. /\ Profile[1] = <<"sysctl", "">>
        /\ Profile[2] = <<"feature", "trusted">> /\ Profile[3] = <<"ring", "trusted">>
        /\ Profile[4] = <<"channels", "trusted">> /\ Profile[5] = <<"priv", "trusted">>
        /\ Profile[6] = <<"rss", "trusted">>
        /\ Profile[7] = <<"feature", "untrusted">> /\ Profile[8] = <<"ring", "untrusted">>
        /\ Profile[9] = <<"channels", "untrusted">> /\ Profile[10] = <<"priv", "untrusted">>
        /\ Profile[11] = <<"rss", "untrusted">> /\ Profile[12] = <<"irqbalance", "">>
        /\ Profile[13] = <<"irq", "trusted">> /\ Profile[14] = <<"irq", "untrusted">>
        /\ Profile[15] = <<"governor", "">>
    BY DEF Profile
  <1>2. /\ <<"sysctl", "">> \in Knob /\ <<"irqbalance", "">> \in Knob /\ <<"governor", "">> \in Knob
        /\ \A port \in {"trusted", "untrusted"},
              kind \in {"feature", "ring", "channels", "priv", "rss", "irq"} : <<kind, port>> \in Knob
    BY DEF Knob, Port
  <1>3. \A i \in 1 .. 15 : \/ i = 1 \/ i = 2 \/ i = 3 \/ i = 4 \/ i = 5 \/ i = 6 \/ i = 7 \/ i = 8
                           \/ i = 9 \/ i = 10 \/ i = 11 \/ i = 12 \/ i = 13 \/ i = 14 \/ i = 15
    OBVIOUS
  <1>4. Len(Profile) = 15
    BY DEF Profile
  <1>5. ASSUME NEW i \in 1 .. 15
        PROVE  Profile[i] \in Knob
    BY <1>1, <1>2, <1>3, <1>5
  <1>6. ASSUME NEW i \in 1 .. 15, NEW j \in 1 .. 15, i # j
        PROVE  Profile[i] # Profile[j]
    <2> DEFINE T(k, a, b) == IF k[2] = "trusted" THEN a ELSE b
               Place(k) == CASE k[1] = "sysctl" -> 1 [] k[1] = "feature" -> T(k, 2, 7)
                             [] k[1] = "ring" -> T(k, 3, 8) [] k[1] = "channels" -> T(k, 4, 9)
                             [] k[1] = "priv" -> T(k, 5, 10) [] k[1] = "rss" -> T(k, 6, 11)
                             [] k[1] = "irqbalance" -> 12 [] k[1] = "irq" -> T(k, 13, 14)
                             [] OTHER -> 15
    <2>1. /\ Place(Profile[1]) = 1 /\ Place(Profile[2]) = 2 /\ Place(Profile[3]) = 3
          /\ Place(Profile[4]) = 4 /\ Place(Profile[5]) = 5 /\ Place(Profile[6]) = 6
          /\ Place(Profile[7]) = 7 /\ Place(Profile[8]) = 8 /\ Place(Profile[9]) = 9
          /\ Place(Profile[10]) = 10 /\ Place(Profile[11]) = 11 /\ Place(Profile[12]) = 12
          /\ Place(Profile[13]) = 13 /\ Place(Profile[14]) = 14 /\ Place(Profile[15]) = 15
      BY DEF Profile
    <2>2. ASSUME NEW n \in 1 .. 15
          PROVE  Place(Profile[n]) = n
      <3> HIDE DEF Place
      <3> QED
        BY <1>3, <2>1
    <2> HIDE DEF Place
    <2> QED
      BY <1>6, <2>2
  <1> QED
    BY <1>4, <1>5, <1>6

\* The kinds of knobs.
LEMMA KnobKind ==
    ASSUME NEW k \in Knob
    PROVE  /\ k[1] \in {"sysctl", "irqbalance", "governor", "feature", "ring", "channels",
                        "priv", "rss", "irq"}
           /\ k[1] \in {"ring", "channels", "irq"} => k[2] \in Port
  BY DEF Knob

\* A set of numbers that is not empty has a least one.
LEMMA LeastNatural ==
    ASSUME NEW S \in SUBSET Nat, S # {}
    PROVE  Min(S) \in S
  <1>1. PICK x \in S : \A y \in S : ~ (<<y, x>> \in OpToRel(<, Nat))
    BY NatLessThanWellFounded, WFMin
  <1>2. \A y \in S : ~(y < x)
    BY <1>1, Zenon DEF OpToRel
  <1>3. \A y \in S : x <= y
    BY <1>2
  <1> QED
    BY <1>3 DEF Min

\* The CPU that the interrupts of a port are pinned to.
LEMMA FirstCore ==
    ASSUME topo \in Topologies, NEW c, NEW port \in Port, numaCores(c, port) # {}
    PROVE  Min(numaCores(c, port)) \in Value
  <1>1. topo.local[port] \subseteq Value /\ topo.online \subseteq Value
    BY TuningConstants
  <1>2. numaCores(c, port) \subseteq Value
    BY <1>1 DEF numaCores, intersectCPUs
  <1>3. Value \subseteq Nat
    BY DEF Value
  <1> QED
    BY <1>2, <1>3, LeastNatural

\* The profile asks for no absent value, and of irqbalance only that it be off.
LEMMA WantedValue ==
    ASSUME topo \in Topologies, NEW c \in Configs, NEW n, NEW k \in Knob
    PROVE  /\ Wanted(c, n, k) # Absent
           /\ k[1] = "irqbalance" => Wanted(c, n, k) \in {0, Keep}
  <1> USE DEF Wanted, Absent, Keep
  <1>1. CASE k[1] = "ring"
    <2>1. topo.ring[k[2]] \in 0 .. MaxValue /\ c.ring \in 0 .. MaxValue
      BY <1>1, KnobKind, TuningConstants DEF Value
    <2> QED
      BY <1>1, <2>1 DEF Clamp
  <1>2. CASE k[1] = "channels"
    BY <1>2
  <1>3. CASE k[1] = "irqbalance"
    BY <1>3
  <1>4. CASE k[1] = "irq"
    BY <1>4, KnobKind, FirstCore DEF Value
  <1>5. CASE k[1] \notin {"ring", "channels", "irqbalance", "irq"}
    <2>1. c.want[k[1]] \in Value \cup {-2}
      BY <1>5, KnobKind, TuningConstants DEF Keep
    <2> QED
      BY <1>5, <2>1 DEF Value
  <1> QED
    BY <1>1, <1>2, <1>3, <1>4, <1>5

\* A write reaches no other knob, and no knob that is absent.
LEMMA PutOne ==
    ASSUME DOMAIN box = Knob, faults \in Nat, NEW k \in Knob, NEW v, v # Absent, Put(k, v)
    PROVE  /\ DOMAIN box' = Knob /\ faults' \in Nat
           /\ \A j \in Knob : j # k => box'[j] = box[j]
           /\ box'[k] \in {box[k], v}
           /\ box[k] = Absent <=> box'[k] = Absent
           /\ box'[k] # v /\ box[k] # Absent => faults' > faults
  BY DEF Put, Fault

----------------------------------------------------------------------------
(* The steps of a process *)

\* A process goes on by itself.
LEMMA Advanced ==
    ASSUME DOMAIN proc = Proc, NEW p \in Proc, NEW r, Advance(p, r)
    PROVE  DOMAIN proc' = Proc /\ proc'[p] = r /\ \A q \in Proc : q # p => proc'[q] = proc[q]
  BY DEF Advance

\* A process begins, and no call that is under way runs alone any more.
LEMMA Joined ==
    ASSUME Shapes, NEW p \in Proc, NEW r, Join(p, r)
    PROVE  /\ DOMAIN proc' = Proc /\ proc'[p] = r
           /\ \A q \in Proc : q # p =>
                 /\ ~Busy(q) => proc'[q] = proc[q]
                 /\ Busy(q) => /\ DOMAIN proc'[q] = DOMAIN proc[q] /\ proc'[q].found = None
                               /\ \A f \in DOMAIN proc[q] : f # "found" => proc'[q][f] = proc[q][f]
  <1>1. DOMAIN proc' = Proc /\ proc'[p] = r
    BY DEF Join
  <1>2. ASSUME NEW q \in Proc, q # p
        PROVE  proc'[q] = IF Busy(q) THEN [proc[q] EXCEPT !.found = None] ELSE proc[q]
    BY <1>2 DEF Join
  <1>3. \A q \in Proc : Busy(q) => "found" \in DOMAIN proc[q]
    BY DEF Shapes, Shape, Busy, Free
  <1> QED
    BY <1>1, <1>2, <1>3

\* A process that goes on keeps the shapes if its own is one.
LEMMA AdvanceShapes ==
    ASSUME Shapes, NEW p \in Proc, NEW r, Shape(r), Advance(p, r),
           topo' = topo, DOMAIN box' = Knob, faults' \in Nat
    PROVE  Shapes'
  <1>1. DOMAIN proc' = Proc /\ \A q \in Proc : proc'[q] = IF q = p THEN r ELSE proc[q]
    BY Advanced DEF Shapes
  <1>2. \A q \in Proc : Shape(proc'[q])
    BY <1>1 DEF Shapes
  <1> QED
    BY <1>1, <1>2 DEF Shapes

\* The same for one that begins.
LEMMA JoinShapes ==
    ASSUME Shapes, NEW p \in Proc, NEW r, Shape(r), Join(p, r), UNCHANGED <<topo, box, faults>>
    PROVE  Shapes'
  <1>1. ASSUME NEW q \in Proc
        PROVE  Shape(proc'[q])
    <2>1. CASE q = p
      BY <2>1, Joined
    <2>2. CASE q # p /\ ~Busy(q)
      <3>1. proc'[q] = proc[q]
        BY <2>2, Joined
      <3> QED
        BY <3>1 DEF Shapes
    <2>3. CASE q # p /\ Busy(q)
      <3>1. /\ DOMAIN proc'[q] = DOMAIN proc[q] /\ proc'[q].found = None
            /\ \A f \in DOMAIN proc[q] : f # "found" => proc'[q][f] = proc[q][f]
        BY <2>3, Joined
      <3>2. Shape(proc[q]) /\ proc[q] # Free
        BY <2>3 DEF Shapes, Busy, Free
      <3> QED
        BY <3>1, <3>2 DEF Shape
    <2> QED
      BY <2>1, <2>2, <2>3
  <1>2. DOMAIN proc' = Proc
    BY Joined
  <1> QED
    BY <1>1, <1>2 DEF Shapes

\* What an Apply does to the knob it visits.
LEMMA AppliesOne ==
    ASSUME Shapes, NEW p \in Proc, ApplyKnob(p)
    PROVE  LET r == proc[p]
               k == Profile[r.i]
           IN /\ r.at = "apply" /\ r.i \in 1 .. 15 /\ k \in Knob
              /\ DOMAIN box' = Knob /\ faults' \in Nat
              /\ \A j \in Knob : j # k => box'[j] = box[j]
              /\ box[k] = Absent <=> box'[k] = Absent
              /\ k[1] = "irqbalance" => box'[k] \in {box[k], 0}
              /\ box'[k] # box[k] =>
                    Records(k, box[k], Wanted(r.c, r.n, k)) \/ k[1] = "rss"
  <1> DEFINE r == proc[p]
             k == Profile[r.i]
             want == Wanted(r.c, r.n, k)
  <1>1. r.at = "apply" /\ r.i <= 15
    BY ProfileKnobs DEF ApplyKnob
  <1>2. r.i \in 1 .. 15 /\ r.c \in Configs
    BY <1>1 DEF Shapes, Shape, Free, Applying
  <1>3. k \in Knob
    BY <1>2, ProfileKnobs
  <1>4. want # Absent /\ (k[1] = "irqbalance" => want \in {0, Keep})
    BY <1>2, <1>3, WantedValue DEF Shapes
  <1>5. IF want \in {Keep, box[k]} THEN UNCHANGED <<box, faults>> ELSE Put(k, want)
    BY DEF ApplyKnob
  <1>6. CASE want \in {Keep, box[k]}
    BY <1>1, <1>2, <1>3, <1>5, <1>6 DEF Shapes
  <1>7. CASE want \notin {Keep, box[k]}
    <2>1. /\ DOMAIN box' = Knob /\ faults' \in Nat
          /\ \A j \in Knob : j # k => box'[j] = box[j]
          /\ box'[k] \in {box[k], want}
          /\ box[k] = Absent <=> box'[k] = Absent
      <3> HIDE DEF want, k, r
      <3> QED
        BY <1>3, <1>4, <1>5, <1>7, PutOne DEF Shapes
    <2>2. box[k] # Absent /\ k[1] # "rss" => Records(k, box[k], want)
      BY <1>7 DEF Records
    <2> QED
      BY <1>1, <1>2, <1>3, <1>4, <1>7, <2>1, <2>2
  <1> QED
    BY <1>6, <1>7

\* What a Restore does to the knob it visits.
LEMMA RestoresOne ==
    ASSUME Shapes, NEW p \in Proc, NEW k \in Knob, RestoreKnob(p, k),
           proc[p].snap[k] = Absent => box[k] = Absent
    PROVE  LET v == proc[p].snap[k]
           IN /\ DOMAIN box' = Knob /\ faults' \in Nat
              /\ \A j \in Knob : j # k => box'[j] = box[j]
              /\ box'[k] \in {box[k], v}
              /\ box[k] = Absent <=> box'[k] = Absent
              /\ k[1] = "irqbalance" /\ v = 0 => box'[k] = box[k]
              /\ \/ box'[k] = v \/ box[k] = Absent \/ faults' > faults
                 \/ k[1] = "irqbalance" /\ v = 0
  <1> DEFINE v == proc[p].snap[k]
  <1>1. IF (k[1] = "irqbalance" /\ v = 0) \/ v = Absent
        THEN UNCHANGED <<box, faults>> ELSE Put(k, v)
    BY DEF RestoreKnob
  <1> HIDE DEF v
  <1>2. CASE (k[1] = "irqbalance" /\ v = 0) \/ v = Absent
    BY <1>1, <1>2 DEF Shapes, v
  <1>3. CASE ~(k[1] = "irqbalance" /\ v = 0) /\ v # Absent
    BY <1>1, <1>3, PutOne DEF Shapes, v
  <1> QED
    BY <1>2, <1>3

----------------------------------------------------------------------------
(* The invariant is inductive *)

\* Apply moves on to the next knob, by way of sysctl.d after the sysctls.
LEMMA MovesOn ==
    ASSUME NEW p \in Proc, ApplyKnob(p)
    PROVE  \E snap : \E at \in Applying :
              Advance(p, [proc[p] EXCEPT !.at = at, !.i = proc[p].i + 1, !.snap = snap])
  <1>1. \A x : (IF x THEN "persist" ELSE "apply") \in Applying
    BY DEF Applying
  <1> QED
    BY <1>1, Zenon DEF ApplyKnob

\* Every step keeps the shapes.
LEMMA ShapesStep ==
    ASSUME Shapes, [Next]_vars
    PROVE  Shapes'
  <1> USE DEF machine, disk, bounds, history
  <1>0. \A p \in Proc : Shape(proc[p])
    BY DEF Shapes
  <1>1. CASE UNCHANGED vars
    BY <1>1 DEF vars, Shapes
  <1>2. ASSUME NEW p \in Proc, NEW c \in Configs, StartApply(p, c)
        PROVE  Shapes'
    <2> DEFINE r == [at |-> "apply", c |-> c, i |-> 1, n |-> 0, snap |-> None,
                     found |-> IF \E q \in Proc : Busy(q) THEN None ELSE box]
    <2>1. Shape(r)
      BY DEF Shape, Applying
    <2>2. Join(p, r) /\ UNCHANGED <<topo, box, faults>>
      BY <1>2 DEF StartApply
    <2> HIDE DEF r
    <2> QED
      BY <2>1, <2>2, JoinShapes
  <1>3. ASSUME NEW p \in Proc, ApplyKnob(p)
        PROVE  Shapes'
    <2>1. /\ proc[p].at = "apply" /\ topo' = topo
          /\ DOMAIN box' = Knob /\ faults' \in Nat
      BY <1>3, AppliesOne DEF ApplyKnob
    <2>2. PICK snap : \E at \in Applying :
            Advance(p, [proc[p] EXCEPT !.at = at, !.i = proc[p].i + 1, !.snap = snap])
      BY <1>3, MovesOn
    <2>3. PICK at \in Applying :
            Advance(p, [proc[p] EXCEPT !.at = at, !.i = proc[p].i + 1, !.snap = snap])
      BY <2>2
    <2>4. Shape([proc[p] EXCEPT !.at = at, !.i = proc[p].i + 1, !.snap = snap])
      BY <1>0, <2>1 DEF Shape, Applying, Free
    <2> QED
      BY <2>1, <2>3, <2>4, AdvanceShapes
  <1>4. ASSUME NEW p \in Proc, Persist(p)
        PROVE  Shapes'
    <2>1. /\ proc[p].at = "persist" /\ UNCHANGED <<topo, box>> /\ faults' \in {faults, faults + 1}
          /\ Advance(p, [proc[p] EXCEPT !.at = "apply", !.n = commonChannels(proc[p].c)])
      BY <1>4 DEF Persist, Fault
    <2>2. Shape([proc[p] EXCEPT !.at = "apply", !.n = commonChannels(proc[p].c)])
      BY <1>0, <2>1 DEF Shape, Applying, Free
    <2>3. DOMAIN box' = Knob /\ faults' \in Nat
      BY <2>1 DEF Shapes
    <2> QED
      BY <2>1, <2>2, <2>3, AdvanceShapes
  <1>5. ASSUME NEW p \in Proc, Truncate(p)
        PROVE  Shapes'
    <2>1. Shape([proc[p] EXCEPT !.at = "save"])
      BY <1>0, <1>5 DEF Truncate, Shape, Applying, Free
    <2>2. Advance(p, [proc[p] EXCEPT !.at = "save"]) /\ UNCHANGED <<topo, box, faults>>
      BY <1>5 DEF Truncate
    <2> QED
      BY <2>1, <2>2, AdvanceShapes DEF Shapes
  <1>6. ASSUME NEW p \in Proc, SaveSnapshot(p) \/ SaveFails(p) \/ RemoveSnapshot(p) \/ Crash(p)
        PROVE  Shapes'
    <2>1. Advance(p, Free) /\ UNCHANGED <<topo, box>> /\ faults' \in {faults, faults + 1}
      BY <1>6 DEF SaveSnapshot, SaveFails, RemoveSnapshot, Crash, Fault
    <2>2. Shape(Free) /\ DOMAIN box' = Knob /\ faults' \in Nat
      BY <2>1 DEF Shape, Shapes
    <2> QED
      BY <2>1, <2>2, AdvanceShapes
  <1>7. ASSUME NEW p \in Proc, StartRestore(p)
        PROVE  Shapes'
    <2> DEFINE r == [at |-> "restore", todo |-> DOMAIN saved, snap |-> saved, found |-> None]
    <2>1. Shape(r)
      BY DEF Shape
    <2>2. Join(p, r) /\ UNCHANGED <<topo, box, faults>>
      BY <1>7 DEF StartRestore
    <2> HIDE DEF r
    <2> QED
      BY <2>1, <2>2, JoinShapes
  <1>8. ASSUME NEW p \in Proc, NEW k \in Knob, RestoreKnob(p, k)
        PROVE  Shapes'
    <2>1. /\ proc[p].at = "restore" /\ topo' = topo
          /\ Advance(p, [proc[p] EXCEPT !.todo = proc[p].todo \ {k}])
      BY <1>8 DEF RestoreKnob
    <2>2. Shape([proc[p] EXCEPT !.todo = proc[p].todo \ {k}])
      BY <1>0, <2>1 DEF Shape, Applying, Free
    <2>3. DOMAIN box' = Knob /\ faults' \in Nat
      BY <1>8 DEF RestoreKnob, Put, Fault, Shapes
    <2> QED
      BY <2>1, <2>2, <2>3, AdvanceShapes
  <1>9. CASE Reboot
    <2>1. /\ topo' = topo /\ DOMAIN box' = Knob /\ DOMAIN proc' = Proc
          /\ faults' = faults + 1 /\ \A p \in Proc : proc'[p] = Free
      BY <1>9 DEF Reboot, Fault
    <2> QED
      BY <2>1 DEF Shapes, Shape
  <1> QED
    BY <1>1, <1>2, <1>3, <1>4, <1>5, <1>6, <1>7, <1>8, <1>9 DEF Next

\* While a process takes a step no other one runs alone.
LEMMA OthersNotSole ==
    ASSUME Shapes, Solo, NEW p \in Proc, NEW r, (Busy(p) /\ Advance(p, r)) \/ Join(p, r)
    PROVE  \A q \in Proc : q # p => ~(proc'[q].at \in Applying /\ proc'[q].found # None)
  <1> SUFFICES ASSUME NEW q \in Proc, q # p
               PROVE  ~(proc'[q].at \in Applying /\ proc'[q].found # None)
    OBVIOUS
  <1>1. CASE Busy(p) /\ Advance(p, r)
    <2>1. proc'[q] = proc[q]
      BY <1>1, Advanced DEF Shapes
    <2> QED
      BY <1>1, <2>1 DEF Solo, Sole
  <1>2. CASE Join(p, r)
    <2>1. CASE Busy(q)
      BY <1>2, <2>1, Joined
    <2>2. CASE ~Busy(q)
      <3>1. proc'[q] = proc[q]
        BY <1>2, <2>2, Joined
      <3> QED
        BY <2>2, <3>1 DEF Busy, Applying
    <2> QED
      BY <2>1, <2>2
  <1> QED
    BY <1>1, <1>2

\* The steps of an Apply that is under way.
LEMMA ApplySteps ==
    ASSUME Shapes, Solo, NEW p \in Proc, ApplyKnob(p) \/ Persist(p) \/ Truncate(p)
    PROVE  /\ proc[p].at \in Applying /\ proc'[p].at \in Applying
           /\ DOMAIN proc[p] = {"at", "c", "i", "n", "snap", "found"}
           /\ proc'[p].found = proc[p].found
           /\ \A q \in Proc : q # p => proc'[q] = proc[q]
           /\ \A q \in Proc : q # p => ~Sole(q)'
           /\ UNCHANGED undo
  <1>1. proc[p].at \in {"apply", "persist"} /\ UNCHANGED undo
    BY DEF ApplyKnob, Persist, Truncate, history
  <1>2. DOMAIN proc[p] = {"at", "c", "i", "n", "snap", "found"}
    BY <1>1 DEF Shapes, Shape, Free
  <1>3. PICK r : Advance(p, r) /\ r.at \in Applying /\ r.found = proc[p].found
    <2>1. CASE ApplyKnob(p)
      <3>0. PICK snap : \E at \in Applying :
              Advance(p, [proc[p] EXCEPT !.at = at, !.i = proc[p].i + 1, !.snap = snap])
        BY <2>1, MovesOn
      <3>1. PICK at \in Applying :
              Advance(p, [proc[p] EXCEPT !.at = at, !.i = proc[p].i + 1, !.snap = snap])
        BY <3>0
      <3> DEFINE r == [proc[p] EXCEPT !.at = at, !.i = proc[p].i + 1, !.snap = snap]
      <3>2. Advance(p, r)
        BY <3>1
      <3>3. r.at \in Applying /\ r.found = proc[p].found
        BY <1>2
      <3> HIDE DEF r
      <3> QED
        BY <3>2, <3>3
    <2>2. CASE Persist(p)
      <3> DEFINE r == [proc[p] EXCEPT !.at = "apply", !.n = commonChannels(proc[p].c)]
      <3>1. r.at \in Applying /\ r.found = proc[p].found
        BY <1>2 DEF Applying
      <3>2. Advance(p, r)
        BY <2>2 DEF Persist
      <3> HIDE DEF r
      <3> QED
        BY <3>1, <3>2
    <2>3. CASE Truncate(p)
      BY <1>2, <2>3 DEF Truncate, Applying
    <2> QED
      BY <2>1, <2>2, <2>3
  <1>4. proc'[p] = r /\ \A q \in Proc : q # p => proc'[q] = proc[q]
    BY <1>3, Advanced DEF Shapes
  <1>5. Busy(p)
    BY <1>1 DEF Busy
  <1>6. \A q \in Proc : q # p => ~Sole(q)'
    BY <1>3, <1>5, OthersNotSole DEF Sole
  <1> QED
    BY <1>1, <1>2, <1>3, <1>4, <1>6 DEF Applying

\* The steps with which a call ends, and the ones of a Restore.
LEMMA OtherSteps ==
    ASSUME Shapes, Solo, NEW p \in Proc,
           \/ SaveSnapshot(p) \/ SaveFails(p) \/ StartRestore(p) \/ RemoveSnapshot(p) \/ Crash(p)
           \/ \E k \in Knob : RestoreKnob(p, k)
    PROVE  \A q \in Proc : ~Sole(q)'
  <1>1. CASE SaveSnapshot(p) \/ SaveFails(p) \/ RemoveSnapshot(p) \/ Crash(p)
    <2>1. Busy(p) /\ Advance(p, Free)
      BY <1>1 DEF SaveSnapshot, SaveFails, RemoveSnapshot, Crash, Busy
    <2>2. ~Sole(p)'
      BY <2>1, Advanced DEF Shapes, Free, Sole, Applying
    <2> QED
      BY <2>1, <2>2, OthersNotSole DEF Sole
  <1>2. CASE StartRestore(p)
    <2> DEFINE r == [at |-> "restore", todo |-> DOMAIN saved, snap |-> saved, found |-> None]
    <2>1. Join(p, r) /\ r.at = "restore"
      BY <1>2 DEF StartRestore
    <2> HIDE DEF r
    <2>2. ~Sole(p)'
      BY <2>1, Joined DEF Sole, Applying
    <2> QED
      BY <2>1, <2>2, OthersNotSole DEF Sole
  <1>3. ASSUME NEW k \in Knob, RestoreKnob(p, k)
        PROVE  \A q \in Proc : ~Sole(q)'
    <2> DEFINE r == [proc[p] EXCEPT !.todo = proc[p].todo \ {k}]
    <2>1. Busy(p) /\ Advance(p, r) /\ r.at = "restore"
      BY <1>3 DEF RestoreKnob, Busy, Shapes, Shape, Free, Applying
    <2> HIDE DEF r
    <2>2. ~Sole(p)'
      BY <2>1, Advanced DEF Sole, Applying, Shapes
    <2> QED
      BY <2>1, <2>2, OthersNotSole DEF Sole
  <1> QED
    BY <1>1, <1>2, <1>3

\* An Apply that begins runs alone only if nothing else is under way.
LEMMA ApplyBegins ==
    ASSUME Shapes, Solo, NEW p \in Proc, NEW c \in Configs, StartApply(p, c)
    PROVE  /\ \A q \in Proc : q # p => ~Sole(q)'
           /\ Sole(p)' => \A q \in Proc : q # p => ~Busy(q)'
           /\ Sole(p)' => /\ proc'[p].at = "apply" /\ proc'[p].found = box
                          /\ proc'[p].snap = None
           /\ UNCHANGED box /\ undo' = None
  <1> DEFINE r == [at |-> "apply", c |-> c, i |-> 1, n |-> 0, snap |-> None,
                   found |-> IF \E q \in Proc : Busy(q) THEN None ELSE box]
  <1>1. Join(p, r) /\ UNCHANGED box /\ undo' = None
    BY DEF StartApply, machine
  <1>2. /\ r.at = "apply" /\ r.snap = None
        /\ r.found # None => r.found = box /\ \A q \in Proc : ~Busy(q)
    OBVIOUS
  <1> HIDE DEF r
  <1>3. \A q \in Proc : q # p => ~Sole(q)'
    BY <1>1, OthersNotSole DEF Sole
  <1>4. proc'[p] = r /\ \A q \in Proc : q # p /\ ~Busy(q) => proc'[q] = proc[q]
    BY <1>1, Joined
  <1> QED
    BY <1>1, <1>2, <1>3, <1>4 DEF Sole, Busy

\* No call begins beside an Apply that runs alone without its ceasing to.
LEMMA SoloStep ==
    ASSUME Shapes, Solo, [Next]_vars
    PROVE  Solo'
  <1>1. CASE UNCHANGED vars
    BY <1>1 DEF vars, Solo, Sole, Busy
  <1>2. ASSUME NEW p \in Proc, NEW c \in Configs, StartApply(p, c)
        PROVE  Solo'
    BY <1>2, ApplyBegins DEF Solo
  <1>3. ASSUME NEW p \in Proc, ApplyKnob(p) \/ Persist(p) \/ Truncate(p)
        PROVE  Solo'
    BY <1>3, ApplySteps DEF Solo, Sole, Busy
  <1>4. ASSUME NEW p \in Proc,
               \/ SaveSnapshot(p) \/ SaveFails(p) \/ StartRestore(p) \/ RemoveSnapshot(p)
               \/ Crash(p) \/ \E k \in Knob : RestoreKnob(p, k)
        PROVE  Solo'
    BY <1>4, OtherSteps DEF Solo
  <1>5. CASE Reboot
    BY <1>5 DEF Reboot, Solo, Sole, Free, Applying
  <1> QED
    BY <1>1, <1>2, <1>3, <1>4, <1>5 DEF Next

\* Visiting a knob: it was as Apply found it, and what was found is recorded before the
\* knob changes.
LEMMA CaptureKnob ==
    ASSUME Shapes, NEW p \in Proc, ApplyKnob(p), Capture(proc[p])
    PROVE  Capture(proc[p])'
  <1> DEFINE r == proc[p]
             k == Profile[r.i]
             want == Wanted(r.c, r.n, k)
             at == IF k[1] = "sysctl" THEN "persist" ELSE "apply"
  <1>1. /\ r.at = "apply" /\ r.i \in 1 .. 15 /\ k \in Knob
        /\ \A j \in Knob : j # k => box'[j] = box[j]
        /\ box[k] = Absent <=> box'[k] = Absent
        /\ k[1] = "irqbalance" => box'[k] \in {box[k], 0}
        /\ box'[k] # box[k] => Records(k, box[k], want) \/ k[1] = "rss"
    BY AppliesOne
  <1>2. DOMAIN r = {"at", "c", "i", "n", "snap", "found"}
    BY <1>1 DEF Shapes, Shape, Free
  <1>3. /\ proc'[p].at = at /\ proc'[p].i = r.i + 1 /\ proc'[p].found = r.found
        /\ proc'[p].snap = Record(p, k, want)
    BY <1>2 DEF ApplyKnob, Advance, Shapes
  <1>4. box[k] = r.found[k]
    BY <1>1, ProfileKnobs DEF Capture
  <1>5. at # "save"
    OBVIOUS
  <1> DEFINE t == proc'[p].snap
  <1>6. t = IF Records(k, box[k], want)
            THEN [j \in DOMAIN r.snap \cup {k} |-> IF j = k THEN box[k] ELSE r.snap[j]]
            ELSE r.snap
    BY <1>3 DEF Record
  <1>7. /\ DOMAIN r.snap \subseteq DOMAIN t
        /\ \A j \in DOMAIN r.snap : j # k => t[j] = r.snap[j]
        /\ \A j \in DOMAIN t : j \notin DOMAIN r.snap => j = k /\ t[j] = box[k]
        /\ k \in DOMAIN t => t[k] \in {box[k], r.snap[k]}
        /\ k \in DOMAIN t /\ t[k] # box[k] => k \in DOMAIN r.snap
        /\ Records(k, box[k], want) => k \in DOMAIN t
    BY <1>6
  <1> HIDE DEF r, k, want, at, t
  <1>8. \A j \in DOMAIN t : t[j] = r.found[j]
    BY <1>4, <1>7 DEF Capture, r
  <1>9. \A j \in Knob : j[1] # "rss" => box'[j] = r.found[j] \/ j \in DOMAIN t
    BY <1>1, <1>4, <1>7 DEF Capture, r
  <1>10. \A j \in r.i + 1 .. 15 : box'[Profile[j]] = r.found[Profile[j]]
    <2> SUFFICES ASSUME NEW j \in r.i + 1 .. 15
                 PROVE  box'[Profile[j]] = r.found[Profile[j]]
      OBVIOUS
    <2>1. j \in 1 .. 15 /\ j # r.i /\ j \in r.i .. 15
      BY <1>1
    <2>2. Profile[j] \in Knob /\ Profile[j] # k
      BY <1>1, <2>1, ProfileKnobs DEF k
    <2>3. box[Profile[j]] = r.found[Profile[j]]
      BY <2>1, ProfileKnobs DEF Capture, r
    <2> QED
      BY <1>1, <2>2, <2>3
  <1>11. SameKind(r.found)'
    <2>1. \A j \in Knob : box'[j] = Absent <=> box[j] = Absent
      BY <1>1
    <2>2. \A j \in Knob : j[1] = "irqbalance" => box'[j] \in {box[j], 0}
      BY <1>1
    <2>3. proc'[p].found = r.found
      BY <1>3
    <2> QED
      BY <2>1, <2>2, <2>3 DEF Capture, SameKind, r
  <1> QED
    BY <1>3, <1>5, <1>8, <1>9, <1>10, <1>11, ProfileKnobs DEF Capture, SameKind, r, t

\* An Apply that runs alone goes on recording.
LEMMA CapturedStep ==
    ASSUME Shapes, Solo, Captured, [Next]_vars
    PROVE  Captured'
  <1> USE DEF machine, disk, history
  <1>1. CASE UNCHANGED vars
    BY <1>1 DEF vars, Captured, Sole, Capture, SameKind
  <1>2. ASSUME NEW p \in Proc, NEW c \in Configs, StartApply(p, c)
        PROVE  Captured'
    <2> SUFFICES ASSUME Sole(p)'
                 PROVE  Capture(proc[p])'
      BY <1>2, ApplyBegins DEF Captured
    <2>1. /\ proc'[p].at = "apply" /\ proc'[p].found = box' /\ proc'[p].snap = None
      BY <1>2, ApplyBegins
    <2>2. DOMAIN None = {}
      BY DEF None
    <2> QED
      BY <2>1, <2>2 DEF Capture, SameKind
  <1>3. ASSUME NEW p \in Proc, ApplyKnob(p) \/ Persist(p) \/ Truncate(p)
        PROVE  Captured'
    <2> SUFFICES ASSUME Sole(p)'
                 PROVE  Capture(proc[p])'
      BY <1>3, ApplySteps DEF Captured
    <2>1. Capture(proc[p])
      BY <1>3, ApplySteps DEF Captured, Sole
    <2>2. CASE ApplyKnob(p)
      BY <2>1, <2>2, CaptureKnob
    <2>3. CASE Persist(p)
      <3>1. /\ proc'[p].at = "apply" /\ UNCHANGED box
            /\ proc'[p].i = proc[p].i /\ proc'[p].snap = proc[p].snap
            /\ proc'[p].found = proc[p].found
        BY <1>3, <2>3, ApplySteps DEF Persist, Advance, Shapes
      <3> QED
        BY <2>1, <3>1 DEF Capture, SameKind
    <2>4. CASE Truncate(p)
      <3>1. /\ file' = "torn" /\ UNCHANGED box
            /\ proc'[p].i = proc[p].i /\ proc'[p].snap = proc[p].snap
            /\ proc'[p].found = proc[p].found
        BY <1>3, <2>4, ApplySteps DEF Truncate, Advance, Shapes
      <3> QED
        BY <2>1, <3>1 DEF Capture, SameKind
    <2> QED
      BY <1>3, <2>2, <2>3, <2>4
  <1>4. ASSUME NEW p \in Proc,
               \/ SaveSnapshot(p) \/ SaveFails(p) \/ StartRestore(p) \/ RemoveSnapshot(p)
               \/ Crash(p) \/ \E k \in Knob : RestoreKnob(p, k)
        PROVE  Captured'
    BY <1>4, OtherSteps DEF Captured
  <1>5. CASE Reboot
    BY <1>5 DEF Reboot, Captured, Sole, Free, Applying
  <1> QED
    BY <1>1, <1>2, <1>3, <1>4, <1>5 DEF Next

\* The snapshot that an Apply alone leaves behind: its file is the one it truncated, and
\* nothing else is under way.
LEMMA KeptSaved ==
    ASSUME Shapes, Solo, Captured, NEW p \in Proc, SaveSnapshot(p)
    PROVE  Kept'
  <1> DEFINE r == proc[p]
  <1> USE DEF machine
  <1> SUFFICES ASSUME r.found # None
               PROVE  Kept'
    BY DEF SaveSnapshot, Kept
  <1>1. Sole(p) /\ Capture(r)
    BY DEF SaveSnapshot, Sole, Applying, Captured
  <1>2. file = "torn"
    BY <1>1 DEF Capture, SaveSnapshot
  <1>3. saved' = r.snap /\ undo' = r.found /\ lost' = {} /\ UNCHANGED box
    BY <1>2 DEF SaveSnapshot
  <1>4. \A q \in Proc : ~Busy(q)'
    <2>1. Advance(p, Free)
      BY DEF SaveSnapshot
    <2>2. proc'[p] = Free /\ \A q \in Proc : q # p => proc'[q] = proc[q]
      BY <2>1, Advanced DEF Shapes
    <2> QED
      BY <1>1, <2>2 DEF Solo, Busy, Free
  <1> QED
    BY <1>1, <1>3, <1>4 DEF Kept, Capture, SameKind, Undoable

\* A Restore begins with everything that is not as Apply found it ahead of it; one that
\* was under way keeps its list.
LEMMA KeptRestoreBegins ==
    ASSUME Shapes, Kept, NEW p \in Proc, StartRestore(p)
    PROVE  Kept'
  <1> DEFINE r == [at |-> "restore", todo |-> DOMAIN saved, snap |-> saved, found |-> None]
  <1>1. Join(p, r) /\ UNCHANGED <<box, saved, undo, lost>>
    BY DEF StartRestore, machine, disk, history
  <1>2. r.at = "restore" /\ r.todo = DOMAIN saved /\ r.snap = saved
    OBVIOUS
  <1> HIDE DEF r
  <1> SUFFICES ASSUME undo # None
               PROVE  Kept'
    BY <1>1 DEF Kept
  <1>3. ASSUME NEW q \in Proc, Busy(q)'
        PROVE  proc'[q].at = "restore" /\ Undoing(proc[q])'
    <2>1. CASE q = p
      <3>1. proc'[q] = r
        BY <1>1, <2>1, Joined
      <3> QED
        BY <1>1, <1>2, <3>1 DEF Kept, Undoing, Undoable
    <2>2. CASE q # p
      <3>1. Busy(q)
        BY <1>1, <1>3, <2>2, Joined DEF Busy
      <3>2. proc[q].at = "restore" /\ Undoing(proc[q])
        BY <3>1 DEF Kept
      <3>3. DOMAIN proc[q] = {"at", "todo", "snap", "found"}
        BY <3>2 DEF Shapes, Shape, Free, Applying
      <3>4. \A f \in DOMAIN proc[q] : f # "found" => proc'[q][f] = proc[q][f]
        BY <1>1, <2>2, <3>1, Joined
      <3>5. /\ proc'[q].at = "restore" /\ proc'[q].todo = proc[q].todo
            /\ proc'[q].snap = proc[q].snap
        BY <3>2, <3>3, <3>4
      <3> QED
        BY <1>1, <3>2, <3>5 DEF Undoing, Undoable
    <2> QED
      BY <2>1, <2>2
  <1> QED
    BY <1>1, <1>3 DEF Kept, SameKind, Undoable

\* A knob that is put back, for whichever Restores have it on their lists.
LEMMA KeptRestoreKnob ==
    ASSUME Shapes, Kept, NEW p \in Proc, NEW k \in Knob, RestoreKnob(p, k)
    PROVE  Kept'
  <1> DEFINE r == proc[p]
             v == r.snap[k]
  <1>1. /\ r.at = "restore" /\ k \in r.todo /\ UNCHANGED <<saved, undo>>
        /\ Advance(p, [r EXCEPT !.todo = r.todo \ {k}])
        /\ lost' = IF faults' > faults /\ undo # None THEN lost \cup {k} ELSE lost
    BY DEF RestoreKnob, disk
  <1>2. DOMAIN r = {"at", "todo", "snap", "found"}
    BY <1>1 DEF Shapes, Shape, Free, Applying
  <1> SUFFICES ASSUME undo # None
               PROVE  Kept'
    BY <1>1 DEF Kept
  <1>3. v = undo[k] /\ SameKind(undo)
    BY <1>1 DEF Kept, Busy, Undoing
  <1>4. /\ \A j \in Knob : j # k => box'[j] = box[j]
        /\ box'[k] \in {box[k], undo[k]}
        /\ box[k] = Absent <=> box'[k] = Absent
        /\ k[1] = "irqbalance" /\ undo[k] = 0 => box'[k] = box[k]
        /\ \/ box'[k] = undo[k] \/ box[k] = Absent \/ faults' > faults
           \/ k[1] = "irqbalance" /\ undo[k] = 0
    BY <1>3, RestoresOne DEF SameKind
  <1>5. SameKind(undo)'
    BY <1>1, <1>3, <1>4 DEF SameKind
  <1>6. box'[k] = undo[k] \/ k \in lost'
    BY <1>1, <1>3, <1>4 DEF SameKind
  <1>7. /\ lost \subseteq lost'
        /\ \A j \in Knob : box[j] = undo[j] => box'[j] = undo[j]
        /\ \A j \in Knob : box'[j] = box[j] \/ box'[j] = undo[j]
    BY <1>1, <1>4
  <1>8. /\ proc'[p].at = "restore" /\ proc'[p].todo = r.todo \ {k} /\ proc'[p].snap = r.snap
        /\ \A q \in Proc : q # p => proc'[q] = proc[q]
    BY <1>1, <1>2 DEF Advance, Shapes
  <1> HIDE DEF v
  <1>9. ASSUME NEW q \in Proc, Busy(q)'
        PROVE  proc'[q].at = "restore" /\ Undoing(proc[q])'
    <2>1. Undoing(proc[q]) /\ proc[q].at = "restore"
      BY <1>1, <1>8, <1>9 DEF Kept, Busy
    <2>2. /\ proc'[q].at = "restore" /\ proc'[q].snap = proc[q].snap
          /\ proc'[q].todo \subseteq proc[q].todo /\ proc[q].todo \subseteq proc'[q].todo \cup {k}
      BY <1>8, <2>1
    <2> QED
      BY <1>1, <1>6, <1>7, <2>1, <2>2 DEF Undoing, Undoable
  <1> QED
    BY <1>1, <1>5, <1>7, <1>9 DEF Kept, Undoable

\* The file goes when nothing is left on the list.
LEMMA KeptRemoved ==
    ASSUME Shapes, Kept, NEW p \in Proc, RemoveSnapshot(p)
    PROVE  Kept'
  <1>1. /\ proc[p].at = "restore" /\ proc[p].todo = {} /\ Advance(p, Free) /\ saved' = None
        /\ UNCHANGED <<box, undo, lost>>
    BY DEF RemoveSnapshot, machine, history
  <1> SUFFICES ASSUME undo # None
               PROVE  Kept'
    BY <1>1 DEF Kept
  <1>2. DOMAIN None = {}
    BY DEF None
  <1>3. \A k \in Undoable : box[k] = undo[k]
    BY <1>1 DEF Kept, Busy, Undoing
  <1>4. proc'[p] = Free /\ \A q \in Proc : q # p => proc'[q] = proc[q]
    BY <1>1, Advanced DEF Shapes
  <1> QED
    BY <1>1, <1>2, <1>3, <1>4 DEF Kept, Undoable, Undoing, SameKind, Busy, Free

\* Every step keeps what Restore needs.
LEMMA KeptStep ==
    ASSUME Shapes, Solo, Captured, Kept, [Next]_vars
    PROVE  Kept'
  <1>1. CASE UNCHANGED vars
    BY <1>1 DEF vars, machine, disk, history, Kept, SameKind, Undoable, Undoing, Busy
  <1>2. ASSUME NEW p \in Proc, NEW c \in Configs, StartApply(p, c)
        PROVE  Kept'
    BY <1>2 DEF StartApply, Kept
  <1>3. ASSUME NEW p \in Proc, ApplyKnob(p) \/ Persist(p) \/ Truncate(p)
        PROVE  Kept'
    BY <1>3, ApplySteps DEF Kept, Busy, Applying
  <1>4. ASSUME NEW p \in Proc, SaveFails(p) \/ Crash(p)
        PROVE  Kept'
    <2>1. Advance(p, Free) /\ UNCHANGED <<box, saved, undo, lost>>
      BY <1>4 DEF SaveFails, Crash, machine, disk, history
    <2>2. proc'[p] = Free /\ \A q \in Proc : q # p => proc'[q] = proc[q]
      BY <2>1, Advanced DEF Shapes
    <2> QED
      BY <2>1, <2>2 DEF Kept, SameKind, Undoable, Undoing, Busy, Free
  <1>5. CASE Reboot
    BY <1>5 DEF Reboot, Kept
  <1> QED
    BY <1>1, <1>2, <1>3, <1>4, <1>5, KeptSaved, KeptRestoreBegins, KeptRestoreKnob, KeptRemoved
       DEF Next

----------------------------------------------------------------------------
(* One channel count for both ports *)

\* One port's step in the pass over the ports.
Narrowed(resolved, port) ==
    LET cpus  == IF port.cpus = 0 THEN 1 ELSE port.cpus
        limit == IF port.maximum > 0 /\ port.maximum < cpus THEN port.maximum ELSE cpus
    IN IF resolved = 0 \/ limit < resolved THEN limit ELSE resolved

\* The larger of two numbers.
LEMMA LargerOf ==
    ASSUME NEW a \in Nat, NEW b \in Nat
    PROVE  Max({a, b}) \in {a, b} /\ Max({a, b}) >= a /\ Max({a, b}) >= b
  <1>1. \E x \in {a, b} : \A y \in {a, b} : x >= y
    <2>1. CASE a >= b
      BY <2>1
    <2>2. CASE b >= a
      BY <2>2
    <2> QED
      BY <2>1, <2>2
  <1>2. Max({a, b}) \in {a, b} /\ \A y \in {a, b} : Max({a, b}) >= y
    BY <1>1 DEF Max
  <1> QED
    BY <1>2

\* The pass over two ports narrows the request by the one and then by the other.
LEMMA ResolvesBoth ==
    ASSUME NEW req, NEW a, NEW b
    PROVE  resolveCommonChannels(req, <<a, b>>) = Narrowed(Narrowed(req, a), b)
  <1> DEFINE ports == <<a, b>>
             D == DOMAIN ports
             Def(g) == [s \in SUBSET D |-> IF s = {} THEN req ELSE Narrowed(g[s \ {Max(s)}], ports[Max(s)])]
             iter == CHOOSE g : g = Def(g)
             pass == [s \in SUBSET D |->
                        IF s = {} THEN req
                        ELSE IF s = {1} THEN Narrowed(req, a)
                        ELSE IF s = {2} THEN Narrowed(req, b)
                        ELSE Narrowed(Narrowed(req, a), b)]
  <1>1. resolveCommonChannels(req, ports) = iter[D]
    BY DEF resolveCommonChannels, FoldLeft, MapThenFoldSet, Narrowed
  <1>2. D = {1, 2} /\ ports[1] = a /\ ports[2] = b
    OBVIOUS
  <1>3. Max({1}) = 1 /\ Max({2}) = 2 /\ Max({1, 2}) = 2
    <2>1. {1} = {1, 1} /\ {2} = {2, 2} /\ 1 \in Nat /\ 2 \in Nat
      OBVIOUS
    <2>2. Max({1, 1}) = 1 /\ Max({2, 2}) = 2
      BY <2>1, LargerOf
    <2>3. Max({1, 2}) \in {1, 2} /\ Max({1, 2}) >= 2
      BY <2>1, LargerOf
    <2>4. Max({1, 2}) = 2
      BY <2>3
    <2> QED
      BY <2>1, <2>2, <2>4
  <1>4. ASSUME NEW s \in SUBSET D PROVE s = {} \/ s = {1} \/ s = {2} \/ s = {1, 2}
    BY <1>2
  <1>5. /\ {1} \ {1} = {} /\ {2} \ {2} = {} /\ {1, 2} \ {2} = {1}
        /\ {1} # {} /\ {2} # {} /\ {1, 2} # {} /\ {1} # {2} /\ {1, 2} # {1} /\ {1, 2} # {2}
    OBVIOUS
  <1>6. {} \in SUBSET D /\ {1} \in SUBSET D /\ {2} \in SUBSET D /\ {1, 2} \in SUBSET D
    BY <1>2
  <1>7. /\ pass[{}] = req /\ pass[{1}] = Narrowed(req, a) /\ pass[{2}] = Narrowed(req, b)
        /\ pass[{1, 2}] = Narrowed(Narrowed(req, a), b)
    <2> HIDE DEF D
    <2> QED
      BY <1>5, <1>6
  <1> HIDE DEF D, ports
  <1>8. pass = Def(pass)
    <2>1. /\ Def(pass)[{}] = req
          /\ Def(pass)[{1}] = Narrowed(pass[{1} \ {Max({1})}], ports[Max({1})])
          /\ Def(pass)[{2}] = Narrowed(pass[{2} \ {Max({2})}], ports[Max({2})])
          /\ Def(pass)[{1, 2}] = Narrowed(pass[{1, 2} \ {Max({1, 2})}], ports[Max({1, 2})])
      <3> HIDE DEF pass
      <3> QED
        BY <1>5, <1>6
    <2>2. ASSUME NEW s \in SUBSET D PROVE pass[s] = Def(pass)[s]
      <3>1. /\ Def(pass)[{1}] = Narrowed(pass[{}], ports[1])
            /\ Def(pass)[{2}] = Narrowed(pass[{}], ports[2])
            /\ Def(pass)[{1, 2}] = Narrowed(pass[{1}], ports[2])
        <4> HIDE DEF pass, Def
        <4> QED
          BY <1>3, <1>5, <2>1
      <3>2. /\ pass[{}] = Def(pass)[{}] /\ pass[{1}] = Def(pass)[{1}]
            /\ pass[{2}] = Def(pass)[{2}] /\ pass[{1, 2}] = Def(pass)[{1, 2}]
        <4> HIDE DEF pass, Def
        <4> QED
          BY <1>2, <1>7, <2>1, <3>1
      <3> HIDE DEF pass, Def
      <3> QED
        BY <1>4, <3>2
    <2> QED
      BY <2>2, Zenon
  <1>9. iter = Def(iter)
    BY <1>8, Zenon
  <1> HIDE DEF iter
  <1>10. /\ iter[{}] = req
         /\ iter[{1}] = Narrowed(iter[{1} \ {Max({1})}], ports[Max({1})])
         /\ iter[{1, 2}] = Narrowed(iter[{1, 2} \ {Max({1, 2})}], ports[Max({1, 2})])
    BY <1>5, <1>6, <1>9
  <1>11. iter[D] = Narrowed(Narrowed(req, a), b)
    BY <1>2, <1>3, <1>5, <1>10
  <1> QED
    BY <1>1, <1>11 DEF ports

\* A channel count that suits both ports and the request.
Fits(c, n) ==
    /\ n \in Nat \ {0}
    /\ \A port \in Port :
          /\ n <= Max({1, Cardinality(numaCores(c, port))})
          /\ box[<<"channels", port>>] # Absent /\ topo.channels[port] > 0 => n <= topo.channels[port]
    /\ c.channels > 0 => n <= c.channels

\* After sysctl.d the count is resolved, and every port that Apply has passed since has it.
Applied(r) ==
    /\ r.at = "persist" => r.i = 2
    /\ r.at = "save" => r.i > 15
    /\ r.at # "persist" /\ r.i > 1 => Fits(r.c, r.n)
    /\ \A j \in 1 .. 15 : j < r.i /\ Profile[j][1] = "channels" => box[Profile[j]] \in {Absent, r.n}

\* An Apply that runs alone and meets no fault resolves one count and sets it.
Alike == faults = 0 => \A p \in Proc : Sole(p) => Applied(proc[p])

\* A port narrows the count to its CPUs and its maximum, and never widens it.
LEMMA NarrowedBound ==
    ASSUME NEW v \in Nat, NEW port, port.cpus \in Nat \ {0}, port.maximum \in Nat
    PROVE  /\ Narrowed(v, port) \in Nat \ {0}
           /\ Narrowed(v, port) <= port.cpus
           /\ port.maximum > 0 => Narrowed(v, port) <= port.maximum
           /\ v > 0 => Narrowed(v, port) <= v
  BY DEF Narrowed

\* The CPUs near a port are finitely many.
LEMMA CoresCounted ==
    ASSUME topo \in Topologies, NEW c, NEW port \in Port
    PROVE  Cardinality(numaCores(c, port)) \in Nat
  <1>1. topo.local[port] \subseteq Value /\ topo.online \subseteq Value /\ MaxValue \in Nat
    BY TuningConstants
  <1>2. numaCores(c, port) \subseteq Value
    BY <1>1 DEF numaCores, intersectCPUs
  <1>3. IsFiniteSet(Value)
    <2>1. \A a, b \in Int : IsFiniteSet(a .. b)
      BY FS_Interval
    <2> QED
      BY <1>1, <2>1 DEF Value
  <1>4. IsFiniteSet(numaCores(c, port))
    BY <1>2, <1>3, FS_Subset
  <1> QED
    BY <1>4, FS_CardinalityType

\* The limits of a port.
LEMMA LimitTyped ==
    ASSUME topo \in Topologies, NEW c, NEW port \in Port
    PROVE  LET l == ChannelLimit(c, port)
           IN /\ l.cpus \in Nat \ {0} /\ l.maximum \in Nat
              /\ l.cpus = Max({1, Cardinality(numaCores(c, port))})
              /\ box[<<"channels", port>>] # Absent => l.maximum = topo.channels[port]
  <1> DEFINE l == ChannelLimit(c, port)
  <1>1. Cardinality(numaCores(c, port)) \in Nat /\ 1 \in Nat
    BY CoresCounted
  <1>2. Max({1, Cardinality(numaCores(c, port))}) \in Nat \ {0}
    <2>1. PICK n \in Nat : n = Cardinality(numaCores(c, port))
      BY <1>1
    <2>2. Max({1, n}) \in {1, n} /\ Max({1, n}) >= 1
      BY <1>1, LargerOf
    <2> QED
      BY <2>1, <2>2
  <1>3. topo.channels[port] \in Nat
    BY TuningConstants DEF Value
  <1>4. /\ l.cpus = Max({1, Cardinality(numaCores(c, port))})
        /\ l.maximum = IF box[<<"channels", port>>] = Absent THEN 0 ELSE topo.channels[port]
    BY DEF ChannelLimit
  <1> HIDE DEF l
  <1> QED
    BY <1>2, <1>3, <1>4 DEF l

\* What commonChannels resolves suits both ports and the request.
LEMMA CommonFits ==
    ASSUME topo \in Topologies, NEW c \in Configs
    PROVE  Fits(c, commonChannels(c))
  <1> DEFINE a == ChannelLimit(c, "trusted")
             b == ChannelLimit(c, "untrusted")
             m == Narrowed(c.channels, a)
             n == Narrowed(m, b)
  <1>1. commonChannels(c) = n
    BY ResolvesBoth DEF commonChannels
  <1>2. c.channels \in Nat
    BY TuningConstants DEF Value
  <1>3. "trusted" \in Port /\ "untrusted" \in Port /\ \A port \in Port : port = "trusted" \/ port = "untrusted"
    BY DEF Port
  <1>4. /\ a.cpus \in Nat \ {0} /\ a.maximum \in Nat
        /\ a.cpus = Max({1, Cardinality(numaCores(c, "trusted"))})
        /\ box[<<"channels", "trusted">>] # Absent => a.maximum = topo.channels["trusted"]
    BY <1>3, LimitTyped
  <1>5. /\ b.cpus \in Nat \ {0} /\ b.maximum \in Nat
        /\ b.cpus = Max({1, Cardinality(numaCores(c, "untrusted"))})
        /\ box[<<"channels", "untrusted">>] # Absent => b.maximum = topo.channels["untrusted"]
    BY <1>3, LimitTyped
  <1> HIDE DEF a, b
  <1>6. /\ m \in Nat \ {0} /\ m <= a.cpus
        /\ a.maximum > 0 => m <= a.maximum
        /\ c.channels > 0 => m <= c.channels
    BY <1>2, <1>4, NarrowedBound
  <1> HIDE DEF m
  <1>7. /\ n \in Nat \ {0} /\ n <= b.cpus /\ n <= m
        /\ b.maximum > 0 => n <= b.maximum
    BY <1>5, <1>6, NarrowedBound
  <1> HIDE DEF n
  <1>8. /\ n <= a.cpus
        /\ a.maximum > 0 => n <= a.maximum
        /\ c.channels > 0 => n <= c.channels
    BY <1>2, <1>4, <1>6, <1>7
  <1>9. ASSUME NEW port \in Port
        PROVE  /\ n <= Max({1, Cardinality(numaCores(c, port))})
               /\ box[<<"channels", port>>] # Absent /\ topo.channels[port] > 0 => n <= topo.channels[port]
    <2>1. CASE port = "trusted"
      BY <1>4, <1>8, <2>1
    <2>2. CASE port = "untrusted"
      BY <1>5, <1>7, <2>2
    <2> QED
      BY <1>3, <2>1, <2>2
  <1> QED
    BY <1>1, <1>7, <1>8, <1>9 DEF Fits

\* A count goes on to suit the ports while no knob comes or goes.
LEMMA StillFits ==
    ASSUME NEW c, NEW n, Fits(c, n), topo' = topo,
           \A port \in Port : box'[<<"channels", port>>] = Absent <=> box[<<"channels", port>>] = Absent
    PROVE  Fits(c, n)'
  <1>1. \A port : numaCores(c, port)' = numaCores(c, port)
    BY DEF numaCores
  <1> QED
    BY <1>1 DEF Fits

\* The first knob is the only sysctl.
LEMMA SysctlFirst == \A i \in 1 .. 15 : Profile[i][1] = "sysctl" <=> i = 1
  <1>1. \A i \in 1 .. 15 : \/ i = 1 \/ i = 2 \/ i = 3 \/ i = 4 \/ i = 5 \/ i = 6 \/ i = 7 \/ i = 8
                           \/ i = 9 \/ i = 10 \/ i = 11 \/ i = 12 \/ i = 13 \/ i = 14 \/ i = 15
    OBVIOUS
  <1>2. /\ Profile[1][1] = "sysctl" /\ Profile[2][1] # "sysctl" /\ Profile[3][1] # "sysctl"
        /\ Profile[4][1] # "sysctl" /\ Profile[5][1] # "sysctl" /\ Profile[6][1] # "sysctl"
        /\ Profile[7][1] # "sysctl" /\ Profile[8][1] # "sysctl" /\ Profile[9][1] # "sysctl"
        /\ Profile[10][1] # "sysctl" /\ Profile[11][1] # "sysctl" /\ Profile[12][1] # "sysctl"
        /\ Profile[13][1] # "sysctl" /\ Profile[14][1] # "sysctl" /\ Profile[15][1] # "sysctl"
    BY DEF Profile
  <1> QED
    BY <1>1, <1>2

\* Visiting a knob: a channel count is set to the one resolved, unless the port has none.
LEMMA AppliedKnob ==
    ASSUME Shapes, NEW p \in Proc, ApplyKnob(p), faults = 0, faults' = 0, Applied(proc[p])
    PROVE  Applied(proc[p])'
  <1> DEFINE r == proc[p]
             k == Profile[r.i]
             want == Wanted(r.c, r.n, k)
  <1>1. /\ r.at = "apply" /\ r.i \in 1 .. 15 /\ k \in Knob
        /\ \A j \in Knob : j # k => box'[j] = box[j]
        /\ box[k] = Absent <=> box'[k] = Absent
    BY AppliesOne
  <1>2. DOMAIN r = {"at", "c", "i", "n", "snap", "found"} /\ r.c \in Configs
    BY <1>1 DEF Shapes, Shape, Free
  <1>3. /\ proc'[p].at = IF k[1] = "sysctl" THEN "persist" ELSE "apply"
        /\ proc'[p].i = r.i + 1 /\ proc'[p].n = r.n /\ proc'[p].c = r.c
    BY <1>2 DEF ApplyKnob, Advance, Shapes
  <1>4. topo' = topo /\ IF want \in {Keep, box[k]} THEN UNCHANGED <<box, faults>> ELSE Put(k, want)
    BY DEF ApplyKnob
  <1>5. k[1] = "sysctl" <=> r.i = 1
    BY <1>1, SysctlFirst
  <1>6. r.i > 1 => Fits(r.c, r.n)
    BY <1>1 DEF Applied
  <1>7. \A port \in Port : box'[<<"channels", port>>] = Absent <=> box[<<"channels", port>>] = Absent
    <2>1. \A port \in Port : <<"channels", port>> \in Knob
      BY DEF Knob
    <2> QED
      BY <1>1, <2>1
  <1>8. ASSUME r.i > 1 PROVE Fits(proc[p].c, proc[p].n)'
    <2>1. PICK c, n : c = r.c /\ n = r.n /\ Fits(c, n)
      BY <1>6, <1>8
    <2>2. Fits(c, n)'
      BY <1>4, <1>7, <2>1, StillFits
    <2>3. c = proc'[p].c /\ n = proc'[p].n
      BY <1>3, <2>1
    <2> QED
      BY <2>2, <2>3 DEF Fits, numaCores
  <1>9. ASSUME k[1] = "channels" PROVE box'[k] \in {Absent, r.n}
    <2>1. r.i > 1
      BY <1>1, <1>5, <1>9
    <2>2. r.n \in Nat \ {0}
      BY <1>6, <2>1 DEF Fits
    <2>3. want = r.n
      BY <1>9, <2>2 DEF Wanted
    <2>4. want # Keep /\ want # Absent
      BY <2>2, <2>3 DEF Keep, Absent
    <2> HIDE DEF want, k, r
    <2>5. CASE want = box[k]
      BY <1>4, <2>3, <2>5
    <2>6. CASE want # box[k]
      <3>1. Put(k, want)
        BY <1>4, <2>4, <2>6
      <3>2. box'[k] # want /\ box[k] # Absent => faults' > faults
        BY <1>1, <2>4, <3>1, PutOne DEF Shapes
      <3> QED
        BY <1>1, <2>3, <3>2
    <2> QED
      BY <2>5, <2>6
  <1>10. ASSUME NEW j \in 1 .. 15, j < r.i + 1, Profile[j][1] = "channels"
         PROVE  box'[Profile[j]] \in {Absent, r.n}
    <2>1. CASE j = r.i
      BY <1>9, <1>10, <2>1
    <2>2. CASE j # r.i
      <3>1. j < r.i
        BY <1>1, <1>10, <2>2
      <3>2. Profile[j] # k /\ Profile[j] \in Knob
        BY <1>1, <2>2, ProfileKnobs
      <3>3. box[Profile[j]] \in {Absent, r.n}
        BY <1>10, <3>1 DEF Applied
      <3> QED
        BY <1>1, <3>2, <3>3
    <2> QED
      BY <2>1, <2>2
  <1>11. proc'[p].at = "persist" => proc'[p].i = 2
    BY <1>3, <1>5
  <1>12. proc'[p].at # "save"
    BY <1>3
  <1>13. proc'[p].at # "persist" => r.i > 1
    BY <1>1, <1>3, <1>5
  <1>14. \A j \in 1 .. 15 : j < proc'[p].i /\ Profile[j][1] = "channels" => box'[Profile[j]] \in {Absent, proc'[p].n}
    BY <1>3, <1>10
  <1> HIDE DEF r, k, want
  <1> QED
    BY <1>8, <1>11, <1>12, <1>13, <1>14 DEF Applied

\* Every step keeps it: nothing else touches the ports while an Apply runs alone.
LEMMA AlikeStep ==
    ASSUME Shapes, Solo, Alike, [Next]_vars
    PROVE  Alike'
  <1> SUFFICES ASSUME faults' = 0, NEW p \in Proc, Sole(p)' PROVE Applied(proc[p])'
    BY DEF Alike
  <1>1. CASE UNCHANGED vars
    <2>1. UNCHANGED <<topo, box, proc, faults>>
      BY <1>1 DEF vars, machine, bounds
    <2> QED
      BY <2>1 DEF Alike, Sole, Applied, Fits, numaCores
  <1>2. ASSUME NEW q \in Proc, NEW c \in Configs, StartApply(q, c)
        PROVE  Applied(proc[p])'
    <2>1. q = p
      BY <1>2, ApplyBegins
    <2>2. proc'[p].at = "apply" /\ proc'[p].i = 1
      BY <1>2, <2>1 DEF StartApply, Join
    <2> QED
      BY <2>2 DEF Applied
  <1>3. ASSUME NEW q \in Proc, ApplyKnob(q) \/ Persist(q) \/ Truncate(q)
        PROVE  Applied(proc[p])'
    <2>1. /\ q = p /\ proc[p].at \in Applying /\ proc'[p].found = proc[p].found
          /\ DOMAIN proc[p] = {"at", "c", "i", "n", "snap", "found"} /\ DOMAIN proc = Proc
      BY <1>3, ApplySteps DEF Shapes
    <2>2. faults = 0
      <3>1. faults' \in {faults, faults + 1} /\ faults \in Nat
        BY <1>3 DEF ApplyKnob, Put, Fault, Persist, Truncate, bounds, Shapes
      <3> QED
        BY <3>1
    <2>3. Applied(proc[p])
      BY <2>1, <2>2 DEF Alike, Sole
    <2>4. CASE ApplyKnob(p)
      BY <2>2, <2>3, <2>4, AppliedKnob
    <2>5. CASE Persist(p)
      <3>1. PICK c \in Configs : c = proc[p].c
        BY <2>1 DEF Shapes, Shape, Free, Applying
      <3>2. PICK n : n = commonChannels(c)
        OBVIOUS
      <3>3. /\ proc[p].at = "persist" /\ UNCHANGED <<topo, box>>
            /\ proc'[p].at = "apply" /\ proc'[p].i = proc[p].i /\ proc'[p].c = c /\ proc'[p].n = n
        BY <2>1, <2>5, <3>1, <3>2 DEF Persist, Advance
      <3>4. proc'[p].i = 2
        BY <2>3, <3>3 DEF Applied
      <3>5. Fits(c, n)
        BY <3>1, <3>2, CommonFits DEF Shapes
      <3>6. Fits(c, n)'
        BY <3>3, <3>5, StillFits
      <3>7. Fits(proc[p].c, proc[p].n)'
        BY <3>3, <3>6 DEF Fits, numaCores
      <3>8. \A j \in 1 .. 15 : j < 2 => Profile[j][1] # "channels"
        <4>1. \A j \in 1 .. 15 : j < 2 => j = 1
          OBVIOUS
        <4> QED
          BY <4>1, SysctlFirst
      <3> QED
        BY <3>3, <3>4, <3>7, <3>8 DEF Applied
    <2>6. CASE Truncate(p)
      <3>1. /\ proc[p].at = "apply" /\ proc[p].i > 15 /\ UNCHANGED <<topo, box>>
            /\ proc'[p].at = "save" /\ proc'[p].i = proc[p].i
            /\ proc'[p].c = proc[p].c /\ proc'[p].n = proc[p].n
        BY <2>1, <2>6, ProfileKnobs DEF Truncate, Advance, machine
      <3>2. Fits(proc[p].c, proc[p].n)
        <4>1. proc[p].i \in Nat
          BY <3>1 DEF Shapes, Shape, Free
        <4> QED
          BY <2>3, <3>1, <4>1 DEF Applied
      <3>3. PICK c, n : c = proc[p].c /\ n = proc[p].n /\ Fits(c, n)
        BY <3>2
      <3>4. Fits(c, n)'
        BY <3>1, <3>3, StillFits
      <3>5. Fits(proc[p].c, proc[p].n)'
        BY <3>1, <3>3, <3>4 DEF Fits, numaCores
      <3> QED
        BY <2>3, <3>1, <3>5 DEF Applied
    <2> QED
      BY <1>3, <2>1, <2>4, <2>5, <2>6
  <1>4. ASSUME NEW q \in Proc,
               \/ SaveSnapshot(q) \/ SaveFails(q) \/ StartRestore(q) \/ RemoveSnapshot(q)
               \/ Crash(q) \/ \E k \in Knob : RestoreKnob(q, k)
        PROVE  FALSE
    BY <1>4, OtherSteps
  <1>5. CASE Reboot
    BY <1>5 DEF Reboot, Sole, Free, Applying
  <1> QED
    BY <1>1, <1>2, <1>3, <1>4, <1>5 DEF Next

\* At its end an Apply that runs alone has set both ports to the count it resolved.
LEMMA AlikeAtEnd == Shapes /\ Alike => PortsAlike
  <1> SUFFICES ASSUME Shapes, Alike, faults = 0, NEW p \in Proc, proc[p].at = "save", proc[p].found # None
               PROVE  LET Chan(port) == box[<<"channels", port>>]
                          Having     == {port \in Port : Chan(port) # Absent}
                          CPUs(port) == Cardinality(numaCores(proc[p].c, port))
                      IN /\ Cardinality({Chan(port) : port \in Having}) <= 1
                         /\ \A port \in Having :
                               /\ Chan(port) > 0
                               /\ \A q \in Port : Chan(port) <= Max({1, CPUs(q)})
                               /\ \A q \in Having : topo.channels[q] > 0 => Chan(port) <= topo.channels[q]
                               /\ proc[p].c.channels > 0 => Chan(port) <= proc[p].c.channels
    BY DEF PortsAlike
  <1> DEFINE Chan(port) == box[<<"channels", port>>]
             Having == {port \in Port : Chan(port) # Absent}
  <1>1. Applied(proc[p]) /\ proc[p].i \in Nat
    BY DEF Alike, Sole, Applying, Shapes, Shape, Free
  <1>2. proc[p].i > 15
    BY <1>1 DEF Applied
  <1>3. Fits(proc[p].c, proc[p].n)
    BY <1>1, <1>2 DEF Applied
  <1>4. /\ Profile[4] = <<"channels", "trusted">> /\ Profile[9] = <<"channels", "untrusted">>
        /\ Profile[4][1] = "channels" /\ Profile[9][1] = "channels"
    BY DEF Profile
  <1>5. box[Profile[4]] \in {Absent, proc[p].n} /\ box[Profile[9]] \in {Absent, proc[p].n}
    <2>1. 4 \in 1 .. 15 /\ 9 \in 1 .. 15 /\ 4 < proc[p].i /\ 9 < proc[p].i
      BY <1>1, <1>2
    <2> QED
      BY <1>1, <1>4, <2>1 DEF Applied
  <1>6. \A port \in Having : Chan(port) = proc[p].n
    BY <1>4, <1>5 DEF Port
  <1>7. Cardinality({Chan(port) : port \in Having}) <= 1
    <2> DEFINE S == {Chan(port) : port \in Having}
    <2>1. S \subseteq {proc[p].n}
      BY <1>6
    <2>2. IsFiniteSet({proc[p].n}) /\ Cardinality({proc[p].n}) = 1
      BY FS_Singleton
    <2> HIDE DEF S
    <2>3. Cardinality(S) <= Cardinality({proc[p].n})
      BY <2>1, <2>2, FS_Subset
    <2> QED
      BY <2>2, <2>3 DEF S
  <1>8. ASSUME NEW port \in Having
        PROVE  /\ Chan(port) > 0
               /\ \A q \in Port : Chan(port) <= Max({1, Cardinality(numaCores(proc[p].c, q))})
               /\ \A q \in Having : topo.channels[q] > 0 => Chan(port) <= topo.channels[q]
               /\ proc[p].c.channels > 0 => Chan(port) <= proc[p].c.channels
    <2>1. PICK n : n = proc[p].n /\ n = Chan(port)
      BY <1>6
    <2>2. /\ n \in Nat \ {0}
          /\ \A q \in Port : n <= Max({1, Cardinality(numaCores(proc[p].c, q))})
          /\ \A q \in Having : topo.channels[q] > 0 => n <= topo.channels[q]
          /\ proc[p].c.channels > 0 => n <= proc[p].c.channels
      BY <1>3, <2>1 DEF Fits
    <2> QED
      BY <2>1, <2>2
  <1> QED
    BY <1>7, <1>8

----------------------------------------------------------------------------
(* Theorems *)

\* The inductive invariant: an Apply that runs alone records what it changes, and as long
\* as its snapshot counts, every Restore under way has ahead of it what is left to undo.
THEOREM TuningInvariant == Spec => []TuningInv
  <1>1. Init => TuningInv
    <2> SUFFICES ASSUME Init PROVE TuningInv
      OBVIOUS
    <2>1. Shapes
      BY TuningConstants DEF Init, Shapes, Shape
    <2> QED
      BY <2>1 DEF Init, TuningInv, Solo, Sole, Captured, Kept, Free, Applying
  <1>2. TuningInv /\ [Next]_vars => TuningInv'
    BY ShapesStep, SoloStep, CapturedStep, KeptStep DEF TuningInv
  <1> QED
    BY <1>1, <1>2, PTL DEF Spec

\* What the last Apply changed can be undone from the file, through crashes, failing
\* writes and Restores by several processes.
THEOREM SnapshotSuffices == Spec => []StillUndoable
  <1>1. TuningInv => StillUndoable
    BY DEF TuningInv, Kept, StillUndoable
  <1> QED
    BY <1>1, TuningInvariant, PTL

\* A Restore that is about to remove the file has undone what the Apply before it did.
THEOREM RestoreIsComplete == Spec => []RestoreUndoes
  <1>1. TuningInv => RestoreUndoes
    BY DEF TuningInv, Kept, RestoreUndoes, Undoing, Busy
  <1> QED
    BY <1>1, TuningInvariant, PTL

\* After an Apply that ran alone and met no fault, the ports that have channels have
\* one common count, within each NIC's maximum, each port's CPUs and the request.
THEOREM ChannelsAlike == Spec => []PortsAlike
  <1>1. Init => Alike
    BY DEF Init, Alike, Sole, Free, Applying
  <1>2. TuningInv /\ Alike /\ [Next]_vars => Alike'
    BY AlikeStep DEF TuningInv
  <1>3. TuningInv /\ Alike => PortsAlike
    BY AlikeAtEnd DEF TuningInv
  <1> QED
    BY <1>1, <1>2, <1>3, TuningInvariant, PTL DEF Spec

===============================================================================
