-------------------------- MODULE TokenBucketProofs --------------------------
(***************************************************************************)
(* Proofs about TokenBucket for any number of CPUs and elements and any    *)
(* price, rate, burst, interval and retry limit.                           *)
(***************************************************************************)
EXTENDS TokenBucket, FiniteSetTheorems, TLAPS

----------------------------------------------------------------------------
(* The inductive invariant *)

\* Past the lookup a CPU points to an element that was inserted.
InCall(c) == pc[c] \notin {"idle", "insert"}
Pointing  == \A c \in CPU : InCall(c) => ptr[c] \in 1 .. elems

\* What the branches taken so far guarantee about the CPU's local copies.
Branches ==
    \A c \in CPU :
        /\ pc[c] = "spend" => cur[c] >= Cost
        /\ pc[c] = "add" => cur[c] < Burst
        /\ pc[c] = "casTs" => last[c] < tnow[c]
        /\ pc[c] \in {"readRoom", "add"} => last[c] < tnow[c] /\ tnow[c] <= ts[ptr[c]]
        /\ InCall(c) => tries[c] < Retries

\* Every failed attempt was caused by a write of another CPU after the lookup.
Contended ==
    \A c \in CPU : InCall(c) =>
        /\ tries[c] <= version[ptr[c]] - since[c]
        /\ pc[c] = "spend" /\ tokens[ptr[c]] # cur[c]
              => tries[c] + 1 <= version[ptr[c]] - since[c]

IInv == TypeOK /\ Ledger /\ Pointing /\ Branches /\ RefillOnce /\ Contended

----------------------------------------------------------------------------
(* Arithmetic the solver needs stated *)

\* The amount a refiller computes is a natural number.
LEMMA CreditNat ==
    ASSUME NEW d \in Nat, NEW g \in Nat, NEW i \in Nat \ {0}
    PROVE  (d * g) \div i \in Nat
<1>1. d * g \in Nat
  OBVIOUS
<1>2. ASSUME NEW m \in Nat PROVE m \div i \in Nat
  OBVIOUS
<1> QED
  BY <1>1, <1>2

\* One more packet costs Cost more.
LEMMA OneMore ==
    ASSUME NEW a \in Nat, NEW p \in Nat
    PROVE  a * (p + 1) = a * p + a /\ a * p \in Nat
OBVIOUS

\* The element a CPU works on is one that was inserted.
LEMMA Here ==
    ASSUME IInv, NEW c \in CPU, InCall(c)
    PROVE  /\ ptr[c] \in 1 .. elems /\ ptr[c] \in Elem
           /\ tokens[ptr[c]] \in Nat /\ ts[ptr[c]] \in Nat /\ version[ptr[c]] \in Nat
<1>1. ptr[c] \in 1 .. elems
  BY DEF IInv, Pointing
<1>2. elems \in Nat /\ elems <= MaxElems
  BY BucketConstants DEF IInv, TypeOK
<1>3. ptr[c] \in Elem
  BY <1>1, <1>2, BucketConstants DEF Elem
<1> QED
  BY <1>1, <1>3 DEF IInv, TypeOK

----------------------------------------------------------------------------
(* One lemma per action: it keeps the whole invariant *)

\* The lookup starts a call with no failed attempt and the current version.
LEMMA LookupStep == ASSUME IInv, NEW c \in CPU, Lookup(c) PROVE IInv'
<1>0. /\ elems \in Nat /\ elems <= MaxElems /\ map \in 0 .. elems
      /\ map # 0 => map \in Elem /\ map \in 1 .. elems
  BY BucketConstants DEF IInv, TypeOK, Elem
<1>s. /\ pc' = [pc EXCEPT ![c] = IF map = 0 THEN "insert" ELSE "readTs"]
      /\ ptr' = [ptr EXCEPT ![c] = map] /\ tnow' = [tnow EXCEPT ![c] = clock]
      /\ tries' = [tries EXCEPT ![c] = 0]
      /\ since' = [since EXCEPT ![c] = IF map = 0 THEN 0 ELSE version[map]]
      /\ UNCHANGED <<clock, map, elems, tokens, ts, credited, covered, paid, born, version,
                     last, cur, verdict>>
      /\ pc[c] = "idle"
  BY DEF Lookup, Goto, shared
<1>1. TypeOK'
  <2>1. /\ ptr' \in [CPU -> 0 .. elems] /\ tries' \in [CPU -> 0 .. Retries]
        /\ since' \in [CPU -> Nat] /\ tnow' \in [CPU -> Nat]
    BY <1>0, <1>s, BucketConstants DEF IInv, TypeOK
  <2> QED
    BY <2>1, <1>s DEF IInv, TypeOK
<1>2. Ledger'
  BY <1>s DEF IInv, Ledger
<1>3. Pointing' /\ Branches'
  BY <1>0, <1>s, BucketConstants DEF IInv, TypeOK, Pointing, Branches, InCall
<1>4. RefillOnce'
  BY <1>s DEF IInv, TypeOK, RefillOnce
<1>5. Contended'
  BY <1>0, <1>s DEF IInv, TypeOK, Contended, InCall
<1> QED
  BY <1>1, <1>2, <1>3, <1>4, <1>5 DEF IInv

\* A failed insert ends the call and touches no element.
LEMMA InsertFailedStep == ASSUME IInv, NEW c \in CPU, InsertFailed(c) PROVE IInv'
<1>s. /\ pc[c] = "insert" /\ pc' = [pc EXCEPT ![c] = "idle"]
      /\ verdict' = [verdict EXCEPT ![c] = "new"]
      /\ UNCHANGED <<clock, map, elems, tokens, ts, credited, covered, paid, born, version,
                     ptr, tnow, last, cur, tries, since>>
  BY DEF InsertFailed, Return, shared
<1>1. TypeOK' /\ Ledger'
  BY <1>s DEF IInv, TypeOK, Ledger
<1>2. Pointing' /\ Branches' /\ RefillOnce' /\ Contended'
  BY <1>s DEF IInv, TypeOK, Pointing, Branches, RefillOnce, Contended, InCall
<1> QED
  BY <1>1, <1>2 DEF IInv

\* A fresh element is one no CPU points to yet.
LEMMA InsertStep == ASSUME IInv, NEW c \in CPU, Insert(c) PROVE IInv'
<1> DEFINE e == elems + 1
<1>0. /\ e \in Elem /\ elems \in Nat /\ e \in 0 .. MaxElems /\ Burst - Cost \in Nat
      /\ \A p \in 1 .. elems : p \in Elem /\ p # e /\ p \in 1 .. e
      /\ \A p \in 0 .. elems : p \in 0 .. e
  <2>1. elems \in Nat /\ elems < MaxElems /\ MaxElems \in Nat
    BY BucketConstants DEF IInv, TypeOK, Insert
  <2> QED
    BY <2>1, BucketConstants DEF Elem
<1>s. /\ pc[c] = "insert" /\ pc' = [pc EXCEPT ![c] = "idle"]
      /\ map' = e /\ elems' = e
      /\ tokens' = [tokens EXCEPT ![e] = Burst - Cost] /\ ts' = [ts EXCEPT ![e] = tnow[c]]
      /\ credited' = [credited EXCEPT ![e] = Burst] /\ paid' = [paid EXCEPT ![e] = 1]
      /\ born' = [born EXCEPT ![e] = tnow[c]] /\ covered' = [covered EXCEPT ![e] = {}]
      /\ verdict' = [verdict EXCEPT ![c] = "new"]
      /\ UNCHANGED <<clock, version, ptr, tnow, last, cur, tries, since>>
  BY DEF Insert, Return
<1>o. \A d \in CPU : /\ InCall(d)' => InCall(d) /\ pc'[d] = pc[d] /\ ptr[d] \in 1 .. elems
                     /\ pc'[d] # "idle" => pc'[d] = pc[d]
  BY <1>s DEF IInv, TypeOK, Pointing, InCall
<1> HIDE DEF e
<1>1. TypeOK'
  <2>1. /\ tokens' \in [Elem -> Nat] /\ ts' \in [Elem -> Nat] /\ born' \in [Elem -> Nat]
        /\ credited' \in [Elem -> Nat] /\ paid' \in [Elem -> Nat]
        /\ covered' \in [Elem -> SUBSET Nat]
    BY <1>0, <1>s, BucketConstants DEF IInv, TypeOK
  <2>2. ptr' \in [CPU -> 0 .. e] /\ map' \in 0 .. e
    BY <1>0, <1>s DEF IInv, TypeOK, Elem
  <2> QED
    BY <1>0, <1>s, <2>1, <2>2 DEF IInv, TypeOK
<1>2. Ledger'
  BY <1>0, <1>s, BucketConstants DEF IInv, TypeOK, Ledger
<1>3. Pointing' /\ Branches'
  <2>1. Pointing'
    BY <1>0, <1>s, <1>o DEF Pointing
  <2>2. \A d \in CPU : InCall(d)' => ts'[ptr[d]] = ts[ptr[d]]
    BY <1>0, <1>s, <1>o DEF IInv, TypeOK
  <2> QED
    BY <1>s, <1>o, <2>1, <2>2 DEF IInv, Branches, InCall
<1>4. RefillOnce'
  BY <1>s DEF IInv, TypeOK, RefillOnce
<1>5. Contended'
  <2>1. \A d \in CPU : InCall(d)' => tokens'[ptr[d]] = tokens[ptr[d]]
    BY <1>0, <1>s, <1>o DEF IInv, TypeOK
  <2> QED
    BY <1>s, <1>o, <2>1 DEF IInv, Contended
<1> QED
  BY <1>1, <1>2, <1>3, <1>4, <1>5 DEF IInv

\* Reading ts_ns decides whether this CPU competes for the refill.
LEMMA ReadTsStep == ASSUME IInv, NEW c \in CPU, ReadTs(c) PROVE IInv'
<1>0. InCall(c) /\ ts[ptr[c]] \in Nat
  BY Here DEF ReadTs, InCall
<1>s. /\ pc[c] = "readTs"
      /\ last' = [last EXCEPT ![c] = ts[ptr[c]]]
      /\ \/ pc' = [pc EXCEPT ![c] = "casTs"] /\ tnow[c] > ts[ptr[c]]
         \/ pc' = [pc EXCEPT ![c] = "readCur"]
      /\ UNCHANGED <<clock, map, elems, tokens, ts, credited, covered, paid, born, version,
                     ptr, tnow, cur, tries, since, verdict>>
  BY DEF ReadTs, Goto, shared
<1>1. TypeOK'
  BY <1>0, <1>s DEF IInv, TypeOK
<1>2. Ledger'
  BY <1>s DEF IInv, Ledger
<1>3. Pointing' /\ Branches'
  BY <1>0, <1>s DEF IInv, TypeOK, Pointing, Branches, InCall
<1>4. RefillOnce'
  BY <1>s DEF IInv, TypeOK, RefillOnce
<1>5. Contended'
  BY <1>0, <1>s DEF IInv, TypeOK, Contended, InCall
<1> QED
  BY <1>1, <1>2, <1>3, <1>4, <1>5 DEF IInv

\* The winner's interval starts where the previous winner's ended.
LEMMA CasTsStep == ASSUME IInv, NEW c \in CPU, CasTs(c) PROVE IInv'
<1>0. InCall(c) /\ ptr[c] \in Elem /\ ts[ptr[c]] \in Nat
  BY Here DEF CasTs, InCall
<1>s. /\ pc[c] = "casTs"
      /\ \/ /\ ts[ptr[c]] = last[c] /\ ts' = [ts EXCEPT ![ptr[c]] = tnow[c]]
            /\ pc' = [pc EXCEPT ![c] = "readRoom"]
         \/ ts' = ts /\ pc' = [pc EXCEPT ![c] = "readCur"]
      /\ UNCHANGED <<clock, map, elems, tokens, credited, covered, paid, born, version,
                     ptr, tnow, last, cur, tries, since, verdict>>
  BY DEF CasTs, Goto
<1>1. TypeOK'
  <2>1. ts' \in [Elem -> Nat]
    BY <1>0, <1>s DEF IInv, TypeOK
  <2> QED
    BY <1>s, <2>1 DEF IInv, TypeOK
<1>2. Ledger'
  BY <1>s DEF IInv, Ledger
<1>3. Pointing' /\ Branches'
  <2>1. Pointing'
    BY <1>0, <1>s DEF IInv, TypeOK, Pointing, InCall
  <2>2. tnow[c] \in Nat /\ last[c] \in Nat /\ last[c] < tnow[c]
    BY <1>s DEF IInv, TypeOK, Branches
  <2>3. ASSUME NEW d \in CPU, pc'[d] \in {"readRoom", "add"}
        PROVE  last[d] < tnow[d] /\ tnow[d] <= ts'[ptr[d]]
    <3>1. CASE d = c
      BY <1>0, <1>s, <2>2, <2>3, <3>1 DEF IInv, TypeOK
    <3>2. CASE d # c
      <4>1. InCall(d) /\ pc[d] \in {"readRoom", "add"}
        BY <1>s, <2>3, <3>2 DEF IInv, TypeOK, InCall
      <4>2. ptr[d] \in Elem /\ tnow[d] \in Nat /\ ts[ptr[d]] \in Nat
        BY <4>1, Here DEF IInv, TypeOK
      <4>3. last[d] < tnow[d] /\ tnow[d] <= ts[ptr[d]]
        BY <4>1 DEF IInv, Branches
      <4> QED
        BY <1>0, <1>s, <2>2, <4>2, <4>3 DEF IInv, TypeOK
    <3> QED
      BY <3>1, <3>2
  <2> QED
    BY <1>0, <1>s, <2>1, <2>3 DEF IInv, TypeOK, Branches, InCall
<1>4. RefillOnce'
  BY <1>s DEF IInv, TypeOK, Branches, RefillOnce
<1>5. Contended'
  BY <1>0, <1>s DEF IInv, TypeOK, Contended, InCall
<1> QED
  BY <1>1, <1>2, <1>3, <1>4, <1>5 DEF IInv

\* Reading the headroom changes no shared state.
LEMMA ReadRoomStep == ASSUME IInv, NEW c \in CPU, ReadRoom(c) PROVE IInv'
<1>0. InCall(c) /\ tokens[ptr[c]] \in Nat
  BY Here DEF ReadRoom, InCall
<1>s. /\ pc[c] = "readRoom"
      /\ cur' = [cur EXCEPT ![c] = tokens[ptr[c]]]
      /\ \/ pc' = [pc EXCEPT ![c] = "add"] /\ tokens[ptr[c]] < Burst
         \/ pc' = [pc EXCEPT ![c] = "readCur"]
      /\ UNCHANGED <<clock, map, elems, tokens, ts, credited, covered, paid, born, version,
                     ptr, tnow, last, tries, since, verdict>>
  BY DEF ReadRoom, Goto, shared
<1>1. TypeOK'
  BY <1>0, <1>s DEF IInv, TypeOK
<1>2. Ledger'
  BY <1>s DEF IInv, Ledger
<1>3. Pointing' /\ Branches'
  BY <1>0, <1>s DEF IInv, TypeOK, Pointing, Branches, InCall
<1>4. RefillOnce'
  BY <1>s DEF IInv, TypeOK, RefillOnce
<1>5. Contended'
  BY <1>0, <1>s DEF IInv, TypeOK, Contended, InCall
<1> QED
  BY <1>1, <1>2, <1>3, <1>4, <1>5 DEF IInv

\* The refill adds a non-negative amount to tokens and to the ledger alike.
LEMMA AddStep == ASSUME IInv, NEW c \in CPU, Add(c) PROVE IInv'
<1> USE BucketConstants
<1> DEFINE room == Burst - cur[c]
           add  == IF Credit(c) > room THEN room ELSE Credit(c)
<1>0. add \in Nat
  <2>1. tnow[c] - last[c] \in Nat /\ room \in Nat
    BY DEF IInv, TypeOK, Branches, Add
  <2>2. Credit(c) \in Nat
    BY <2>1, CreditNat DEF Credit
  <2> HIDE DEF room
  <2> QED
    BY <2>1, <2>2
<1>e. InCall(c) /\ ptr[c] \in Elem /\ tokens[ptr[c]] \in Nat
  BY Here DEF Add, InCall
<1>a. /\ pc[c] = "add"
      /\ tokens' = [tokens EXCEPT ![ptr[c]] = @ + add]
      /\ credited' = [credited EXCEPT ![ptr[c]] = @ + add]
      /\ covered' = [covered EXCEPT ![ptr[c]] = @ \cup (last[c] + 1 .. tnow[c])]
      /\ version' = [version EXCEPT ![ptr[c]] = IF add > 0 THEN @ + 1 ELSE @]
      /\ since' = [since EXCEPT ![c] = IF add > 0 THEN @ + 1 ELSE @]
      /\ pc' = [pc EXCEPT ![c] = "readCur"]
      /\ UNCHANGED <<clock, map, elems, ts, paid, born, ptr, tnow, last, cur, tries, verdict>>
  BY DEF Add, Goto
<1> HIDE DEF add
<1>1. TypeOK'
  <2>1. /\ tokens' \in [Elem -> Nat] /\ credited' \in [Elem -> Nat]
        /\ version' \in [Elem -> Nat] /\ since' \in [CPU -> Nat]
    BY <1>0, <1>e, <1>a DEF IInv, TypeOK
  <2>2. covered' \in [Elem -> SUBSET Nat]
    <3>1. (last[c] + 1 .. tnow[c]) \subseteq Nat
      BY DEF IInv, TypeOK
    <3> QED
      BY <1>e, <1>a, <3>1 DEF IInv, TypeOK
  <2> QED
    BY <1>a, <2>1, <2>2 DEF IInv, TypeOK
<1>2. Ledger'
  <2>1. \A e \in Elem : tokens[e] \in Nat /\ credited[e] \in Nat /\ Cost * paid[e] \in Nat
    BY OneMore DEF IInv, TypeOK
  <2>2. \A e \in Elem : tokens'[e] - tokens[e] = credited'[e] - credited[e]
                           /\ tokens'[e] \in Nat /\ credited'[e] \in Nat
    BY <1>0, <1>e, <1>a DEF IInv, TypeOK
  <2>3. \A e \in Elem : Cost * paid'[e] = Cost * paid[e]
    BY <1>a
  <2> HIDE DEF Elem
  <2> QED
    BY <2>1, <2>2, <2>3 DEF IInv, Ledger
<1>3. Pointing' /\ Branches'
  BY <1>0, <1>e, <1>a DEF IInv, TypeOK, Pointing, Branches, InCall
<1>4. RefillOnce'
  BY <1>a DEF IInv, TypeOK, RefillOnce
<1>5. Contended'
  <2> SUFFICES ASSUME NEW d \in CPU, InCall(d)'
               PROVE  /\ tries[d] <= version'[ptr[d]] - since'[d]
                      /\ pc'[d] = "spend" /\ tokens'[ptr[d]] # cur[d]
                            => tries[d] + 1 <= version'[ptr[d]] - since'[d]
    BY <1>a DEF Contended
  <2>1. InCall(d) /\ (d # c => pc'[d] = pc[d])
    BY <1>e, <1>a DEF IInv, TypeOK, InCall
  <2>2. /\ ptr[d] \in Elem /\ tokens[ptr[d]] \in Nat /\ version[ptr[d]] \in Nat
        /\ since[d] \in Nat /\ tries[d] \in Nat /\ cur[d] \in Nat
    BY <2>1, Here, BucketConstants DEF IInv, TypeOK
  <2>3. /\ tries[d] <= version[ptr[d]] - since[d]
        /\ pc[d] = "spend" /\ tokens[ptr[d]] # cur[d]
              => tries[d] + 1 <= version[ptr[d]] - since[d]
    BY <2>1 DEF IInv, Contended
  <2>4. CASE d = c
    BY <1>0, <1>e, <1>a, <2>2, <2>3, <2>4 DEF IInv, TypeOK
  <2>5. CASE d # c
    BY <1>0, <1>e, <1>a, <2>1, <2>2, <2>3, <2>5 DEF IInv, TypeOK
  <2> QED
    BY <2>4, <2>5
<1> QED
  BY <1>1, <1>2, <1>3, <1>4, <1>5 DEF IInv

\* Going on to spend means that the value read covers the price.
LEMMA ReadCurStep == ASSUME IInv, NEW c \in CPU, ReadCur(c) PROVE IInv'
<1>0. InCall(c) /\ tokens[ptr[c]] \in Nat
  BY Here DEF ReadCur, InCall
<1>s. /\ pc[c] = "readCur"
      /\ cur' = [cur EXCEPT ![c] = tokens[ptr[c]]]
      /\ \/ pc' = [pc EXCEPT ![c] = "idle"] /\ verdict' = [verdict EXCEPT ![c] = "reject"]
         \/ /\ pc' = [pc EXCEPT ![c] = "spend"] /\ ~(tokens[ptr[c]] < Cost)
            /\ verdict' = verdict
      /\ UNCHANGED <<clock, map, elems, tokens, ts, credited, covered, paid, born, version,
                     ptr, tnow, last, tries, since>>
  BY DEF ReadCur, Goto, Return, shared
<1>1. TypeOK'
  BY <1>0, <1>s DEF IInv, TypeOK
<1>2. Ledger'
  BY <1>s DEF IInv, Ledger
<1>3. Pointing' /\ Branches'
  BY <1>0, <1>s, BucketConstants DEF IInv, TypeOK, Pointing, Branches, InCall
<1>4. RefillOnce'
  BY <1>s DEF IInv, TypeOK, RefillOnce
<1>5. Contended'
  BY <1>0, <1>s DEF IInv, TypeOK, Contended, InCall
<1> QED
  BY <1>1, <1>2, <1>3, <1>4, <1>5 DEF IInv

\* A failed compare-and-swap means somebody else wrote; a successful one charges once.
LEMMA SpendStep == ASSUME IInv, NEW c \in CPU, Spend(c) PROVE IInv'
<1> USE BucketConstants
<1>e. /\ InCall(c) /\ ptr[c] \in Elem /\ tokens[ptr[c]] \in Nat
      /\ cur[c] - Cost \in Nat /\ tries[c] \in 0 .. Retries - 1
  <2>1. InCall(c) /\ pc[c] = "spend"
    BY DEF Spend, InCall
  <2> QED
    BY <2>1, Here DEF IInv, TypeOK, Branches
<1>s. /\ pc[c] = "spend"
      /\ \/ /\ tokens[ptr[c]] = cur[c]
            /\ tokens' = [tokens EXCEPT ![ptr[c]] = cur[c] - Cost]
            /\ paid' = [paid EXCEPT ![ptr[c]] = @ + 1]
            /\ version' = [version EXCEPT ![ptr[c]] = @ + 1]
            /\ tries' = tries
            /\ pc' = [pc EXCEPT ![c] = "idle"] /\ verdict' = [verdict EXCEPT ![c] = "paid"]
         \/ /\ tokens[ptr[c]] # cur[c]
            /\ tries' = [tries EXCEPT ![c] = @ + 1]
            /\ \/ pc' = [pc EXCEPT ![c] = "idle"] /\ verdict' = [verdict EXCEPT ![c] = "open"]
               \/ /\ pc' = [pc EXCEPT ![c] = "readCur"] /\ verdict' = verdict
                  /\ tries[c] + 1 # Retries
            /\ UNCHANGED <<tokens, paid, version>>
      /\ UNCHANGED <<clock, map, elems, ts, credited, covered, born, ptr, tnow, last, cur, since>>
  BY DEF Spend, LastTry, Goto, Return
<1>1. TypeOK'
  <2>1. /\ tokens' \in [Elem -> Nat] /\ paid' \in [Elem -> Nat]
        /\ version' \in [Elem -> Nat] /\ tries' \in [CPU -> 0 .. Retries]
    BY <1>e, <1>s DEF IInv, TypeOK
  <2>2. /\ pc' \in [CPU -> {"idle", "insert", "readTs", "casTs", "readRoom", "add",
                            "readCur", "spend"}]
        /\ verdict' \in [CPU -> {"paid", "new", "reject", "open"}]
    BY <1>s DEF IInv, TypeOK
  <2> QED
    BY <1>s, <2>1, <2>2 DEF IInv, TypeOK
<1>2. Ledger'
  <2>1. \A e \in Elem : /\ tokens[e] \in Nat /\ credited[e] \in Nat
                        /\ Cost * paid[e] \in Nat
                        /\ Cost * (paid[e] + 1) = Cost * paid[e] + Cost
    BY OneMore DEF IInv, TypeOK
  <2>2. \A e \in Elem : /\ credited'[e] = credited[e]
                        /\ \/ tokens'[e] = tokens[e] /\ paid'[e] = paid[e]
                           \/ tokens'[e] = tokens[e] - Cost /\ paid'[e] = paid[e] + 1
    BY <1>e, <1>s DEF IInv, TypeOK
  <2> QED
    BY <2>1, <2>2 DEF IInv, Ledger
<1>3. Pointing' /\ Branches'
  BY <1>e, <1>s DEF IInv, TypeOK, Pointing, Branches, InCall
<1>4. RefillOnce'
  BY <1>s DEF IInv, TypeOK, RefillOnce
<1>5. Contended'
  <2> SUFFICES ASSUME NEW d \in CPU, InCall(d)'
               PROVE  /\ tries'[d] <= version'[ptr[d]] - since[d]
                      /\ pc'[d] = "spend" /\ tokens'[ptr[d]] # cur[d]
                            => tries'[d] + 1 <= version'[ptr[d]] - since[d]
    BY <1>s DEF Contended
  <2>1. InCall(d) /\ (d # c => pc'[d] = pc[d] /\ tries'[d] = tries[d])
    BY <1>e, <1>s DEF IInv, TypeOK, InCall
  <2>2. /\ ptr[d] \in Elem /\ tokens[ptr[d]] \in Nat /\ version[ptr[d]] \in Nat
        /\ since[d] \in Nat /\ tries[d] \in Nat /\ cur[d] \in Nat
    BY <2>1, Here DEF IInv, TypeOK
  <2>3. /\ tries[d] <= version[ptr[d]] - since[d]
        /\ pc[d] = "spend" /\ tokens[ptr[d]] # cur[d]
              => tries[d] + 1 <= version[ptr[d]] - since[d]
    BY <2>1 DEF IInv, Contended
  <2>4. CASE d = c
    BY <1>e, <1>s, <2>2, <2>3, <2>4 DEF IInv, TypeOK, InCall
  <2>5. CASE d # c
    BY <1>e, <1>s, <2>1, <2>2, <2>3, <2>5 DEF IInv, TypeOK
  <2> QED
    BY <2>4, <2>5
<1> QED
  BY <1>1, <1>2, <1>3, <1>4, <1>5 DEF IInv

\* Time and eviction leave the elements alone.
LEMMA BackgroundStep == ASSUME IInv, Tick \/ EvictBucket \/ UNCHANGED vars PROVE IInv'
<1> USE BucketConstants DEF shared, local, vars, Tick, EvictBucket
<1>0. map' \in 0 .. elems /\ clock' \in Nat
  BY DEF IInv, TypeOK
<1>1. TypeOK' /\ Ledger'
  BY <1>0 DEF IInv, TypeOK, Ledger, Elem
<1>2. Pointing' /\ Branches' /\ RefillOnce' /\ Contended'
  BY DEF IInv, Pointing, Branches, RefillOnce, Contended, InCall
<1> QED
  BY <1>1, <1>2 DEF IInv

----------------------------------------------------------------------------
(* The theorems *)

\* Every reachable state satisfies the inductive invariant.
THEOREM Invariance == Spec => []IInv
<1>1. Init => IInv
  BY BucketConstants DEF Init, IInv, TypeOK, Ledger, Pointing, Branches, RefillOnce,
     Contended, InCall, Elem
<1>2. IInv /\ [Next]_vars => IInv'
  <2> SUFFICES ASSUME IInv, [Next]_vars PROVE IInv'
    OBVIOUS
  <2>1. ASSUME NEW c \in CPU, Charge(c) PROVE IInv'
    BY <2>1, LookupStep, InsertStep, InsertFailedStep, ReadTsStep, CasTsStep, ReadRoomStep, AddStep,
       ReadCurStep, SpendStep DEF Charge
  <2> QED
    BY <2>1, BackgroundStep DEF Next
<1> QED
  BY <1>1, <1>2, PTL DEF Spec

\* tokens never underflows its unsigned type and every variable keeps its type.
THEOREM BucketTypes == Spec => []TypeOK
<1>1. IInv => TypeOK
  BY DEF IInv
<1> QED
  BY <1>1, Invariance, PTL

\* No charge and no refill is ever lost, on any number of CPUs.
THEOREM NothingLost == Spec => []Ledger
<1>1. IInv => Ledger
  BY DEF IInv
<1> QED
  BY <1>1, Invariance, PTL

\* No stretch of time is ever credited twice.
THEOREM CreditedOnce == Spec => []RefillOnce
<1>1. IInv => RefillOnce
  BY DEF IInv
<1> QED
  BY <1>1, Invariance, PTL

\* Failing open takes as many writes by other CPUs as there are attempts.
THEOREM OpenNeedsRivals == Spec => OpenOnlyContended
<1> DEFINE Rivals ==
        \A c \in CPU : Spend(c) /\ pc'[c] = "idle" /\ verdict'[c] = "open"
                          => version[ptr[c]] - since[c] >= Retries
<1>1. ASSUME IInv, NEW c \in CPU, Spend(c), pc'[c] = "idle", verdict'[c] = "open"
      PROVE  version[ptr[c]] - since[c] >= Retries
  <2>1. pc[c] = "spend" /\ InCall(c)
    BY <1>1 DEF Spend, InCall
  <2>2. tokens[ptr[c]] # cur[c] /\ tries[c] + 1 = Retries
    BY <1>1, <2>1 DEF IInv, TypeOK, Spend, LastTry, Return, Goto
  <2> QED
    BY <1>1, <2>1, <2>2, Here, BucketConstants DEF IInv, TypeOK, Contended
<1>2. IInv => Rivals
  BY <1>1
<1> HIDE DEF Rivals
<1>3. IInv /\ [Next]_vars => [Rivals]_vars
  BY <1>2
<1>4. Spec => [][Rivals]_vars
  BY <1>3, Invariance, PTL DEF Spec
<1> QED
  BY <1>4 DEF OpenOnlyContended, Rivals

----------------------------------------------------------------------------
(* The rate: what was credited, against the time it was credited for *)

\* No CPU and no element is ahead of the clock.
Clocked ==
    /\ \A c \in CPU : tnow[c] <= clock
    /\ \A e \in Elem : born[e] <= ts[e] /\ ts[e] <= clock

Refilling(c) == pc[c] \in {"readRoom", "add"}

\* An element was credited for instants of its life only, and for none of the stretch of
\* time a refiller is about to credit.
Covering ==
    /\ \A e \in Elem : \A t \in covered[e] : born[e] < t /\ t <= ts[e]
    /\ \A c \in CPU : Refilling(c) =>
          /\ born[ptr[c]] <= last[c]
          /\ \A t \in covered[ptr[c]] : t <= last[c] \/ tnow[c] < t

\* Beyond the burst nothing was credited but the rate, for the instants covered.
Earned ==
    \A e \in Elem : Interval * credited[e] <= Interval * Burst + Gain * Cardinality(covered[e])

RateInv == Clocked /\ Covering /\ Earned

\* The whole units of a quotient, multiplied back, are no more than what was divided.
LEMMA DivBack ==
    ASSUME NEW a \in Nat, NEW i \in Nat \ {0}
    PROVE  i * (a \div i) <= a /\ a \div i \in Nat
OBVIOUS

\* A whole number that fits a quotient when multiplied out fits it divided.
LEMMA DivBound ==
    ASSUME NEW x \in Int, NEW a \in Nat, NEW i \in Nat \ {0}, i * x <= a
    PROVE  x <= a \div i
<1>1. a = i * (a \div i) + (a % i) /\ a % i \in 0 .. i - 1 /\ a \div i \in Nat
  OBVIOUS
<1> DEFINE q == a \div i
<1>2. i * x < i * (q + 1)
  <2>1. q \in Nat /\ i * (q + 1) = i * q + i /\ i * q \in Nat /\ i * x \in Int
    BY <1>1
  <2> QED
    BY <1>1, <2>1
<1> HIDE DEF q
<1>3. q \in Nat
  BY <1>1 DEF q
<1>4. ASSUME x > q PROVE FALSE
  <2>1. PICK d \in Nat : x = q + 1 + d
    BY <1>3, <1>4
  <2>2. i * x = i * (q + 1) + i * d /\ i * d \in Nat
    BY <1>3, <2>1
  <2> QED
    BY <1>2, <1>3, <2>2
<1> QED
  BY <1>3, <1>4 DEF q

\* A stretch of time added to the instants covered before it or after it.
LEMMA Stretch ==
    ASSUME NEW S \in SUBSET Nat, IsFiniteSet(S), NEW a \in Nat, NEW b \in Nat, a < b,
           \A t \in S : t <= a \/ b < t
    PROVE  /\ IsFiniteSet(S \cup (a + 1 .. b))
           /\ Cardinality(S \cup (a + 1 .. b)) = Cardinality(S) + (b - a)
           /\ Cardinality(S) \in Nat
<1>1. IsFiniteSet(a + 1 .. b) /\ Cardinality(a + 1 .. b) = b - a
  <2>1. /\ IsFiniteSet(a + 1 .. b)
        /\ Cardinality(a + 1 .. b) = IF a + 1 > b THEN 0 ELSE b - (a + 1) + 1
    BY FS_Interval
  <2> QED
    BY <2>1
<1>2. S \cap (a + 1 .. b) = {}
  OBVIOUS
<1>3. Cardinality(S \cap (a + 1 .. b)) = 0
  BY <1>2, FS_EmptySet
<1>4. Cardinality(S) \in Nat
  BY FS_CardinalityType
<1>5. /\ IsFiniteSet(S \cup (a + 1 .. b))
      /\ Cardinality(S \cup (a + 1 .. b))
            = Cardinality(S) + Cardinality(a + 1 .. b) - Cardinality(S \cap (a + 1 .. b))
  BY <1>1, FS_Union
<1> QED
  BY <1>1, <1>3, <1>4, <1>5

\* The instants covered so far are finitely many, no more than the element is old.
LEMMA CoveredSize ==
    ASSUME IInv, RateInv, NEW e \in Elem
    PROVE  /\ IsFiniteSet(covered[e]) /\ Cardinality(covered[e]) \in Nat
           /\ Cardinality(covered[e]) <= clock - born[e]
           /\ clock - born[e] \in Nat
<1>1. born[e] \in Nat /\ ts[e] \in Nat /\ clock \in Nat /\ born[e] <= ts[e] /\ ts[e] <= clock
  BY DEF IInv, TypeOK, RateInv, Clocked
<1>2. covered[e] \subseteq born[e] + 1 .. clock
  BY <1>1 DEF IInv, TypeOK, RateInv, Covering
<1>3. IsFiniteSet(born[e] + 1 .. clock) /\ Cardinality(born[e] + 1 .. clock) = clock - born[e]
  <2> DEFINE b == born[e] + 1
  <2>1. b \in Int /\ clock \in Int
    BY <1>1
  <2>2. b = born[e] + 1
    OBVIOUS
  <2> HIDE DEF b
  <2>3. IsFiniteSet(b .. clock) /\ Cardinality(b .. clock) = IF b > clock THEN 0 ELSE clock - b + 1
    BY <2>1, FS_Interval
  <2> QED
    BY <1>1, <2>2, <2>3
<1>4. IsFiniteSet(covered[e]) /\ Cardinality(covered[e]) <= clock - born[e]
  BY <1>2, <1>3, FS_Subset
<1> QED
  BY <1>1, <1>4, FS_CardinalityType

\* A step that neither credits nor elects a refiller.
LEMMA RateFrame ==
    ASSUME IInv, RateInv, UNCHANGED <<ts, born, covered, credited>>,
           clock' \in Nat, clock <= clock', \A d \in CPU : tnow'[d] <= clock',
           \A d \in CPU : Refilling(d)' =>
              Refilling(d) /\ last'[d] = last[d] /\ tnow'[d] = tnow[d] /\ ptr'[d] = ptr[d]
    PROVE  RateInv'
<1>1. Clocked'
  <2>1. \A e \in Elem : ts[e] \in Nat /\ ts[e] <= clock /\ born[e] <= ts[e] /\ clock \in Nat
    BY DEF IInv, TypeOK, RateInv, Clocked
  <2>2. \A e \in Elem : ts[e] <= clock'
    BY <2>1
  <2> QED
    BY <2>1, <2>2 DEF Clocked
<1>2. Covering'
  BY DEF RateInv, Covering
<1>3. Earned'
  BY DEF RateInv, Earned
<1> QED
  BY <1>1, <1>2, <1>3 DEF RateInv

\* The steps that leave the elements' time and credit alone.
LEMMA RateOthers ==
    ASSUME IInv, RateInv, NEW c \in CPU,
           Lookup(c) \/ InsertFailed(c) \/ ReadTs(c) \/ ReadRoom(c) \/ ReadCur(c) \/ Spend(c)
    PROVE  RateInv'
<1> USE DEF shared
<1>1. UNCHANGED <<ts, born, covered, credited, clock>>
  BY DEF Lookup, InsertFailed, ReadTs, ReadRoom, ReadCur, Spend
<1>2. \A d \in CPU : tnow[d] \in Nat /\ tnow[d] <= clock /\ clock \in Nat
  BY DEF IInv, TypeOK, RateInv, Clocked
<1>t. tnow \in [CPU -> Nat] /\ last \in [CPU -> Nat] /\ ptr \in [CPU -> 0 .. elems]
      /\ pc \in [CPU -> {"idle", "insert", "readTs", "casTs", "readRoom", "add", "readCur", "spend"}]
  BY DEF IInv, TypeOK
<1>3. \A d \in CPU : tnow'[d] \in {tnow[d], clock}
  BY <1>t DEF Lookup, InsertFailed, ReadTs, ReadRoom, ReadCur, Spend
<1>4. \A d \in CPU : Refilling(d)' =>
         Refilling(d) /\ last'[d] = last[d] /\ tnow'[d] = tnow[d] /\ ptr'[d] = ptr[d]
  <2>1. \A d \in CPU : d # c => /\ pc'[d] = pc[d] /\ last'[d] = last[d] /\ tnow'[d] = tnow[d]
                                /\ ptr'[d] = ptr[d]
    BY <1>t DEF Lookup, InsertFailed, ReadTs, ReadRoom, ReadCur, Spend, Goto, Return
  <2>2. CASE ReadRoom(c)
    BY <1>t, <2>1, <2>2 DEF ReadRoom, Goto, Refilling
  <2>3. CASE Lookup(c) \/ InsertFailed(c) \/ ReadTs(c) \/ ReadCur(c) \/ Spend(c)
    <3>1. pc'[c] \in {"insert", "readTs", "idle", "casTs", "readCur", "spend"}
      BY <1>t, <2>3 DEF Lookup, InsertFailed, ReadTs, ReadCur, Spend, Goto, Return
    <3> QED
      BY <2>1, <3>1 DEF Refilling
  <2> QED
    BY <2>2, <2>3
<1>5. clock' \in Nat /\ clock <= clock' /\ \A d \in CPU : tnow'[d] <= clock'
  BY <1>1, <1>2, <1>3 DEF IInv, TypeOK
<1> QED
  BY <1>1, <1>4, <1>5, RateFrame

\* A fresh element starts with one burst and nothing covered.
LEMMA RateInsert ==
    ASSUME IInv, RateInv, NEW c \in CPU, Insert(c)
    PROVE  RateInv'
<1> DEFINE e == elems + 1
<1>1. /\ ts' = [ts EXCEPT ![e] = tnow[c]] /\ credited' = [credited EXCEPT ![e] = Burst]
      /\ covered' = [covered EXCEPT ![e] = {}] /\ born' = [born EXCEPT ![e] = tnow[c]]
      /\ pc[c] = "insert" /\ pc' = [pc EXCEPT ![c] = "idle"]
      /\ UNCHANGED <<clock, ptr, tnow, last>>
  BY DEF Insert, Return
<1>2. /\ ts \in [Elem -> Nat] /\ born \in [Elem -> Nat] /\ credited \in [Elem -> Nat]
      /\ covered \in [Elem -> SUBSET Nat] /\ tnow \in [CPU -> Nat] /\ elems \in Nat
      /\ pc \in [CPU -> {"idle", "insert", "readTs", "casTs", "readRoom", "add", "readCur", "spend"}]
  BY DEF IInv, TypeOK
<1>3. \A d \in CPU : Refilling(d)' => Refilling(d) /\ ptr[d] # e /\ ptr[d] \in Elem
  <2>1. \A d \in CPU : Refilling(d)' => Refilling(d) /\ InCall(d)
    BY <1>1, <1>2 DEF Refilling, InCall
  <2> QED
    BY <1>2, <2>1, Here
<1> HIDE DEF e
<1>4. Clocked'
  BY <1>1, <1>2 DEF RateInv, Clocked
<1>5. Covering'
  BY <1>1, <1>2, <1>3 DEF RateInv, Covering
<1>6. Earned'
  <2> SUFFICES ASSUME NEW f \in Elem
               PROVE  Interval * credited'[f] <= Interval * Burst + Gain * Cardinality(covered'[f])
    BY DEF Earned
  <2>1. CASE f # e
    BY <1>1, <1>2, <2>1 DEF RateInv, Earned
  <2>2. CASE f = e
    <3>1. credited'[f] = Burst /\ covered'[f] = {}
      BY <1>1, <1>2, <2>2
    <3>2. Gain * Cardinality({}) = 0 /\ Interval * Burst \in Nat
      BY FS_EmptySet, BucketConstants
    <3> QED
      BY <3>1, <3>2
  <2> QED
    BY <2>1, <2>2
<1> QED
  BY <1>4, <1>5, <1>6 DEF RateInv
\* The winner of the compare-and-swap on ts_ns is to credit the time since the last one:
\* none of it is covered, for the element was covered up to its old ts_ns at most.
LEMMA RateCasTs ==
    ASSUME IInv, RateInv, NEW c \in CPU, CasTs(c)
    PROVE  RateInv'
<1>1. /\ pc[c] = "casTs"
      /\ \/ /\ ts[ptr[c]] = last[c] /\ ts' = [ts EXCEPT ![ptr[c]] = tnow[c]]
            /\ pc' = [pc EXCEPT ![c] = "readRoom"]
         \/ ts' = ts /\ pc' = [pc EXCEPT ![c] = "readCur"]
      /\ UNCHANGED <<clock, born, covered, credited, ptr, tnow, last>>
  BY DEF CasTs, Goto
<1>2. /\ ts \in [Elem -> Nat] /\ born \in [Elem -> Nat] /\ covered \in [Elem -> SUBSET Nat]
      /\ tnow \in [CPU -> Nat] /\ last \in [CPU -> Nat] /\ clock \in Nat
      /\ pc \in [CPU -> {"idle", "insert", "readTs", "casTs", "readRoom", "add", "readCur", "spend"}]
  BY DEF IInv, TypeOK
<1>3. InCall(c) /\ ptr[c] \in Elem /\ last[c] < tnow[c]
  BY <1>1, Here DEF InCall, IInv, Branches
<1>4. CASE ts' = ts /\ pc' = [pc EXCEPT ![c] = "readCur"]
  <2>1. \A d \in CPU : Refilling(d)' => Refilling(d)
    BY <1>2, <1>4 DEF Refilling
  <2>2. clock' \in Nat /\ clock <= clock' /\ \A d \in CPU : tnow'[d] <= clock'
    BY <1>1, <1>2 DEF RateInv, Clocked
  <2> QED
    BY <1>1, <1>4, <2>1, <2>2, RateFrame
<1>5. CASE /\ ts[ptr[c]] = last[c] /\ ts' = [ts EXCEPT ![ptr[c]] = tnow[c]]
           /\ pc' = [pc EXCEPT ![c] = "readRoom"]
  <2>1. /\ ts'[ptr[c]] = tnow[c] /\ born[ptr[c]] <= last[c]
        /\ \A e \in Elem : e # ptr[c] => ts'[e] = ts[e]
    BY <1>2, <1>3, <1>5 DEF RateInv, Clocked
  <2>2. \A t \in covered[ptr[c]] : t \in Nat /\ born[ptr[c]] < t /\ t <= last[c]
    BY <1>2, <1>3, <1>5 DEF RateInv, Covering
  <2>3. Clocked'
    <3>1. \A e \in Elem : born[e] <= ts'[e] /\ ts'[e] <= clock
      BY <1>2, <1>3, <2>1 DEF RateInv, Clocked
    <3> QED
      BY <1>1, <3>1 DEF RateInv, Clocked
  <2>4. \A e \in Elem : \A t \in covered[e] : born[e] < t /\ t <= ts'[e]
    <3>1. \A t \in covered[ptr[c]] : born[ptr[c]] < t /\ t <= ts'[ptr[c]]
      BY <1>2, <1>3, <2>1, <2>2
    <3> QED
      BY <2>1, <3>1 DEF RateInv, Covering
  <2>5. ASSUME NEW d \in CPU, Refilling(d)'
        PROVE  /\ born[ptr[d]] <= last[d]
               /\ \A t \in covered[ptr[d]] : t <= last[d] \/ tnow[d] < t
    <3>1. CASE d = c
      BY <2>1, <2>2, <3>1
    <3>2. CASE d # c
      <4>1. Refilling(d)
        BY <1>2, <1>5, <2>5, <3>2 DEF Refilling
      <4> QED
        BY <4>1 DEF RateInv, Covering
    <3> QED
      BY <3>1, <3>2
  <2>6. Covering'
    BY <1>1, <2>4, <2>5 DEF Covering
  <2>7. Earned'
    BY <1>1 DEF RateInv, Earned
  <2> QED
    BY <2>3, <2>6, <2>7 DEF RateInv
<1> QED
  BY <1>1, <1>4, <1>5

\* What a refiller adds is at most the rate times its stretch of time, and every other
\* refiller of the element has a stretch of its own.
LEMMA RateAdd ==
    ASSUME IInv, RateInv, NEW c \in CPU, Add(c)
    PROVE  RateInv'
<1> DEFINE room == Burst - cur[c]
           add  == IF Credit(c) > room THEN room ELSE Credit(c)
           p    == ptr[c]
           new  == last[c] + 1 .. tnow[c]
<1>1. /\ pc[c] = "add"
      /\ credited' = [credited EXCEPT ![p] = @ + add]
      /\ covered' = [covered EXCEPT ![p] = @ \cup new]
      /\ pc' = [pc EXCEPT ![c] = "readCur"]
      /\ UNCHANGED <<clock, ts, born, ptr, tnow, last>>
  BY DEF Add, Goto
<1>2. /\ ts \in [Elem -> Nat] /\ born \in [Elem -> Nat] /\ covered \in [Elem -> SUBSET Nat]
      /\ credited \in [Elem -> Nat] /\ tnow \in [CPU -> Nat] /\ last \in [CPU -> Nat]
      /\ clock \in Nat /\ cur \in [CPU -> Nat]
      /\ pc \in [CPU -> {"idle", "insert", "readTs", "casTs", "readRoom", "add", "readCur", "spend"}]
  BY DEF IInv, TypeOK
<1>3. /\ InCall(c) /\ p \in Elem /\ Refilling(c)
      /\ last[c] < tnow[c] /\ tnow[c] <= ts[p] /\ cur[c] < Burst
  BY <1>1, Here DEF InCall, IInv, Branches, Refilling
<1>4. /\ born[p] <= last[c]
      /\ \A t \in covered[p] : t <= last[c] \/ tnow[c] < t
  BY <1>3 DEF RateInv, Covering
<1>5. add \in Nat /\ Interval * add <= Gain * (tnow[c] - last[c])
  <2>1. /\ tnow[c] - last[c] \in Nat /\ room \in Nat /\ Gain \in Nat
        /\ Interval \in Nat \ {0}
    BY <1>2, <1>3, BucketConstants
  <2>2. /\ Interval * Credit(c) <= (tnow[c] - last[c]) * Gain
        /\ Credit(c) \in Nat
    <3>1. (tnow[c] - last[c]) * Gain \in Nat
      BY <2>1
    <3> QED
      BY <2>1, <3>1, DivBack DEF Credit
  <2>3. (tnow[c] - last[c]) * Gain = Gain * (tnow[c] - last[c])
    BY <2>1
  <2> HIDE DEF room
  <2>4. add \in Nat /\ add <= Credit(c)
    BY <2>1, <2>2
  <2> HIDE DEF add
  <2> DEFINE d == Credit(c) - add
  <2>5. d \in Nat /\ Credit(c) = add + d
    BY <2>2, <2>4
  <2> HIDE DEF d
  <2>6. Interval * Credit(c) = Interval * add + Interval * d /\ Interval * d \in Nat
    BY <2>1, <2>4, <2>5
  <2>7. Interval * add \in Nat /\ Gain * (tnow[c] - last[c]) \in Nat
    BY <2>1, <2>4
  <2> QED
    BY <2>2, <2>3, <2>4, <2>6, <2>7
<1> HIDE DEF add, room
<1>6. /\ covered'[p] = covered[p] \cup new /\ credited'[p] = credited[p] + add
      /\ \A e \in Elem : e # p => covered'[e] = covered[e] /\ credited'[e] = credited[e]
  BY <1>1, <1>2, <1>3
<1>7. \A t \in new : t \in Nat /\ last[c] < t /\ t <= tnow[c]
  BY <1>2
<1>8. Clocked'
  BY <1>1 DEF RateInv, Clocked
<1>9. Covering'
  <2>1. \A e \in Elem : \A t \in covered'[e] : born[e] < t /\ t <= ts[e]
    <3>1. \A t \in new : born[p] < t /\ t <= ts[p]
      BY <1>2, <1>3, <1>4, <1>7
    <3> HIDE DEF new, p
    <3> QED
      BY <1>6, <3>1 DEF RateInv, Covering
  <2>2. ASSUME NEW d \in CPU, Refilling(d)'
        PROVE  /\ born[ptr[d]] <= last[d]
               /\ \A t \in covered'[ptr[d]] : t <= last[d] \/ tnow[d] < t
    <3>1. d # c /\ Refilling(d)
      BY <1>1, <1>2, <2>2 DEF Refilling
    <3>2. /\ born[ptr[d]] <= last[d]
          /\ \A t \in covered[ptr[d]] : t <= last[d] \/ tnow[d] < t
      BY <3>1 DEF RateInv, Covering
    <3>3. ptr[d] \in Elem
      BY <3>1, Here DEF Refilling, InCall
    <3>4. CASE ptr[d] # p
      BY <1>6, <3>2, <3>3, <3>4
    <3>5. CASE ptr[d] = p
      <4>1. tnow[c] <= last[d] \/ tnow[d] <= last[c]
        BY <1>3, <3>1, <3>5 DEF IInv, RefillOnce, Refilling
      <4>2. \A t \in new : t <= last[d] \/ tnow[d] < t
        BY <1>2, <1>7, <4>1
      <4> HIDE DEF new, p
      <4> QED
        BY <1>6, <3>2, <3>5, <4>2
    <3> QED
      BY <3>4, <3>5
  <2> HIDE DEF new, p
  <2> QED
    BY <1>1, <2>1, <2>2 DEF Covering
<1>10. Earned'
  <2>1. /\ Cardinality(covered[p]) \in Nat
        /\ Cardinality(covered'[p]) = Cardinality(covered[p]) + (tnow[c] - last[c])
    <3>1. IsFiniteSet(covered[p]) /\ covered[p] \in SUBSET Nat
      BY <1>2, <1>3, CoveredSize
    <3>2. last[c] \in Nat /\ tnow[c] \in Nat
      BY <1>2
    <3>3. /\ Cardinality(covered[p] \cup new) = Cardinality(covered[p]) + (tnow[c] - last[c])
          /\ Cardinality(covered[p]) \in Nat
      BY <1>3, <1>4, <3>1, <3>2, Stretch
    <3> QED
      BY <1>6, <3>3
  <2>2. Interval * credited[p] <= Interval * Burst + Gain * Cardinality(covered[p])
    BY <1>3 DEF RateInv, Earned
  <2>3. Interval * credited'[p] <= Interval * Burst + Gain * Cardinality(covered'[p])
    <3> DEFINE n == Cardinality(covered[p])
               k == tnow[c] - last[c]
               x == credited[p]
    <3>1. /\ Interval \in Nat /\ Gain \in Nat /\ Burst \in Nat /\ x \in Nat
          /\ n \in Nat /\ k \in Nat
      BY <1>2, <1>3, <2>1, BucketConstants
    <3>2. /\ Cardinality(covered'[p]) = n + k /\ credited'[p] = x + add
          /\ Interval * add <= Gain * k /\ Interval * x <= Interval * Burst + Gain * n
      BY <1>5, <1>6, <2>1, <2>2
    <3> HIDE DEF n, k, x
    <3>3. /\ Interval * (x + add) = Interval * x + Interval * add
          /\ Gain * (n + k) = Gain * n + Gain * k
          /\ Interval * x \in Nat /\ Interval * add \in Nat /\ Gain * n \in Nat
          /\ Gain * k \in Nat /\ Interval * Burst \in Nat
      BY <1>5, <3>1
    <3>4. Interval * (x + add) <= Interval * Burst + Gain * (n + k)
      BY <3>2, <3>3
    <3> QED
      BY <3>2, <3>4
  <2> HIDE DEF new, p
  <2> QED
    BY <1>6, <2>3 DEF RateInv, Earned
<1> QED
  BY <1>8, <1>9, <1>10 DEF RateInv

\* Time moves on and an eviction only drops the key's element from the map.
LEMMA RateBackground ==
    ASSUME IInv, RateInv, Tick \/ EvictBucket \/ UNCHANGED vars
    PROVE  RateInv'
<1>1. /\ UNCHANGED <<ts, born, covered, credited, pc, ptr, tnow, last>>
      /\ clock' = clock \/ clock' = clock + 1
  BY DEF Tick, EvictBucket, vars, shared, local
<1>2. \A d \in CPU : tnow[d] \in Nat /\ tnow[d] <= clock
  BY DEF IInv, TypeOK, RateInv, Clocked
<1>3. clock \in Nat
  BY DEF IInv, TypeOK
<1>4. clock' \in Nat /\ clock <= clock' /\ \A d \in CPU : tnow'[d] <= clock'
  BY <1>1, <1>2, <1>3
<1>5. \A d \in CPU : Refilling(d)' => Refilling(d)
  BY <1>1 DEF Refilling
<1> QED
  BY <1>1, <1>4, <1>5, RateFrame

\* The elements are credited for disjoint stretches of their own life, at the rate.
THEOREM RateInvariant == Spec => [](IInv /\ RateInv)
<1>1. Init => RateInv
  <2> SUFFICES ASSUME Init PROVE RateInv
    OBVIOUS
  <2>1. Clocked /\ Covering
    BY DEF Init, Clocked, Covering, Refilling
  <2>2. ASSUME NEW e \in Elem
        PROVE  Interval * credited[e] <= Interval * Burst + Gain * Cardinality(covered[e])
    <3>1. credited[e] = 0 /\ covered[e] = {}
      BY DEF Init
    <3>2. Gain * Cardinality({}) = 0 /\ Interval * Burst \in Nat /\ Interval * 0 = 0
      BY FS_EmptySet, BucketConstants
    <3> QED
      BY <3>1, <3>2
  <2> QED
    BY <2>1, <2>2 DEF RateInv, Earned
<1>2. IInv /\ RateInv /\ [Next]_vars => RateInv'
  <2> SUFFICES ASSUME IInv, RateInv, [Next]_vars PROVE RateInv'
    OBVIOUS
  <2>1. ASSUME NEW c \in CPU, Charge(c) PROVE RateInv'
    BY <2>1, RateOthers, RateInsert, RateCasTs, RateAdd DEF Charge
  <2> QED
    BY <2>1, RateBackground DEF Next
<1> QED
  BY <1>1, <1>2, Invariance, PTL DEF Spec

\* "The limit can't leak by a factor of the core count": for any number of CPUs, any rate
\* and any interleaving, an element has paid for no more than one burst and the rate times
\* its age.
THEOREM RateIsBounded == Spec => []RateBound
<1>1. ASSUME IInv, RateInv, NEW e \in Elem
      PROVE  Cost * paid[e] <= Burst + (Gain * (clock - born[e])) \div Interval
  <2> DEFINE n == Cardinality(covered[e])
             a == clock - born[e]
             x == credited[e] - Burst
             s == Cost * paid[e]
  <2>1. n \in Nat /\ a \in Nat /\ n <= a
    BY <1>1, CoveredSize
  <2>2. credited[e] \in Nat /\ tokens[e] \in Nat /\ paid[e] \in Nat
    BY <1>1 DEF IInv, TypeOK
  <2>3. s \in Nat /\ s <= credited[e]
    <3>1. s \in Nat
      BY <2>2, BucketConstants
    <3>2. tokens[e] = credited[e] - s
      BY <1>1 DEF IInv, Ledger
    <3> HIDE DEF s
    <3> QED
      BY <2>2, <3>1, <3>2
  <2>4. Interval * credited[e] <= Interval * Burst + Gain * n
    BY <1>1 DEF RateInv, Earned
  <2> HIDE DEF n, a, s
  <2>5. Gain \in Nat /\ Burst \in Nat /\ Interval \in Nat \ {0}
    BY BucketConstants
  <2>6. Gain * n <= Gain * a /\ Gain * a \in Nat /\ Gain * n \in Nat
    <3>1. PICK d \in Nat : a = n + d
      BY <2>1
    <3>2. Gain * a = Gain * n + Gain * d /\ Gain * d \in Nat /\ Gain * n \in Nat
      BY <2>1, <2>5, <3>1
    <3> QED
      BY <3>2
  <2>7. Interval * x <= Gain * a /\ x \in Int
    <3>1. /\ Interval * x = Interval * credited[e] - Interval * Burst
          /\ Interval * credited[e] \in Nat /\ Interval * Burst \in Nat /\ x \in Int
      BY <2>2, <2>5
    <3> HIDE DEF x
    <3> QED
      BY <2>4, <2>6, <3>1
  <2>8. x <= (Gain * a) \div Interval
    BY <2>5, <2>6, <2>7, DivBound
  <2>9. (Gain * a) \div Interval \in Nat
    BY <2>5, <2>6, DivBack
  <2>10. s <= Burst + (Gain * a) \div Interval
    BY <2>2, <2>3, <2>5, <2>8, <2>9
  <2> QED
    BY <2>10 DEF s, a
<1>2. IInv /\ RateInv => RateBound
  BY <1>1 DEF RateBound
<1> QED
  BY <1>2, RateInvariant, PTL
=============================================================================
