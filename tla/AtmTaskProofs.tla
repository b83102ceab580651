---------------------------- MODULE AtmTaskProofs ----------------------------
(***************************************************************************)
(* Proofs about the pool of workers, for every set of tasks, every number  *)
(* of workers and whatever the monitor reads of a thread's descriptor.     *)
(***************************************************************************)
EXTENDS AtmTask, FiniteSetTheorems, TLAPS

(* The array of the pool: worker i + 1 is in slot i, the slots after the   *)
(* length hold statuses, and there is room (see AtmDataProofs).            *)
PoolShape(a) ==
    /\ a \in [vals : [0 .. a.capacity - 1 -> Nat], capacity : Nat, length : Nat]
    /\ a.capacity >= InitialLen
    /\ a.length >= 1 => ((a.length - 1) * 3) \div 2 + 1 <= a.capacity
    /\ \A i \in 0 .. a.length - 1 : i + 1 \in Workers /\ a.vals[i] = Ptr(i + 1)
    /\ \A i \in a.length .. a.capacity - 1 : a.vals[i] \in {ACTIVE, PASSIVE}

LEMMA Half ==
  ASSUME NEW n \in Nat
  PROVE  n \div 2 \in Nat /\ 2 * (n \div 2) <= n /\ 2 * (n \div 2) >= n - 1
  OBVIOUS

(* A slot's status word, two slots further, is in the array.               *)
LEMMA TwoMore ==
  ASSUME NEW a, PoolShape(a)
  PROVE  a.length + 2 <= a.capacity
<1>1. a.capacity \in Nat /\ a.length \in Nat /\ InitialLen \in Nat /\ InitialLen >= 6 /\ a.capacity >= InitialLen
  BY TaskAssumption DEF PoolShape
<1>2. CASE a.length <= 4
  BY <1>1, <1>2
<1>3. CASE a.length >= 5
  <2> DEFINE n == (a.length - 1) * 3
  <2>1. n \in Nat /\ 2 * (n \div 2) >= n - 1 /\ n \div 2 \in Nat /\ n = 3 * a.length - 3
    <3>1. n \in Nat /\ n = 3 * a.length - 3
      BY <1>1, <1>3
    <3> HIDE DEF n
    <3>2. QED
      BY <3>1, Half
  <2>2. n \div 2 + 1 <= a.capacity
    BY <1>1, <1>3 DEF PoolShape
  <2> HIDE DEF n
  <2>3. QED
    BY <1>1, <1>3, <2>1, <2>2
<1>4. QED
  BY <1>1, <1>2, <1>3

LEMMA PtrIsWord ==
  ASSUME NEW w \in Workers
  PROVE  Ptr(w) \in Nat /\ WorkerAt(Ptr(w)) = w /\ Ptr(w) \notin {ACTIVE, PASSIVE, RETIRED}
<1>1. MaxWorkers \in Nat
  BY TaskAssumption
<1>2. w \in Nat /\ w >= 1
  BY <1>1 DEF Workers
<1>3. QED
  BY <1>2 DEF Ptr, WorkerAt, ACTIVE, PASSIVE, RETIRED

(* atm_arr_add of the next worker keeps the shape.                         *)
LEMMA AddShape ==
  ASSUME NEW a, PoolShape(a), NEW w \in Workers, w = a.length + 1
  PROVE  PoolShape(A!ArrAdd(a, Ptr(w))) /\ A!ArrAdd(a, Ptr(w)).length = a.length + 1
<1> DEFINE cap == IF A!MustGrow(a) THEN 2 * a.capacity ELSE a.capacity
           old == IF A!MustGrow(a)
                  THEN [i \in 0 .. 2 * a.capacity - 1 |-> IF i < a.capacity THEN a.vals[i] ELSE 0]
                  ELSE a.vals
           c == [vals |-> [old EXCEPT ![a.length] = Ptr(w)], capacity |-> cap, length |-> a.length + 1]
<1>1. /\ a \in [vals : [0 .. a.capacity - 1 -> Nat], capacity : Nat, length : Nat]
      /\ a.vals \in [0 .. a.capacity - 1 -> Nat] /\ a.capacity \in Nat /\ a.length \in Nat
      /\ a.capacity >= InitialLen /\ InitialLen \in Nat /\ InitialLen >= 6
      /\ a.length + 2 <= a.capacity
  BY TaskAssumption, TwoMore DEF PoolShape
<1>2. A!ArrAdd(a, Ptr(w)) = c
  <2>1. CASE A!MustGrow(a)
    <3>1. A!Doubled(a) = [vals |-> old, capacity |-> cap, length |-> a.length]
      BY <2>1 DEF A!Doubled, A!Slots
    <3>2. A!Doubled(a).vals = old /\ A!Doubled(a).capacity = cap /\ A!Doubled(a).length = a.length
      BY <3>1
    <3> HIDE DEF old, cap
    <3>3. QED
      BY <2>1, <3>2 DEF A!ArrAdd
  <2>2. CASE ~ A!MustGrow(a)
    <3>1. old = a.vals /\ cap = a.capacity
      BY <2>2
    <3> HIDE DEF old, cap
    <3>2. QED
      BY <2>2, <3>1 DEF A!ArrAdd
  <2>3. QED
    BY <2>1, <2>2
<1>3. /\ cap \in Nat /\ cap >= a.capacity
      /\ old \in [0 .. cap - 1 -> Nat]
      /\ \A i \in 0 .. cap - 1 : old[i] = IF i < a.capacity THEN a.vals[i] ELSE 0
  <2>1. CASE A!MustGrow(a)
    <3>1. cap = 2 * a.capacity
          /\ old = [i \in 0 .. 2 * a.capacity - 1 |-> IF i < a.capacity THEN a.vals[i] ELSE 0]
      BY <2>1
    <3> HIDE DEF old, cap
    <3>2. QED
      BY <1>1, <3>1
  <2>2. CASE ~ A!MustGrow(a)
    <3>1. old = a.vals /\ cap = a.capacity
      BY <2>2
    <3> HIDE DEF old, cap
    <3>2. QED
      BY <1>1, <3>1
  <2>3. QED
    BY <2>1, <2>2
<1>4. (a.length * 3) \div 2 + 1 <= cap
  <2> DEFINE n == a.length * 3
  <2>1. n \in Nat /\ 2 * (n \div 2) <= n /\ n \div 2 \in Nat /\ n = 3 * a.length
    <3>1. n \in Nat /\ n = 3 * a.length
      BY <1>1
    <3> HIDE DEF n
    <3>2. QED
      BY <3>1, Half
  <2>2. CASE A!MustGrow(a)
    <3>1. cap = 2 * a.capacity
      BY <2>2
    <3> DEFINE m == n \div 2
    <3>2. m \in Nat /\ 2 * m <= 3 * a.length
      BY <2>1
    <3> HIDE DEF m, cap
    <3>3. m + 1 <= cap
      BY <1>1, <3>1, <3>2
    <3>4. QED
      BY <3>3 DEF m
  <2>3. CASE ~ A!MustGrow(a)
    <3>1. cap = a.capacity /\ ~ (n \div 2 + 1 > a.capacity)
      BY <2>3 DEF A!MustGrow
    <3> HIDE DEF n, cap
    <3>2. n \div 2 + 1 <= cap
      BY <1>1, <2>1, <3>1, SMTT(30)
    <3>3. QED
      BY <3>2 DEF n
  <2>4. QED
    BY <2>2, <2>3
<1> HIDE DEF cap, old
<1>5. /\ c.vals = [old EXCEPT ![a.length] = Ptr(w)] /\ c.capacity = cap /\ c.length = a.length + 1
      /\ Ptr(w) \in Nat
  <2>1. Ptr(w) \in Nat
    BY PtrIsWord
  <2> DEFINE vs == [old EXCEPT ![a.length] = Ptr(w)]
             len == a.length + 1
  <2>2. c = [vals |-> vs, capacity |-> cap, length |-> len]
    OBVIOUS
  <2> HIDE DEF vs, len, c
  <2>3. c.vals = vs /\ c.capacity = cap /\ c.length = len
    BY <2>2
  <2>4. QED
    BY <2>1, <2>3 DEF vs, len
<1>6. c.vals \in [0 .. cap - 1 -> Nat]
  BY <1>3, <1>5
<1>7. c \in [vals : [0 .. c.capacity - 1 -> Nat], capacity : Nat, length : Nat]
  BY <1>1, <1>3, <1>5, <1>6, SMTT(30)
<1>8. \A i \in 0 .. cap - 1 : c.vals[i] = IF i = a.length THEN Ptr(w)
                                          ELSE IF i < a.capacity THEN a.vals[i] ELSE 0
  BY <1>1, <1>3, <1>5
<1> HIDE DEF c
<1>9. \A i \in 0 .. c.length - 1 : i + 1 \in Workers /\ c.vals[i] = Ptr(i + 1)
  <2> SUFFICES ASSUME NEW i \in 0 .. a.length
      PROVE  i + 1 \in Workers /\ c.vals[i] = Ptr(i + 1)
    BY <1>1, <1>5
  <2>1. i \in 0 .. cap - 1 /\ i < a.capacity
    BY <1>1, <1>3, SMTT(30)
  <2>2. CASE i = a.length
    BY <1>8, <2>1, <2>2
  <2>3. CASE i < a.length
    <3>1. i \in 0 .. a.length - 1 /\ i # a.length
      BY <1>1, <2>3
    <3>2. i + 1 \in Workers /\ a.vals[i] = Ptr(i + 1)
      BY <3>1 DEF PoolShape
    <3>3. QED
      BY <1>8, <2>1, <3>1, <3>2
  <2>4. QED
    BY <1>1, <2>2, <2>3
<1>10. \A i \in c.length .. c.capacity - 1 : c.vals[i] \in {ACTIVE, PASSIVE}
  <2> SUFFICES ASSUME NEW i \in a.length + 1 .. cap - 1
      PROVE  c.vals[i] \in {ACTIVE, PASSIVE}
    BY <1>5
  <2>1. i \in 0 .. cap - 1 /\ i # a.length
    BY <1>1, <1>3, SMTT(30)
  <2>2. CASE i < a.capacity
    <3>1. i \in a.length .. a.capacity - 1
      BY <1>1, <1>3, <2>2, SMTT(30)
    <3>2. a.vals[i] \in {ACTIVE, PASSIVE}
      BY <3>1 DEF PoolShape
    <3>3. QED
      BY <1>8, <2>1, <2>2, <3>2
  <2>3. CASE ~ (i < a.capacity)
    BY <1>8, <2>1, <2>3 DEF ACTIVE
  <2>4. QED
    BY <2>2, <2>3
<1>11. c.capacity >= InitialLen /\ ((c.length - 1) * 3) \div 2 + 1 <= c.capacity
  <2>1. c.length - 1 = a.length
    BY <1>1, <1>5
  <2>2. QED
    BY <1>1, <1>3, <1>4, <1>5, <2>1
<1>12. PoolShape(c)
  BY <1>7, <1>9, <1>10, <1>11 DEF PoolShape
<1>13. QED
  BY <1>2, <1>5, <1>12

-----------------------------------------------------------------------------
(* The inductive invariant.  A status is ACTIVE because the only word that *)
(* could be marked otherwise is a pointer's, and pointers are not ACTIVE.  *)
WorkerOK ==
    /\ wk \in [Workers -> [status : {ACTIVE}, tid : BOOLEAN, queue : Seq(Task),
                           popping : BOOLEAN, hurt : BOOLEAN, passed : Nat,
                           job : Task \cup {NoTask}]]
    /\ \A w \in Workers : wk[w].passed <= Len(wk[w].queue)
    /\ \A w \in Workers : wk[w].popping => wk[w].job = NoTask

RestOK ==
    /\ round \in Nat
    /\ box \in Seq(Task)
    /\ done \in [Task -> Workers \cup {NoWorker}]
    /\ pc \in {"start", "events", "callback"}
    /\ tries \in 0 .. NWorkers
    /\ loops \in 0 .. Period - 1
    /\ first \in 0 .. NWorkers
    /\ monitored \in BOOLEAN /\ down \in BOOLEAN
    /\ pc = "start" => workers.length <= tries

PoolInv == PoolShape(workers) /\ WorkerOK /\ RestOK

LEMMA PoolInvInit == Init => PoolInv
<1> SUFFICES ASSUME Init PROVE PoolInv
  OBVIOUS
<1>1. InitialLen \in Nat /\ InitialLen >= 6 /\ NWorkers \in Nat /\ Period \in Nat \ {0}
  BY TaskAssumption
<1>2. PoolShape(workers)
  <2> DEFINE zeros == [i \in 0 .. InitialLen - 1 |-> 0]
  <2>1. workers = [vals |-> zeros, capacity |-> InitialLen, length |-> 0]
    BY DEF Init, A!ArrNew, A!Slots
  <2>2. zeros \in [0 .. InitialLen - 1 -> Nat] /\ \A i \in 0 .. InitialLen - 1 : zeros[i] = 0
    OBVIOUS
  <2> HIDE DEF zeros
  <2>3. workers.vals = zeros /\ workers.capacity = InitialLen /\ workers.length = 0
    BY <2>1
  <2>4. workers \in [vals : [0 .. workers.capacity - 1 -> Nat], capacity : Nat, length : Nat]
    BY <1>1, <2>1, <2>2, <2>3
  <2>5. QED
    BY <1>1, <2>2, <2>3, <2>4 DEF PoolShape, ACTIVE
<1>3. WorkerOK
  <2>1. Len(<< >>) = 0 /\ << >> \in Seq(Task)
    OBVIOUS
  <2>2. QED
    BY <2>1 DEF Init, NewWorker, WorkerOK
<1>4. RestOK
  <2>1. workers.length = 0
    BY DEF Init, A!ArrNew
  <2>2. /\ round = 0 /\ box = <<>> /\ pc = "start" /\ monitored = FALSE /\ down = FALSE
        /\ done = [t \in Task |-> NoWorker]
    BY DEF Init
  <2>3. tries = 0 /\ loops = 0 /\ first = 0
    BY DEF Init
  <2>4. done \in [Task -> Workers \cup {NoWorker}]
    BY <2>2
  <2>5. tries \in 0 .. NWorkers /\ loops \in 0 .. Period - 1 /\ first \in 0 .. NWorkers
    BY <1>1, <2>3
  <2>6. round \in Nat /\ box \in Seq(Task) /\ workers.length <= tries
    BY <2>1, <2>2, <2>3
  <2>7. monitored \in BOOLEAN /\ down \in BOOLEAN /\ pc \in {"start", "events", "callback"}
    BY <2>2
  <2>8. QED
    BY <2>4, <2>5, <2>6, <2>7 DEF RestOK
<1>5. QED
  BY <1>2, <1>3, <1>4 DEF PoolInv

(* The next worker, or none.                                               *)
LEMMA AddWorkerKeeps ==
  ASSUME PoolInv, AddWorker
  PROVE  PoolShape(workers') /\ WorkerOK' /\ workers'.length \in {workers.length, workers.length + 1}
<1>1. CASE \E w \in Workers : w = workers.length + 1 /\ workers' = A!ArrAdd(workers, Ptr(w))
  BY <1>1, AddShape DEF PoolInv, AddWorker, WorkerOK
<1>2. CASE UNCHANGED workers
  BY <1>2 DEF PoolInv, AddWorker, WorkerOK, PoolShape
<1>3. QED
  BY <1>1, <1>2 DEF AddWorker

(* The word marked PASSIVE is past the workers.                            *)
LEMMA DelWorkerKeeps ==
  ASSUME PoolInv, DelWorker
  PROVE  PoolShape(workers') /\ WorkerOK'
<1>1. CASE UNCHANGED workers
  BY <1>1 DEF PoolInv, DelWorker, WorkerOK, PoolShape
<1>2. ASSUME NEW i \in Counted,
             workers' = [workers EXCEPT !.vals = [@ EXCEPT ![i + 2] = PASSIVE]]
      PROVE  PoolShape(workers')
  <2>1. /\ workers \in [vals : [0 .. workers.capacity - 1 -> Nat], capacity : Nat, length : Nat]
        /\ workers.vals \in [0 .. workers.capacity - 1 -> Nat]
        /\ workers.capacity \in Nat /\ workers.length \in Nat
        /\ workers.length + 2 <= workers.capacity
    BY TwoMore DEF PoolInv, PoolShape
  <2>2. i \in 0 .. workers.length - 1 /\ workers.vals[i + 2] = ACTIVE
    BY DEF Counted, Slots, StatusWord
  <2>3. i + 2 \in workers.length .. workers.capacity - 1
    <3>1. ASSUME i + 2 < workers.length PROVE FALSE
      <4>1. i + 2 \in 0 .. workers.length - 1
        BY <2>1, <2>2, <3>1
      <4>2. (i + 2) + 1 \in Workers /\ workers.vals[i + 2] = Ptr((i + 2) + 1)
        BY <4>1 DEF PoolInv, PoolShape
      <4>3. QED
        BY <2>2, <4>2, PtrIsWord
    <3>2. QED
      BY <2>1, <2>2, <3>1
  <2> DEFINE marked == [workers.vals EXCEPT ![i + 2] = PASSIVE]
  <2>4. marked \in [0 .. workers.capacity - 1 -> Nat]
        /\ \A j \in 0 .. workers.capacity - 1 : marked[j] = IF j = i + 2 THEN PASSIVE ELSE workers.vals[j]
    BY <2>1, <2>3 DEF PASSIVE
  <2>5. workers' = [workers EXCEPT !.vals = marked]
    BY <1>2
  <2> HIDE DEF marked
  <2>6. workers'.vals = marked /\ workers'.capacity = workers.capacity /\ workers'.length = workers.length
    BY <2>1, <2>5
  <2>7. workers' \in [vals : [0 .. workers'.capacity - 1 -> Nat], capacity : Nat, length : Nat]
    BY <2>1, <2>4, <2>5, <2>6
  <2>8. \A j \in 0 .. workers.length - 1 : j + 1 \in Workers /\ marked[j] = Ptr(j + 1)
    <3> SUFFICES ASSUME NEW j \in 0 .. workers.length - 1
        PROVE  j + 1 \in Workers /\ marked[j] = Ptr(j + 1)
      OBVIOUS
    <3>1. j + 1 \in Workers /\ workers.vals[j] = Ptr(j + 1)
      BY DEF PoolInv, PoolShape
    <3>2. j \in 0 .. workers.capacity - 1 /\ j # i + 2
      BY <2>1, <2>3
    <3>3. QED
      BY <2>4, <3>1, <3>2
  <2>9. \A j \in workers.length .. workers.capacity - 1 : marked[j] \in {ACTIVE, PASSIVE}
    <3> SUFFICES ASSUME NEW j \in workers.length .. workers.capacity - 1
        PROVE  marked[j] \in {ACTIVE, PASSIVE}
      OBVIOUS
    <3>1. workers.vals[j] \in {ACTIVE, PASSIVE}
      BY DEF PoolInv, PoolShape
    <3>2. j \in 0 .. workers.capacity - 1
      BY <2>1
    <3>3. QED
      BY <2>4, <3>1, <3>2
  <2>10. workers'.capacity >= InitialLen
         /\ (workers'.length >= 1 => ((workers'.length - 1) * 3) \div 2 + 1 <= workers'.capacity)
    BY <2>6 DEF PoolInv, PoolShape
  <2>11. QED
    BY <2>6, <2>7, <2>8, <2>9, <2>10 DEF PoolShape
<1>3. PoolShape(workers')
  BY <1>1, <1>2 DEF DelWorker, PoolInv
<1>4. WorkerOK'
  BY DEF DelWorker, PoolInv, WorkerOK
<1>5. QED
  BY <1>3, <1>4

(* The worker of a round is a worker of the pool, and not retired.         *)
LEMMA RoundWorker ==
  ASSUME PoolInv, workers.length # 0
  PROVE  WorkerAt(workers.vals[NextRound % workers.length]) \in Workers
<1>1. workers.length \in Nat \ {0} /\ NextRound \in Nat
  BY DEF PoolInv, PoolShape, RestOK, NextRound
<1>2. NextRound % workers.length \in 0 .. workers.length - 1
  BY <1>1
<1>3. PICK k \in 0 .. workers.length - 1 : k = NextRound % workers.length
  BY <1>2
<1>4. k + 1 \in Workers /\ workers.vals[k] = Ptr(k + 1)
  BY DEF PoolInv, PoolShape
<1>5. QED
  BY <1>3, <1>4, PtrIsWord

(* What a push does to the workers.                                        *)
LEMMA PushIs ==
  ASSUME WorkerOK, NEW w \in Workers, NEW t \in Task, Push(w, t)
  PROVE  /\ wk'[w].queue = Append(wk[w].queue, t)
         /\ wk'[w].job = wk[w].job
         /\ \A v \in Workers : v # w => wk'[v] = wk[v]
<1> DEFINE longer == Append(wk[w].queue, t)
<1>1. PICK h : wk' = [wk EXCEPT ![w].queue = longer, ![w].hurt = h]
  BY DEF Push
<1> HIDE DEF longer
<1>2. wk'[w].queue = longer /\ wk'[w].job = wk[w].job
      /\ \A v \in Workers : v # w => wk'[v] = wk[v]
  BY <1>1 DEF WorkerOK
<1>3. QED
  BY <1>2 DEF longer

LEMMA PushKeeps ==
  ASSUME WorkerOK, NEW w \in Workers, NEW t \in Task, Push(w, t)
  PROVE  WorkerOK' /\ down' \in BOOLEAN
<1> DEFINE longer == Append(wk[w].queue, t)
<1>1. wk[w].queue \in Seq(Task) /\ wk[w].passed \in Nat /\ wk[w].passed <= Len(wk[w].queue)
  BY DEF WorkerOK
<1>2. longer \in Seq(Task) /\ wk[w].passed <= Len(longer)
  BY <1>1
<1>3. PICK h \in BOOLEAN : wk' = [wk EXCEPT ![w].queue = longer, ![w].hurt = h]
  BY DEF Push, WorkerOK
<1> HIDE DEF longer
<1>4. wk' \in [Workers -> [status : {ACTIVE}, tid : BOOLEAN, queue : Seq(Task),
                           popping : BOOLEAN, hurt : BOOLEAN, passed : Nat,
                           job : Task \cup {NoTask}]]
  BY <1>2, <1>3 DEF WorkerOK
<1>5. \A v \in Workers : wk'[v].passed <= Len(wk'[v].queue) /\ (wk'[v].popping => wk'[v].job = NoTask)
  BY <1>2, <1>3 DEF WorkerOK
<1>6. QED
  BY <1>4, <1>5 DEF WorkerOK, Push

(* A sequence without one of its elements.                                 *)
LEMMA Removed ==
  ASSUME NEW S, NEW q \in Seq(S), NEW i \in DOMAIN q
  PROVE  /\ RemoveAt(q, i) \in Seq(S)
         /\ Len(RemoveAt(q, i)) = Len(q) - 1
         /\ DOMAIN RemoveAt(q, i) = 1 .. Len(q) - 1
         /\ \A j \in 1 .. Len(q) - 1 : RemoveAt(q, i)[j] = IF j < i THEN q[j] ELSE q[j + 1]
<1>1. Len(q) \in Nat /\ i \in 1 .. Len(q) /\ DOMAIN q = 1 .. Len(q)
  OBVIOUS
<1>2. PICK a, b : a = SubSeq(q, 1, i - 1) /\ b = SubSeq(q, i + 1, Len(q))
  OBVIOUS
<1>3. /\ a \in Seq(S) /\ Len(a) = i - 1
      /\ \A j \in 1 .. i - 1 : a[j] = q[j]
  BY <1>1, <1>2
<1>4. /\ b \in Seq(S) /\ Len(b) = Len(q) - i
      /\ \A j \in 1 .. Len(q) - i : b[j] = q[i + j]
  BY <1>1, <1>2
<1>5. PICK c : c = a \o b
  OBVIOUS
<1>6. /\ RemoveAt(q, i) = c /\ c \in Seq(S) /\ Len(c) = Len(q) - 1 /\ DOMAIN c = 1 .. Len(q) - 1
      /\ \A j \in 1 .. Len(q) - 1 : c[j] = IF j < i THEN a[j] ELSE b[j - (i - 1)]
  <2>1. RemoveAt(q, i) = c /\ c \in Seq(S)
    <3>1. RemoveAt(q, i) = c
      BY <1>2, <1>5, Zenon DEF RemoveAt
    <3>2. a \in Seq(S) /\ b \in Seq(S)
      BY <1>3, <1>4
    <3>3. c \in Seq(S)
      BY <1>5, <3>2
    <3>4. QED
      BY <3>1, <3>3
  <2>2. /\ Len(c) = Len(a) + Len(b)
        /\ \A j \in 1 .. Len(a) + Len(b) : c[j] = IF j <= Len(a) THEN a[j] ELSE b[j - Len(a)]
    <3>1. a \in Seq(S) /\ b \in Seq(S)
      BY <1>3, <1>4
    <3>2. Len(c) = Len(a) + Len(b)
      BY <3>1, <1>5
    <3>3. QED
      BY <3>1, <3>2, <1>5
  <2>3. Len(c) = Len(q) - 1 /\ Len(a) + Len(b) = Len(q) - 1
    BY <1>1, <1>3, <1>4, <2>2
  <2>4. DOMAIN c = 1 .. Len(q) - 1
    BY <2>1, <2>3
  <2>5. \A j \in 1 .. Len(q) - 1 : (j <= i - 1) <=> (j < i)
    BY <1>1
  <2>6. \A j \in 1 .. Len(q) - 1 : c[j] = IF j < i THEN a[j] ELSE b[j - (i - 1)]
    BY <1>3, <2>2, <2>3, <2>5
  <2>7. QED
    BY <2>1, <2>3, <2>4, <2>6
<1>7. \A j \in 1 .. Len(q) - 1 : c[j] = IF j < i THEN q[j] ELSE q[j + 1]
  <2> TAKE j \in 1 .. Len(q) - 1
  <2>1. CASE j < i
    <3>1. j \in 1 .. i - 1
      BY <1>1, <2>1
    <3>2. QED
      BY <1>3, <1>6, <2>1, <3>1
  <2>2. CASE ~ (j < i)
    <3>1. j - (i - 1) \in 1 .. Len(q) - i /\ i + (j - (i - 1)) = j + 1
      BY <1>1, <2>2
    <3>2. b[j - (i - 1)] = q[j + 1]
      BY <1>4, <3>1
    <3>3. QED
      BY <1>6, <2>2, <3>2
  <2>3. QED
    BY <2>1, <2>2
<1>8. QED
  BY <1>6, <1>7

(* What a pop does to the workers.                                         *)
LEMMA PopIs ==
  ASSUME WorkerOK, NEW w \in Workers, Pop(w)
  PROVE  \E i \in DOMAIN wk[w].queue :
           /\ wk' = [wk EXCEPT ![w].job = wk[w].queue[i], ![w].popping = FALSE,
                               ![w].queue = RemoveAt(@, i), ![w].passed = i - 1]
           /\ wk'[w].job = wk[w].queue[i] /\ wk'[w].queue = RemoveAt(wk[w].queue, i)
           /\ wk[w].job = NoTask
           /\ \A v \in Workers : v # w => wk'[v] = wk[v]
<1>1. PICK i \in DOMAIN wk[w].queue :
        wk' = [wk EXCEPT ![w].job = wk[w].queue[i], ![w].popping = FALSE,
                         ![w].queue = RemoveAt(@, i), ![w].passed = i - 1]
  BY DEF Pop, Poppable
<1> DEFINE shorter == RemoveAt(wk[w].queue, i)
           p == i - 1
           j == wk[w].queue[i]
<1>2. wk' = [wk EXCEPT ![w].job = j, ![w].popping = FALSE, ![w].queue = shorter, ![w].passed = p]
  BY <1>1
<1> HIDE DEF shorter, p, j
<1>3. wk'[w].job = j /\ wk'[w].queue = shorter /\ \A v \in Workers : v # w => wk'[v] = wk[v]
  BY <1>2 DEF WorkerOK
<1>4. wk[w].job = NoTask
  BY DEF Pop, WorkerOK
<1>5. QED
  BY <1>1, <1>3, <1>4 DEF shorter, j

LEMMA PopKeeps ==
  ASSUME WorkerOK, NEW w \in Workers, Pop(w)
  PROVE  WorkerOK'
<1>1. PICK i \in DOMAIN wk[w].queue :
        wk' = [wk EXCEPT ![w].job = wk[w].queue[i], ![w].popping = FALSE,
                         ![w].queue = RemoveAt(@, i), ![w].passed = i - 1]
  BY PopIs
<1>2. wk[w].queue \in Seq(Task)
  BY DEF WorkerOK
<1> DEFINE shorter == RemoveAt(wk[w].queue, i)
           p == i - 1
           j == wk[w].queue[i]
<1>3. shorter \in Seq(Task) /\ Len(shorter) = Len(wk[w].queue) - 1
  BY <1>2, Removed
<1>4. j \in Task /\ p \in Nat /\ p <= Len(shorter)
  BY <1>2, <1>3
<1>5. wk' = [wk EXCEPT ![w].job = j, ![w].popping = FALSE, ![w].queue = shorter, ![w].passed = p]
  BY <1>1
<1> HIDE DEF shorter, p, j
<1>6. wk' \in [Workers -> [status : {ACTIVE}, tid : BOOLEAN, queue : Seq(Task),
                           popping : BOOLEAN, hurt : BOOLEAN, passed : Nat,
                           job : Task \cup {NoTask}]]
  BY <1>3, <1>4, <1>5 DEF WorkerOK
<1>7. \A v \in Workers : wk'[v].passed <= Len(wk'[v].queue) /\ (wk'[v].popping => wk'[v].job = NoTask)
  BY <1>4, <1>5 DEF WorkerOK
<1>8. QED
  BY <1>6, <1>7 DEF WorkerOK

(* A pop begins, or ends with nothing.                                     *)
LEMMA PoppingKeeps ==
  ASSUME WorkerOK, NEW w \in Workers, NEW b \in BOOLEAN, b => wk[w].job = NoTask,
         wk' = [wk EXCEPT ![w].popping = b]
  PROVE  /\ WorkerOK'
         /\ \A v \in Workers : wk'[v].queue = wk[v].queue /\ wk'[v].job = wk[v].job
<1>1. wk' \in [Workers -> [status : {ACTIVE}, tid : BOOLEAN, queue : Seq(Task),
                           popping : BOOLEAN, hurt : BOOLEAN, passed : Nat,
                           job : Task \cup {NoTask}]]
  BY DEF WorkerOK
<1>2. \A v \in Workers : /\ wk'[v].queue = wk[v].queue /\ wk'[v].job = wk[v].job
                         /\ wk'[v].passed = wk[v].passed
                         /\ wk'[v].popping = IF v = w THEN b ELSE wk[v].popping
  BY DEF WorkerOK
<1>3. QED
  BY <1>1, <1>2 DEF WorkerOK

LEMMA HandleKeeps ==
  ASSUME PoolInv, Handle
  PROVE  PoolInv' /\ workers' = workers
<1>1. CASE workers.length = 0
  BY <1>1 DEF Handle, PoolInv, PoolShape, WorkerOK, RestOK
<1>2. CASE workers.length # 0
  <2> DEFINE w == WorkerAt(workers.vals[NextRound % workers.length])
  <2>1. w \in Workers
    BY <1>2, RoundWorker
  <2>2. /\ round' = NextRound
        /\ workers' = IF wk[w].status = RETIRED THEN Recycled ELSE workers
        /\ Push(w, Head(box))
        /\ box' = Tail(box) /\ box # <<>>
        /\ UNCHANGED <<done, pc, tries, loops, first, monitored>>
    BY <1>2 DEF Handle
  <2> HIDE DEF w
  <2>3. wk[w].status = ACTIVE
    BY <2>1 DEF PoolInv, WorkerOK
  <2>4. workers' = workers
    BY <2>2, <2>3 DEF ACTIVE, RETIRED
  <2>5. Head(box) \in Task /\ Tail(box) \in Seq(Task)
    BY <2>2 DEF PoolInv, RestOK
  <2>6. WorkerOK' /\ down' \in BOOLEAN
    BY <2>1, <2>2, <2>5, PushKeeps DEF PoolInv
  <2>7. RestOK'
    BY <2>2, <2>4, <2>5, <2>6 DEF PoolInv, RestOK, NextRound
  <2>8. QED
    BY <2>4, <2>6, <2>7 DEF PoolInv, PoolShape
<1>3. QED
  BY <1>1, <1>2

LEMMA MonitorKeeps ==
  ASSUME PoolInv, Monitor
  PROVE  PoolInv'
<1>1. /\ pc = "callback" /\ monitored' = TRUE
      /\ UNCHANGED <<round, box, done, pc, tries, loops, first>>
  BY DEF Monitor
<1>2. PoolShape(workers') /\ WorkerOK' /\ down' \in BOOLEAN
  <2>1. CASE LoadKills
    BY <2>1 DEF Monitor, PoolInv, PoolShape, WorkerOK
  <2>2. CASE ~ LoadKills
    <3>1. down' = down /\ (AddWorker \/ DelWorker \/ UNCHANGED <<workers, wk>>)
      BY <2>2 DEF Monitor
    <3>2. CASE UNCHANGED <<workers, wk>>
      BY <3>1, <3>2 DEF PoolInv, PoolShape, WorkerOK, RestOK
    <3>3. down' \in BOOLEAN
      BY <3>1 DEF PoolInv, RestOK
    <3>4. QED
      BY <3>1, <3>2, <3>3, AddWorkerKeeps, DelWorkerKeeps
  <2>3. QED
    BY <2>1, <2>2
<1>3. RestOK'
  BY <1>1, <1>2 DEF PoolInv, RestOK
<1>4. QED
  BY <1>2, <1>3 DEF PoolInv

(* The workers' own steps.                                                 *)
LEMMA WorkerKeeps ==
  ASSUME PoolInv, NEW w \in Workers,
         Begin(w) \/ Take(w) \/ Pop(w) \/ PopNothing(w) \/ Run(w)
  PROVE  PoolInv'
<1>1. UNCHANGED <<workers, round, box, pc, tries, loops, first, monitored, down>>
  BY DEF Begin, Take, Pop, PopNothing, Run, WorkerStep
<1>2. WorkerOK' /\ done' \in [Task -> Workers \cup {NoWorker}]
  <2>1. CASE Begin(w)
    BY <2>1 DEF Begin, PoolInv, WorkerOK, RestOK
  <2>2. CASE Pop(w)
    <3>1. done' = done
      BY <2>2 DEF Pop
    <3>2. QED
      BY <2>2, <3>1, PopKeeps DEF PoolInv, RestOK
  <2>3. CASE PopNothing(w)
    <3>1. wk[w].status # PASSIVE
      BY DEF PoolInv, WorkerOK, ACTIVE, PASSIVE
    <3>2. wk' = [wk EXCEPT ![w].popping = FALSE, ![w].status = @]
      BY <2>3, <3>1 DEF PopNothing
    <3>3. wk' = [wk EXCEPT ![w].popping = FALSE]
      BY <3>2 DEF PoolInv, WorkerOK
    <3>4. WorkerOK'
      BY <3>3, PoppingKeeps DEF PoolInv
    <3>5. QED
      BY <2>3, <3>4 DEF PopNothing, PoolInv, RestOK
  <2>3a. CASE Take(w)
    <3>1. wk' = [wk EXCEPT ![w].popping = TRUE] /\ wk[w].job = NoTask
      BY <2>3a DEF Take, Waiting
    <3>2. WorkerOK'
      BY <3>1, PoppingKeeps DEF PoolInv
    <3>3. QED
      BY <2>3a, <3>2 DEF Take, PoolInv, RestOK
  <2>4. CASE Run(w)
    <3>1. wk' = [wk EXCEPT ![w].job = NoTask]
      BY <2>4 DEF Run
    <3>2. wk' \in [Workers -> [status : {ACTIVE}, tid : BOOLEAN, queue : Seq(Task),
                               popping : BOOLEAN, hurt : BOOLEAN, passed : Nat,
                               job : Task \cup {NoTask}]]
      BY <3>1 DEF PoolInv, WorkerOK
    <3>3. \A v \in Workers : wk'[v].passed <= Len(wk'[v].queue) /\ (wk'[v].popping => wk'[v].job = NoTask)
      BY <3>1 DEF PoolInv, WorkerOK
    <3>4. done' \in [Task -> Workers \cup {NoWorker}]
      BY <2>4 DEF Run, PoolInv, WorkerOK, RestOK
    <3>5. QED
      BY <3>2, <3>3, <3>4 DEF WorkerOK
  <2>5. QED
    BY <2>1, <2>2, <2>3, <2>3a, <2>4
<1>3. PoolShape(workers')
  BY <1>1 DEF PoolInv, PoolShape
<1>4. RestOK'
  BY <1>1, <1>2 DEF PoolInv, RestOK
<1>5. QED
  BY <1>2, <1>3, <1>4 DEF PoolInv

LEMMA PoolInvStep == PoolInv /\ [Next]_vars => PoolInv'
<1> SUFFICES ASSUME PoolInv, [Next]_vars PROVE PoolInv'
  OBVIOUS
<1>0. NWorkers \in Nat /\ Period \in Nat \ {0} /\ workers.length \in Nat
  BY TaskAssumption DEF PoolInv, PoolShape
<1>1. CASE StartWorker
  <2>1. /\ AddWorker /\ tries' = tries + 1 /\ tries < NWorkers /\ pc = "start"
        /\ UNCHANGED <<round, box, done, pc, loops, first, monitored, down>>
    BY <1>1 DEF StartWorker
  <2>2. PoolShape(workers') /\ WorkerOK' /\ workers'.length \in {workers.length, workers.length + 1}
    BY <2>1, AddWorkerKeeps
  <2>3. RestOK'
    BY <1>0, <2>1, <2>2 DEF PoolInv, RestOK
  <2>4. QED
    BY <2>2, <2>3 DEF PoolInv
<1>2. CASE Serve
  BY <1>0, <1>2 DEF Serve, PoolInv, PoolShape, WorkerOK, RestOK
<1>3. CASE Handle
  BY <1>3, HandleKeeps
<1>4. CASE EventsOver
  BY <1>4 DEF EventsOver, PoolInv, PoolShape, WorkerOK, RestOK
<1>5. CASE CallbackLoop
  <2>1. /\ loops' = (loops + 1) % Period /\ down' = (loops' = 0) /\ pc' = "events"
        /\ UNCHANGED <<workers, wk, round, box, done, tries, first, monitored>>
    BY <1>5 DEF CallbackLoop
  <2>2. loops' \in 0 .. Period - 1
    BY <1>0, <2>1 DEF PoolInv, RestOK
  <2>3. down' \in BOOLEAN
    BY <2>1
  <2>4. QED
    BY <2>1, <2>2, <2>3 DEF PoolInv, PoolShape, WorkerOK, RestOK
<1>6. CASE Monitor
  BY <1>6, MonitorKeeps
<1>7. CASE \E t \in Task : Dispatch(t)
  BY <1>7 DEF Dispatch, PoolInv, PoolShape, WorkerOK, RestOK
<1>8. CASE \E w \in Workers : Begin(w) \/ Take(w) \/ Pop(w) \/ PopNothing(w) \/ Run(w)
  BY <1>8, WorkerKeeps
<1>9. CASE UNCHANGED vars
  BY <1>9 DEF vars, PoolInv, PoolShape, WorkerOK, RestOK
<1>10. QED
  BY <1>1, <1>2, <1>3, <1>4, <1>5, <1>6, <1>7, <1>8, <1>9 DEF Next

LEMMA PoolInvAlways == Spec => []PoolInv
  BY PoolInvInit, PoolInvStep, PTL DEF Spec

(* The state has its types; in particular no word of the array is ever     *)
(* anything but a worker's address or a status.                            *)
LEMMA TypeCorrect ==
  ASSUME PoolInv
  PROVE  TypeOK
<1>1. workers.length \in Nat /\ workers.capacity \in Nat /\ workers.length <= workers.capacity
  BY TwoMore DEF PoolInv, PoolShape
<1>2. workers.vals \in [0 .. workers.capacity - 1 -> {ACTIVE, PASSIVE} \cup {Ptr(w) : w \in Workers}]
  <2>1. workers.vals \in [0 .. workers.capacity - 1 -> Nat]
    BY DEF PoolInv, PoolShape
  <2>2. \A i \in 0 .. workers.capacity - 1 :
           workers.vals[i] \in {ACTIVE, PASSIVE} \cup {Ptr(w) : w \in Workers}
    <3> TAKE i \in 0 .. workers.capacity - 1
    <3>1. CASE i < workers.length
      <4>1. i \in 0 .. workers.length - 1
        BY <1>1, <3>1
      <4>2. QED
        BY <4>1 DEF PoolInv, PoolShape
    <3>2. CASE ~ (i < workers.length)
      <4>1. i \in workers.length .. workers.capacity - 1
        BY <1>1, <3>2
      <4>2. QED
        BY <4>1 DEF PoolInv, PoolShape
    <3>3. QED
      BY <3>1, <3>2
  <2>3. QED
    BY <2>1, <2>2
<1>3. QED
  BY <1>1, <1>2 DEF PoolInv, WorkerOK, RestOK, TypeOK

(* Every slot in use points to its worker for ever, whatever the monitor   *)
(* reads of a thread's descriptor, marks and adds (atm_task.c:78): neither *)
(* a mark nor a growth of the array reaches what the dispatch follows.     *)
(* Every variable keeps its type.                                          *)
THEOREM SlotsAlwaysHoldWorkers == Spec => []SlotsHoldWorkers
<1>1. PoolInv => SlotsHoldWorkers
  BY TypeCorrect DEF PoolInv, PoolShape, SlotsHoldWorkers, Slots
<1>2. QED
  BY <1>1, PoolInvAlways, PTL

-----------------------------------------------------------------------------
(* Where tasks are.  A place is one of four kinds; a step that moves a     *)
(* task maps the places it leaves one to one to places there were before.  *)
LEMMA PlaceKinds ==
  ASSUME NEW t, NEW p
  PROVE  p \in Places(t) <=>
           \/ \E i \in DOMAIN box : box[i] = t /\ p = <<NoWorker, "pipe", i>>
           \/ \E w \in Workers : \E i \in DOMAIN wk[w].queue :
                 wk[w].queue[i] = t /\ p = <<w, "queue", i>>
           \/ \E w \in Workers : wk[w].job = t /\ p = <<w, "job", 0>>
           \/ \E w \in Workers : done[t] = w /\ p = <<w, "run", 0>>
<1>1. p \in InPipe(t) <=> \E i \in DOMAIN box : box[i] = t /\ p = <<NoWorker, "pipe", i>>
  BY DEF InPipe
<1>2. ASSUME NEW w \in Workers
      PROVE  p \in InQueue(t, w) <=> \E i \in DOMAIN wk[w].queue :
                                       wk[w].queue[i] = t /\ p = <<w, "queue", i>>
  BY DEF InQueue
<1>3. p \in InHand(t) <=> \E w \in Workers : wk[w].job = t /\ p = <<w, "job", 0>>
  BY DEF InHand
<1>4. p \in RunBy(t) <=> \E w \in Workers : done[t] = w /\ p = <<w, "run", 0>>
  BY DEF RunBy
<1> DEFINE queues == UNION {InQueue(t, w) : w \in Workers}
<1>5. p \in queues <=> \E w \in Workers : p \in InQueue(t, w)
  OBVIOUS
<1>6. Places(t) = InPipe(t) \cup queues \cup InHand(t) \cup RunBy(t)
  BY Zenon DEF Places
<1> HIDE DEF queues
<1>7. p \in Places(t) <=> p \in InPipe(t) \/ p \in queues \/ p \in InHand(t) \/ p \in RunBy(t)
  BY <1>6
<1>8. QED
  BY <1>1, <1>2, <1>3, <1>4, <1>5, <1>7, Zenon

LEMMA PlaceKindsNext ==
  ASSUME NEW t, NEW p
  PROVE  p \in Places(t)' <=>
           \/ \E i \in DOMAIN box' : box'[i] = t /\ p = <<NoWorker, "pipe", i>>
           \/ \E w \in Workers : \E i \in DOMAIN wk'[w].queue :
                 wk'[w].queue[i] = t /\ p = <<w, "queue", i>>
           \/ \E w \in Workers : wk'[w].job = t /\ p = <<w, "job", 0>>
           \/ \E w \in Workers : done'[t] = w /\ p = <<w, "run", 0>>
<1>1. p \in InPipe(t)' <=> \E i \in DOMAIN box' : box'[i] = t /\ p = <<NoWorker, "pipe", i>>
  BY DEF InPipe
<1>2. ASSUME NEW w \in Workers
      PROVE  p \in InQueue(t, w)' <=> \E i \in DOMAIN wk'[w].queue :
                                       wk'[w].queue[i] = t /\ p = <<w, "queue", i>>
  BY DEF InQueue
<1>3. p \in InHand(t)' <=> \E w \in Workers : wk'[w].job = t /\ p = <<w, "job", 0>>
  BY DEF InHand
<1>4. p \in RunBy(t)' <=> \E w \in Workers : done'[t] = w /\ p = <<w, "run", 0>>
  BY DEF RunBy
<1> DEFINE queues == UNION {InQueue(t, w)' : w \in Workers}
<1>5. p \in queues <=> \E w \in Workers : p \in InQueue(t, w)'
  OBVIOUS
<1>6. Places(t)' = InPipe(t)' \cup queues \cup InHand(t)' \cup RunBy(t)'
  BY Zenon DEF Places
<1> HIDE DEF queues
<1>7. p \in Places(t)' <=> p \in InPipe(t)' \/ p \in queues \/ p \in InHand(t)' \/ p \in RunBy(t)'
  BY <1>6
<1>8. QED
  BY <1>1, <1>2, <1>3, <1>4, <1>5, <1>7, Zenon

(* A task is not moved by a step that leaves the pipe, the queues and the  *)
(* hands alone.                                                            *)
LEMMA StayPut ==
  ASSUME NEW t, box' = box, done' = done,
         \A w \in Workers : wk'[w].queue = wk[w].queue /\ wk'[w].job = wk[w].job
  PROVE  Places(t)' = Places(t)
<1>1. \A w \in Workers : InQueue(t, w)' = InQueue(t, w)
  BY DEF InQueue
<1>2. InPipe(t)' = InPipe(t) /\ InHand(t)' = InHand(t) /\ RunBy(t)' = RunBy(t)
  BY DEF InPipe, InHand, RunBy
<1>3. QED
  BY <1>1, <1>2 DEF Places

LEMMA DispatchOnce ==
  ASSUME PoolInv, TaskInOnePlace, NEW t0 \in Task, Dispatch(t0)
  PROVE  TaskInOnePlace'
<1>1. box' = Append(box, t0) /\ wk' = wk /\ done' = done /\ Places(t0) = {} /\ box \in Seq(Task)
  BY DEF Dispatch, PoolInv, RestOK
<1>2. /\ DOMAIN box = 1 .. Len(box) /\ DOMAIN box' = 1 .. Len(box) + 1 /\ Len(box) \in Nat
      /\ \A i \in DOMAIN box' : box'[i] = IF i \in DOMAIN box THEN box[i] ELSE t0
  BY <1>1
<1>3. ASSUME NEW t \in Task, NEW p \in Places(t)', p \notin Places(t)
      PROVE  t = t0 /\ p = <<NoWorker, "pipe", Len(box) + 1>>
  <2>1. PICK i \in DOMAIN box' : box'[i] = t /\ p = <<NoWorker, "pipe", i>>
    BY <1>1, <1>3, PlaceKinds, PlaceKindsNext
  <2>2. i \notin DOMAIN box
    BY <1>2, <1>3, <2>1, PlaceKinds
  <2>3. QED
    BY <1>2, <2>1, <2>2
<1>4. ASSUME NEW t \in Task, NEW p \in Places(t)', NEW q \in Places(t)' PROVE p = q
  BY <1>1, <1>3 DEF TaskInOnePlace
<1>5. QED
  BY <1>4 DEF TaskInOnePlace

LEMMA HandleOnce ==
  ASSUME PoolInv, TaskInOnePlace, Handle
  PROVE  TaskInOnePlace'
<1>1. CASE workers.length = 0
  <2>1. box' = box /\ done' = done /\ wk' = wk
    BY <1>1 DEF Handle
  <2>2. QED
    BY <2>1, StayPut DEF TaskInOnePlace
<1>2. CASE workers.length # 0
  <2> DEFINE w0 == WorkerAt(workers.vals[NextRound % workers.length])
  <2>1. w0 \in Workers
    BY <1>2, RoundWorker
  <2>2. /\ Push(w0, Head(box))
        /\ box' = Tail(box) /\ box # <<>> /\ done' = done
    BY <1>2 DEF Handle
  <2> HIDE DEF w0
  <2> DEFINE n == Len(wk[w0].queue)
             F(p) == IF p[2] = "pipe" THEN <<NoWorker, "pipe", p[3] + 1>>
                     ELSE IF p = <<w0, "queue", n + 1>> THEN <<NoWorker, "pipe", 1>> ELSE p
  <2>3. /\ box \in Seq(Task) /\ wk[w0].queue \in Seq(Task)
        /\ DOMAIN box = 1 .. Len(box) /\ Len(box) \in Nat /\ Len(box) >= 1
        /\ DOMAIN box' = 1 .. Len(box) - 1
        /\ \A i \in DOMAIN box' : box'[i] = box[i + 1]
        /\ Head(box) = box[1]
    BY <2>1, <2>2 DEF PoolInv, WorkerOK, RestOK
  <2>4. /\ n \in Nat
        /\ \A w \in Workers : wk'[w].job = wk[w].job
        /\ \A w \in Workers : w # w0 => wk'[w].queue = wk[w].queue
        /\ DOMAIN wk[w0].queue = 1 .. n /\ DOMAIN wk'[w0].queue = 1 .. n + 1
        /\ \A i \in 1 .. n : wk'[w0].queue[i] = wk[w0].queue[i]
        /\ wk'[w0].queue[n + 1] = box[1]
    <3> DEFINE longer == Append(wk[w0].queue, box[1])
    <3>1. /\ wk'[w0].queue = longer /\ wk'[w0].job = wk[w0].job
          /\ \A v \in Workers : v # w0 => wk'[v] = wk[v]
      <4>1. Head(box) \in Task /\ Head(box) = box[1]
        BY <2>2, <2>3
      <4>2. QED
        BY <2>1, <2>2, <4>1, PushIs DEF PoolInv
    <3>2. /\ n \in Nat /\ DOMAIN wk[w0].queue = 1 .. n /\ DOMAIN longer = 1 .. n + 1
          /\ \A i \in 1 .. n : longer[i] = wk[w0].queue[i]
          /\ longer[n + 1] = box[1]
      BY <2>3
    <3> HIDE DEF longer, n
    <3>3. /\ wk'[w0].queue = longer
          /\ \A w \in Workers : wk'[w].job = wk[w].job
          /\ \A w \in Workers : w # w0 => wk'[w].queue = wk[w].queue
      BY <3>1
    <3>4. QED
      BY <3>2, <3>3
  <2> HIDE DEF n
  <2>5. ASSUME NEW t \in Task, NEW p \in Places(t)'
        PROVE  /\ F(p) \in Places(t)
               /\ \E w, k, i : p = <<w, k, i>>
               /\ p[2] = "pipe" => p[1] = NoWorker /\ p[3] \in Nat \ {0}
    <3>1. CASE \E i \in DOMAIN box' : box'[i] = t /\ p = <<NoWorker, "pipe", i>>
      <4>1. PICK i \in DOMAIN box' : box'[i] = t /\ p = <<NoWorker, "pipe", i>>
        BY <3>1
      <4>2. i + 1 \in DOMAIN box /\ box[i + 1] = t /\ i \in Nat \ {0}
        BY <2>3, <4>1
      <4>3. F(p) = <<NoWorker, "pipe", i + 1>>
        BY <4>1
      <4>4. F(p) \in Places(t)
        BY <4>2, <4>3, PlaceKinds
      <4>5. QED
        BY <4>1, <4>2, <4>4
    <3>2. CASE \E w \in Workers : \E i \in DOMAIN wk'[w].queue :
                 wk'[w].queue[i] = t /\ p = <<w, "queue", i>>
      <4>0. PICK w \in Workers : \E i \in DOMAIN wk'[w].queue :
                   wk'[w].queue[i] = t /\ p = <<w, "queue", i>>
        BY <3>2
      <4>1. PICK i \in DOMAIN wk'[w].queue : wk'[w].queue[i] = t /\ p = <<w, "queue", i>>
        BY <4>0
      <4>2. CASE w = w0 /\ i = n + 1
        <5>1. F(p) = <<NoWorker, "pipe", 1>> /\ box[1] = t /\ 1 \in DOMAIN box
          BY <2>3, <2>4, <4>1, <4>2
        <5>2. F(p) \in Places(t)
          BY <5>1, PlaceKinds
        <5>3. QED
          BY <4>1, <5>2
      <4>3. CASE ~ (w = w0 /\ i = n + 1)
        <5>1. i \in DOMAIN wk[w].queue /\ wk[w].queue[i] = t
          BY <2>4, <4>1, <4>3
        <5>2. F(p) = p
          BY <4>1, <4>3
        <5>3. p \in Places(t)
          BY <4>1, <5>1, PlaceKinds
        <5>4. QED
          BY <4>1, <5>2, <5>3
      <4>4. QED
        BY <4>2, <4>3
    <3>3. CASE \E w \in Workers : wk'[w].job = t /\ p = <<w, "job", 0>>
      <4>1. PICK w \in Workers : wk'[w].job = t /\ p = <<w, "job", 0>>
        BY <3>3
      <4>2. F(p) = p /\ p \in Places(t)
        BY <2>4, <4>1, PlaceKinds
      <4>3. QED
        BY <4>1, <4>2
    <3>4. CASE \E w \in Workers : done'[t] = w /\ p = <<w, "run", 0>>
      <4>1. PICK w \in Workers : done'[t] = w /\ p = <<w, "run", 0>>
        BY <3>4
      <4>2. F(p) = p /\ p \in Places(t)
        BY <2>2, <4>1, PlaceKinds
      <4>3. QED
        BY <4>1, <4>2
    <3>5. QED
      BY <3>1, <3>2, <3>3, <3>4, PlaceKindsNext
  <2>6. ASSUME NEW t \in Task, NEW p \in Places(t)', NEW q \in Places(t)' PROVE p = q
    <3>1. F(p) = F(q)
      BY <2>5 DEF TaskInOnePlace
    <3>2a. PICK pw, pk, pi : p = <<pw, pk, pi>>
      BY <2>5
    <3>2b. PICK qw, qk, qi : q = <<qw, qk, qi>>
      BY <2>5
    <3>2. p = <<pw, pk, pi>> /\ q = <<qw, qk, qi>>
      BY <3>2a, <3>2b
    <3>3. /\ pk = "pipe" => pw = NoWorker /\ pi \in Nat \ {0}
          /\ qk = "pipe" => qw = NoWorker /\ qi \in Nat \ {0}
      BY <2>5, <3>2
    <3>4. QED
      BY <3>1, <3>2, <3>3
  <2>7. QED
    BY <2>6 DEF TaskInOnePlace
<1>3. QED
  BY <1>1, <1>2

(* A pop moves one task of the queue to the worker's hands.                *)
LEMMA PopTaskOnce ==
  ASSUME PoolInv, TaskInOnePlace, NEW w0 \in Workers, Pop(w0)
  PROVE  TaskInOnePlace'
<1>0. PICK i0 \in DOMAIN wk[w0].queue :
        /\ wk'[w0].job = wk[w0].queue[i0] /\ wk'[w0].queue = RemoveAt(wk[w0].queue, i0)
        /\ \A w \in Workers : w # w0 => wk'[w] = wk[w]
  BY PopIs DEF PoolInv
<1> DEFINE F(p) == IF p = <<w0, "job", 0>> THEN <<w0, "queue", i0>>
                   ELSE IF p[1] = w0 /\ p[2] = "queue" /\ p[3] >= i0
                        THEN <<w0, "queue", p[3] + 1>> ELSE p
<1>1. /\ box' = box /\ done' = done /\ i0 \in Nat \ {0}
      /\ \A w \in Workers : w # w0 => wk'[w].queue = wk[w].queue /\ wk'[w].job = wk[w].job
  BY <1>0 DEF Pop, WorkerStep, PoolInv, WorkerOK
<1>2. /\ wk'[w0].job = wk[w0].queue[i0] /\ i0 \in DOMAIN wk[w0].queue
      /\ \A i \in DOMAIN wk'[w0].queue :
            /\ i \in Nat \ {0}
            /\ i \in DOMAIN wk[w0].queue /\ i + 1 \in DOMAIN wk[w0].queue
            /\ wk'[w0].queue[i] = IF i < i0 THEN wk[w0].queue[i] ELSE wk[w0].queue[i + 1]
  <2>1. PICK q : q = wk[w0].queue
    OBVIOUS
  <2>2. q \in Seq(Task) /\ Len(q) \in Nat /\ DOMAIN q = 1 .. Len(q) /\ i0 \in DOMAIN q
    BY <1>0, <2>1 DEF PoolInv, WorkerOK
  <2>3. /\ DOMAIN RemoveAt(q, i0) = 1 .. Len(q) - 1
        /\ \A i \in 1 .. Len(q) - 1 : RemoveAt(q, i0)[i] = IF i < i0 THEN q[i] ELSE q[i + 1]
    BY <2>2, Removed
  <2>4. \A i \in 1 .. Len(q) - 1 : i \in Nat \ {0} /\ i \in 1 .. Len(q) /\ i + 1 \in 1 .. Len(q)
    BY <2>2
  <2>5. QED
    BY <1>0, <2>1, <2>2, <2>3, <2>4
<1>3. ASSUME NEW t \in Task, NEW p \in Places(t)'
      PROVE  /\ F(p) \in Places(t)
             /\ \E w, k, i : p = <<w, k, i>>
             /\ p[1] = w0 /\ p[2] = "queue" => p[3] \in Nat \ {0}
  <2>1. CASE \E i \in DOMAIN box' : box'[i] = t /\ p = <<NoWorker, "pipe", i>>
    <3>1. PICK i \in DOMAIN box' : box'[i] = t /\ p = <<NoWorker, "pipe", i>>
      BY <2>1
    <3>2. F(p) = p /\ p \in Places(t)
      BY <1>1, <3>1, PlaceKinds
    <3>3. QED
      BY <3>1, <3>2
  <2>2. CASE \E w \in Workers : \E i \in DOMAIN wk'[w].queue :
               wk'[w].queue[i] = t /\ p = <<w, "queue", i>>
    <3>0. PICK w \in Workers : \E i \in DOMAIN wk'[w].queue :
                 wk'[w].queue[i] = t /\ p = <<w, "queue", i>>
      BY <2>2
    <3>1. PICK i \in DOMAIN wk'[w].queue : wk'[w].queue[i] = t /\ p = <<w, "queue", i>>
      BY <3>0
    <3>2. CASE w = w0
      <4>1. F(p) = (IF i < i0 THEN p ELSE <<w0, "queue", i + 1>>) /\ p[3] \in Nat \ {0}
        BY <1>1, <1>2, <3>1, <3>2
      <4>2. CASE i < i0
        <5>1. i \in DOMAIN wk[w0].queue /\ wk[w0].queue[i] = t /\ p = <<w0, "queue", i>>
          BY <1>2, <3>1, <3>2, <4>2
        <5>2. QED
          BY <3>1, <4>1, <4>2, <5>1, PlaceKinds
      <4>3. CASE ~ (i < i0)
        <5>1. i + 1 \in DOMAIN wk[w0].queue /\ wk[w0].queue[i + 1] = t
          BY <1>2, <3>1, <3>2, <4>3
        <5>2. QED
          BY <3>1, <4>1, <4>3, <5>1, PlaceKinds
      <4>4. QED
        BY <4>2, <4>3
    <3>3. CASE w # w0
      <4>1. F(p) = p /\ p \in Places(t)
        BY <1>1, <3>1, <3>3, PlaceKinds
      <4>2. QED
        BY <3>1, <3>3, <4>1
    <3>4. QED
      BY <3>2, <3>3
  <2>3. CASE \E w \in Workers : wk'[w].job = t /\ p = <<w, "job", 0>>
    <3>1. PICK w \in Workers : wk'[w].job = t /\ p = <<w, "job", 0>>
      BY <2>3
    <3>2. CASE w = w0
      <4>1. F(p) = <<w0, "queue", i0>> /\ F(p) \in Places(t)
        BY <1>2, <3>1, <3>2, PlaceKinds
      <4>2. QED
        BY <3>1, <4>1
    <3>3. CASE w # w0
      <4>1. F(p) = p /\ p \in Places(t)
        BY <1>1, <3>1, <3>3, PlaceKinds
      <4>2. QED
        BY <3>1, <4>1
    <3>4. QED
      BY <3>2, <3>3
  <2>4. CASE \E w \in Workers : done'[t] = w /\ p = <<w, "run", 0>>
    <3>1. PICK w \in Workers : done'[t] = w /\ p = <<w, "run", 0>>
      BY <2>4
    <3>2. F(p) = p /\ p \in Places(t)
      BY <1>1, <3>1, PlaceKinds
    <3>3. QED
      BY <3>1, <3>2
  <2>5. QED
    BY <2>1, <2>2, <2>3, <2>4, PlaceKindsNext
<1>4. ASSUME NEW t \in Task, NEW p \in Places(t)', NEW q \in Places(t)' PROVE p = q
  <2>1. F(p) = F(q)
    BY <1>3 DEF TaskInOnePlace
  <2>2. PICK pw, pk, pi : p = <<pw, pk, pi>>
    BY <1>3
  <2>3. PICK qw, qk, qi : q = <<qw, qk, qi>>
    BY <1>3
  <2>4. /\ pw = w0 /\ pk = "queue" => pi \in Nat \ {0}
        /\ qw = w0 /\ qk = "queue" => qi \in Nat \ {0}
    BY <1>3, <2>2, <2>3
  <2>5. QED
    BY <1>1, <2>1, <2>2, <2>3, <2>4
<1>5. QED
  BY <1>4 DEF TaskInOnePlace

(* A run moves the task from the worker's hands to what it has run.        *)
LEMMA RunTaskOnce ==
  ASSUME PoolInv, TaskInOnePlace, NEW w0 \in Workers, Run(w0)
  PROVE  TaskInOnePlace'
<1> DEFINE t0 == wk[w0].job
<1>1. /\ box' = box /\ t0 \in Task /\ t0 # NoTask
      /\ \A t \in Task : t # t0 => done'[t] = done[t]
      /\ done'[t0] = w0
      /\ \A w \in Workers : w # w0 => wk'[w].queue = wk[w].queue /\ wk'[w].job = wk[w].job
      /\ wk'[w0].job = NoTask /\ wk'[w0].queue = wk[w0].queue
  BY DEF Run, WorkerStep, PoolInv, WorkerOK, RestOK
<1>2. NoTask \notin Task
  BY TaskAssumption
<1>3. <<w0, "job", 0>> \in Places(t0)
  BY PlaceKinds
<1> HIDE DEF t0
<1>4. ASSUME NEW t \in Task, NEW p \in Places(t)', ~ (t = t0 /\ p = <<w0, "run", 0>>)
      PROVE  p \in Places(t) /\ p # <<w0, "job", 0>>
  <2>1. CASE \E i \in DOMAIN box' : box'[i] = t /\ p = <<NoWorker, "pipe", i>>
    BY <1>1, <2>1, PlaceKinds
  <2>2. CASE \E w \in Workers : \E i \in DOMAIN wk'[w].queue :
               wk'[w].queue[i] = t /\ p = <<w, "queue", i>>
    <3>1. PICK w \in Workers : \E i \in DOMAIN wk'[w].queue :
                 wk'[w].queue[i] = t /\ p = <<w, "queue", i>>
      BY <2>2
    <3>2. wk'[w].queue = wk[w].queue
      BY <1>1
    <3>3. QED
      BY <3>1, <3>2, PlaceKinds
  <2>3. CASE \E w \in Workers : wk'[w].job = t /\ p = <<w, "job", 0>>
    <3>1. PICK w \in Workers : wk'[w].job = t /\ p = <<w, "job", 0>>
      BY <2>3
    <3>2. w # w0
      BY <1>1, <1>2, <3>1
    <3>3. QED
      BY <1>1, <3>1, <3>2, PlaceKinds
  <2>4. CASE \E w \in Workers : done'[t] = w /\ p = <<w, "run", 0>>
    <3>1. PICK w \in Workers : done'[t] = w /\ p = <<w, "run", 0>>
      BY <2>4
    <3>2. t # t0
      BY <1>1, <1>4, <3>1
    <3>3. QED
      BY <1>1, <3>1, <3>2, PlaceKinds
  <2>5. QED
    BY <2>1, <2>2, <2>3, <2>4, PlaceKindsNext
<1>5. ASSUME NEW t \in Task, NEW p \in Places(t)', NEW q \in Places(t)' PROVE p = q
  <2>1. CASE t # t0
    BY <1>4, <2>1 DEF TaskInOnePlace
  <2>2. CASE t = t0
    <3>1. ASSUME NEW r \in Places(t)' PROVE r = <<w0, "run", 0>>
      <4>1. SUFFICES ASSUME r # <<w0, "run", 0>> PROVE FALSE
        OBVIOUS
      <4>2. r \in Places(t0) /\ r # <<w0, "job", 0>>
        BY <1>4, <2>2, <4>1
      <4>3. QED
        BY <1>1, <1>3, <4>2 DEF TaskInOnePlace
    <3>2. QED
      BY <3>1
  <2>3. QED
    BY <2>1, <2>2
<1>6. QED
  BY <1>5 DEF TaskInOnePlace

LEMMA OnePlaceStep == PoolInv /\ TaskInOnePlace /\ [Next]_vars => TaskInOnePlace'
<1> SUFFICES ASSUME PoolInv, TaskInOnePlace, [Next]_vars PROVE TaskInOnePlace'
  OBVIOUS
<1>1. ASSUME box' = box, done' = done, wk' = wk PROVE TaskInOnePlace'
  BY <1>1, StayPut DEF TaskInOnePlace
<1>2. CASE StartWorker \/ Serve \/ EventsOver \/ CallbackLoop
  BY <1>1, <1>2 DEF StartWorker, AddWorker, Serve, EventsOver, CallbackLoop
<1>3. CASE Handle
  BY <1>3, HandleOnce
<1>4. CASE Monitor
  <2>1. box' = box /\ done' = done
    BY <1>4 DEF Monitor
  <2>2. wk' = wk
    <3>1. CASE LoadKills
      BY <1>4, <3>1 DEF Monitor
    <3>2. CASE ~ LoadKills
      <4>1. AddWorker \/ DelWorker \/ UNCHANGED <<workers, wk>>
        BY <1>4, <3>2 DEF Monitor
      <4>2. QED
        BY <4>1 DEF AddWorker, DelWorker
    <3>3. QED
      BY <3>1, <3>2
  <2>3. QED
    BY <1>1, <2>1, <2>2
<1>5. ASSUME NEW t \in Task, Dispatch(t) PROVE TaskInOnePlace'
  BY <1>5, DispatchOnce
<1>6. ASSUME NEW w \in Workers, Begin(w) PROVE TaskInOnePlace'
  <2>1. /\ box' = box /\ done' = done
        /\ \A v \in Workers : wk'[v].queue = wk[v].queue /\ wk'[v].job = wk[v].job
    BY <1>6 DEF Begin, WorkerStep, PoolInv, WorkerOK
  <2>2. QED
    BY <2>1, StayPut DEF TaskInOnePlace
<1>7. ASSUME NEW w \in Workers, PopNothing(w) PROVE TaskInOnePlace'
  <2>1. /\ box' = box /\ done' = done
        /\ \A v \in Workers : wk'[v].queue = wk[v].queue /\ wk'[v].job = wk[v].job
    BY <1>7 DEF PopNothing, WorkerStep, PoolInv, WorkerOK
  <2>2. QED
    BY <2>1, StayPut DEF TaskInOnePlace
<1>7a. ASSUME NEW w \in Workers, Take(w) PROVE TaskInOnePlace'
  <2>1. /\ box' = box /\ done' = done
        /\ \A v \in Workers : wk'[v].queue = wk[v].queue /\ wk'[v].job = wk[v].job
    BY <1>7a DEF Take, WorkerStep, PoolInv, WorkerOK
  <2>2. QED
    BY <2>1, StayPut DEF TaskInOnePlace
<1>8. ASSUME NEW w \in Workers, Pop(w) PROVE TaskInOnePlace'
  BY <1>8, PopTaskOnce
<1>9. ASSUME NEW w \in Workers, Run(w) PROVE TaskInOnePlace'
  BY <1>9, RunTaskOnce
<1>10. CASE UNCHANGED vars
  BY <1>1, <1>10 DEF vars
<1>11. QED
  BY <1>2, <1>3, <1>4, <1>5, <1>6, <1>7, <1>7a, <1>8, <1>9, <1>10 DEF Next

(* A dispatched task is in one place, pipe, queue or hands, until it is    *)
(* run, and it is run by one worker: the dispatch neither loses its place  *)
(* nor repeats it (atm_task.c:144 to 190 and 235).                         *)
THEOREM TaskAlwaysInOnePlace == Spec => []TaskInOnePlace
<1>1. Init => TaskInOnePlace
  <2> SUFFICES ASSUME Init, NEW t \in Task PROVE Places(t) = {}
    BY DEF TaskInOnePlace
  <2>1. /\ box = <<>> /\ done[t] = NoWorker /\ t # NoTask
        /\ \A w \in Workers : wk[w].queue = <<>> /\ wk[w].job = NoTask
    BY TaskAssumption DEF Init, NewWorker
  <2>2. NoWorker \notin Workers /\ DOMAIN << >> = {}
    BY TaskAssumption DEF NoWorker, Workers
  <2>3. ASSUME NEW p \in Places(t) PROVE FALSE
    BY <2>1, <2>2, PlaceKinds
  <2>4. QED
    BY <2>3
<1>2. QED
  BY <1>1, OnePlaceStep, PoolInvAlways, PTL DEF Spec

-----------------------------------------------------------------------------
(* Shares.  The dispatch gives each round's task to the next slot, so the  *)
(* number of a worker's tasks is the number of rounds that came to its     *)
(* slot; rounds count from 1, so slot 0 is the last of each turn.          *)
Gave(w) == {t \in Task : \E p \in Places(t) : p[1] = w}

Holds(w, t) ==
    \/ \E i \in DOMAIN wk[w].queue : wk[w].queue[i] = t
    \/ wk[w].job = t
    \/ done[t] = w

Turns(w) == (round \div first) + (IF 2 <= w /\ w <= (round % first) + 1 THEN 1 ELSE 0)

ShareInv ==
    /\ pc = "start" => box = <<>> /\ round = 0 /\ first = 0
    /\ pc = "start" => \A w \in Workers : Gave(w) = {}
    /\ pc # "start" => first <= workers.length
    /\ \A w \in Workers : IsFiniteSet(Gave(w))
    /\ pc # "start" /\ workers.length = first =>
         \A w \in 1 .. first : Cardinality(Gave(w)) = Turns(w)

LEMMA GaveIs ==
  ASSUME NEW w \in Workers, NEW t \in Task
  PROVE  /\ t \in Gave(w) <=> Holds(w, t)
         /\ t \in Gave(w)' <=> Holds(w, t)'
<1>1. w # NoWorker
  BY TaskAssumption DEF NoWorker, Workers
<1>2. t \in Gave(w) <=> \E p \in Places(t) : p[1] = w
  BY DEF Gave
<1>3. t \in Gave(w)' <=> \E p \in Places(t)' : p[1] = w
  BY DEF Gave
<1>4. Holds(w, t) => t \in Gave(w)
  <2>1. CASE \E i \in DOMAIN wk[w].queue : wk[w].queue[i] = t
    <3>1. PICK i \in DOMAIN wk[w].queue : wk[w].queue[i] = t
      BY <2>1
    <3>2. <<w, "queue", i>> \in Places(t)
      BY <3>1, PlaceKinds
    <3>3. QED
      BY <1>2, <3>2
  <2>2. CASE wk[w].job = t
    <3>1. <<w, "job", 0>> \in Places(t)
      BY <2>2, PlaceKinds
    <3>2. QED
      BY <1>2, <3>1
  <2>3. CASE done[t] = w
    <3>1. <<w, "run", 0>> \in Places(t)
      BY <2>3, PlaceKinds
    <3>2. QED
      BY <1>2, <3>1
  <2>4. QED
    BY <2>1, <2>2, <2>3 DEF Holds
<1>5. ASSUME NEW p \in Places(t), p[1] = w PROVE Holds(w, t)
  BY <1>1, <1>5, PlaceKinds DEF Holds
<1>6. Holds(w, t)' => t \in Gave(w)'
  <2>1. CASE \E i \in DOMAIN wk'[w].queue : wk'[w].queue[i] = t
    <3>1. PICK i \in DOMAIN wk'[w].queue : wk'[w].queue[i] = t
      BY <2>1
    <3>2. <<w, "queue", i>> \in Places(t)'
      BY <3>1, PlaceKindsNext
    <3>3. QED
      BY <1>3, <3>2
  <2>2. CASE wk'[w].job = t
    <3>1. <<w, "job", 0>> \in Places(t)'
      BY <2>2, PlaceKindsNext
    <3>2. QED
      BY <1>3, <3>1
  <2>3. CASE done'[t] = w
    <3>1. <<w, "run", 0>> \in Places(t)'
      BY <2>3, PlaceKindsNext
    <3>2. QED
      BY <1>3, <3>1
  <2>4. QED
    BY <2>1, <2>2, <2>3 DEF Holds
<1>7. ASSUME NEW p \in Places(t)', p[1] = w PROVE Holds(w, t)'
  BY <1>1, <1>7, PlaceKindsNext DEF Holds
<1>8. QED
  BY <1>2, <1>3, <1>4, <1>5, <1>6, <1>7

(* What a worker was given only grows by a dispatch that comes to it.      *)
LEMMA GaveSame ==
  ASSUME NEW w \in Workers, \A t \in Task : Holds(w, t)' <=> Holds(w, t)
  PROVE  Gave(w)' = Gave(w)
<1>1. Gave(w) \subseteq Task /\ Gave(w)' \subseteq Task
  BY DEF Gave
<1>2. QED
  BY <1>1, GaveIs

(* Quotient and rest of the next number.                                   *)
LEMMA NextTurn ==
  ASSUME NEW n \in Nat \ {0}, NEW r \in Nat
  PROVE  /\ r % n \in 0 .. n - 1 /\ r \div n \in Nat /\ (r + 1) % n \in 0 .. n - 1
         /\ 0 % n = 0 /\ 0 \div n = 0
         /\ (r % n) + 1 < n => (r + 1) % n = (r % n) + 1 /\ (r + 1) \div n = r \div n
         /\ (r % n) + 1 = n => (r + 1) % n = 0 /\ (r + 1) \div n = (r \div n) + 1
  OBVIOUS

(* A step that gives nobody a task and leaves the round alone.             *)
LEMMA ShareKept ==
  ASSUME PoolInv, ShareInv, pc # "start",
         \A w \in Workers : Gave(w)' = Gave(w),
         round' = round, first' = first, pc' # "start",
         workers'.length \in Nat, workers'.length >= workers.length
  PROVE  ShareInv'
<1>1. first \in Nat /\ first <= workers.length /\ workers.length \in Nat
  BY TaskAssumption DEF PoolInv, RestOK, PoolShape, ShareInv
<1>2. workers'.length = first' => workers.length = first
  BY <1>1
<1>3. \A w \in 1 .. first : w \in Workers
  <2> SUFFICES ASSUME NEW w \in 1 .. first PROVE w \in Workers
    OBVIOUS
  <2>1. w - 1 \in 0 .. workers.length - 1 /\ (w - 1) + 1 = w
    BY <1>1
  <2>2. QED
    BY <2>1 DEF PoolInv, PoolShape
<1>4. \A w \in Workers : Turns(w)' = Turns(w) /\ Cardinality(Gave(w))' = Cardinality(Gave(w))
  BY DEF Turns
<1>5. QED
  BY <1>1, <1>2, <1>3, <1>4 DEF ShareInv

LEMMA ShareHandle ==
  ASSUME PoolInv, TaskInOnePlace, ShareInv, Handle
  PROVE  ShareInv'
<1>0. /\ pc = "events" /\ pc' = "events" /\ first' = first /\ box # <<>>
      /\ workers' = workers /\ workers.length \in Nat
  BY HandleKeeps DEF Handle, PoolInv, PoolShape
<1>1. CASE workers.length = 0
  <2>1. wk' = wk /\ done' = done /\ round' = round
    BY <1>1 DEF Handle
  <2>2. \A w \in Workers : Gave(w)' = Gave(w)
    BY <2>1, GaveSame DEF Holds
  <2>3. QED
    BY <1>0, <2>1, <2>2, ShareKept
<1>2. CASE workers.length # 0
  <2> DEFINE k == (round + 1) % workers.length
             t0 == Head(box)
  <2>1. /\ workers.length \in Nat \ {0} /\ round \in Nat /\ box \in Seq(Task)
        /\ k \in 0 .. workers.length - 1
    <3>1. round \in Nat /\ box \in Seq(Task)
      BY DEF PoolInv, RestOK
    <3>2. QED
      BY <1>0, <1>2, <3>1, NextTurn DEF k
  <2>2. k + 1 \in Workers /\ WorkerAt(workers.vals[k]) = k + 1
    BY <2>1, PtrIsWord DEF PoolInv, PoolShape
  <2>3. /\ round' = round + 1 /\ done' = done
        /\ Push(k + 1, t0)
    BY <1>2, <2>2 DEF Handle, NextRound
  <2>4. t0 \in Task /\ <<NoWorker, "pipe", 1>> \in Places(t0)
    <3>1. 1 \in DOMAIN box /\ box[1] = t0 /\ t0 \in Task
      BY <1>0, <2>1
    <3>2. QED
      BY <3>1, PlaceKinds
  <2>5. PICK w0 \in Workers : w0 = k + 1
    BY <2>2
  <2> HIDE DEF k, t0
  <2>6. /\ wk'[w0].job = wk[w0].job /\ wk'[w0].queue = Append(wk[w0].queue, t0)
        /\ \A w \in Workers : w # w0 => wk'[w] = wk[w]
    <3>1. Push(w0, t0)
      BY <2>3, <2>5
    <3>2. QED
      BY <2>4, <3>1, PushIs DEF PoolInv
  <2>7. \A w \in Workers : w # w0 => Gave(w)' = Gave(w)
    BY <2>3, <2>6, GaveSame DEF Holds
  <2>8. t0 \notin Gave(w0) /\ Gave(w0)' = Gave(w0) \cup {t0}
    <3>1. t0 \notin Gave(w0)
      <4>1. SUFFICES ASSUME NEW p \in Places(t0), p[1] = w0 PROVE FALSE
        BY DEF Gave
      <4>2. p = <<NoWorker, "pipe", 1>>
        BY <2>4, <4>1 DEF TaskInOnePlace
      <4>3. w0 # NoWorker
        BY TaskAssumption DEF Workers, NoWorker
      <4>4. QED
        BY <4>1, <4>2, <4>3
    <3>2. \A t \in Task : Holds(w0, t)' <=> Holds(w0, t) \/ t = t0
      <4>1. wk[w0].queue \in Seq(Task)
        BY DEF PoolInv, WorkerOK
      <4>2. \A t : (\E i \in DOMAIN Append(wk[w0].queue, t0) : Append(wk[w0].queue, t0)[i] = t)
                     <=> (\E i \in DOMAIN wk[w0].queue : wk[w0].queue[i] = t) \/ t = t0
        <5>1. PICK q \in Seq(Task) : q = wk[w0].queue
          BY <4>1
        <5>2. PICK r : r = Append(q, t0)
          OBVIOUS
        <5>3. /\ Len(q) \in Nat /\ DOMAIN q = 1 .. Len(q) /\ DOMAIN r = 1 .. Len(q) + 1
              /\ \A i \in 1 .. Len(q) : r[i] = q[i]
              /\ r[Len(q) + 1] = t0
          BY <2>4, <5>2
        <5>4. \A i \in DOMAIN r : i \in DOMAIN q \/ i = Len(q) + 1
          BY <5>3
        <5>5. DOMAIN q \subseteq DOMAIN r /\ Len(q) + 1 \in DOMAIN r
          BY <5>3
        <5>6. \A t : (\E i \in DOMAIN r : r[i] = t) <=> (\E i \in DOMAIN q : q[i] = t) \/ t = t0
          BY <5>3, <5>4, <5>5
        <5>7. QED
          BY <5>1, <5>2, <5>6
      <4>3. QED
        BY <2>3, <2>6, <4>2 DEF Holds
    <3>3. Gave(w0) \subseteq Task /\ Gave(w0)' \subseteq Task
      BY DEF Gave
    <3>4. QED
      BY <2>4, <3>1, <3>2, <3>3, GaveIs
  <2>9. /\ \A w \in Workers : IsFiniteSet(Gave(w)')
        /\ Cardinality(Gave(w0)') = Cardinality(Gave(w0)) + 1
    <3>1. IsFiniteSet(Gave(w0))
      BY DEF ShareInv
    <3>2. IsFiniteSet(Gave(w0) \cup {t0})
          /\ Cardinality(Gave(w0) \cup {t0}) = Cardinality(Gave(w0)) + 1
      BY <2>8, <3>1, FS_AddElement
    <3>3. QED
      BY <2>7, <2>8, <3>2 DEF ShareInv
  <2>10. first <= workers.length /\ first \in Nat
    BY <1>0, TaskAssumption DEF ShareInv, PoolInv, RestOK
  <2>11. ASSUME workers.length = first, NEW w \in 1 .. first
         PROVE  w \in Workers /\ Cardinality(Gave(w)') = Turns(w)'
    <3>1. w \in Workers
      <4>1. w - 1 \in 0 .. workers.length - 1 /\ (w - 1) + 1 = w
        BY <2>10, <2>11
      <4>2. QED
        BY <4>1 DEF PoolInv, PoolShape
    <3>2. PICK c : c = Cardinality(Gave(w))
      OBVIOUS
    <3>3. PICK q, m, r : q = round \div first /\ m = round % first /\ r = (round + 1) \div first
      OBVIOUS
    <3>4. c = q + (IF 2 <= w /\ w <= m + 1 THEN 1 ELSE 0)
      BY <1>0, <2>11, <3>2, <3>3 DEF ShareInv, Turns
    <3>5. /\ q \in Nat /\ m \in 0 .. first - 1
          /\ m + 1 < first => k = m + 1 /\ r = q
          /\ m + 1 = first => k = 0 /\ r = q + 1
      BY <2>1, <2>11, <3>3, NextTurn DEF k
    <3>6. Turns(w)' = r + (IF 2 <= w /\ w <= k + 1 THEN 1 ELSE 0)
      BY <1>0, <2>3, <2>11, <3>3 DEF Turns, k
    <3>7. Cardinality(Gave(w)') = IF w = k + 1 THEN c + 1 ELSE c
      BY <2>5, <2>7, <2>9, <3>1, <3>2
    <3>8. w \in Nat /\ 1 <= w /\ w <= first
      BY <2>10, <2>11
    <3> HIDE DEF k
    <3>9. CASE m + 1 < first
      <4>1. k = m + 1 /\ r = q /\ m \in Nat /\ q \in Nat
        BY <2>10, <3>5, <3>9
      <4>2. Turns(w)' = q + (IF 2 <= w /\ w <= m + 2 THEN 1 ELSE 0)
        BY <3>6, <3>8, <4>1
      <4>3. c \in Nat
        BY <3>4, <4>1
      <4>4. QED
        BY <3>1, <3>4, <3>7, <3>8, <4>1, <4>2, <4>3
    <3>10. CASE m + 1 = first
      <4>1. k = 0 /\ r = q + 1 /\ m \in Nat /\ q \in Nat
        BY <2>10, <3>5, <3>10
      <4>2. Turns(w)' = q + 1
        BY <3>6, <3>8, <4>1
      <4>3. c = IF 2 <= w THEN q + 1 ELSE q
        BY <3>4, <3>8, <3>10, <4>1
      <4>4. QED
        BY <3>1, <3>7, <3>8, <4>1, <4>2, <4>3
    <3>11. QED
      BY <2>10, <3>1, <3>5, <3>9, <3>10
  <2>12. QED
    BY <1>0, <2>9, <2>10, <2>11 DEF ShareInv
<1>3. QED
  BY <1>1, <1>2

LEMMA ShareStep == PoolInv /\ TaskInOnePlace /\ ShareInv /\ [Next]_vars => ShareInv'
<1> SUFFICES ASSUME PoolInv, TaskInOnePlace, ShareInv, [Next]_vars PROVE ShareInv'
  OBVIOUS
<1>0. /\ workers.length \in Nat /\ workers'.length \in Nat
      /\ pc \in {"start", "events", "callback"}
  BY PoolInvStep DEF PoolInv, PoolShape, RestOK
<1>1. CASE StartWorker
  <2>1. /\ pc = "start" /\ pc' = "start" /\ box' = box /\ round' = round /\ first' = first
        /\ wk' = wk /\ done' = done
    BY <1>1 DEF StartWorker, AddWorker
  <2>2. \A w \in Workers : Gave(w)' = Gave(w)
    BY <2>1, GaveSame DEF Holds
  <2>3. QED
    BY <2>1, <2>2 DEF ShareInv
<1>2. CASE Serve
  <2>1. /\ pc = "start" /\ pc' = "events" /\ round' = round /\ first' = workers.length
        /\ workers' = workers /\ wk' = wk /\ done' = done
    BY <1>2 DEF Serve
  <2>2. \A w \in Workers : Gave(w)' = {}
    <3>1. \A w \in Workers : Gave(w)' = Gave(w)
      BY <2>1, GaveSame DEF Holds
    <3>2. QED
      BY <2>1, <3>1 DEF ShareInv
  <2>3. ASSUME NEW w \in 1 .. first' PROVE w \in Workers /\ Turns(w)' = 0
    <3>1. w - 1 \in 0 .. workers.length - 1 /\ (w - 1) + 1 = w
      BY <1>0, <2>1, <2>3
    <3>2. w \in Workers
      BY <3>1 DEF PoolInv, PoolShape
    <3>3. first' \in Nat \ {0}
      BY <1>0, <2>1, <2>3
    <3>4. PICK n \in Nat \ {0} : n = first'
      BY <3>3
    <3>5. 0 % n = 0 /\ 0 \div n = 0
      BY NextTurn
    <3>6. round' = 0
      BY <2>1 DEF ShareInv
    <3>7. Turns(w)' = 0 + (IF 2 <= w /\ w <= 0 + 1 THEN 1 ELSE 0)
      BY <3>4, <3>5, <3>6 DEF Turns
    <3>8. w \in Nat
      BY <2>3
    <3>9. QED
      BY <3>2, <3>7, <3>8
  <2>4. \A w \in Workers : IsFiniteSet(Gave(w)') /\ Cardinality(Gave(w)') = 0
    BY <2>2, FS_EmptySet
  <2>5. first' <= workers'.length /\ pc' # "start"
    BY <1>0, <2>1
  <2>6. QED
    BY <2>3, <2>4, <2>5 DEF ShareInv
<1>3. CASE Handle
  BY <1>3, ShareHandle
<1>4. CASE EventsOver \/ CallbackLoop
  <2>1. /\ pc # "start" /\ pc' # "start" /\ UNCHANGED <<workers, round, first, wk, done>>
    BY <1>4 DEF EventsOver, CallbackLoop
  <2>2. \A w \in Workers : Gave(w)' = Gave(w)
    BY <2>1, GaveSame DEF Holds
  <2>3. QED
    BY <1>0, <2>1, <2>2, ShareKept
<1>5. CASE Monitor
  <2>1. /\ pc = "callback" /\ pc' = pc /\ done' = done /\ round' = round /\ first' = first
    BY <1>5 DEF Monitor
  <2>2. wk' = wk /\ workers'.length >= workers.length
    <3>1. CASE LoadKills
      BY <1>0, <1>5, <3>1 DEF Monitor
    <3>2. CASE ~ LoadKills
      <4>1. AddWorker \/ DelWorker \/ UNCHANGED <<workers, wk>>
        BY <1>5, <3>2 DEF Monitor
      <4>2. AddWorker => workers'.length >= workers.length
        BY <1>0, AddWorkerKeeps
      <4>3. DelWorker => workers'.length = workers.length
        <5>1. CASE UNCHANGED workers
          BY <5>1
        <5>2. ASSUME NEW i, workers' = [workers EXCEPT !.vals = [@ EXCEPT ![i + 2] = PASSIVE]]
              PROVE  workers'.length = workers.length
          BY <5>2 DEF PoolInv, PoolShape
        <5>3. QED
          BY <5>1, <5>2 DEF DelWorker
      <4>4. wk' = wk
        BY <4>1 DEF AddWorker, DelWorker
      <4>5. QED
        BY <1>0, <4>1, <4>2, <4>3, <4>4
    <3>3. QED
      BY <3>1, <3>2
  <2>3. \A w \in Workers : Gave(w)' = Gave(w)
    BY <2>1, <2>2, GaveSame DEF Holds
  <2>4. QED
    BY <1>0, <2>1, <2>2, <2>3, ShareKept
<1>6. ASSUME NEW t \in Task, Dispatch(t) PROVE ShareInv'
  <2>1. /\ pc # "start" /\ pc' # "start" /\ UNCHANGED <<workers, round, first, wk, done>>
    BY <1>6 DEF Dispatch
  <2>2. \A w \in Workers : Gave(w)' = Gave(w)
    BY <2>1, GaveSame DEF Holds
  <2>3. QED
    BY <1>0, <2>1, <2>2, ShareKept
<1>7. ASSUME NEW w \in Workers, Begin(w) \/ Take(w) \/ Pop(w) \/ PopNothing(w) \/ Run(w)
      PROVE  ShareInv'
  <2>1. UNCHANGED <<workers, round, first, pc, box>>
    BY <1>7 DEF Begin, Take, Pop, PopNothing, Run, WorkerStep
  <2>2. \A v \in Workers : Gave(v)' = Gave(v)
    <3>1. CASE Begin(w) \/ Take(w) \/ PopNothing(w)
      <4>1. /\ done' = done
            /\ \A v \in Workers : wk'[v].queue = wk[v].queue /\ wk'[v].job = wk[v].job
        <5>1. wk[w].status # PASSIVE
          BY DEF PoolInv, WorkerOK, ACTIVE, PASSIVE
        <5>2. CASE Begin(w)
          BY <5>2 DEF Begin, PoolInv, WorkerOK
        <5>3. CASE PopNothing(w)
          BY <5>3 DEF PopNothing, PoolInv, WorkerOK
        <5>3a. CASE Take(w)
          BY <5>3a DEF Take, PoolInv, WorkerOK
        <5>4. QED
          BY <3>1, <5>2, <5>3, <5>3a
      <4>2. QED
        BY <4>1, GaveSame DEF Holds
    <3>2. CASE Pop(w)
      <4>1. PICK i0 \in DOMAIN wk[w].queue :
              /\ wk[w].job = NoTask
              /\ wk'[w].job = wk[w].queue[i0] /\ wk'[w].queue = RemoveAt(wk[w].queue, i0)
              /\ \A v \in Workers : v # w => wk'[v] = wk[v]
        BY <3>2, PopIs DEF PoolInv
      <4>1a. done' = done
        BY <3>2 DEF Pop
      <4>2. PICK q, r, h : q = wk[w].queue /\ r = wk'[w].queue /\ h = wk'[w].job
        OBVIOUS
      <4>3. q \in Seq(Task) /\ i0 \in DOMAIN q /\ r = RemoveAt(q, i0) /\ h = q[i0]
        BY <4>1, <4>2 DEF PoolInv, WorkerOK
      <4>4. /\ Len(q) \in Nat /\ i0 \in 1 .. Len(q)
            /\ DOMAIN q = 1 .. Len(q) /\ DOMAIN r = 1 .. Len(q) - 1
            /\ \A i \in 1 .. Len(q) - 1 : r[i] = IF i < i0 THEN q[i] ELSE q[i + 1]
        BY <4>3, Removed
      <4>5. \A i \in DOMAIN q : i = i0 \/ \E j \in DOMAIN r : r[j] = q[i]
        <5> TAKE i \in DOMAIN q
        <5>1. CASE i < i0
          <6>1. i \in 1 .. Len(q) - 1
            BY <4>4, <5>1
          <6>2. QED
            BY <4>4, <5>1, <6>1
        <5>2. CASE i > i0
          <6>1. i - 1 \in 1 .. Len(q) - 1 /\ (i - 1) + 1 = i /\ ~ (i - 1 < i0)
            BY <4>4, <5>2
          <6>2. r[i - 1] = q[i]
            BY <4>4, <6>1
          <6>3. QED
            BY <4>4, <6>1, <6>2
        <5>3. QED
          BY <4>4, <5>1, <5>2
      <4>6. \A i \in DOMAIN r : \E j \in DOMAIN q : r[i] = q[j]
        <5> TAKE i \in DOMAIN r
        <5>1. i \in 1 .. Len(q) /\ i + 1 \in 1 .. Len(q)
          BY <4>4
        <5>2. QED
          BY <4>4, <5>1
      <4>7. \A t \in Task : Holds(w, t)' <=> Holds(w, t)
        <5> TAKE t \in Task
        <5>1. (\E i \in DOMAIN q : q[i] = t) <=> t = h \/ \E i \in DOMAIN r : r[i] = t
          BY <4>3, <4>5, <4>6
        <5>2. t # wk[w].job
          BY <4>1, TaskAssumption
        <5>3. Holds(w, t) <=> (\E i \in DOMAIN q : q[i] = t) \/ done[t] = w
          BY <4>2, <5>2 DEF Holds
        <5>4. Holds(w, t)' <=> (\E i \in DOMAIN r : r[i] = t) \/ h = t \/ done[t] = w
          BY <4>1a, <4>2 DEF Holds
        <5>5. QED
          BY <5>1, <5>3, <5>4
      <4>8. \A v \in Workers : v # w => \A t \in Task : Holds(v, t)' <=> Holds(v, t)
        BY <4>1, <4>1a DEF Holds
      <4>9. QED
        BY <4>7, <4>8, GaveSame
    <3>3. CASE Run(w)
      <4>1. PICK t0 : t0 = wk[w].job
        OBVIOUS
      <4>2. /\ t0 \in Task
            /\ \A t \in Task : t # t0 => done'[t] = done[t]
            /\ done'[t0] = w
            /\ \A v \in Workers : v # w => wk'[v].queue = wk[v].queue /\ wk'[v].job = wk[v].job
            /\ wk'[w].job = NoTask /\ wk'[w].queue = wk[w].queue
        BY <3>3, <4>1 DEF Run, WorkerStep, PoolInv, WorkerOK, RestOK
      <4>3. \A v \in Workers : done[t0] # v
        <5>1. SUFFICES ASSUME NEW v \in Workers, done[t0] = v PROVE FALSE
          OBVIOUS
        <5>2. <<w, "job", 0>> \in Places(t0) /\ <<v, "run", 0>> \in Places(t0)
          BY <4>1, <5>1, PlaceKinds
        <5>3. <<w, "job", 0>> = <<v, "run", 0>>
          BY <4>2, <5>2 DEF TaskInOnePlace
        <5>4. QED
          BY <5>3
      <4>4. \A t \in Task : t # NoTask
        BY TaskAssumption
      <4>5. \A t \in Task : Holds(w, t)' <=> Holds(w, t)
        <5> TAKE t \in Task
        <5>1. CASE t = t0
          BY <4>1, <4>2, <5>1 DEF Holds
        <5>2. CASE t # t0
          BY <4>1, <4>2, <4>4, <5>2 DEF Holds
        <5>3. QED
          BY <5>1, <5>2
      <4>6. \A v \in Workers : v # w => \A t \in Task : Holds(v, t)' <=> Holds(v, t)
        <5> SUFFICES ASSUME NEW v \in Workers, v # w, NEW t \in Task
            PROVE  Holds(v, t)' <=> Holds(v, t)
          OBVIOUS
        <5>1. CASE t = t0
          BY <4>2, <4>3, <5>1 DEF Holds
        <5>2. CASE t # t0
          BY <4>2, <5>2 DEF Holds
        <5>3. QED
          BY <5>1, <5>2
      <4>7. QED
        BY <4>5, <4>6, GaveSame
    <3>4. QED
      BY <1>7, <3>1, <3>2, <3>3
  <2>3. CASE pc = "start"
    BY <2>1, <2>2, <2>3 DEF ShareInv
  <2>4. CASE pc # "start"
    BY <1>0, <2>1, <2>2, <2>4, ShareKept
  <2>5. QED
    BY <2>3, <2>4
<1>8. CASE UNCHANGED vars
  <2>1. UNCHANGED <<workers, round, first, pc, box, wk, done>>
    BY <1>8 DEF vars
  <2>2. \A w \in Workers : Gave(w)' = Gave(w)
    BY <2>1, GaveSame DEF Holds
  <2>3. CASE pc = "start"
    BY <2>1, <2>2, <2>3 DEF ShareInv
  <2>4. CASE pc # "start"
    BY <1>0, <2>1, <2>2, <2>4, ShareKept
  <2>5. QED
    BY <2>3, <2>4
<1>9. QED
  BY <1>1, <1>2, <1>3, <1>4, <1>5, <1>6, <1>7, <1>8 DEF Next

(* While the pool is the one the loop began with, no worker was given two  *)
(* tasks more than another: the round robin of atm_task.c:164 has no slot  *)
(* it skips or meets twice in a turn, for any number of workers.           *)
THEOREM SharesAlwaysEven == Spec => []SharesEven
<1>1. Init => ShareInv
  <2> SUFFICES ASSUME Init PROVE ShareInv
    OBVIOUS
  <2>1. /\ pc = "start" /\ box = <<>> /\ round = 0 /\ first = 0
        /\ \A w \in Workers : wk[w].queue = <<>> /\ wk[w].job = NoTask
        /\ \A t \in Task : done[t] = NoWorker
    BY DEF Init, NewWorker
  <2>2. ASSUME NEW w \in Workers PROVE Gave(w) = {}
    <3>1. w # NoWorker /\ DOMAIN << >> = {} /\ \A t \in Task : t # NoTask
      BY TaskAssumption DEF NoWorker, Workers
    <3>2. \A t \in Task : ~ Holds(w, t)
      BY <2>1, <3>1 DEF Holds
    <3>3. Gave(w) \subseteq Task
      BY DEF Gave
    <3>4. QED
      BY <3>2, <3>3, GaveIs
  <2>3. QED
    BY <2>1, <2>2, FS_EmptySet DEF ShareInv
<1>2. PoolInv /\ ShareInv => SharesEven
  <2> SUFFICES ASSUME PoolInv, ShareInv, workers.length = first,
                      NEW v \in Workers, NEW w \in Workers, InPool(v), InPool(w)
      PROVE  Cardinality(Gave(v)) <= Cardinality(Gave(w)) + 1
    BY DEF SharesEven, Gave
  <2>1. workers.length \in Nat
    BY DEF PoolInv, PoolShape
  <2>2. ASSUME NEW u \in Workers, InPool(u) PROVE u \in 1 .. first
    <3>1. PICK i \in 0 .. workers.length - 1 : workers.vals[i] = Ptr(u)
      BY <2>2 DEF InPool, Slots
    <3>2. i + 1 \in Workers /\ Ptr(i + 1) = Ptr(u)
      BY <3>1 DEF PoolInv, PoolShape
    <3>3. i + 1 = u
      BY <3>2, PtrIsWord
    <3>4. QED
      BY <2>1, <3>1, <3>3
  <2>3. v \in 1 .. first /\ w \in 1 .. first
    BY <2>2
  <2>4. first \in Nat \ {0} /\ round \in Nat
    BY <2>1, <2>3 DEF PoolInv, RestOK
  <2>5. pc # "start"
    BY <2>4 DEF ShareInv
  <2>6. Cardinality(Gave(v)) = Turns(v) /\ Cardinality(Gave(w)) = Turns(w)
    BY <2>3, <2>5 DEF ShareInv
  <2>7. PICK q \in Nat : q = round \div first
    BY <2>4, NextTurn
  <2>8. Turns(v) \in {q, q + 1} /\ Turns(w) \in {q, q + 1}
    BY <2>7 DEF Turns
  <2>9. QED
    BY <2>6, <2>7, <2>8
<1>3. Spec => []TaskInOnePlace
  BY TaskAlwaysInOnePlace
<1>4. Spec => []ShareInv
  BY <1>1, <1>3, ShareStep, PoolInvAlways, PTL DEF Spec
<1>5. QED
  BY <1>2, <1>4, PoolInvAlways, PTL
=============================================================================
