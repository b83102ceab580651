---------------------------- MODULE AtmConnProofs ----------------------------
(***************************************************************************)
(* Proofs about the life of the connections, for any number of connections *)
(* and workers, with clients that close or reset when they like.           *)
(***************************************************************************)
EXTENDS AtmConn, FiniteSetTheorems, TLAPS

(* The records have their fields.                                          *)
ConnFields(r) ==
    r = [mem |-> r.mem, active |-> r.active, events |-> r.events,
         onRead |-> r.onRead, onWrite |-> r.onWrite, writeReqs |-> r.writeReqs,
         rbuf |-> r.rbuf, wbuf |-> r.wbuf]

ThreadFields(t) ==
    t = [pc |-> t.pc, c |-> t.c, flag |-> t.flag, wreqs |-> t.wreqs, wrmn |-> t.wrmn]

ConnOK ==
    /\ conn = [c \in Conns |-> conn[c]]
    /\ \A c \in Conns :
         /\ ConnFields(conn[c])
         /\ conn[c].mem \in {"none", "live", "freed"} /\ conn[c].active \in BOOLEAN

ThreadOK ==
    /\ th = [w \in Workers |-> th[w]]
    /\ \A w \in Workers : ThreadFields(th[w]) /\ th[w].flag \in {"onRead", "onWrite"}

(* The inductive invariant: what the list holds is decided by mem and      *)
(* active alone, so only the steps that change these can disturb it.       *)
ListInv ==
    /\ ConnOK
    /\ ThreadOK
    /\ freeList \in [Conns -> Nat]
    /\ ListedIffInactive

(* A step that leaves mem and active of every connection alone.            *)
Kept ==
    /\ conn' = [c \in Conns |-> conn'[c]]
    /\ \A c \in Conns : /\ ConnFields(conn'[c])
                        /\ conn'[c].mem = conn[c].mem
                        /\ conn'[c].active = conn[c].active

LEMMA KeptKeeps ==
  ASSUME ListInv, Kept, ThreadOK', freeList' = freeList
  PROVE  ListInv'
<1>1. ConnOK'
  BY DEF ListInv, Kept, ConnOK
<1>2. ListedIffInactive'
  BY DEF ListInv, Kept, ListedIffInactive, Live
<1>3. QED
  BY <1>1, <1>2 DEF ListInv

LEMMA SameKept ==
  ASSUME ListInv, conn' = conn
  PROVE  Kept
  BY DEF ListInv, ConnOK, Kept

(* One connection is updated, in fields other than these two.              *)
LEMMA UpdateKept ==
  ASSUME ListInv, NEW c \in Conns, NEW r, ConnFields(r),
         r.mem = conn[c].mem, r.active = conn[c].active,
         conn' = [conn EXCEPT ![c] = r]
  PROVE  Kept
<1>1. conn = [d \in Conns |-> conn[d]] /\ \A d \in Conns : ConnFields(conn[d])
  BY DEF ListInv, ConnOK
<1>2. \A d \in Conns : conn'[d] = IF d = c THEN r ELSE conn[d]
  BY <1>1
<1>3. conn' = [d \in Conns |-> conn'[d]]
  BY <1>1
<1>4. QED
  BY <1>1, <1>2, <1>3 DEF Kept

(* One thread is updated.                                                  *)
LEMMA ThreadUpdate ==
  ASSUME ListInv, NEW w \in Workers, NEW t, ThreadFields(t), t.flag \in {"onRead", "onWrite"},
         th' = [th EXCEPT ![w] = t]
  PROVE  ThreadOK'
<1>1. th = [v \in Workers |-> th[v]] /\ ThreadOK
  BY DEF ListInv, ThreadOK
<1>2. \A v \in Workers : th'[v] = IF v = w THEN t ELSE th[v]
  BY <1>1
<1>3. th' = [v \in Workers |-> th'[v]]
  BY <1>1
<1>4. QED
  BY <1>1, <1>2, <1>3 DEF ThreadOK

LEMMA SameThreads ==
  ASSUME ListInv, th' = th
  PROVE  ThreadOK'
  BY DEF ListInv, ThreadOK

LEMMA Moves ==
  ASSUME ListInv, NEW w \in Workers
  PROVE  /\ \A to : To(w, to) => ThreadOK'
         /\ Done(w) => ThreadOK'
         /\ \A f \in {"onRead", "onWrite"} : CallInactive(w, f) => ThreadOK'
<1>1. /\ th = [v \in Workers |-> th[v]] /\ ThreadFields(th[w])
      /\ th[w].flag \in {"onRead", "onWrite"}
  BY DEF ListInv, ThreadOK
<1>2. ASSUME NEW to, To(w, to) PROVE ThreadOK'
  <2> DEFINE t == [th[w] EXCEPT !.pc = to]
  <2>1. th' = [th EXCEPT ![w] = t]
    BY <1>1, <1>2 DEF To
  <2>2. ThreadFields(t) /\ t.flag = th[w].flag
    BY <1>1 DEF ThreadFields
  <2> HIDE DEF t
  <2>3. QED
    BY <1>1, <2>1, <2>2, ThreadUpdate
<1>3. ASSUME Done(w) PROVE ThreadOK'
  <2>1. ThreadFields(IdleThread) /\ IdleThread.flag = "onRead"
    BY DEF IdleThread, ThreadFields
  <2>2. QED
    BY <1>3, <2>1, ThreadUpdate DEF Done
<1>4. ASSUME NEW f \in {"onRead", "onWrite"}, CallInactive(w, f) PROVE ThreadOK'
  <2> DEFINE s == [th[w] EXCEPT !.pc = "inact_check"]
             t == [s EXCEPT !.flag = f]
  <2>1. th' = [th EXCEPT ![w] = t]
    BY <1>1, <1>4 DEF CallInactive
  <2>2. ThreadFields(s)
    BY <1>1 DEF ThreadFields
  <2> HIDE DEF s
  <2>3. ThreadFields(t) /\ t.flag = f
    BY <2>2 DEF ThreadFields
  <2> HIDE DEF t
  <2>4. QED
    BY <1>1, <2>1, <2>3, ThreadUpdate
<1>5. QED
  BY <1>2, <1>3, <1>4

(* What an update of one field leaves alone.                               *)
Alike(r, s) == ConnFields(r) /\ r.mem = s.mem /\ r.active = s.active

LEMMA FieldUpdate ==
  ASSUME NEW s, ConnFields(s), NEW v
  PROVE  /\ Alike([s EXCEPT !.events = v], s)
         /\ Alike([s EXCEPT !.onRead = v], s)
         /\ Alike([s EXCEPT !.onWrite = v], s)
         /\ Alike([s EXCEPT !.writeReqs = v], s)
         /\ Alike([s EXCEPT !.rbuf = v], s)
         /\ Alike([s EXCEPT !.wbuf = v], s)
  BY DEF ConnFields, Alike

LEMMA ActiveUpdate ==
  ASSUME NEW s, ConnFields(s), NEW v
  PROVE  /\ ConnFields([s EXCEPT !.active = v])
         /\ [s EXCEPT !.active = v].active = v
         /\ [s EXCEPT !.active = v].mem = s.mem
  BY DEF ConnFields

LEMMA MemUpdate ==
  ASSUME NEW s, ConnFields(s), NEW v
  PROVE  /\ ConnFields([s EXCEPT !.mem = v])
         /\ [s EXCEPT !.mem = v].active = s.active
         /\ [s EXCEPT !.mem = v].mem = v
  BY DEF ConnFields

(* The steps of a socket and its client.                                   *)
LEMMA ClientKeeps ==
  ASSUME ListInv, NEW c \in Conns, Client(c)
  PROVE  ListInv'
<1>1. conn' = conn /\ th' = th /\ freeList' = freeList
  BY DEF Client, ClientSend, ClientRecv, ClientClose, ClientReset, SockStep
<1>2. QED
  BY <1>1, SameKept, SameThreads, KeptKeeps

LEMMA AcceptKeeps ==
  ASSUME ListInv, NEW c \in Conns, Accept(c)
  PROVE  ListInv'
<1>1. /\ conn = [d \in Conns |-> conn[d]] /\ ConnOK /\ ListedIffInactive
      /\ conn[c].mem = "none" /\ conn' = [conn EXCEPT ![c] = Opened]
      /\ th' = th /\ freeList' = freeList
  BY DEF ListInv, ConnOK, Accept
<1>2. ConnFields(Opened) /\ Opened.mem = "live" /\ Opened.active = TRUE
  <2> DEFINE s == [NewConn EXCEPT !.mem = "live"]
             t == [s EXCEPT !.active = TRUE]
  <2>1. ConnFields(NewConn)
    BY DEF NewConn, ConnFields
  <2>2. ConnFields(s) /\ s.mem = "live"
    BY <2>1, MemUpdate
  <2> HIDE DEF s
  <2>3. ConnFields(t) /\ t.mem = "live" /\ t.active = TRUE
    BY <2>2, ActiveUpdate, Zenon
  <2> HIDE DEF t
  <2>4. Alike([t EXCEPT !.events = {READ}], t)
    BY <2>3, FieldUpdate
  <2>5. Opened = [t EXCEPT !.events = {READ}]
    BY DEF Opened, t, s
  <2>6. QED
    BY <2>3, <2>4, <2>5 DEF Alike
<1>3. \A d \in Conns : conn'[d] = IF d = c THEN Opened ELSE conn[d]
  BY <1>1
<1>4. conn' = [d \in Conns |-> conn'[d]]
  BY <1>1
<1>5. ConnOK'
  BY <1>1, <1>2, <1>3, <1>4 DEF ConnOK
<1>6. ListedIffInactive'
  BY <1>1, <1>2, <1>3 DEF ListedIffInactive, Live
<1>7. QED
  BY <1>1, <1>5, <1>6, SameThreads DEF ListInv

LEMMA HandleOpsKeeps ==
  ASSUME ListInv, HandleOps
  PROVE  ListInv'
<1> DEFINE masks(c) == {eops[i].mask : i \in {j \in DOMAIN eops : eops[j].c = c}}
           r(c) == [conn[c] EXCEPT !.events = @ \cup masks(c)]
<1>1. conn' = [c \in Conns |-> r(c)] /\ th' = th /\ freeList' = freeList
  BY DEF HandleOps
<1>2. ASSUME NEW c \in Conns
      PROVE  ConnFields(r(c)) /\ r(c).mem = conn[c].mem /\ r(c).active = conn[c].active
  <2> HIDE DEF masks
  <2>1. ConnFields(conn[c])
    BY DEF ListInv, ConnOK
  <2>2. Alike(r(c), conn[c])
    BY <2>1, FieldUpdate
  <2>3. QED
    BY <2>2, Zenon DEF Alike
<1> HIDE DEF r
<1>3. Kept
  BY <1>1, <1>2 DEF Kept
<1>4. QED
  BY <1>1, <1>3, SameThreads, KeptKeeps

(* An entry of the batch that starts a task sets a flag of the connection. *)
LEMMA HandleKeeps ==
  ASSUME ListInv, NEW c \in Conns, HandleRead(c) \/ HandleWrite(c)
  PROVE  ListInv'
<1>1. conn = [d \in Conns |-> conn[d]] /\ ConnFields(conn[c])
  BY DEF ListInv, ConnOK
<1>2. th' = th /\ freeList' = freeList
  BY DEF HandleRead, HandleWrite
<1>3. ASSUME HandleRead(c) PROVE Kept
  <2> DEFINE s == [conn[c] EXCEPT !.events = @ \ {READ}]
             r == [s EXCEPT !.onRead = TRUE]
  <2>1. conn' = [conn EXCEPT ![c] = r]
    BY <1>1, <1>3 DEF HandleRead
  <2>2. Alike(s, conn[c])
    BY <1>1, FieldUpdate
  <2> HIDE DEF s
  <2>3. Alike(r, s)
    BY <2>2, FieldUpdate, Zenon DEF Alike
  <2> HIDE DEF r
  <2>4. QED
    BY <2>1, <2>2, <2>3, UpdateKept DEF Alike
<1>4. ASSUME HandleWrite(c) PROVE Kept
  <2> DEFINE s == [conn[c] EXCEPT !.events = @ \ {WRITE}]
             r == [s EXCEPT !.onWrite = TRUE]
  <2>1. conn' = [conn EXCEPT ![c] = r]
    BY <1>1, <1>4 DEF HandleWrite
  <2>2. Alike(s, conn[c])
    BY <1>1, FieldUpdate
  <2> HIDE DEF s
  <2>3. Alike(r, s)
    BY <2>2, FieldUpdate, Zenon DEF Alike
  <2> HIDE DEF r
  <2>4. QED
    BY <2>1, <2>2, <2>3, UpdateKept DEF Alike
<1>5. QED
  BY <1>2, <1>3, <1>4, SameThreads, KeptKeeps

LEMMA LoopKeeps ==
  ASSUME ListInv, Loop
  PROVE  ListInv'
<1>1. CASE EpollWait
  BY <1>1, SameKept, SameThreads, KeptKeeps DEF EpollWait
<1>2. CASE HandleOps
  BY <1>2, HandleOpsKeeps
<1>3. ASSUME NEW c \in Conns, SkipEntry(c) PROVE ListInv'
  BY <1>3, SameKept, SameThreads, KeptKeeps DEF SkipEntry
<1>4. QED
  BY <1>1, <1>2, <1>3, AcceptKeeps, HandleKeeps DEF Loop

(* What a worker does to its connection, whichever task it runs.           *)
LEMMA OneField ==
  ASSUME ListInv, NEW c \in Conns, NEW v
  PROVE  /\ conn' = [conn EXCEPT ![c].onRead = v] => Kept
         /\ conn' = [conn EXCEPT ![c].onWrite = v] => Kept
         /\ conn' = [conn EXCEPT ![c].writeReqs = v] => Kept
         /\ conn' = [conn EXCEPT ![c].rbuf = v] => Kept
         /\ conn' = [conn EXCEPT ![c].wbuf = v] => Kept
<1>1. conn = [d \in Conns |-> conn[d]] /\ ConnFields(conn[c])
  BY DEF ListInv, ConnOK
<1>2. ASSUME NEW r, Alike(r, conn[c]), conn' = [conn EXCEPT ![c] = r] PROVE Kept
  BY <1>2, UpdateKept DEF Alike
<1>3. QED
  BY <1>1, <1>2, FieldUpdate

LEMMA BranchKeeps ==
  ASSUME ListInv, NEW w \in Workers, NEW to, Branch(w, to)
  PROVE  ListInv'
  BY Moves, SameKept, KeptKeeps DEF Branch

LEMMA TakeKeeps ==
  ASSUME ListInv, NEW w \in Workers, WorkerTake(w)
  PROVE  ListInv'
<1>1. /\ th = [v \in Workers |-> th[v]] /\ ThreadFields(th[w])
      /\ th[w].flag \in {"onRead", "onWrite"}
  BY DEF ListInv, ThreadOK
<1> DEFINE p == TaskStart(Head(wq[w]).kind)
           d == Head(wq[w]).c
           s == [th[w] EXCEPT !.pc = p]
           t == [s EXCEPT !.c = d]
<1>2. th' = [th EXCEPT ![w] = t] /\ conn' = conn /\ freeList' = freeList
  BY <1>1 DEF WorkerTake
<1> HIDE DEF p, d
<1>3. ThreadFields(s) /\ s.flag = th[w].flag
  BY <1>1 DEF ThreadFields
<1> HIDE DEF s
<1>4. ThreadFields(t) /\ t.flag = s.flag
  BY <1>3 DEF ThreadFields
<1> HIDE DEF t
<1>5. ThreadOK'
  BY <1>1, <1>2, <1>3, <1>4, ThreadUpdate
<1>6. QED
  BY <1>2, <1>5, SameKept, KeptKeeps

LEMMA FreeCheckKeeps ==
  ASSUME ListInv, NEW w \in Workers, NEW c \in Conns,
         NEW flag \in {"onRead", "onWrite"}, FreeCheck(w, c, flag)
  PROVE  ListInv'
<1>1. /\ conn' = [conn EXCEPT ![c][flag] = FALSE] /\ Done(w) /\ freeList' = freeList
  BY DEF FreeCheck
<1>2. CASE flag = "onRead"
  <2>1. conn' = [conn EXCEPT ![c].onRead = FALSE]
    BY <1>1, <1>2
  <2>2. QED
    BY <1>1, <2>1, OneField, Moves, KeptKeeps
<1>3. CASE flag = "onWrite"
  <2>1. conn' = [conn EXCEPT ![c].onWrite = FALSE]
    BY <1>1, <1>3
  <2>2. QED
    BY <1>1, <2>1, OneField, Moves, KeptKeeps
<1>4. QED
  BY <1>2, <1>3

LEMMA ReadTaskKeeps ==
  ASSUME ListInv, NEW w \in Workers, NEW c \in Conns, ReadTask(w, c)
  PROVE  ListInv'
<1>1. CASE ReadActive(w, c) \/ ReadRestore(w, c)
  BY <1>1, BranchKeeps DEF ReadActive, ReadRestore
<1>2. CASE ReadRaw(w, c)
  <2>1. freeList' = freeList
    BY <1>2 DEF ReadRaw
  <2>2. ThreadOK'
    BY <1>2, Moves DEF ReadRaw
  <2>3. Kept
    <3>1. CASE conn' = [conn EXCEPT ![c].rbuf = @ + sock[c].in]
      <4>1. conn' = [conn EXCEPT ![c].rbuf = conn[c].rbuf + sock[c].in]
        BY <3>1
      <4>2. QED
        BY <4>1, OneField
    <3>2. CASE conn' = conn
      BY <3>2, SameKept
    <3>3. QED
      BY <1>2, <3>1, <3>2 DEF ReadRaw
  <2>4. QED
    BY <2>1, <2>2, <2>3, KeptKeeps
<1>3. CASE SessProcess(w, c)
  <2>1. freeList' = freeList /\ ThreadOK'
    BY <1>3, Moves DEF SessProcess
  <2>2. Kept
    <3>1. CASE conn' = [conn EXCEPT ![c] = Answered(c)]
      <4> DEFINE v == conn[c].rbuf - 1
                 s == [conn[c] EXCEPT !.rbuf = v]
                 u == s.wbuf + 1
                 r == [s EXCEPT !.wbuf = u]
      <4>1. Answered(c) = r /\ ConnFields(conn[c])
        BY DEF ListInv, ConnOK, Answered
      <4> HIDE DEF v, u
      <4>2. Alike(s, conn[c])
        BY <4>1, FieldUpdate
      <4> HIDE DEF s
      <4>3. Alike(r, s)
        BY <4>2, FieldUpdate DEF Alike
      <4> HIDE DEF r
      <4>4. QED
        BY <3>1, <4>1, <4>2, <4>3, UpdateKept DEF Alike
    <3>2. CASE conn' = conn
      BY <3>2, SameKept
    <3>3. QED
      BY <1>3, <3>1, <3>2 DEF SessProcess
  <2>3. QED
    BY <2>1, <2>2, KeptKeeps
<1>4. CASE WriteNotify(w, c)
  <2>1. freeList' = freeList /\ ThreadOK'
    BY <1>4, Moves DEF WriteNotify
  <2>2. Kept
    <3>1. CASE conn' = [conn EXCEPT ![c].writeReqs = @ + 1]
      <4>1. conn' = [conn EXCEPT ![c].writeReqs = conn[c].writeReqs + 1]
        BY <3>1
      <4>2. QED
        BY <4>1, OneField
    <3>2. CASE conn' = conn
      BY <3>2, SameKept
    <3>3. QED
      BY <1>4, <3>1, <3>2 DEF WriteNotify
  <2>3. QED
    BY <2>1, <2>2, KeptKeeps
<1>5. CASE ReadAdd(w, c)
  BY <1>5, Moves, SameKept, KeptKeeps DEF ReadAdd
<1>6. CASE ReadCheck(w, c)
  BY <1>6, FreeCheckKeeps DEF ReadCheck
<1>7. QED
  BY <1>1, <1>2, <1>3, <1>4, <1>5, <1>6 DEF ReadTask

LEMMA WriteTaskKeeps ==
  ASSUME ListInv, NEW w \in Workers, NEW c \in Conns, WriteTask(w, c)
  PROVE  ListInv'
<1>1. CASE WriteActive(w, c)
  BY <1>1, BranchKeeps DEF WriteActive
<1>2. CASE WriteReqs(w, c) \/ WriteRmn(w, c)
  <2>1. conn' = conn /\ freeList' = freeList
    BY <1>2 DEF WriteReqs, WriteRmn
  <2>2. ThreadOK'
    <3>1. /\ th = [v \in Workers |-> th[v]] /\ ThreadFields(th[w])
          /\ th[w].flag \in {"onRead", "onWrite"}
      BY DEF ListInv, ThreadOK
    <3>2. CASE WriteReqs(w, c)
      <4> DEFINE v == conn[c].writeReqs
                 s == [th[w] EXCEPT !.pc = "w_raw"]
                 t == [s EXCEPT !.wreqs = v]
      <4>1. th' = [th EXCEPT ![w] = t]
        BY <3>1, <3>2 DEF WriteReqs
      <4> HIDE DEF v
      <4>2. ThreadFields(s) /\ s.flag = th[w].flag
        BY <3>1 DEF ThreadFields
      <4> HIDE DEF s
      <4>3. ThreadFields(t) /\ t.flag = s.flag
        BY <4>2 DEF ThreadFields
      <4> HIDE DEF t
      <4>4. QED
        BY <3>1, <4>1, <4>2, <4>3, ThreadUpdate
    <3>3. CASE WriteRmn(w, c)
      <4> DEFINE v == conn[c].wbuf
                 s == [th[w] EXCEPT !.pc = "w_inter"]
                 t == [s EXCEPT !.wrmn = v]
      <4>1. th' = [th EXCEPT ![w] = t]
        BY <3>1, <3>3 DEF WriteRmn
      <4> HIDE DEF v
      <4>2. ThreadFields(s) /\ s.flag = th[w].flag
        BY <3>1 DEF ThreadFields
      <4> HIDE DEF s
      <4>3. ThreadFields(t) /\ t.flag = s.flag
        BY <4>2 DEF ThreadFields
      <4> HIDE DEF t
      <4>4. QED
        BY <3>1, <4>1, <4>2, <4>3, ThreadUpdate
    <3>4. QED
      BY <1>2, <3>2, <3>3
  <2>3. QED
    BY <2>1, <2>2, SameKept, KeptKeeps
<1>3. CASE WriteRaw(w, c)
  <2>1. freeList' = freeList /\ ThreadOK'
    BY <1>3, Moves DEF WriteRaw
  <2>2. Kept
    <3>1. ASSUME NEW n, conn' = [conn EXCEPT ![c].wbuf = @ - n] PROVE Kept
      <4>1. conn' = [conn EXCEPT ![c].wbuf = conn[c].wbuf - n]
        BY <3>1
      <4>2. QED
        BY <4>1, OneField
    <3>2. CASE conn' = conn
      BY <3>2, SameKept
    <3>3. QED
      BY <1>3, <3>1, <3>2 DEF WriteRaw
  <2>3. QED
    BY <2>1, <2>2, KeptKeeps
<1>4. CASE InterWrite(w, c)
  BY <1>4, Moves, OneField, KeptKeeps DEF InterWrite
<1>5. CASE YieldWrite(w, c)
  <2>1. freeList' = freeList /\ ThreadOK'
    BY <1>5, Moves DEF YieldWrite
  <2>2. Kept
    BY <1>5, OneField, SameKept DEF YieldWrite
  <2>3. QED
    BY <2>1, <2>2, KeptKeeps
<1>6. CASE WriteCheck(w, c)
  BY <1>6, FreeCheckKeeps DEF WriteCheck
<1>7. QED
  BY <1>1, <1>2, <1>3, <1>4, <1>5, <1>6 DEF WriteTask

(* The step that lists a connection: active is looked at again under the   *)
(* mutex, so it was not in the list.                                       *)
LEMMA InactiveLockKeeps ==
  ASSUME ListInv, NEW w \in Workers, NEW c \in Conns, InactiveLock(w, c)
  PROVE  ListInv'
<1>1. /\ conn = [d \in Conns |-> conn[d]] /\ \A d \in Conns : ConnFields(conn[d])
      /\ th[w].flag \in {"onRead", "onWrite"} /\ freeList \in [Conns -> Nat]
      /\ ConnOK /\ ListedIffInactive
  BY DEF ListInv, ConnOK, ThreadOK
<1>2. ThreadOK'
  BY Moves DEF InactiveLock
<1>3. CASE conn' = conn /\ freeList' = freeList
  BY <1>2, <1>3, SameKept, KeptKeeps
<1>4. CASE /\ conn[c].active
           /\ conn' = [conn EXCEPT ![c].active = FALSE, ![c][th[w].flag] = FALSE]
           /\ freeList' = [freeList EXCEPT ![c] = @ + 1]
  <2> DEFINE s == [conn[c] EXCEPT !.active = FALSE]
             r == [s EXCEPT ![th[w].flag] = FALSE]
  <2>1. conn' = [conn EXCEPT ![c] = r]
    BY <1>1, <1>4
  <2>2. ConnFields(s) /\ s.active = FALSE /\ s.mem = conn[c].mem
    BY <1>1, ActiveUpdate, Zenon
  <2> HIDE DEF s
  <2>3. Alike(r, s)
    <3>1. CASE th[w].flag = "onRead"
      BY <2>2, <3>1, FieldUpdate
    <3>2. CASE th[w].flag = "onWrite"
      BY <2>2, <3>2, FieldUpdate
    <3>3. QED
      BY <1>1, <3>1, <3>2
  <2> HIDE DEF r
  <2>4. ConnFields(r) /\ r.mem = conn[c].mem /\ r.active = FALSE
    BY <2>2, <2>3, Zenon DEF Alike
  <2>5. \A d \in Conns : conn'[d] = IF d = c THEN r ELSE conn[d]
    BY <1>1, <2>1
  <2>6. conn' = [d \in Conns |-> conn'[d]]
    BY <1>1, <2>1
  <2>7. ConnOK'
    BY <1>1, <2>4, <2>5, <2>6 DEF ConnOK
  <2>8. Live(c)
    BY DEF InactiveLock, At
  <2>9. freeList' \in [Conns -> Nat] /\ ListedIffInactive'
    <3>1. freeList[c] = 0
      BY <1>1, <1>4, Zenon DEF ListedIffInactive
    <3>2. \A d \in Conns : freeList'[d] = IF d = c THEN 1 ELSE freeList[d]
      BY <1>1, <1>4, <3>1
    <3>3. freeList' \in [Conns -> Nat]
      BY <1>1, <1>4
    <3>4. QED
      BY <1>1, <2>4, <2>5, <2>8, <3>2, <3>3 DEF ListedIffInactive, Live
  <2>10. QED
    BY <1>2, <2>7, <2>9 DEF ListInv
<1>5. QED
  BY <1>3, <1>4 DEF InactiveLock

(* The step that empties the list: what it takes out and does not put back *)
(* is freed.                                                               *)
LEMMA FreeFuncKeeps ==
  ASSUME ListInv, NEW w \in Workers, FreeFunc(w)
  PROVE  ListInv'
<1>1. /\ \A d \in Conns : ConnFields(conn[d])
      /\ freeList \in [Conns -> Nat] /\ ConnOK /\ ListedIffInactive
  BY DEF ListInv, ConnOK
<1>2. /\ conn' = [c \in Conns |-> IF freeList[c] > 0 /\ Reclaimable(c)
                                  THEN Freed(c) ELSE conn[c]]
      /\ freeList' = [c \in Conns |-> IF Reclaimable(c) THEN 0 ELSE freeList[c]]
      /\ Done(w)
  BY DEF FreeFunc
<1>3. ASSUME NEW c \in Conns
      PROVE  /\ ConnFields(Freed(c)) /\ Freed(c).mem = "freed"
             /\ Freed(c).active = conn[c].active
  <2> DEFINE s == [conn[c] EXCEPT !.mem = "freed"]
             r == [s EXCEPT !.events = {}]
  <2>1. ConnFields(s) /\ s.mem = "freed" /\ s.active = conn[c].active
    BY <1>1, MemUpdate
  <2>2. Freed(c) = r
    BY <1>1 DEF Freed
  <2> HIDE DEF s
  <2>3. Alike(r, s)
    BY <2>1, FieldUpdate
  <2> HIDE DEF r
  <2>4. QED
    BY <2>1, <2>2, <2>3 DEF Alike
<1>4. \A c \in Conns : conn'[c] = IF freeList[c] > 0 /\ Reclaimable(c)
                                THEN Freed(c) ELSE conn[c]
  BY <1>2
<1>5. conn' = [c \in Conns |-> conn'[c]]
  BY <1>2
<1>6. ConnOK'
  BY <1>1, <1>3, <1>4, <1>5 DEF ConnOK
<1>7. \A c \in Conns : freeList'[c] = IF Reclaimable(c) THEN 0 ELSE freeList[c]
  BY <1>2
<1>8. freeList' \in [Conns -> Nat]
  BY <1>1, <1>2
<1>9. ASSUME NEW c \in Conns
      PROVE  freeList'[c] = IF Live(c)' /\ ~ conn[c].active' THEN 1 ELSE 0
  <2>1. CASE ~ Reclaimable(c)
    BY <1>1, <1>4, <1>7, <2>1 DEF ListedIffInactive, Live
  <2>2. CASE Reclaimable(c) /\ freeList[c] > 0
    BY <1>3, <1>4, <1>7, <2>2 DEF Live
  <2>3. CASE Reclaimable(c) /\ freeList[c] = 0
    BY <1>1, <1>4, <1>7, <2>3 DEF ListedIffInactive, Live
  <2>4. QED
    BY <1>1, <2>1, <2>2, <2>3
<1>10. ListedIffInactive'
  BY <1>9 DEF ListedIffInactive
<1>11. QED
  BY <1>2, <1>6, <1>8, <1>10, Moves DEF ListInv

LEMMA WorkerKeeps ==
  ASSUME ListInv, NEW w \in Workers, Worker(w)
  PROVE  ListInv'
<1>1. CASE InactiveNotify(w)
  BY <1>1, Moves, SameKept, KeptKeeps DEF InactiveNotify
<1>2. ASSUME NEW c \in Conns, Inactive(w, c) PROVE ListInv'
  <2>1. CASE InactiveCheck(w, c) \/ InactiveUnlock(w, c)
    BY <2>1, BranchKeeps DEF InactiveCheck, InactiveUnlock
  <2>2. QED
    BY <1>2, <2>1, InactiveLockKeeps DEF Inactive
<1>3. QED
  BY <1>1, <1>2, TakeKeeps, FreeFuncKeeps, ReadTaskKeeps, WriteTaskKeeps DEF Worker

LEMMA InitLists == Init => ListInv
<1> SUFFICES ASSUME Init PROVE ListInv
  OBVIOUS
<1>1. ConnFields(NewConn) /\ NewConn.mem = "none" /\ NewConn.active = FALSE
  BY DEF ConnFields, NewConn
<1>2. ConnOK
  BY <1>1 DEF Init, ConnOK
<1>3. ThreadFields(IdleThread) /\ IdleThread.flag = "onRead"
  BY DEF ThreadFields, IdleThread
<1>4. ThreadOK
  BY <1>3 DEF Init, ThreadOK
<1>5. freeList \in [Conns -> Nat] /\ ListedIffInactive
  BY <1>1 DEF Init, ListedIffInactive, Live
<1>6. QED
  BY <1>2, <1>4, <1>5 DEF ListInv

LEMMA NextKeeps == ListInv /\ [Next]_vars => ListInv'
<1> SUFFICES ASSUME ListInv, [Next]_vars PROVE ListInv'
  OBVIOUS
<1>1. CASE UNCHANGED vars
  BY <1>1, SameKept, SameThreads, KeptKeeps DEF vars
<1>2. CASE Stopped
  BY <1>1, <1>2 DEF Stopped
<1>3. QED
  BY <1>1, <1>2, ClientKeeps, LoopKeeps, WorkerKeeps DEF Next

(* Whatever the clients do and however the workers interleave, on any      *)
(* number of connections: a connection is in free_list exactly while it is *)
(* inactive and not yet freed, and there once (atm_conn_inactive and       *)
(* atm_conn_free_func).                                                    *)
THEOREM AlwaysListedIffInactive == Spec => []ListedIffInactive
<1>1. ListInv => ListedIffInactive
  BY DEF ListInv
<1>2. QED
  BY InitLists, NextKeeps, <1>1, PTL DEF Spec

-----------------------------------------------------------------------------
(* A connection that waits to be freed is not forgotten.  The tasks in the *)
(* queues are tasks; Coming(c) is what FreeNotForgotten asks for.          *)
QueuesOK ==
    /\ wq \in [Workers -> Seq(Tasks)]
    /\ round \in Workers

FreeQueued == Pending("free", NoConn)

Special == {"f_run", "inact_notify", "inact_unlock", "r_check", "w_check"}

Sees(w, c) ==
    \/ th[w].pc \in {"f_run", "inact_notify"}
    \/ th[w].c = c /\ th[w].pc \in {"inact_unlock", "r_check", "w_check"}

Coming(c) == FreeQueued \/ \E w \in Workers : Sees(w, c)

LEMMA Restated ==
  FreeNotForgotten <=> \A c \in Conns : freeList[c] > 0 /\ Reclaimable(c) => Coming(c)
  BY DEF FreeNotForgotten, Coming, FreeQueued, Sees

WaitInv == ListInv /\ QueuesOK /\ FreeNotForgotten

(* No task's flag changes; no thread but w moves.                           *)
FlagsKept ==
    \A c \in Conns : conn'[c].onRead = conn[c].onRead /\ conn'[c].onWrite = conn[c].onWrite

OthersSame(w) == \A v \in Workers \ {w} : th'[v] = th[v]

LEMMA DispatchKeeps ==
  ASSUME QueuesOK, NEW task \in Tasks, Dispatch(task)
  PROVE  /\ QueuesOK'
         /\ FreeQueued => FreeQueued'
         /\ task = FreeTask => FreeQueued'
<1> DEFINE v == (round + 1) % NWorkers
<1>1. v \in Workers /\ wq' = [wq EXCEPT ![v] = Append(@, task)] /\ round' = v
  BY ConnAssumption DEF Dispatch, QueuesOK, Workers
<1> HIDE DEF v
<1>2. wq \in [Workers -> Seq(Tasks)] /\ wq[v] \in Seq(Tasks)
  BY <1>1 DEF QueuesOK
<1> DEFINE q == wq[v]
           r == Append(q, task)
<1>3. /\ r \in Seq(Tasks) /\ Len(q) + 1 \in DOMAIN r /\ r[Len(q) + 1] = task
      /\ \A i \in DOMAIN q : i \in DOMAIN r /\ r[i] = q[i]
  BY <1>2
<1> HIDE DEF r
<1>4. wq' = [wq EXCEPT ![v] = r]
  BY <1>1 DEF r
<1>5. QueuesOK'
  BY <1>1, <1>2, <1>3, <1>4 DEF QueuesOK
<1>6. \A u \in Workers : wq'[u] = IF u = v THEN r ELSE wq[u]
  BY <1>2, <1>4
<1>7. FreeQueued => FreeQueued'
  BY <1>3, <1>6 DEF FreeQueued, Pending
<1>8. task = FreeTask => FreeQueued'
  BY <1>1, <1>3, <1>6 DEF FreeQueued, Pending, FreeTask
<1>9. QED
  BY <1>5, <1>7, <1>8

(* The steps after which no connection is newly waiting, and nothing that  *)
(* was coming is lost.                                                     *)
LEMMA StillComing ==
  ASSUME FreeNotForgotten, freeList' = freeList, FlagsKept,
         \A c \in Conns : Coming(c) => Coming(c)'
  PROVE  FreeNotForgotten'
<1>1. \A c \in Conns : Reclaimable(c)' => Reclaimable(c)
  BY DEF FlagsKept, Reclaimable
<1>2. \A c \in Conns : freeList'[c] > 0 /\ Reclaimable(c)' => Coming(c)'
  BY <1>1, Restated
<1>3. QED
  BY <1>2 DEF FreeNotForgotten, Coming, FreeQueued, Sees

LEMMA OrdinaryStep ==
  ASSUME WaitInv, NEW w \in Workers, OthersSame(w), th[w].pc \notin Special,
         FreeQueued => FreeQueued'
  PROVE  \A c \in Conns : Coming(c) => Coming(c)'
<1> SUFFICES ASSUME NEW c \in Conns, Coming(c) PROVE Coming(c)'
  OBVIOUS
<1>1. CASE FreeQueued
  BY <1>1 DEF Coming
<1>2. ASSUME NEW v \in Workers, Sees(v, c) PROVE Coming(c)'
  <2>1. v # w
    BY <1>2 DEF Sees, Special
  <2>2. th'[v] = th[v]
    BY <2>1 DEF OthersSame
  <2>3. QED
    BY <1>2, <2>2 DEF Coming, Sees
<1>3. QED
  BY <1>1, <1>2 DEF Coming
LEMMA FreshlySeen ==
  ASSUME \A c \in Conns : freeList'[c] > 0 /\ Reclaimable(c)' => Coming(c)'
  PROVE  FreeNotForgotten'
  BY DEF FreeNotForgotten, Coming, FreeQueued, Sees

LEMMA QueuesSame ==
  ASSUME QueuesOK, NoDispatch
  PROVE  QueuesOK' /\ (FreeQueued => FreeQueued')
  BY DEF QueuesOK, NoDispatch, FreeQueued, Pending

(* How one thread moves.                                                   *)
LEMMA Moved ==
  ASSUME ListInv, NEW w \in Workers
  PROVE  /\ \A to : To(w, to) => OthersSame(w) /\ th'[w].pc = to /\ th'[w].c = th[w].c
         /\ Done(w) => OthersSame(w)
         /\ \A f : CallInactive(w, f) => OthersSame(w)
<1>1. th = [v \in Workers |-> th[v]] /\ ThreadFields(th[w])
  BY DEF ListInv, ThreadOK
<1>2. ASSUME NEW to, To(w, to)
      PROVE  OthersSame(w) /\ th'[w].pc = to /\ th'[w].c = th[w].c
  <2> DEFINE t == [th[w] EXCEPT !.pc = to]
  <2>1. th' = [th EXCEPT ![w] = t]
    BY <1>1, <1>2 DEF To
  <2>2. t.pc = to /\ t.c = th[w].c
    BY <1>1 DEF ThreadFields
  <2> HIDE DEF t
  <2>3. QED
    BY <1>1, <2>1, <2>2 DEF OthersSame
<1>3. ASSUME Done(w) PROVE OthersSame(w)
  BY <1>1, <1>3 DEF Done, OthersSame
<1>4. ASSUME NEW f, CallInactive(w, f) PROVE OthersSame(w)
  BY <1>1, <1>4 DEF CallInactive, OthersSame
<1>5. QED
  BY <1>2, <1>3, <1>4

(* Which updates of a connection keep the flags of its tasks.              *)
SameFlags(r, s) == r.onRead = s.onRead /\ r.onWrite = s.onWrite

LEMMA FlagUpdate ==
  ASSUME NEW s, ConnFields(s), NEW v
  PROVE  /\ SameFlags([s EXCEPT !.events = v], s)
         /\ SameFlags([s EXCEPT !.writeReqs = v], s)
         /\ SameFlags([s EXCEPT !.rbuf = v], s)
         /\ SameFlags([s EXCEPT !.wbuf = v], s)
  BY DEF ConnFields, SameFlags

LEMMA UpdateFlags ==
  ASSUME ListInv, NEW c \in Conns, NEW r, SameFlags(r, conn[c]),
         conn' = [conn EXCEPT ![c] = r]
  PROVE  FlagsKept
<1>1. conn = [d \in Conns |-> conn[d]]
  BY DEF ListInv, ConnOK
<1>2. \A d \in Conns : conn'[d] = IF d = c THEN r ELSE conn[d]
  BY <1>1
<1>3. QED
  BY <1>2 DEF FlagsKept, SameFlags

LEMMA FlagsOneField ==
  ASSUME ListInv, NEW c \in Conns, NEW v
  PROVE  /\ conn' = [conn EXCEPT ![c].writeReqs = v] => FlagsKept
         /\ conn' = [conn EXCEPT ![c].rbuf = v] => FlagsKept
         /\ conn' = [conn EXCEPT ![c].wbuf = v] => FlagsKept
         /\ conn' = conn => FlagsKept
<1>1. conn = [d \in Conns |-> conn[d]] /\ ConnFields(conn[c])
  BY DEF ListInv, ConnOK
<1>2. ASSUME NEW r, SameFlags(r, conn[c]), conn' = [conn EXCEPT ![c] = r] PROVE FlagsKept
  BY <1>2, UpdateFlags
<1>3. conn' = conn => FlagsKept
  BY DEF FlagsKept
<1>4. QED
  BY <1>1, <1>2, <1>3, FlagUpdate

(* A worker's step in the middle of a task.                                *)
LEMMA MidTask ==
  ASSUME WaitInv, NEW w \in Workers, OthersSame(w), th[w].pc \notin Special,
         freeList' = freeList, FlagsKept, NoDispatch
  PROVE  QueuesOK' /\ FreeNotForgotten'
<1>1. QueuesOK' /\ (FreeQueued => FreeQueued')
  BY QueuesSame DEF WaitInv
<1>2. \A c \in Conns : Coming(c) => Coming(c)'
  BY <1>1, OrdinaryStep
<1>3. QED
  BY <1>1, <1>2, StillComing DEF WaitInv

(* The thread that clears a flag, or lists a connection, is itself on its  *)
(* way to the check; nobody else's claim is touched.                       *)
LEMMA Clears ==
  ASSUME WaitInv, NEW w \in Workers, NEW c \in Conns, NoDispatch, OthersSame(w),
         th[w].pc \notin Special, Sees(w, c)',
         \A d \in Conns \ {c} : conn'[d] = conn[d] /\ freeList'[d] = freeList[d]
  PROVE  QueuesOK' /\ FreeNotForgotten'
<1>1. QueuesOK' /\ (FreeQueued => FreeQueued')
  BY QueuesSame DEF WaitInv
<1>2. \A d \in Conns : Coming(d) => Coming(d)'
  BY <1>1, OrdinaryStep
<1>3. ASSUME NEW d \in Conns, freeList'[d] > 0, Reclaimable(d)' PROVE Coming(d)'
  <2>1. CASE d = c
    BY <2>1 DEF Coming
  <2>2. CASE d # c
    <3>1. freeList[d] > 0 /\ Reclaimable(d)
      BY <1>3, <2>2 DEF Reclaimable
    <3>2. QED
      BY <1>2, <3>1, Restated DEF WaitInv
  <2>3. QED
    BY <2>1, <2>2
<1>4. QED
  BY <1>1, <1>3, FreshlySeen

LEMMA BranchWaits ==
  ASSUME WaitInv, NEW w \in Workers, NEW to, Branch(w, to), th[w].pc \notin Special
  PROVE  QueuesOK' /\ FreeNotForgotten'
  BY MidTask, Moved, FlagsOneField DEF Branch, WaitInv, NoDispatch, FlagsKept

LEMMA ReadWaits ==
  ASSUME WaitInv, NEW w \in Workers, NEW c \in Conns, ReadTask(w, c), ~ ReadCheck(w, c)
  PROVE  QueuesOK' /\ FreeNotForgotten'
<1>1. CASE ReadActive(w, c) \/ ReadRestore(w, c)
  BY <1>1, BranchWaits DEF ReadActive, ReadRestore, At, Special
<1>2. CASE ReadRaw(w, c)
  <2>1. freeList' = freeList /\ NoDispatch /\ th[w].pc \notin Special /\ OthersSame(w)
    BY <1>2, Moved DEF ReadRaw, NoDispatch, At, Special, WaitInv
  <2>2. FlagsKept
    <3>1. CASE conn' = [conn EXCEPT ![c].rbuf = @ + sock[c].in]
      <4>1. conn' = [conn EXCEPT ![c].rbuf = conn[c].rbuf + sock[c].in]
        BY <3>1
      <4>2. QED
        BY <4>1, FlagsOneField DEF WaitInv
    <3>2. CASE conn' = conn
      BY <3>2 DEF FlagsKept
    <3>3. QED
      BY <1>2, <3>1, <3>2 DEF ReadRaw
  <2>3. QED
    BY <2>1, <2>2, MidTask
<1>3. CASE SessProcess(w, c)
  <2>1. freeList' = freeList /\ NoDispatch /\ th[w].pc \notin Special /\ OthersSame(w)
    BY <1>3, Moved DEF SessProcess, NoDispatch, At, Special, WaitInv
  <2>2. FlagsKept
    <3>1. CASE conn' = [conn EXCEPT ![c] = Answered(c)]
      <4> DEFINE v == conn[c].rbuf - 1
                 s == [conn[c] EXCEPT !.rbuf = v]
                 u == s.wbuf + 1
                 r == [s EXCEPT !.wbuf = u]
      <4>1. Answered(c) = r /\ ConnFields(conn[c])
        BY DEF WaitInv, ListInv, ConnOK, Answered
      <4> HIDE DEF v, u
      <4>2. ConnFields(s) /\ SameFlags(s, conn[c])
        BY <4>1, FieldUpdate, FlagUpdate DEF Alike
      <4> HIDE DEF s
      <4>3. SameFlags(r, s)
        BY <4>2, FlagUpdate
      <4> HIDE DEF r
      <4>4. QED
        BY <3>1, <4>1, <4>2, <4>3, UpdateFlags DEF SameFlags, WaitInv
    <3>2. CASE conn' = conn
      BY <3>2 DEF FlagsKept
    <3>3. QED
      BY <1>3, <3>1, <3>2 DEF SessProcess
  <2>3. QED
    BY <2>1, <2>2, MidTask
<1>4. CASE WriteNotify(w, c)
  <2>1. freeList' = freeList /\ NoDispatch /\ th[w].pc \notin Special /\ OthersSame(w)
    BY <1>4, Moved DEF WriteNotify, NoDispatch, At, Special, WaitInv
  <2>2. FlagsKept
    <3>1. CASE conn' = [conn EXCEPT ![c].writeReqs = @ + 1]
      <4>1. conn' = [conn EXCEPT ![c].writeReqs = conn[c].writeReqs + 1]
        BY <3>1
      <4>2. QED
        BY <4>1, FlagsOneField DEF WaitInv
    <3>2. CASE conn' = conn
      BY <3>2 DEF FlagsKept
    <3>3. QED
      BY <1>4, <3>1, <3>2 DEF WriteNotify
  <2>3. QED
    BY <2>1, <2>2, MidTask
<1>5. CASE ReadAdd(w, c)
  <2>1. freeList' = freeList /\ NoDispatch /\ th[w].pc \notin Special /\ OthersSame(w)
    BY <1>5, Moved DEF ReadAdd, NoDispatch, At, Special, WaitInv
  <2>2. FlagsKept
    BY <1>5 DEF ReadAdd, FlagsKept
  <2>3. QED
    BY <2>1, <2>2, MidTask
<1>6. QED
  BY <1>1, <1>2, <1>3, <1>4, <1>5 DEF ReadTask

(* atm_conn_inter_write and atm_conn_yield_write end the write task: they  *)
(* clear on_write before the check.                                        *)
LEMMA EndOfWrite ==
  ASSUME WaitInv, NEW w \in Workers, NEW c \in Conns, th[w].c = c,
         th[w].pc \notin Special, To(w, "w_check"), NoDispatch, freeList' = freeList,
         conn' = [conn EXCEPT ![c].onWrite = FALSE]
  PROVE  QueuesOK' /\ FreeNotForgotten'
<1>1. OthersSame(w) /\ Sees(w, c)'
  BY Moved DEF Sees, WaitInv
<1>2. \A d \in Conns \ {c} : conn'[d] = conn[d]
  BY DEF WaitInv, ListInv, ConnOK
<1>3. QED
  BY <1>1, <1>2, Clears

LEMMA WriteWaits ==
  ASSUME WaitInv, NEW w \in Workers, NEW c \in Conns, WriteTask(w, c), ~ WriteCheck(w, c)
  PROVE  QueuesOK' /\ FreeNotForgotten'
<1>1. CASE WriteActive(w, c)
  BY <1>1, BranchWaits DEF WriteActive, At, Special
<1>2. CASE WriteReqs(w, c) \/ WriteRmn(w, c)
  <2>1. freeList' = freeList /\ NoDispatch /\ th[w].pc \notin Special /\ FlagsKept
    BY <1>2 DEF WriteReqs, WriteRmn, NoDispatch, At, Special, FlagsKept
  <2>2. OthersSame(w)
    BY <1>2 DEF WriteReqs, WriteRmn, OthersSame, WaitInv, ListInv, ThreadOK
  <2>3. QED
    BY <2>1, <2>2, MidTask
<1>3. CASE WriteRaw(w, c)
  <2>1. freeList' = freeList /\ NoDispatch /\ th[w].pc \notin Special /\ OthersSame(w)
    BY <1>3, Moved DEF WriteRaw, NoDispatch, At, Special, WaitInv
  <2>2. FlagsKept
    <3>1. ASSUME NEW n, conn' = [conn EXCEPT ![c].wbuf = @ - n] PROVE FlagsKept
      <4>1. conn' = [conn EXCEPT ![c].wbuf = conn[c].wbuf - n]
        BY <3>1
      <4>2. QED
        BY <4>1, FlagsOneField DEF WaitInv
    <3>2. CASE conn' = conn
      BY <3>2 DEF FlagsKept
    <3>3. QED
      BY <1>3, <3>1, <3>2 DEF WriteRaw
  <2>3. QED
    BY <2>1, <2>2, MidTask
<1>4. CASE InterWrite(w, c)
  BY <1>4, EndOfWrite DEF InterWrite, At, Special, NoDispatch
<1>5. CASE YieldWrite(w, c)
  <2>1. CASE conn' = [conn EXCEPT ![c].onWrite = FALSE] /\ To(w, "w_check")
    BY <1>5, <2>1, EndOfWrite DEF YieldWrite, At, Special, NoDispatch
  <2>2. CASE conn' = conn /\ To(w, "w_active")
    <3>1. OthersSame(w) /\ FlagsKept
      BY <2>2, Moved DEF FlagsKept, WaitInv
    <3>2. QED
      BY <1>5, <3>1, MidTask DEF YieldWrite, At, Special, NoDispatch
  <2>3. QED
    BY <1>5, <2>1, <2>2 DEF YieldWrite
<1>6. QED
  BY <1>1, <1>2, <1>3, <1>4, <1>5 DEF WriteTask

(* atm_conn_free_check clears the flag and looks at active in one critical *)
(* section: an inactive connection gets its free task, an active one is    *)
(* not listed.                                                             *)
LEMMA CheckWaits ==
  ASSUME WaitInv, NEW w \in Workers, NEW c \in Conns, NEW flag \in {"onRead", "onWrite"},
         th[w].c = c, th[w].pc \in {"r_check", "w_check"}, FreeCheck(w, c, flag)
  PROVE  QueuesOK' /\ FreeNotForgotten'
<1>1. CASE Dispatch(FreeTask)
  <2>1. QueuesOK' /\ FreeQueued'
    BY <1>1, DispatchKeeps DEF WaitInv, Tasks
  <2>2. QED
    BY <2>1, FreshlySeen DEF Coming
<1>2. CASE conn[c].active /\ NoDispatch
  <2>1. QueuesOK' /\ (FreeQueued => FreeQueued')
    BY <1>2, QueuesSame DEF WaitInv
  <2>2. OthersSame(w) /\ freeList' = freeList
    BY Moved DEF FreeCheck, WaitInv
  <2>3. freeList[c] = 0
    BY <1>2, Zenon DEF WaitInv, ListInv, ListedIffInactive
  <2>4. \A d \in Conns \ {c} : conn'[d] = conn[d]
    BY DEF WaitInv, ListInv, ConnOK, FreeCheck
  <2>5. ASSUME NEW d \in Conns, freeList'[d] > 0, Reclaimable(d)' PROVE Coming(d)'
    <3>1. d # c
      BY <2>2, <2>3, <2>5
    <3>2. Coming(d)
      BY <2>2, <2>4, <2>5, <3>1, Restated DEF WaitInv, Reclaimable
    <3>3. ASSUME NEW v \in Workers, Sees(v, d) PROVE Coming(d)'
      <4>1. v # w
        BY <3>1, <3>3 DEF Sees
      <4>2. th'[v] = th[v]
        BY <2>2, <4>1 DEF OthersSame
      <4>3. QED
        BY <3>3, <4>2 DEF Coming, Sees
    <3>4. QED
      BY <2>1, <3>2, <3>3 DEF Coming
  <2>6. QED
    BY <2>1, <2>5, FreshlySeen
<1>3. QED
  BY <1>1, <1>2 DEF FreeCheck

LEMMA InactiveWaits ==
  ASSUME WaitInv, NEW w \in Workers, NEW c \in Conns, Inactive(w, c)
  PROVE  QueuesOK' /\ FreeNotForgotten'
<1>1. CASE InactiveCheck(w, c)
  BY <1>1, BranchWaits DEF InactiveCheck, At, Special
<1>2. CASE InactiveLock(w, c)
  <2>1. NoDispatch /\ th[w].c = c /\ th[w].pc \notin Special
    BY <1>2 DEF InactiveLock, At, Special, NoDispatch
  <2>2. OthersSame(w) /\ Sees(w, c)'
    BY <1>2, <2>1, Moved DEF InactiveLock, Sees, WaitInv
  <2>3. \A d \in Conns \ {c} : conn'[d] = conn[d] /\ freeList'[d] = freeList[d]
    BY <1>2 DEF InactiveLock, WaitInv, ListInv, ConnOK
  <2>4. QED
    BY <2>1, <2>2, <2>3, Clears
<1>3. CASE InactiveUnlock(w, c)
  <2>1. To(w, "inact_notify") /\ NoDispatch
    BY <1>3 DEF InactiveUnlock, Branch, NoDispatch
  <2>2. \A d \in Conns : Sees(w, d)'
    BY <2>1, Moved DEF Sees, WaitInv
  <2>3. QueuesOK'
    BY <2>1, QueuesSame DEF WaitInv
  <2>4. QED
    BY <2>2, <2>3, FreshlySeen DEF Coming
<1>4. QED
  BY <1>1, <1>2, <1>3 DEF Inactive

LEMMA TakeKeepsQueues ==
  ASSUME QueuesOK, NEW w \in Workers, WorkerTake(w)
  PROVE  QueuesOK'
<1>1. /\ wq[w] # <<>> /\ wq[w] \in Seq(Tasks) /\ wq \in [Workers -> Seq(Tasks)]
      /\ wq' = [wq EXCEPT ![w] = Tail(wq[w])] /\ round' = round /\ round \in Workers
  BY DEF QueuesOK, WorkerTake
<1>2. Tail(wq[w]) \in Seq(Tasks)
  BY <1>1
<1>3. QED
  BY <1>1, <1>2 DEF QueuesOK

(* A worker takes a task: the free task becomes a thread that runs it.     *)
LEMMA TakeWaits ==
  ASSUME WaitInv, NEW w \in Workers, WorkerTake(w)
  PROVE  QueuesOK' /\ FreeNotForgotten'
<1>1. /\ th = [v \in Workers |-> th[v]] /\ ThreadFields(th[w])
      /\ th[w].pc = "idle" /\ wq[w] # <<>>
      /\ wq' = [wq EXCEPT ![w] = Tail(wq[w])] /\ wq \in [Workers -> Seq(Tasks)]
      /\ round' = round /\ round \in Workers /\ conn' = conn /\ freeList' = freeList
  BY DEF WaitInv, ListInv, ThreadOK, QueuesOK, WorkerTake
<1> DEFINE q == wq[w]
           p == TaskStart(Head(q).kind)
           e == Head(q).c
           s == [th[w] EXCEPT !.pc = p]
           t == [s EXCEPT !.c = e]
<1>2. q \in Seq(Tasks) /\ Tail(q) \in Seq(Tasks)
  BY <1>1
<1>3. th' = [th EXCEPT ![w] = t]
  BY <1>1 DEF WorkerTake
<1>4. t.pc = p
  <2> HIDE DEF p, e
  <2> DEFINE u == th[w]
  <2>0. ThreadFields(u)
    BY <1>1
  <2> HIDE DEF u
  <2>1. ThreadFields(s) /\ s.pc = p
    <3>1. s = [u EXCEPT !.pc = p]
      BY DEF u
    <3> HIDE DEF s
    <3>2. QED
      BY <2>0, <3>1 DEF ThreadFields
  <2> HIDE DEF s
  <2>2. QED
    BY <2>1 DEF ThreadFields
<1> HIDE DEF t
<1>5. OthersSame(w) /\ th'[w].pc = p
  BY <1>1, <1>3, <1>4 DEF OthersSame
<1>6. QueuesOK'
  BY TakeKeepsQueues DEF WaitInv
<1>7. CASE Head(q) = FreeTask
  <2>1. p = "f_run"
    BY <1>7 DEF FreeTask, TaskStart
  <2>2. \A d \in Conns : Coming(d)'
    BY <1>5, <2>1 DEF Coming, Sees
  <2>3. QED
    BY <1>6, <2>2, FreshlySeen
<1>8. CASE Head(q) # FreeTask
  <2>1. FreeQueued => FreeQueued'
    <3>1. SUFFICES ASSUME NEW v \in Workers, NEW i \in DOMAIN wq[v], wq[v][i] = FreeTask
                   PROVE  FreeQueued'
      BY DEF FreeQueued, Pending, FreeTask
    <3>2. CASE v # w
      <4>1. wq'[v] = wq[v]
        BY <1>1, <3>2
      <4>2. QED
        BY <3>1, <4>1 DEF FreeQueued, Pending, FreeTask
    <3>3. CASE v = w
      <4>1. i \in 1 .. Len(q) /\ i # 1
        BY <1>1, <1>2, <1>8, <3>1, <3>3
      <4>2. i - 1 \in DOMAIN Tail(q) /\ Tail(q)[i - 1] = q[i]
        BY <1>2, <4>1
      <4>3. wq'[w] = Tail(q)
        BY <1>1
      <4>4. QED
        BY <3>1, <3>3, <4>2, <4>3 DEF FreeQueued, Pending, FreeTask
    <3>4. QED
      BY <3>2, <3>3
  <2>2. \A d \in Conns : Coming(d) => Coming(d)'
    BY <1>1, <1>5, <2>1, OrdinaryStep DEF Special
  <2>3. FlagsKept
    BY <1>1 DEF FlagsKept
  <2>4. QED
    BY <1>1, <1>6, <2>2, <2>3, StillComing DEF WaitInv
<1>9. QED
  BY <1>7, <1>8

(* atm_conn_free_func leaves in the list only what has a task under way.   *)
LEMMA FreeFuncWaits ==
  ASSUME WaitInv, NEW w \in Workers, FreeFunc(w)
  PROVE  QueuesOK' /\ FreeNotForgotten'
<1>1. QueuesOK'
  BY QueuesSame DEF FreeFunc, NoDispatch, WaitInv
<1>2. \A c \in Conns : freeList'[c] = IF Reclaimable(c) THEN 0 ELSE freeList[c]
  BY DEF FreeFunc
<1>3. \A c \in Conns : conn'[c] = IF freeList[c] > 0 /\ Reclaimable(c)
                                  THEN Freed(c) ELSE conn[c]
  BY DEF FreeFunc
<1>4. ASSUME NEW c \in Conns, freeList'[c] > 0 PROVE ~ Reclaimable(c)'
  <2>1. ~ Reclaimable(c)
    BY <1>2, <1>4
  <2>2. conn'[c] = conn[c]
    BY <1>3, <2>1
  <2>3. QED
    BY <2>1, <2>2 DEF Reclaimable
<1>5. QED
  BY <1>1, <1>4, FreshlySeen

LEMMA WorkerWaits ==
  ASSUME WaitInv, NEW w \in Workers, Worker(w)
  PROVE  QueuesOK' /\ FreeNotForgotten'
<1>1. CASE InactiveNotify(w)
  <2>1. QueuesOK' /\ FreeQueued'
    BY <1>1, DispatchKeeps DEF InactiveNotify, WaitInv, Tasks
  <2>2. QED
    BY <2>1, FreshlySeen DEF Coming
<1>2. ASSUME NEW c \in Conns, ReadTask(w, c) PROVE QueuesOK' /\ FreeNotForgotten'
  BY <1>2, ReadWaits, CheckWaits DEF ReadCheck, At
<1>3. ASSUME NEW c \in Conns, WriteTask(w, c) PROVE QueuesOK' /\ FreeNotForgotten'
  BY <1>3, WriteWaits, CheckWaits DEF WriteCheck, At
<1>4. QED
  BY <1>1, <1>2, <1>3, TakeWaits, FreeFuncWaits, InactiveWaits DEF Worker

(* Steps of the clients and of the event loop that run no task.            *)
LEMMA Elsewhere ==
  ASSUME WaitInv, NoDispatch, freeList' = freeList, FlagsKept, th' = th
  PROVE  QueuesOK' /\ FreeNotForgotten'
<1>1. QueuesOK' /\ (FreeQueued => FreeQueued')
  BY QueuesSame DEF WaitInv
<1>2. \A c \in Conns : Coming(c) => Coming(c)'
  BY <1>1 DEF Coming, Sees
<1>3. QED
  BY <1>1, <1>2, StillComing DEF WaitInv

LEMMA HandleWaits ==
  ASSUME WaitInv, NEW c \in Conns, NEW task \in Tasks, Dispatch(task), th' = th,
         freeList' = freeList, ~ Reclaimable(c)',
         \A d \in Conns \ {c} : conn'[d] = conn[d]
  PROVE  QueuesOK' /\ FreeNotForgotten'
<1>1. QueuesOK' /\ (FreeQueued => FreeQueued')
  BY DispatchKeeps DEF WaitInv
<1>2. \A d \in Conns : Coming(d) => Coming(d)'
  BY <1>1 DEF Coming, Sees
<1>3. \A d \in Conns : freeList'[d] > 0 /\ Reclaimable(d)' => Coming(d)'
  BY <1>2, Restated DEF WaitInv, Reclaimable
<1>4. QED
  BY <1>1, <1>3, FreshlySeen

LEMMA FlagSet ==
  ASSUME NEW s, ConnFields(s)
  PROVE  [s EXCEPT !.onRead = TRUE].onRead /\ [s EXCEPT !.onWrite = TRUE].onWrite
  BY DEF ConnFields

LEMMA LoopWaits ==
  ASSUME WaitInv, Loop
  PROVE  QueuesOK' /\ FreeNotForgotten'
<1>1. conn = [d \in Conns |-> conn[d]] /\ \A d \in Conns : ConnFields(conn[d])
  BY DEF WaitInv, ListInv, ConnOK
<1>2. CASE EpollWait
  BY <1>2, Elsewhere DEF EpollWait, NoDispatch, FlagsKept
<1>3. CASE HandleOps
  <2> DEFINE masks(c) == {eops[i].mask : i \in {j \in DOMAIN eops : eops[j].c = c}}
             r(c) == [conn[c] EXCEPT !.events = @ \cup masks(c)]
  <2>1. conn' = [c \in Conns |-> r(c)] /\ th' = th /\ freeList' = freeList /\ NoDispatch
    BY <1>3 DEF HandleOps, NoDispatch
  <2>2. ASSUME NEW c \in Conns PROVE SameFlags(r(c), conn[c])
    <3> HIDE DEF masks
    <3>1. QED
      BY <1>1, FlagUpdate
  <2> HIDE DEF r
  <2>3. FlagsKept
    BY <2>1, <2>2 DEF FlagsKept, SameFlags
  <2>4. QED
    BY <2>1, <2>3, Elsewhere
<1>4. ASSUME NEW c \in Conns, Accept(c) PROVE QueuesOK' /\ FreeNotForgotten'
  <2>1. /\ th' = th /\ freeList' = freeList /\ NoDispatch
        /\ conn[c].mem = "none" /\ conn' = [conn EXCEPT ![c] = Opened]
    BY <1>4 DEF Accept, NoDispatch
  <2>2. freeList[c] = 0
    BY <2>1 DEF WaitInv, ListInv, ListedIffInactive, Live
  <2>3. \A d \in Conns \ {c} : conn'[d] = conn[d]
    BY <1>1, <2>1
  <2>4. QueuesOK' /\ (FreeQueued => FreeQueued')
    BY <2>1, QueuesSame DEF WaitInv
  <2>5. \A d \in Conns : Coming(d) => Coming(d)'
    BY <2>1, <2>4 DEF Coming, Sees
  <2>6. \A d \in Conns : freeList'[d] > 0 /\ Reclaimable(d)' => Coming(d)'
    BY <2>1, <2>2, <2>3, <2>5, Restated DEF WaitInv, Reclaimable
  <2>7. QED
    BY <2>4, <2>6, FreshlySeen
<1>5. ASSUME NEW c \in Conns, SkipEntry(c) PROVE QueuesOK' /\ FreeNotForgotten'
  BY <1>5, Elsewhere DEF SkipEntry, NoDispatch, FlagsKept
<1>6. ASSUME NEW c \in Conns, HandleRead(c) PROVE QueuesOK' /\ FreeNotForgotten'
  <2> DEFINE s == [conn[c] EXCEPT !.events = @ \ {READ}]
             r == [s EXCEPT !.onRead = TRUE]
  <2>1. conn' = [conn EXCEPT ![c] = r]
    BY <1>1, <1>6 DEF HandleRead
  <2>2. ConnFields(s)
    BY <1>1, FieldUpdate DEF Alike
  <2> HIDE DEF s
  <2>3. r.onRead
    BY <2>2, FlagSet
  <2> HIDE DEF r
  <2>4. ~ Reclaimable(c)' /\ \A d \in Conns \ {c} : conn'[d] = conn[d]
    BY <1>1, <2>1, <2>3 DEF Reclaimable
  <2>5. [kind |-> "read", c |-> c] \in Tasks
    BY DEF Tasks
  <2>6. QED
    BY <1>6, <2>4, <2>5, HandleWaits DEF HandleRead
<1>7. ASSUME NEW c \in Conns, HandleWrite(c) PROVE QueuesOK' /\ FreeNotForgotten'
  <2> DEFINE s == [conn[c] EXCEPT !.events = @ \ {WRITE}]
             r == [s EXCEPT !.onWrite = TRUE]
  <2>1. conn' = [conn EXCEPT ![c] = r]
    BY <1>1, <1>7 DEF HandleWrite
  <2>2. ConnFields(s)
    BY <1>1, FieldUpdate DEF Alike
  <2> HIDE DEF s
  <2>3. r.onWrite
    BY <2>2, FlagSet
  <2> HIDE DEF r
  <2>4. ~ Reclaimable(c)' /\ \A d \in Conns \ {c} : conn'[d] = conn[d]
    BY <1>1, <2>1, <2>3 DEF Reclaimable
  <2>5. [kind |-> "write", c |-> c] \in Tasks
    BY DEF Tasks
  <2>6. QED
    BY <1>7, <2>4, <2>5, HandleWaits DEF HandleWrite
<1>8. QED
  BY <1>2, <1>3, <1>4, <1>5, <1>6, <1>7 DEF Loop

LEMMA InitWaits == Init => WaitInv
<1> SUFFICES ASSUME Init PROVE WaitInv
  OBVIOUS
<1>1. QueuesOK
  BY ConnAssumption DEF Init, QueuesOK, Workers
<1>2. FreeNotForgotten
  BY DEF Init, FreeNotForgotten
<1>3. QED
  BY <1>1, <1>2, InitLists DEF WaitInv

LEMMA NextWaits == WaitInv /\ [Next]_vars => WaitInv'
<1> SUFFICES ASSUME WaitInv, [Next]_vars PROVE QueuesOK' /\ FreeNotForgotten'
  BY NextKeeps DEF WaitInv
<1>1. CASE UNCHANGED vars
  BY <1>1, Elsewhere DEF vars, NoDispatch, FlagsKept
<1>2. CASE Stopped
  BY <1>1, <1>2 DEF Stopped
<1>3. ASSUME NEW c \in Conns, Client(c) PROVE QueuesOK' /\ FreeNotForgotten'
  <2>1. conn' = conn /\ th' = th /\ freeList' = freeList /\ NoDispatch
    BY <1>3 DEF Client, ClientSend, ClientRecv, ClientClose, ClientReset, SockStep,
                NoDispatch
  <2>2. QED
    BY <2>1, Elsewhere DEF FlagsKept
<1>4. QED
  BY <1>1, <1>2, <1>3, LoopWaits, WorkerWaits DEF Next

(* Whatever the clients do and however the workers interleave: a listed    *)
(* connection with no task under way always has an atm_conn_free_func on   *)
(* its way, in a queue, in a worker, or in one about to send it.           *)
THEOREM NeverForgotten == Spec => []FreeNotForgotten
<1>1. WaitInv => FreeNotForgotten
  BY DEF WaitInv
<1>2. QED
  BY InitWaits, NextWaits, <1>1, PTL DEF Spec

-----------------------------------------------------------------------------
(* A reply in w_buf always has somebody coming to write it, for any number *)
(* of connections and workers, resets included, as long as the kernel's    *)
(* send buffer takes every reply: SockCap >= MaxReqs.  (With a smaller one *)
(* the property is false: a write that takes only a part may be the last.) *)
SockFields(s) ==
    s = [asked |-> s.asked, in |-> s.in, out |-> s.out, answered |-> s.answered,
         peer |-> s.peer]

(* Every request a client has sent is in one place: the kernel's receive   *)
(* buffer, r_buf, or as a reply in w_buf, the send buffer or the client.   *)
Counted(r, s) ==
    /\ {r.rbuf, r.wbuf, r.writeReqs, s.asked, s.in, s.out, s.answered} \subseteq Nat
    /\ s.in + r.rbuf + r.wbuf + s.out + s.answered = s.asked
    /\ s.asked <= MaxReqs

CountOK ==
    /\ sock = [c \in Conns |-> sock[c]]
    /\ \A c \in Conns : SockFields(sock[c]) /\ Counted(conn[c], sock[c])

(* A connection not accepted yet has nothing in its buffers.               *)
BlankOK ==
    \A c \in Conns :
        conn[c].mem = "none" => conn[c].rbuf = 0 /\ conn[c].wbuf = 0 /\ conn[c].writeReqs = 0

(* What a write task remembers of write_reqs was true when it read it.     *)
Reads == {"w_raw", "w_rmn", "w_inter", "w_yield"}

SeenOK ==
    \A w \in Workers :
        /\ th[w].wreqs \in Nat /\ th[w].wrmn \in Nat
        /\ \A c \in Conns :
             th[w].c = c /\ th[w].pc \in Reads => th[w].wreqs <= conn[c].writeReqs

OpsFor(c) == \E i \in DOMAIN eops : eops[i] = [c |-> c, mask |-> WRITE]

(* Worker w will do something about the replies of c.                      *)
Minds(w, c) ==
    /\ th[w].c = c
    /\ \/ th[w].pc \in {"r_notify", "w_active", "w_reqs", "w_raw", "w_rmn",
                        "inact_check", "inact_lock"}
       \/ th[w].pc = "w_yield" /\ conn[c].writeReqs > th[w].wreqs
       \/ th[w].pc = "w_inter" /\ (conn[c].writeReqs > th[w].wreqs \/ th[w].wrmn > 0)

Minded(c) ==
    \/ WRITE \in conn[c].events
    \/ OpsFor(c)
    \/ Pending("write", c)
    \/ \E w \in Workers : Minds(w, c)

Safe(c) == Live(c) /\ conn[c].active /\ conn[c].wbuf > 0 => Minded(c)

(* While on_write is set some write task of c has not ended: whoever leaves *)
(* a reply to it is heard.                                                 *)
Writing == {"w_active", "w_reqs", "w_raw", "w_rmn", "w_inter", "w_yield",
            "inact_check", "inact_lock"}

Holds(w, c) == th[w].c = c /\ th[w].pc \in Writing

FlagHeld(c) ==
    Live(c) /\ conn[c].active /\ conn[c].onWrite =>
        Pending("write", c) \/ \E w \in Workers : Holds(w, c)

EopsOK == eops \in Seq([c : Conns, mask : {READ, WRITE}])

ReplyRest ==
    /\ QueuesOK
    /\ EopsOK
    /\ CountOK
    /\ BlankOK
    /\ SeenOK
    /\ \A c \in Conns : Safe(c) /\ FlagHeld(c)

ReplyInv == ListInv /\ ReplyRest
-----------------------------------------------------------------------------
(* How one connection is updated.  Other connections stay as they are.     *)
OnlyAt(c) == \A d \in Conns \ {c} : conn'[d] = conn[d]

(* What r and s have in common, apart from the counters and the flags.     *)
SameRest(r, s) == r.mem = s.mem /\ r.events = s.events

SameActive(r, s) == r.active = s.active

SameOnWrite(r, s) == r.onWrite = s.onWrite

LEMMA SetRbuf ==
  ASSUME NEW s, ConnFields(s), NEW v, NEW r, r = [s EXCEPT !.rbuf = v]
  PROVE  /\ ConnFields(r) /\ SameRest(r, s) /\ SameActive(r, s) /\ SameOnWrite(r, s)
         /\ r.rbuf = v /\ r.wbuf = s.wbuf /\ r.writeReqs = s.writeReqs
  BY DEF ConnFields, SameRest, SameActive, SameOnWrite

LEMMA SetWbuf ==
  ASSUME NEW s, ConnFields(s), NEW v, NEW r, r = [s EXCEPT !.wbuf = v]
  PROVE  /\ ConnFields(r) /\ SameRest(r, s) /\ SameActive(r, s) /\ SameOnWrite(r, s)
         /\ r.rbuf = s.rbuf /\ r.wbuf = v /\ r.writeReqs = s.writeReqs
  BY DEF ConnFields, SameRest, SameActive, SameOnWrite

LEMMA SetWriteReqs ==
  ASSUME NEW s, ConnFields(s), NEW v, NEW r, r = [s EXCEPT !.writeReqs = v]
  PROVE  /\ ConnFields(r) /\ SameRest(r, s) /\ SameActive(r, s) /\ SameOnWrite(r, s)
         /\ r.rbuf = s.rbuf /\ r.wbuf = s.wbuf /\ r.writeReqs = v
  BY DEF ConnFields, SameRest, SameActive, SameOnWrite

LEMMA SetOnRead ==
  ASSUME NEW s, ConnFields(s), NEW v, NEW r, r = [s EXCEPT !.onRead = v]
  PROVE  /\ ConnFields(r) /\ SameRest(r, s) /\ SameActive(r, s) /\ SameOnWrite(r, s)
         /\ r.rbuf = s.rbuf /\ r.wbuf = s.wbuf /\ r.writeReqs = s.writeReqs
  BY DEF ConnFields, SameRest, SameActive, SameOnWrite

LEMMA SetOnWrite ==
  ASSUME NEW s, ConnFields(s), NEW v, NEW r, r = [s EXCEPT !.onWrite = v]
  PROVE  /\ ConnFields(r) /\ SameRest(r, s) /\ SameActive(r, s) /\ r.onWrite = v
         /\ r.rbuf = s.rbuf /\ r.wbuf = s.wbuf /\ r.writeReqs = s.writeReqs
  BY DEF ConnFields, SameRest, SameActive, SameOnWrite

LEMMA SetEvents ==
  ASSUME NEW s, ConnFields(s), NEW v, NEW r, r = [s EXCEPT !.events = v]
  PROVE  /\ ConnFields(r) /\ r.mem = s.mem /\ r.events = v /\ SameActive(r, s) /\ SameOnWrite(r, s)
         /\ r.rbuf = s.rbuf /\ r.wbuf = s.wbuf /\ r.writeReqs = s.writeReqs
  BY DEF ConnFields, SameRest, SameActive, SameOnWrite

LEMMA SetActive ==
  ASSUME NEW s, ConnFields(s), NEW v, NEW r, r = [s EXCEPT !.active = v]
  PROVE  /\ ConnFields(r) /\ SameRest(r, s) /\ r.active = v /\ SameOnWrite(r, s)
         /\ r.rbuf = s.rbuf /\ r.wbuf = s.wbuf /\ r.writeReqs = s.writeReqs
  BY DEF ConnFields, SameRest, SameActive, SameOnWrite

LEMMA SetMem ==
  ASSUME NEW s, ConnFields(s), NEW v, NEW r, r = [s EXCEPT !.mem = v]
  PROVE  /\ ConnFields(r) /\ r.mem = v /\ r.events = s.events /\ SameActive(r, s) /\ SameOnWrite(r, s)
         /\ r.rbuf = s.rbuf /\ r.wbuf = s.wbuf /\ r.writeReqs = s.writeReqs
  BY DEF ConnFields, SameRest, SameActive, SameOnWrite

LEMMA At1 ==
  ASSUME ListInv, NEW c \in Conns, NEW r, conn' = [conn EXCEPT ![c] = r]
  PROVE  conn'[c] = r /\ OnlyAt(c)
  BY DEF ListInv, ConnOK, OnlyAt

(* The same for a socket and for a thread.                                 *)
LEMMA SockSet ==
  ASSUME CountOK, NEW c \in Conns, NEW t, SockFields(t), sock' = [sock EXCEPT ![c] = t]
  PROVE  /\ sock' = [d \in Conns |-> sock'[d]] /\ \A d \in Conns : SockFields(sock'[d])
         /\ sock'[c] = t /\ \A d \in Conns \ {c} : sock'[d] = sock[d]
<1>1. sock = [d \in Conns |-> sock[d]] /\ \A d \in Conns : SockFields(sock[d])
  BY DEF CountOK
<1>2. sock' = [d \in Conns |-> IF d = c THEN t ELSE sock[d]]
  BY <1>1
<1>3. QED
  BY <1>1, <1>2

LEMMA SockIn ==
  ASSUME NEW s, SockFields(s), NEW v, NEW r, r = [s EXCEPT !.in = v]
  PROVE  /\ SockFields(r)
         /\ r.in = v /\ r.out = s.out /\ r.asked = s.asked /\ r.answered = s.answered
  BY DEF SockFields

LEMMA SockOut ==
  ASSUME NEW s, SockFields(s), NEW v, NEW r, r = [s EXCEPT !.out = v]
  PROVE  /\ SockFields(r)
         /\ r.in = s.in /\ r.out = v /\ r.asked = s.asked /\ r.answered = s.answered
  BY DEF SockFields

LEMMA SockAsked ==
  ASSUME NEW s, SockFields(s), NEW v, NEW r, r = [s EXCEPT !.asked = v]
  PROVE  /\ SockFields(r)
         /\ r.in = s.in /\ r.out = s.out /\ r.asked = v /\ r.answered = s.answered
  BY DEF SockFields

LEMMA SockAnswered ==
  ASSUME NEW s, SockFields(s), NEW v, NEW r, r = [s EXCEPT !.answered = v]
  PROVE  /\ SockFields(r)
         /\ r.in = s.in /\ r.out = s.out /\ r.asked = s.asked /\ r.answered = v
  BY DEF SockFields

LEMMA SockPeer ==
  ASSUME NEW s, SockFields(s), NEW v, NEW r, r = [s EXCEPT !.peer = v]
  PROVE  /\ SockFields(r)
         /\ r.in = s.in /\ r.out = s.out /\ r.asked = s.asked /\ r.answered = s.answered
  BY DEF SockFields

(* A thread that moves keeps what it remembers; one that ends forgets it.  *)
Remembers(w) == th'[w].wreqs = th[w].wreqs /\ th'[w].wrmn = th[w].wrmn

LEMMA MovesOn ==
  ASSUME ListInv, NEW w \in Workers
  PROVE  /\ \A to : To(w, to) =>
              OthersSame(w) /\ th'[w].pc = to /\ th'[w].c = th[w].c /\ Remembers(w)
         /\ \A f : CallInactive(w, f) =>
              OthersSame(w) /\ th'[w].pc = "inact_check" /\ th'[w].c = th[w].c /\ Remembers(w)
         /\ Done(w) => OthersSame(w) /\ th'[w] = IdleThread
<1>1. th = [v \in Workers |-> th[v]] /\ ThreadFields(th[w])
  BY DEF ListInv, ThreadOK
<1> DEFINE u == th[w]
<1>2. ThreadFields(u)
  BY <1>1
<1>3. ASSUME NEW to, To(w, to)
      PROVE  OthersSame(w) /\ th'[w].pc = to /\ th'[w].c = th[w].c /\ Remembers(w)
  <2> DEFINE t == [u EXCEPT !.pc = to]
  <2>1. th' = [th EXCEPT ![w] = t]
    BY <1>1, <1>3 DEF To
  <2> HIDE DEF u
  <2>2. t.pc = to /\ t.c = u.c /\ t.wreqs = u.wreqs /\ t.wrmn = u.wrmn
    BY <1>2 DEF ThreadFields
  <2> HIDE DEF t
  <2>3. QED
    BY <1>1, <2>1, <2>2 DEF OthersSame, Remembers, u
<1>4. ASSUME NEW f, CallInactive(w, f)
      PROVE  OthersSame(w) /\ th'[w].pc = "inact_check" /\ th'[w].c = th[w].c /\ Remembers(w)
  <2> DEFINE s == [u EXCEPT !.pc = "inact_check"]
             t == [s EXCEPT !.flag = f]
  <2>1. th' = [th EXCEPT ![w] = t]
    BY <1>1, <1>4 DEF CallInactive
  <2> HIDE DEF u
  <2>2. /\ ThreadFields(s)
        /\ s.pc = "inact_check" /\ s.c = u.c /\ s.wreqs = u.wreqs /\ s.wrmn = u.wrmn
    BY <1>2 DEF ThreadFields
  <2> HIDE DEF s
  <2>3. t.pc = s.pc /\ t.c = s.c /\ t.wreqs = s.wreqs /\ t.wrmn = s.wrmn
    BY <2>2 DEF ThreadFields
  <2> HIDE DEF t
  <2>4. QED
    BY <1>1, <2>1, <2>2, <2>3 DEF OthersSame, Remembers, u
<1>5. ASSUME Done(w) PROVE OthersSame(w) /\ th'[w] = IdleThread
  BY <1>1, <1>5 DEF Done, OthersSame
<1>6. QED
  BY <1>3, <1>4, <1>5

-----------------------------------------------------------------------------
(* One step of worker w, in its task on c, touches c and w only.           *)
Own(w, c) ==
    /\ th[w].c = c
    /\ OthersSame(w)
    /\ th'[w].c \in {c, NoConn}
    /\ OnlyAt(c)

QueuesGrow ==
    \A d \in Conns : /\ OpsFor(d) => OpsFor(d)'
                     /\ Pending("write", d) => Pending("write", d)'

SameData(r, s) == r.rbuf = s.rbuf /\ r.wbuf = s.wbuf /\ r.writeReqs = s.writeReqs

LEMMA CountStep ==
  ASSUME ReplyInv, NEW c \in Conns, OnlyAt(c), \A d \in Conns \ {c} : sock'[d] = sock[d],
         sock' = [d \in Conns |-> sock'[d]], SockFields(sock'[c]),
         Counted(conn'[c], sock'[c]), conn'[c].mem # "none"
  PROVE  CountOK' /\ BlankOK'
<1>1. CountOK'
  BY DEF ReplyInv, ReplyRest, CountOK, OnlyAt
<1>2. BlankOK'
  BY DEF ReplyInv, ReplyRest, BlankOK, OnlyAt
<1>3. QED
  BY <1>1, <1>2

LEMMA SameCounts ==
  ASSUME ReplyInv, sock' = sock,
         \A c \in Conns : SameData(conn'[c], conn[c]),
         \A c \in Conns : conn'[c].mem = "none" => conn[c].mem = "none"
  PROVE  CountOK' /\ BlankOK'
<1>1. CountOK'
  BY DEF ReplyInv, ReplyRest, CountOK, Counted, SameData
<1>2. BlankOK'
  BY DEF ReplyInv, ReplyRest, BlankOK, SameData
<1>3. QED
  BY <1>1, <1>2

LEMMA SeenStep ==
  ASSUME ReplyInv, CountOK', NEW w \in Workers, NEW c \in Conns, Own(w, c),
         conn'[c].writeReqs >= conn[c].writeReqs,
         th'[w].wreqs \in Nat, th'[w].wrmn \in Nat,
         th'[w].pc \in Reads => th'[w].wreqs <= conn'[c].writeReqs
  PROVE  SeenOK'
<1>1. /\ conn[c].writeReqs \in Nat /\ conn'[c].writeReqs \in Nat /\ NoConn \notin Conns
      /\ SeenOK
  BY ConnAssumption DEF ReplyInv, ReplyRest, CountOK, Counted
<1>2. ASSUME NEW v \in Workers
      PROVE  /\ th'[v].wreqs \in Nat /\ th'[v].wrmn \in Nat
             /\ \A d \in Conns :
                  th'[v].c = d /\ th'[v].pc \in Reads => th'[v].wreqs <= conn'[d].writeReqs
  <2>1. CASE v = w
    BY <1>1, <2>1 DEF Own
  <2>2. CASE v # w
    <3>1. th'[v] = th[v]
      BY <2>2 DEF Own, OthersSame
    <3>2. ASSUME NEW d \in Conns, th[v].c = d, th[v].pc \in Reads
          PROVE  th[v].wreqs <= conn'[d].writeReqs
      <4>1. th[v].wreqs <= conn[d].writeReqs /\ th[v].wreqs \in Nat
        BY <1>1, <3>2 DEF SeenOK
      <4>2. CASE d = c
        BY <1>1, <4>1, <4>2
      <4>3. CASE d # c
        BY <4>1, <4>3 DEF Own, OnlyAt
      <4>4. QED
        BY <4>2, <4>3
    <3>3. QED
      BY <1>1, <3>1, <3>2 DEF SeenOK
  <2>3. QED
    BY <2>1, <2>2
<1>3. QED
  BY <1>2 DEF SeenOK

LEMMA SeenSame ==
  ASSUME ReplyInv, th' = th, \A c \in Conns : conn'[c].writeReqs = conn[c].writeReqs
  PROVE  SeenOK'
  BY DEF ReplyInv, ReplyRest, SeenOK

LEMMA SafeStep ==
  ASSUME ReplyInv, CountOK', NEW w \in Workers, NEW c \in Conns, Own(w, c), QueuesGrow,
         conn'[c].mem = conn[c].mem, conn'[c].active => conn[c].active,
         conn'[c].events = conn[c].events,
         conn'[c].writeReqs >= conn[c].writeReqs,
         conn'[c].wbuf > 0 => conn[c].wbuf > 0 \/ Safe(c)',
         Minds(w, c) => Safe(c)'
  PROVE  \A d \in Conns : Safe(d)'
<1> USE DEF ReplyInv, ReplyRest
<1>1. ASSUME NEW d \in Conns, NEW v \in Workers, v # w, Minds(v, d) PROVE Minds(v, d)'
  <2>1. th'[v] = th[v]
    BY <1>1 DEF Own, OthersSame
  <2>2. /\ conn[d].writeReqs \in Nat /\ conn'[d].writeReqs \in Nat
        /\ th[v].wreqs \in Nat /\ conn'[d].writeReqs >= conn[d].writeReqs
    BY DEF CountOK, Counted, SeenOK, Own, OnlyAt
  <2>3. conn'[d].writeReqs > th[v].wreqs \/ ~ conn[d].writeReqs > th[v].wreqs
    BY <2>2
  <2>4. QED
    BY <1>1, <2>1, <2>3 DEF Minds
<1>2. ASSUME NEW d \in Conns, d # c PROVE Safe(d)'
  <2>1. conn'[d] = conn[d] /\ Safe(d)
    BY <1>2 DEF Own, OnlyAt
  <2>2. \A v \in Workers : Minds(v, d) => v # w
    BY <1>2 DEF Own, Minds
  <2>3. Minded(d) => Minded(d)'
    BY <1>1, <2>1, <2>2 DEF Minded, QueuesGrow
  <2>4. QED
    BY <2>1, <2>3 DEF Safe, Live
<1>3. Safe(c)'
  <2>1. SUFFICES ASSUME Live(c)', conn'[c].active, conn'[c].wbuf > 0, ~ Safe(c)'
                 PROVE  FALSE
    BY DEF Safe
  <2>2. Minded(c)
    BY <2>1 DEF Safe, Live
  <2>3. Minded(c)'
    BY <1>1, <2>1, <2>2 DEF Minded, QueuesGrow
  <2>4. QED
    BY <2>1, <2>3 DEF Safe
<1>4. QED
  BY <1>2, <1>3

LEMMA FlagStep ==
  ASSUME ReplyInv, NEW w \in Workers, NEW c \in Conns, Own(w, c), QueuesGrow,
         conn'[c].mem = conn[c].mem, conn'[c].active => conn[c].active,
         conn'[c].onWrite => conn[c].onWrite,
         Holds(w, c) => FlagHeld(c)'
  PROVE  \A d \in Conns : FlagHeld(d)'
<1>1. ASSUME NEW d \in Conns, NEW v \in Workers, v # w, Holds(v, d) PROVE Holds(v, d)'
  BY <1>1 DEF Own, OthersSame, Holds
<1>2. ASSUME NEW d \in Conns, d # c PROVE FlagHeld(d)'
  <2>1. conn'[d] = conn[d] /\ FlagHeld(d)
    BY <1>2 DEF Own, OnlyAt, ReplyInv, ReplyRest
  <2>2. \A v \in Workers : Holds(v, d) => v # w
    BY <1>2 DEF Own, Holds
  <2>3. QED
    BY <1>1, <2>1, <2>2 DEF FlagHeld, Live, QueuesGrow
<1>3. FlagHeld(c)'
  <2>1. FlagHeld(c)
    BY DEF ReplyInv, ReplyRest
  <2>2. QED
    BY <1>1, <2>1 DEF FlagHeld, Live, QueuesGrow
<1>4. QED
  BY <1>2, <1>3

-----------------------------------------------------------------------------
(* What happens to the queues.                                             *)
LEMMA QuietQueues ==
  ASSUME ReplyInv, NoDispatch, eops' = eops
  PROVE  QueuesOK' /\ EopsOK' /\ QueuesGrow
<1>1. QueuesOK' /\ EopsOK'
  BY DEF ReplyInv, ReplyRest, QueuesOK, EopsOK, NoDispatch
<1>2. QueuesGrow
  BY DEF QueuesGrow, OpsFor, Pending, NoDispatch
<1>3. QED
  BY <1>1, <1>2

LEMMA Notified ==
  ASSUME ReplyInv, NoDispatch, NEW c \in Conns, NEW mask \in {READ, WRITE}, AddNotify(c, mask)
  PROVE  /\ QueuesOK' /\ EopsOK' /\ QueuesGrow
         /\ mask = WRITE => OpsFor(c)'
<1>1. QueuesOK'
  BY DEF ReplyInv, ReplyRest, QueuesOK, NoDispatch
<1> DEFINE op == [c |-> c, mask |-> mask]
           r == Append(eops, op)
<1>2. eops' = r /\ eops \in Seq([c : Conns, mask : {READ, WRITE}])
  BY DEF AddNotify, ReplyInv, ReplyRest, EopsOK
<1>3. op \in [c : Conns, mask : {READ, WRITE}]
  OBVIOUS
<1> HIDE DEF op
<1>4. /\ r \in Seq([c : Conns, mask : {READ, WRITE}])
      /\ Len(eops) + 1 \in DOMAIN r /\ r[Len(eops) + 1] = op
      /\ \A i \in DOMAIN eops : i \in DOMAIN r /\ r[i] = eops[i]
  BY <1>2, <1>3
<1> HIDE DEF r
<1>5. EopsOK'
  BY <1>2, <1>4 DEF EopsOK
<1>6. mask = WRITE => OpsFor(c)'
  BY <1>2, <1>4 DEF OpsFor, op
<1>7. QueuesGrow
  BY <1>2, <1>4 DEF QueuesGrow, OpsFor, Pending, NoDispatch
<1>8. QED
  BY <1>1, <1>5, <1>6, <1>7

LEMMA Dispatched ==
  ASSUME ReplyInv, NEW task \in Tasks, Dispatch(task), eops' = eops
  PROVE  /\ QueuesOK' /\ EopsOK' /\ QueuesGrow
         /\ \A c \in Conns : task = [kind |-> "write", c |-> c] => Pending("write", c)'
<1> DEFINE v == (round + 1) % NWorkers
<1>1. v \in Workers /\ wq' = [wq EXCEPT ![v] = Append(@, task)] /\ wq \in [Workers -> Seq(Tasks)]
  BY ConnAssumption DEF Dispatch, QueuesOK, Workers, ReplyInv, ReplyRest
<1> HIDE DEF v
<1> DEFINE q == wq[v]
           r == Append(q, task)
<1>2. wq' = [wq EXCEPT ![v] = r] /\ q \in Seq(Tasks)
  BY <1>1
<1>3. /\ Len(q) + 1 \in DOMAIN r /\ r[Len(q) + 1] = task
      /\ \A i \in DOMAIN q : i \in DOMAIN r /\ r[i] = q[i]
  BY <1>2
<1> HIDE DEF r
<1>4. \A u \in Workers : wq'[u] = IF u = v THEN r ELSE wq[u]
  BY <1>1, <1>2
<1>5. \A c \in Conns : Pending("write", c) => Pending("write", c)'
  BY <1>3, <1>4 DEF Pending
<1>6. \A c \in Conns : task = [kind |-> "write", c |-> c] => Pending("write", c)'
  BY <1>1, <1>3, <1>4 DEF Pending
<1>7. QueuesOK' /\ EopsOK' /\ \A d \in Conns : OpsFor(d) => OpsFor(d)'
  BY DispatchKeeps DEF ReplyInv, ReplyRest, EopsOK, OpsFor
<1>8. QED
  BY <1>5, <1>6, <1>7 DEF QueuesGrow

-----------------------------------------------------------------------------
(* The steps of a worker in its task.                                      *)
Mild(c) ==
    /\ conn'[c].mem = conn[c].mem
    /\ conn'[c].active => conn[c].active
    /\ conn'[c].onWrite => conn[c].onWrite
    /\ conn'[c].events = conn[c].events
    /\ conn'[c].writeReqs >= conn[c].writeReqs

Recalls(w, c) ==
    /\ th'[w].wreqs \in Nat /\ th'[w].wrmn \in Nat
    /\ th'[w].pc \in Reads => th'[w].wreqs <= conn'[c].writeReqs

LEMMA Assemble ==
  ASSUME ReplyInv, NEW w \in Workers, NEW c \in Conns, Own(w, c),
         QueuesOK' /\ EopsOK' /\ QueuesGrow, CountOK' /\ BlankOK', Mild(c), Recalls(w, c),
         conn'[c].wbuf > 0 => conn[c].wbuf > 0 \/ Safe(c)',
         Minds(w, c) => Safe(c)',
         Holds(w, c) => FlagHeld(c)'
  PROVE  ReplyRest'
<1>1. SeenOK'
  BY SeenStep DEF Mild, Recalls
<1>2. \A d \in Conns : Safe(d)'
  BY SafeStep DEF Mild
<1>3. \A d \in Conns : FlagHeld(d)'
  BY FlagStep DEF Mild
<1>4. QED
  BY <1>1, <1>2, <1>3 DEF ReplyRest

(* A step that changes no connection.                                      *)
LEMMA Looks ==
  ASSUME ReplyInv, NEW w \in Workers, NEW c \in Conns, th[w].c = c, OthersSame(w),
         th'[w].c \in {c, NoConn}, conn' = conn, sock' = sock,
         QueuesOK' /\ EopsOK' /\ QueuesGrow,
         Recalls(w, c), Minds(w, c) => Safe(c)', Holds(w, c) => FlagHeld(c)'
  PROVE  ReplyRest'
<1>1. CountOK' /\ BlankOK'
  BY SameCounts DEF SameData
<1>2. Own(w, c)
  BY DEF Own, OnlyAt
<1>3. conn[c].writeReqs \in Nat
  BY DEF ReplyInv, ReplyRest, CountOK, Counted
<1>4. Mild(c)
  BY <1>3 DEF Mild
<1>5. QED
  BY <1>1, <1>2, <1>4, Assemble

LEMMA Recalled ==
  ASSUME ReplyInv, NEW w \in Workers, NEW c \in Conns, th[w].c = c, Remembers(w),
         conn'[c].writeReqs \in Nat, conn'[c].writeReqs >= conn[c].writeReqs,
         th'[w].pc \in Reads => th[w].pc \in Reads
  PROVE  Recalls(w, c)
<1>1. th[w].wreqs \in Nat /\ th[w].wrmn \in Nat /\ conn[c].writeReqs \in Nat
  BY DEF ReplyInv, ReplyRest, SeenOK, CountOK, Counted
<1>2. th[w].pc \in Reads => th[w].wreqs <= conn[c].writeReqs
  BY DEF ReplyInv, ReplyRest, SeenOK
<1>3. QED
  BY <1>1, <1>2 DEF Recalls, Remembers

LEMMA BranchReplies ==
  ASSUME ReplyInv, NEW w \in Workers, NEW c \in Conns, th[w].c = c, NEW to, Branch(w, to),
         to \in Reads => th[w].pc \in Reads,
         Minds(w, c) => Safe(c)', Holds(w, c) => FlagHeld(c)'
  PROVE  ReplyRest'
<1>1. To(w, to) /\ conn' = conn /\ sock' = sock /\ eops' = eops /\ NoDispatch
  BY DEF Branch, NoDispatch
<1>2. OthersSame(w) /\ th'[w].pc = to /\ th'[w].c = c /\ Remembers(w)
  BY <1>1, MovesOn DEF ReplyInv
<1>3. conn[c].writeReqs \in Nat
  BY DEF ReplyInv, ReplyRest, CountOK, Counted
<1>4. Recalls(w, c)
  BY <1>1, <1>2, <1>3, Recalled
<1>5. QED
  BY <1>1, <1>2, <1>4, QuietQueues, Looks

LEMMA ReadRawReplies ==
  ASSUME ReplyInv, NEW w \in Workers, NEW c \in Conns, ReadRaw(w, c)
  PROVE  ReplyRest'
<1>1. /\ th[w].pc = "r_raw" /\ th[w].c = c /\ Live(c) /\ eops' = eops /\ NoDispatch
  BY DEF ReadRaw, At, NoDispatch
<1>2. ListInv /\ CountOK /\ ConnFields(conn[c]) /\ SockFields(sock[c]) /\ Counted(conn[c], sock[c])
      /\ conn = [d \in Conns |-> conn[d]] /\ sock = [d \in Conns |-> sock[d]]
  BY DEF ReplyInv, ReplyRest, ListInv, ConnOK, CountOK
<1>3. QueuesOK' /\ EopsOK' /\ QueuesGrow
  BY <1>1, QuietQueues
<1>4. ~ Minds(w, c) /\ ~ Holds(w, c)
  BY <1>1 DEF Minds, Holds, Writing
<1>5. CASE /\ conn' = [conn EXCEPT ![c].rbuf = @ + sock[c].in]
           /\ sock' = [sock EXCEPT ![c].in = 0]
           /\ To(w, "r_sess")
  <2> DEFINE n == conn[c].rbuf + sock[c].in
             r == [conn[c] EXCEPT !.rbuf = n]
             t == [sock[c] EXCEPT !.in = 0]
  <2>1. conn' = [conn EXCEPT ![c] = r] /\ sock' = [sock EXCEPT ![c] = t]
    BY <1>2, <1>5
  <2>2. n = conn[c].rbuf + sock[c].in
    OBVIOUS
  <2>2a. r = [conn[c] EXCEPT !.rbuf = n] /\ t = [sock[c] EXCEPT !.in = 0]
    OBVIOUS
  <2> HIDE DEF n, r, t
  <2>3. /\ SameRest(r, conn[c]) /\ SameActive(r, conn[c]) /\ SameOnWrite(r, conn[c])
        /\ r.rbuf = n /\ r.wbuf = conn[c].wbuf /\ r.writeReqs = conn[c].writeReqs
    BY <1>2, <2>2a, SetRbuf
  <2>4. /\ SockFields(t) /\ t.in = 0 /\ t.out = sock[c].out /\ t.asked = sock[c].asked
        /\ t.answered = sock[c].answered
    BY <1>2, <2>2a, SockIn
  <2>5. conn'[c] = r /\ OnlyAt(c)
    BY <1>2, <2>1, At1
  <2>6. /\ sock' = [d \in Conns |-> sock'[d]] /\ SockFields(sock'[c])
        /\ sock'[c] = t /\ \A d \in Conns \ {c} : sock'[d] = sock[d]
    BY <1>2, <2>1, <2>4, SockSet
  <2>7. Counted(r, t)
    BY <1>2, <2>2, <2>3, <2>4 DEF Counted
  <2>8. CountOK' /\ BlankOK'
    BY <1>1, <2>3, <2>5, <2>6, <2>7, CountStep DEF SameRest, Live
  <2>9. OthersSame(w) /\ th'[w].pc = "r_sess" /\ th'[w].c = c /\ Remembers(w)
    BY <1>1, <1>2, <1>5, MovesOn
  <2>10. Own(w, c)
    BY <1>1, <2>5, <2>9 DEF Own
  <2>11. conn[c].writeReqs \in Nat
    BY <1>2 DEF Counted
  <2>12. Mild(c)
    BY <2>3, <2>5, <2>11 DEF Mild, SameRest, SameActive, SameOnWrite
  <2>13. Recalls(w, c)
    BY <1>1, <2>3, <2>5, <2>9, <2>11, Recalled DEF Reads
  <2>14. QED
    BY <1>3, <1>4, <2>3, <2>5, <2>8, <2>10, <2>12, <2>13, Assemble
<1>6. CASE conn' = conn /\ sock' = sock /\ CallInactive(w, "onRead")
  <2>1. OthersSame(w) /\ th'[w].pc = "inact_check" /\ th'[w].c = c /\ Remembers(w)
    BY <1>1, <1>2, <1>6, MovesOn
  <2>2. conn[c].writeReqs \in Nat
    BY <1>2 DEF Counted
  <2>3. Recalls(w, c)
    BY <1>1, <1>6, <2>1, <2>2, Recalled DEF Reads
  <2>4. QED
    BY <1>1, <1>3, <1>4, <1>6, <2>1, <2>3, Looks
<1>7. QED
  BY <1>5, <1>6 DEF ReadRaw

(* A reply appears in w_buf together with a worker that is to ask for it   *)
(* to be written.                                                          *)
LEMMA SessReplies ==
  ASSUME ReplyInv, NEW w \in Workers, NEW c \in Conns, SessProcess(w, c)
  PROVE  ReplyRest'
<1>1. /\ th[w].pc = "r_sess" /\ th[w].c = c /\ Live(c) /\ eops' = eops /\ NoDispatch
      /\ sock' = sock
  BY DEF SessProcess, At, NoDispatch
<1>2. ListInv /\ CountOK /\ ConnFields(conn[c]) /\ SockFields(sock[c]) /\ Counted(conn[c], sock[c])
      /\ conn = [d \in Conns |-> conn[d]] /\ sock = [d \in Conns |-> sock[d]]
  BY DEF ReplyInv, ReplyRest, ListInv, ConnOK, CountOK
<1>3. QueuesOK' /\ EopsOK' /\ QueuesGrow
  BY <1>1, QuietQueues
<1>4. ~ Minds(w, c) /\ ~ Holds(w, c)
  BY <1>1 DEF Minds, Holds, Writing
<1>5. CASE conn[c].rbuf > 0 /\ conn' = [conn EXCEPT ![c] = Answered(c)] /\ To(w, "r_notify")
  <2> DEFINE v == conn[c].rbuf - 1
             s == [conn[c] EXCEPT !.rbuf = v]
             u == conn[c].wbuf + 1
             r == [s EXCEPT !.wbuf = u]
  <2>1a. s = [conn[c] EXCEPT !.rbuf = v]
    OBVIOUS
  <2>1. /\ ConnFields(s) /\ SameRest(s, conn[c]) /\ SameActive(s, conn[c])
        /\ SameOnWrite(s, conn[c])
        /\ s.rbuf = v /\ s.wbuf = conn[c].wbuf /\ s.writeReqs = conn[c].writeReqs
    <3> HIDE DEF s, v
    <3>1. QED
      BY <1>2, <2>1a, SetRbuf
  <2>2. Answered(c) = r
    BY <2>1 DEF Answered
  <2>3. v = conn[c].rbuf - 1 /\ u = conn[c].wbuf + 1 /\ r = [s EXCEPT !.wbuf = u]
    OBVIOUS
  <2> HIDE DEF v, u, s, r
  <2>4. /\ SameRest(r, s) /\ SameActive(r, s) /\ SameOnWrite(r, s)
        /\ r.rbuf = s.rbuf /\ r.wbuf = u /\ r.writeReqs = s.writeReqs
    BY <2>1, <2>3, SetWbuf
  <2>5. conn'[c] = r /\ OnlyAt(c)
    BY <1>2, <1>5, <2>2, At1
  <2>6. Counted(r, sock[c])
    BY <1>2, <1>5, <2>1, <2>3, <2>4 DEF Counted
  <2>7. CountOK' /\ BlankOK'
    BY <1>1, <1>2, <2>1, <2>4, <2>5, <2>6, CountStep DEF SameRest, Live
  <2>8. OthersSame(w) /\ th'[w].pc = "r_notify" /\ th'[w].c = c /\ Remembers(w)
    BY <1>1, <1>2, <1>5, MovesOn
  <2>9. Own(w, c)
    BY <1>1, <2>5, <2>8 DEF Own
  <2>10. conn[c].writeReqs \in Nat
    BY <1>2 DEF Counted
  <2>11. Mild(c)
    BY <2>1, <2>4, <2>5, <2>10 DEF Mild, SameRest, SameActive, SameOnWrite
  <2>12. Recalls(w, c)
    BY <1>1, <2>1, <2>4, <2>5, <2>8, <2>10, Recalled DEF Reads
  <2>13. Safe(c)'
    BY <2>8 DEF Safe, Minded, Minds
  <2>14. QED
    BY <1>3, <1>4, <2>7, <2>9, <2>11, <2>12, <2>13, Assemble
<1>6. CASE conn' = conn /\ To(w, "r_restore")
  <2>1. OthersSame(w) /\ th'[w].pc = "r_restore" /\ th'[w].c = c /\ Remembers(w)
    BY <1>1, <1>2, <1>6, MovesOn
  <2>2. conn[c].writeReqs \in Nat
    BY <1>2 DEF Counted
  <2>3. Recalls(w, c)
    BY <1>1, <1>6, <2>1, <2>2, Recalled DEF Reads
  <2>4. QED
    BY <1>1, <1>3, <1>4, <1>6, <2>1, <2>3, Looks
<1>7. QED
  BY <1>5, <1>6 DEF SessProcess, HasLine

(* atm_conn_write_notify: with on_write set, the write task under way will *)
(* find write_reqs changed; else the loop is asked for an event.           *)
LEMMA NotifyReplies ==
  ASSUME ReplyInv, NEW w \in Workers, NEW c \in Conns, WriteNotify(w, c)
  PROVE  ReplyRest'
<1>1. /\ th[w].pc = "r_notify" /\ th[w].c = c /\ Live(c) /\ NoDispatch
      /\ sock' = sock /\ To(w, "r_restore")
  BY DEF WriteNotify, At, NoDispatch
<1>2. ListInv /\ CountOK /\ ConnFields(conn[c]) /\ SockFields(sock[c]) /\ Counted(conn[c], sock[c])
      /\ conn = [d \in Conns |-> conn[d]] /\ sock = [d \in Conns |-> sock[d]]
  BY DEF ReplyInv, ReplyRest, ListInv, ConnOK, CountOK
<1>3. ~ Holds(w, c)
  BY <1>1 DEF Holds, Writing
<1>4. OthersSame(w) /\ th'[w].pc = "r_restore" /\ th'[w].c = c /\ Remembers(w)
  BY <1>1, <1>2, MovesOn
<1>5. conn[c].writeReqs \in Nat
  BY <1>2 DEF Counted
<1>6. CASE /\ conn[c].active
           /\ conn' = [conn EXCEPT ![c].writeReqs = @ + 1]
           /\ IF conn[c].onWrite THEN UNCHANGED eops ELSE AddNotify(c, WRITE)
  <2> DEFINE n == conn[c].writeReqs + 1
             r == [conn[c] EXCEPT !.writeReqs = n]
  <2>1. conn' = [conn EXCEPT ![c] = r]
    BY <1>2, <1>6
  <2>2. n = conn[c].writeReqs + 1 /\ r = [conn[c] EXCEPT !.writeReqs = n]
    OBVIOUS
  <2> HIDE DEF n, r
  <2>3. /\ SameRest(r, conn[c]) /\ SameActive(r, conn[c]) /\ SameOnWrite(r, conn[c])
        /\ r.rbuf = conn[c].rbuf /\ r.wbuf = conn[c].wbuf /\ r.writeReqs = n
    BY <1>2, <2>2, SetWriteReqs
  <2>4. conn'[c] = r /\ OnlyAt(c)
    BY <1>2, <2>1, At1
  <2>5. Counted(r, sock[c])
    BY <1>2, <2>2, <2>3 DEF Counted
  <2>6. CountOK' /\ BlankOK'
    BY <1>1, <1>2, <2>3, <2>4, <2>5, CountStep DEF SameRest, Live
  <2>7. Own(w, c)
    BY <1>1, <1>4, <2>4 DEF Own
  <2>8. Mild(c)
    BY <1>5, <2>2, <2>3, <2>4 DEF Mild, SameRest, SameActive, SameOnWrite
  <2>9. Recalls(w, c)
    <3>1. conn'[c].writeReqs \in Nat /\ conn'[c].writeReqs >= conn[c].writeReqs
      BY <1>5, <2>2, <2>3, <2>4
    <3>2. th'[w].pc \notin Reads
      BY <1>4 DEF Reads
    <3>3. QED
      BY <1>1, <1>4, <3>1, <3>2, Recalled
  <2>10. QueuesOK' /\ EopsOK' /\ QueuesGrow
    BY <1>1, <1>6, QuietQueues, Notified
  <2>11. Safe(c)'
    <3>1. CASE ~ conn[c].onWrite
      <4>1. OpsFor(c)'
        BY <1>1, <1>6, <3>1, Notified
      <4>2. QED
        BY <4>1 DEF Safe, Minded
    <3>2. CASE conn[c].onWrite
      <4>1. FlagHeld(c)
        BY DEF ReplyInv, ReplyRest
      <4>2. Pending("write", c) \/ \E v \in Workers : Holds(v, c)
        BY <1>1, <1>6, <3>2, <4>1 DEF FlagHeld
      <4>3. CASE Pending("write", c)
        BY <2>10, <4>3 DEF QueuesGrow, Safe, Minded
      <4>4. ASSUME NEW v \in Workers, Holds(v, c) PROVE Safe(c)'
        <5>1. v # w /\ th'[v] = th[v]
          BY <1>3, <1>4, <4>4 DEF OthersSame
        <5>2. /\ th[v].wreqs \in Nat
              /\ th[v].pc \in Reads => th[v].wreqs <= conn[c].writeReqs
          BY <4>4 DEF ReplyInv, ReplyRest, SeenOK, Holds
        <5>3. th[v].pc \in Reads => conn'[c].writeReqs > th[v].wreqs
          BY <1>5, <2>2, <2>3, <2>4, <5>2
        <5>4. Minds(v, c)'
          BY <4>4, <5>1, <5>3 DEF Minds, Holds, Writing, Reads
        <5>5. QED
          BY <5>4 DEF Safe, Minded
      <4>5. QED
        BY <4>2, <4>3, <4>4
    <3>3. QED
      BY <3>1, <3>2
  <2>12. QED
    BY <1>3, <2>6, <2>7, <2>8, <2>9, <2>10, <2>11, Assemble
<1>7. CASE ~ conn[c].active /\ conn' = conn /\ eops' = eops
  <2>1. QueuesOK' /\ EopsOK' /\ QueuesGrow
    BY <1>1, <1>7, QuietQueues
  <2>2. Safe(c)'
    BY <1>7 DEF Safe
  <2>3. Recalls(w, c)
    BY <1>1, <1>4, <1>5, <1>7, Recalled DEF Reads
  <2>4. QED
    BY <1>1, <1>3, <1>4, <1>7, <2>1, <2>2, <2>3, Looks
<1>8. QED
  BY <1>6, <1>7 DEF WriteNotify

LEMMA ReadAddReplies ==
  ASSUME ReplyInv, NEW w \in Workers, NEW c \in Conns, ReadAdd(w, c)
  PROVE  ReplyRest'
<1>1. /\ th[w].pc = "r_add" /\ th[w].c = c /\ NoDispatch /\ conn' = conn /\ sock' = sock
      /\ To(w, "r_check") /\ AddNotify(c, READ)
  BY DEF ReadAdd, At, NoDispatch
<1>2. OthersSame(w) /\ th'[w].pc = "r_check" /\ th'[w].c = c /\ Remembers(w)
  BY <1>1, MovesOn DEF ReplyInv
<1>3. QueuesOK' /\ EopsOK' /\ QueuesGrow
  BY <1>1, Notified
<1>4. conn[c].writeReqs \in Nat
  BY DEF ReplyInv, ReplyRest, CountOK, Counted
<1>5. Recalls(w, c)
  BY <1>1, <1>2, <1>4, Recalled DEF Reads
<1>6. ~ Minds(w, c) /\ ~ Holds(w, c)
  BY <1>1 DEF Minds, Holds, Writing
<1>7. QED
  BY <1>1, <1>2, <1>3, <1>5, <1>6, Looks

(* A flag is cleared.                                                      *)
LEMMA Cleared ==
  ASSUME ReplyInv, NEW c \in Conns, NEW flag \in {"onRead", "onWrite"}, sock' = sock,
         conn' = [conn EXCEPT ![c][flag] = FALSE]
  PROVE  /\ CountOK' /\ BlankOK' /\ Mild(c) /\ OnlyAt(c)
         /\ conn'[c].mem = conn[c].mem
         /\ SameActive(conn'[c], conn[c]) /\ SameData(conn'[c], conn[c])
         /\ flag = "onWrite" => ~ conn'[c].onWrite
<1>1. conn = [d \in Conns |-> conn[d]] /\ ConnFields(conn[c]) /\ conn[c].writeReqs \in Nat
  BY DEF ReplyInv, ReplyRest, ListInv, ConnOK, CountOK, Counted
<1> DEFINE r == [conn[c] EXCEPT ![flag] = FALSE]
<1>2. conn' = [conn EXCEPT ![c] = r]
  BY <1>1
<1>3. /\ SameRest(r, conn[c]) /\ SameActive(r, conn[c]) /\ SameData(r, conn[c])
      /\ r.onWrite => conn[c].onWrite
      /\ flag = "onWrite" => ~ r.onWrite
  <2>1. CASE flag = "onRead"
    <3>1. r = [conn[c] EXCEPT !.onRead = FALSE]
      BY <2>1
    <3> HIDE DEF r
    <3>2. /\ SameRest(r, conn[c]) /\ SameActive(r, conn[c]) /\ SameOnWrite(r, conn[c])
          /\ r.rbuf = conn[c].rbuf /\ r.wbuf = conn[c].wbuf /\ r.writeReqs = conn[c].writeReqs
      BY <1>1, <3>1, SetOnRead
    <3>3. QED
      BY <2>1, <3>2 DEF SameData, SameOnWrite
  <2>2. CASE flag = "onWrite"
    <3>1. r = [conn[c] EXCEPT !.onWrite = FALSE]
      BY <2>2
    <3> HIDE DEF r
    <3>2. /\ SameRest(r, conn[c]) /\ SameActive(r, conn[c]) /\ r.onWrite = FALSE
          /\ r.rbuf = conn[c].rbuf /\ r.wbuf = conn[c].wbuf /\ r.writeReqs = conn[c].writeReqs
      BY <1>1, <3>1, SetOnWrite
    <3>3. QED
      BY <2>2, <3>2 DEF SameData
  <2>3. QED
    BY <2>1, <2>2
<1> HIDE DEF r
<1>4. conn'[c] = r /\ OnlyAt(c)
  BY <1>2, At1 DEF ReplyInv
<1>5. Mild(c)
  <2>1. r.writeReqs >= conn[c].writeReqs
    BY <1>1, <1>3 DEF SameData
  <2>2. QED
    BY <1>3, <1>4, <2>1, Zenon DEF Mild, SameRest, SameActive
<1>6. CountOK' /\ BlankOK'
  <2>1. \A d \in Conns : SameData(conn'[d], conn[d]) /\ conn'[d].mem = conn[d].mem
    BY <1>3, <1>4 DEF SameData, SameRest, OnlyAt
  <2>2. QED
    BY <2>1, SameCounts
<1>7. QED
  BY <1>3, <1>4, <1>5, <1>6 DEF SameRest

LEMMA CheckReplies ==
  ASSUME ReplyInv, NEW w \in Workers, NEW c \in Conns, NEW flag \in {"onRead", "onWrite"},
         th[w].c = c, th[w].pc \in {"r_check", "w_check"}, FreeCheck(w, c, flag)
  PROVE  ReplyRest'
<1>1. QueuesOK' /\ EopsOK' /\ QueuesGrow
  <2>1. FreeTask \in Tasks
    BY DEF Tasks
  <2>2. QED
    BY <2>1, QuietQueues, Dispatched DEF FreeCheck
<1>2. OthersSame(w) /\ th'[w] = IdleThread
  BY MovesOn DEF FreeCheck, ReplyInv
<1>3. CountOK' /\ BlankOK' /\ Mild(c) /\ OnlyAt(c) /\ SameData(conn'[c], conn[c])
  BY Cleared DEF FreeCheck
<1>4. Own(w, c) /\ Recalls(w, c)
  BY <1>2, <1>3 DEF Own, Recalls, IdleThread, Reads
<1>5. ~ Minds(w, c) /\ ~ Holds(w, c)
  BY DEF Minds, Holds, Writing
<1>6. QED
  BY <1>1, <1>3, <1>4, <1>5, Assemble DEF SameData

(* The write task looks at write_reqs first and at w_buf after it.         *)
LEMMA LooksReplies ==
  ASSUME ReplyInv, NEW w \in Workers, NEW c \in Conns, WriteReqs(w, c) \/ WriteRmn(w, c)
  PROVE  ReplyRest'
<1>1. /\ th[w].c = c /\ NoDispatch /\ conn' = conn /\ sock' = sock /\ eops' = eops
  BY DEF WriteReqs, WriteRmn, At, NoDispatch
<1>2. /\ th = [v \in Workers |-> th[v]] /\ ThreadFields(th[w])
      /\ th[w].wreqs \in Nat /\ th[w].wrmn \in Nat
      /\ conn[c].writeReqs \in Nat /\ conn[c].wbuf \in Nat
  BY DEF ReplyInv, ReplyRest, ListInv, ThreadOK, SeenOK, CountOK, Counted
<1>3. QueuesOK' /\ EopsOK' /\ QueuesGrow
  BY <1>1, QuietQueues
<1>4. CASE WriteReqs(w, c)
  <2> DEFINE v == conn[c].writeReqs
             s == [th[w] EXCEPT !.pc = "w_raw"]
             t == [s EXCEPT !.wreqs = v]
  <2>1. th' = [th EXCEPT ![w] = t]
    BY <1>2, <1>4 DEF WriteReqs
  <2>2. s.pc = "w_raw" /\ s.c = th[w].c /\ s.wrmn = th[w].wrmn /\ ThreadFields(s)
    BY <1>2 DEF ThreadFields
  <2> HIDE DEF v, s
  <2>3. t.pc = s.pc /\ t.c = s.c /\ t.wreqs = v /\ t.wrmn = s.wrmn
    BY <2>2 DEF ThreadFields
  <2> HIDE DEF t
  <2>4. th'[w] = t /\ OthersSame(w)
    BY <1>2, <2>1 DEF OthersSame
  <2>5. Recalls(w, c)
    BY <1>1, <1>2, <2>2, <2>3, <2>4 DEF Recalls, v
  <2>6. Minds(w, c)' /\ Holds(w, c)'
    BY <1>1, <2>2, <2>3, <2>4 DEF Minds, Holds, Writing
  <2>7. Safe(c)' /\ FlagHeld(c)'
    BY <2>6 DEF Safe, Minded, FlagHeld
  <2>8. QED
    BY <1>1, <1>3, <2>2, <2>3, <2>4, <2>5, <2>7, Looks
<1>5. CASE WriteRmn(w, c)
  <2> DEFINE v == conn[c].wbuf
             s == [th[w] EXCEPT !.pc = "w_inter"]
             t == [s EXCEPT !.wrmn = v]
  <2>1. th' = [th EXCEPT ![w] = t]
    BY <1>2, <1>5 DEF WriteRmn
  <2>2. s.pc = "w_inter" /\ s.c = th[w].c /\ s.wreqs = th[w].wreqs /\ ThreadFields(s)
    BY <1>2 DEF ThreadFields
  <2> HIDE DEF v, s
  <2>3. t.pc = s.pc /\ t.c = s.c /\ t.wreqs = s.wreqs /\ t.wrmn = v
    BY <2>2 DEF ThreadFields
  <2> HIDE DEF t
  <2>4. th'[w] = t /\ OthersSame(w)
    BY <1>2, <2>1 DEF OthersSame
  <2>5. th[w].wreqs <= conn[c].writeReqs
    BY <1>1, <1>5 DEF ReplyInv, ReplyRest, SeenOK, WriteRmn, At, Reads
  <2>6. Recalls(w, c)
    BY <1>1, <1>2, <2>2, <2>3, <2>4, <2>5 DEF Recalls, v
  <2>7. Holds(w, c)' /\ (conn'[c].wbuf > 0 => Minds(w, c)')
    BY <1>1, <2>2, <2>3, <2>4 DEF Minds, Holds, Writing, v
  <2>8. Safe(c)' /\ FlagHeld(c)'
    BY <2>7 DEF Safe, Minded, FlagHeld
  <2>9. QED
    BY <1>1, <1>3, <2>2, <2>3, <2>4, <2>6, <2>8, Looks
<1>6. QED
  BY <1>4, <1>5

(* The socket takes every reply there is, so that none is left in w_buf.   *)
LEMMA WriteRawReplies ==
  ASSUME MaxReqs <= SockCap, ReplyInv, NEW w \in Workers, NEW c \in Conns, WriteRaw(w, c)
  PROVE  ReplyRest'
<1>1. /\ th[w].pc = "w_raw" /\ th[w].c = c /\ Live(c) /\ eops' = eops /\ NoDispatch
  BY DEF WriteRaw, At, NoDispatch
<1>2. ListInv /\ CountOK /\ ConnFields(conn[c]) /\ SockFields(sock[c]) /\ Counted(conn[c], sock[c])
      /\ conn = [d \in Conns |-> conn[d]] /\ sock = [d \in Conns |-> sock[d]]
  BY DEF ReplyInv, ReplyRest, ListInv, ConnOK, CountOK
<1>3. QueuesOK' /\ EopsOK' /\ QueuesGrow
  BY <1>1, QuietQueues
<1>4. conn[c].writeReqs \in Nat
  BY <1>2 DEF Counted
<1>5. CASE conn' = conn /\ sock' = sock /\ (To(w, "w_rmn") \/ CallInactive(w, "onWrite"))
  <2>1. OthersSame(w) /\ th'[w].pc \in {"w_rmn", "inact_check"} /\ th'[w].c = c /\ Remembers(w)
    BY <1>1, <1>2, <1>5, MovesOn
  <2>2. Recalls(w, c)
    BY <1>1, <1>4, <1>5, <2>1, Recalled DEF Reads
  <2>3. Minds(w, c)' /\ Holds(w, c)'
    BY <2>1 DEF Minds, Holds, Writing
  <2>4. Safe(c)' /\ FlagHeld(c)'
    BY <2>3 DEF Safe, Minded, FlagHeld
  <2>5. QED
    BY <1>1, <1>3, <1>5, <2>1, <2>2, <2>4, Looks
<1>6. ASSUME NEW n \in 0 .. conn[c].wbuf, To(w, "w_yield"),
             n = conn[c].wbuf \/ sock[c].out + n = SockCap,
             conn' = [conn EXCEPT ![c].wbuf = @ - n],
             sock' = [sock EXCEPT ![c].out = @ + n]
      PROVE  ReplyRest'
  <2> DEFINE u == conn[c].wbuf - n
             v == sock[c].out + n
             r == [conn[c] EXCEPT !.wbuf = u]
             t == [sock[c] EXCEPT !.out = v]
  <2>1. conn' = [conn EXCEPT ![c] = r] /\ sock' = [sock EXCEPT ![c] = t]
    BY <1>2, <1>6
  <2>2. /\ u = conn[c].wbuf - n /\ r = [conn[c] EXCEPT !.wbuf = u]
        /\ v = sock[c].out + n /\ t = [sock[c] EXCEPT !.out = v]
    OBVIOUS
  <2> HIDE DEF u, v, r, t
  <2>3. /\ SameRest(r, conn[c]) /\ SameActive(r, conn[c]) /\ SameOnWrite(r, conn[c])
        /\ r.rbuf = conn[c].rbuf /\ r.wbuf = u /\ r.writeReqs = conn[c].writeReqs
    BY <1>2, <2>2, SetWbuf
  <2>4. /\ SockFields(t) /\ t.in = sock[c].in /\ t.out = v /\ t.asked = sock[c].asked
        /\ t.answered = sock[c].answered
    BY <1>2, <2>2, SockOut
  <2>5. conn'[c] = r /\ OnlyAt(c)
    BY <1>2, <2>1, At1
  <2>6. /\ sock' = [d \in Conns |-> sock'[d]] /\ SockFields(sock'[c])
        /\ sock'[c] = t /\ \A d \in Conns \ {c} : sock'[d] = sock[d]
    BY <1>2, <2>1, <2>4, SockSet
  <2>7. Counted(r, t) /\ u = 0
    <3>1. /\ {conn[c].rbuf, conn[c].wbuf, conn[c].writeReqs, sock[c].asked, sock[c].in,
              sock[c].out, sock[c].answered} \subseteq Nat
          /\ sock[c].in + conn[c].rbuf + conn[c].wbuf + sock[c].out + sock[c].answered
               = sock[c].asked
          /\ sock[c].asked <= MaxReqs
      BY <1>2 DEF Counted
    <3>2. u = 0
      <4>1. MaxReqs \in Nat /\ SockCap \in Nat
        BY ConnAssumption
      <4>2. sock[c].out + conn[c].wbuf <= SockCap
        BY <3>1, <4>1
      <4>3. n \in Nat /\ n <= conn[c].wbuf
        BY <1>6, <3>1
      <4>4. n = conn[c].wbuf
        <5>1. n = conn[c].wbuf \/ sock[c].out + n = SockCap
          BY <1>6
        <5>2. conn[c].wbuf \in Nat /\ sock[c].out \in Nat
          BY <3>1
        <5>3. QED
          BY <4>1, <4>2, <4>3, <5>1, <5>2
      <4>5. QED
        BY <2>2, <3>1, <4>4
    <3>3. Counted(r, t)
      BY <2>2, <2>3, <2>4, <3>1 DEF Counted
    <3>4. QED
      BY <3>2, <3>3
  <2>8. CountOK' /\ BlankOK'
    BY <1>1, <2>3, <2>5, <2>6, <2>7, CountStep DEF SameRest, Live
  <2>9. OthersSame(w) /\ th'[w].pc = "w_yield" /\ th'[w].c = c /\ Remembers(w)
    BY <1>1, <1>2, <1>6, MovesOn
  <2>10. Own(w, c)
    BY <1>1, <2>5, <2>9 DEF Own
  <2>11. Mild(c)
    BY <1>4, <2>3, <2>5 DEF Mild, SameRest, SameActive, SameOnWrite
  <2>12. Recalls(w, c)
    BY <1>1, <1>4, <2>3, <2>5, <2>9, Recalled DEF Reads
  <2>13. Safe(c)'
    BY <2>3, <2>5, <2>7 DEF Safe
  <2>14. FlagHeld(c)'
    BY <2>9 DEF FlagHeld, Holds, Writing
  <2>15. QED
    BY <1>3, <2>8, <2>10, <2>11, <2>12, <2>13, <2>14, Assemble
<1>7. QED
  BY <1>5, <1>6 DEF WriteRaw

(* The write task ends: with on_write cleared nobody counts on it any more.*)
LEMMA EndReplies ==
  ASSUME ReplyInv, NEW w \in Workers, NEW c \in Conns, th[w].c = c, To(w, "w_check"),
         conn' = [conn EXCEPT ![c].onWrite = FALSE], sock' = sock,
         QueuesOK' /\ EopsOK' /\ QueuesGrow, Minds(w, c) => Safe(c)'
  PROVE  ReplyRest'
<1>1. OthersSame(w) /\ th'[w].pc = "w_check" /\ th'[w].c = c /\ Remembers(w)
  BY MovesOn DEF ReplyInv
<1>2. /\ CountOK' /\ BlankOK' /\ Mild(c) /\ OnlyAt(c) /\ SameData(conn'[c], conn[c])
      /\ ~ conn'[c].onWrite
  <2>1. conn' = [conn EXCEPT ![c]["onWrite"] = FALSE]
    OBVIOUS
  <2>2. QED
    BY <2>1, Cleared
<1>3. Own(w, c)
  BY <1>1, <1>2 DEF Own
<1>4. conn[c].writeReqs \in Nat /\ conn'[c].writeReqs = conn[c].writeReqs
  BY <1>2 DEF ReplyInv, ReplyRest, CountOK, Counted, SameData
<1>5. Recalls(w, c)
  BY <1>1, <1>4, Recalled DEF Reads
<1>6. FlagHeld(c)'
  BY <1>2 DEF FlagHeld
<1>7. QED
  BY <1>2, <1>3, <1>5, <1>6, Assemble DEF SameData

LEMMA InterReplies ==
  ASSUME ReplyInv, NEW w \in Workers, NEW c \in Conns, InterWrite(w, c)
  PROVE  ReplyRest'
<1>1. /\ th[w].pc = "w_inter" /\ th[w].c = c /\ NoDispatch /\ sock' = sock
      /\ To(w, "w_check") /\ conn' = [conn EXCEPT ![c].onWrite = FALSE]
  BY DEF InterWrite, At, NoDispatch
<1>2. SameActive(conn'[c], conn[c])
  <2>1. conn' = [conn EXCEPT ![c]["onWrite"] = FALSE]
    BY <1>1
  <2>2. QED
    BY <1>1, <2>1, Cleared
<1>3. CASE AddNotify(c, WRITE)
  <2>1. QueuesOK' /\ EopsOK' /\ QueuesGrow /\ OpsFor(c)'
    BY <1>1, <1>3, Notified
  <2>2. Safe(c)'
    BY <2>1 DEF Safe, Minded
  <2>3. QED
    BY <1>1, <2>1, <2>2, EndReplies
<1>4. CASE /\ ~ ((conn[c].writeReqs > th[w].wreqs \/ th[w].wrmn > 0) /\ conn[c].active)
           /\ eops' = eops
  <2>1. QueuesOK' /\ EopsOK' /\ QueuesGrow
    BY <1>1, <1>4, QuietQueues
  <2>2. Minds(w, c) => ~ conn[c].active
    BY <1>1, <1>4 DEF Minds
  <2>3. Minds(w, c) => Safe(c)'
    BY <1>2, <2>2 DEF Safe, SameActive
  <2>4. QED
    BY <1>1, <2>1, <2>3, EndReplies
<1>5. QED
  BY <1>3, <1>4 DEF InterWrite

LEMMA YieldReplies ==
  ASSUME ReplyInv, NEW w \in Workers, NEW c \in Conns, YieldWrite(w, c)
  PROVE  ReplyRest'
<1>1. /\ th[w].pc = "w_yield" /\ th[w].c = c /\ NoDispatch /\ sock' = sock /\ eops' = eops
  BY DEF YieldWrite, At, NoDispatch
<1>2. QueuesOK' /\ EopsOK' /\ QueuesGrow
  BY <1>1, QuietQueues
<1>3. CASE /\ conn[c].writeReqs = th[w].wreqs \/ ~ conn[c].active
           /\ conn' = [conn EXCEPT ![c].onWrite = FALSE] /\ To(w, "w_check")
  <2>1. SameActive(conn'[c], conn[c])
    <3>1. conn' = [conn EXCEPT ![c]["onWrite"] = FALSE]
      BY <1>3
    <3>2. QED
      BY <1>1, <3>1, Cleared
  <2>2. conn[c].writeReqs \in Nat
    BY DEF ReplyInv, ReplyRest, CountOK, Counted
  <2>3. Minds(w, c) => ~ conn[c].active
    BY <1>1, <1>3, <2>2 DEF Minds
  <2>4. Minds(w, c) => Safe(c)'
    BY <2>1, <2>3 DEF Safe, SameActive
  <2>5. QED
    BY <1>1, <1>2, <1>3, <2>4, EndReplies
<1>4. CASE conn' = conn /\ To(w, "w_active")
  <2>1. OthersSame(w) /\ th'[w].pc = "w_active" /\ th'[w].c = c /\ Remembers(w)
    BY <1>1, <1>4, MovesOn DEF ReplyInv
  <2>2. conn[c].writeReqs \in Nat
    BY DEF ReplyInv, ReplyRest, CountOK, Counted
  <2>3. Recalls(w, c)
    BY <1>1, <1>4, <2>1, <2>2, Recalled DEF Reads
  <2>4. Minds(w, c)' /\ Holds(w, c)'
    BY <2>1 DEF Minds, Holds, Writing
  <2>5. Safe(c)' /\ FlagHeld(c)'
    BY <2>4 DEF Safe, Minded, FlagHeld
  <2>6. QED
    BY <1>1, <1>2, <1>4, <2>1, <2>3, <2>5, Looks
<1>5. QED
  BY <1>3, <1>4 DEF YieldWrite

(* The connection becomes inactive: its replies are given up.              *)
LEMMA LockReplies ==
  ASSUME ReplyInv, NEW w \in Workers, NEW c \in Conns, InactiveLock(w, c)
  PROVE  ReplyRest'
<1>1. /\ th[w].pc = "inact_lock" /\ th[w].c = c /\ NoDispatch /\ sock' = sock /\ eops' = eops
  BY DEF InactiveLock, At, NoDispatch
<1>2. QueuesOK' /\ EopsOK' /\ QueuesGrow
  BY <1>1, QuietQueues
<1>3. /\ conn = [d \in Conns |-> conn[d]] /\ ConnFields(conn[c]) /\ conn[c].writeReqs \in Nat
      /\ ListInv /\ th[w].flag \in {"onRead", "onWrite"}
  BY DEF ReplyInv, ReplyRest, ListInv, ConnOK, ThreadOK, CountOK, Counted
<1>4. CASE /\ conn[c].active
           /\ conn' = [conn EXCEPT ![c].active = FALSE, ![c][th[w].flag] = FALSE]
           /\ To(w, "inact_unlock")
  <2> DEFINE s == [conn[c] EXCEPT !.active = FALSE]
             r == [s EXCEPT ![th[w].flag] = FALSE]
  <2>1. conn' = [conn EXCEPT ![c] = r] /\ s = [conn[c] EXCEPT !.active = FALSE]
    BY <1>3, <1>4
  <2>2. \/ r = [s EXCEPT !.onRead = FALSE]
        \/ r = [s EXCEPT !.onWrite = FALSE]
    BY <1>3
  <2> HIDE DEF s, r
  <2>3. /\ ConnFields(s) /\ SameRest(s, conn[c]) /\ s.active = FALSE /\ SameOnWrite(s, conn[c])
        /\ s.rbuf = conn[c].rbuf /\ s.wbuf = conn[c].wbuf /\ s.writeReqs = conn[c].writeReqs
    BY <1>3, <2>1, SetActive
  <2>4. /\ SameRest(r, s) /\ SameActive(r, s) /\ (r.onWrite => s.onWrite)
        /\ r.rbuf = s.rbuf /\ r.wbuf = s.wbuf /\ r.writeReqs = s.writeReqs
    <3>1. CASE r = [s EXCEPT !.onRead = FALSE]
      <4>1. /\ SameRest(r, s) /\ SameActive(r, s) /\ SameOnWrite(r, s)
            /\ r.rbuf = s.rbuf /\ r.wbuf = s.wbuf /\ r.writeReqs = s.writeReqs
        BY <2>3, <3>1, SetOnRead
      <4>2. QED
        BY <4>1 DEF SameOnWrite
    <3>2. CASE r = [s EXCEPT !.onWrite = FALSE]
      <4>1. /\ SameRest(r, s) /\ SameActive(r, s) /\ r.onWrite = FALSE
            /\ r.rbuf = s.rbuf /\ r.wbuf = s.wbuf /\ r.writeReqs = s.writeReqs
        BY <2>3, <3>2, SetOnWrite
      <4>2. QED
        BY <4>1
    <3>3. QED
      BY <2>2, <3>1, <3>2
  <2>5. conn'[c] = r /\ OnlyAt(c)
    BY <1>3, <2>1, At1
  <2>6. CountOK' /\ BlankOK'
    <3>1. \A d \in Conns : SameData(conn'[d], conn[d]) /\ conn'[d].mem = conn[d].mem
      BY <2>3, <2>4, <2>5 DEF SameData, SameRest, OnlyAt
    <3>2. QED
      BY <1>1, <3>1, SameCounts
  <2>7. ~ conn'[c].active
    BY <2>3, <2>4, <2>5 DEF SameActive
  <2>8. Mild(c)
    <3>1. r.writeReqs >= conn[c].writeReqs
      BY <1>3, <2>3, <2>4
    <3>2. QED
      BY <2>3, <2>4, <2>5, <2>7, <3>1, Zenon DEF Mild, SameRest, SameOnWrite
  <2>9. OthersSame(w) /\ th'[w].pc = "inact_unlock" /\ th'[w].c = c /\ Remembers(w)
    BY <1>1, <1>3, <1>4, MovesOn
  <2>10. Own(w, c)
    BY <1>1, <2>5, <2>9 DEF Own
  <2>11. Recalls(w, c)
    BY <1>1, <1>3, <2>3, <2>4, <2>5, <2>9, Recalled DEF Reads
  <2>12. Safe(c)' /\ FlagHeld(c)'
    BY <2>7 DEF Safe, FlagHeld
  <2>13. QED
    BY <1>2, <2>6, <2>8, <2>10, <2>11, <2>12, Assemble
<1>5. CASE ~ conn[c].active /\ conn' = conn /\ To(w, "inact_notify")
  <2>1. OthersSame(w) /\ th'[w].pc = "inact_notify" /\ th'[w].c = c /\ Remembers(w)
    BY <1>1, <1>3, <1>5, MovesOn
  <2>2. Recalls(w, c)
    BY <1>1, <1>3, <1>5, <2>1, Recalled DEF Reads
  <2>3. Safe(c)' /\ FlagHeld(c)'
    BY <1>5 DEF Safe, FlagHeld
  <2>4. QED
    BY <1>1, <1>2, <1>5, <2>1, <2>2, <2>3, Looks
<1>6. QED
  BY <1>4, <1>5 DEF InactiveLock

LEMMA BranchesReply ==
  ASSUME ReplyInv, NEW w \in Workers, NEW c \in Conns,
         \/ ReadActive(w, c) \/ ReadRestore(w, c) \/ WriteActive(w, c)
         \/ InactiveCheck(w, c) \/ InactiveUnlock(w, c)
  PROVE  ReplyRest'
<1>1. CASE ReadActive(w, c) \/ ReadRestore(w, c) \/ InactiveUnlock(w, c)
  <2>1. PICK to \in {"r_raw", "r_restore", "r_add", "r_check", "inact_notify"} :
           Branch(w, to) /\ th[w].c = c
    BY <1>1 DEF ReadActive, ReadRestore, InactiveUnlock, At
  <2>2. ~ Minds(w, c) /\ ~ Holds(w, c)
    BY <1>1 DEF ReadActive, ReadRestore, InactiveUnlock, At, Minds, Holds, Writing
  <2>3. QED
    BY <2>1, <2>2, BranchReplies DEF Reads
<1>2. CASE WriteActive(w, c) \/ InactiveCheck(w, c)
  <2>1. CASE conn[c].active
    <3>1. PICK to \in {"w_reqs", "inact_lock"} : Branch(w, to) /\ th[w].c = c
      BY <1>2, <2>1 DEF WriteActive, InactiveCheck, At
    <3>2. th'[w].pc = to /\ th'[w].c = c
      BY <3>1, MovesOn DEF Branch, ReplyInv
    <3>3. Minds(w, c)' /\ Holds(w, c)'
      BY <3>2 DEF Minds, Holds, Writing
    <3>4. Safe(c)' /\ FlagHeld(c)'
      BY <3>3 DEF Safe, Minded, FlagHeld
    <3>5. QED
      BY <3>1, <3>4, BranchReplies DEF Reads
  <2>2. CASE ~ conn[c].active
    <3>1. PICK to \in {"w_check", "inact_notify"} : Branch(w, to) /\ th[w].c = c
      BY <1>2, <2>2 DEF WriteActive, InactiveCheck, At
    <3>2. Safe(c)' /\ FlagHeld(c)'
      BY <2>2, <3>1 DEF Safe, FlagHeld, Branch
    <3>3. QED
      BY <3>1, <3>2, BranchReplies DEF Reads
  <2>3. QED
    BY <2>1, <2>2
<1>3. QED
  BY <1>1, <1>2

-----------------------------------------------------------------------------
(* The steps of a worker that is in no task of a connection.               *)
LEMMA Aside ==
  ASSUME ReplyInv, NEW w \in Workers, OthersSame(w), th[w].pc \in {"f_run", "inact_notify"},
         th'[w] = IdleThread, QueuesOK' /\ EopsOK' /\ QueuesGrow, CountOK' /\ BlankOK',
         \A c \in Conns : /\ conn'[c] = conn[c] \/ ~ Live(c)'
                          /\ conn'[c].writeReqs = conn[c].writeReqs
  PROVE  ReplyRest'
<1>1. SeenOK'
  <2>1. SeenOK
    BY DEF ReplyInv, ReplyRest
  <2>2. ASSUME NEW v \in Workers
        PROVE  /\ th'[v].wreqs \in Nat /\ th'[v].wrmn \in Nat
               /\ \A d \in Conns : th'[v].c = d /\ th'[v].pc \in Reads
                                     => th'[v].wreqs <= conn'[d].writeReqs
    <3>1. CASE v = w
      BY <3>1 DEF IdleThread, Reads
    <3>2. CASE v # w
      BY <2>1, <3>2 DEF OthersSame, SeenOK
    <3>3. QED
      BY <3>1, <3>2
  <2>3. QED
    BY <2>2 DEF SeenOK
<1>2. ASSUME NEW c \in Conns PROVE Safe(c)' /\ FlagHeld(c)'
  <2>1. CASE ~ Live(c)'
    BY <2>1 DEF Safe, FlagHeld
  <2>2. CASE conn'[c] = conn[c]
    <3>1. Safe(c) /\ FlagHeld(c)
      BY DEF ReplyInv, ReplyRest
    <3>2. \A v \in Workers : (Minds(v, c) \/ Holds(v, c)) => v # w
      BY DEF Minds, Holds, Writing
    <3>3. \A v \in Workers : /\ Minds(v, c) => Minds(v, c)'
                             /\ Holds(v, c) => Holds(v, c)'
      BY <2>2, <3>2 DEF Minds, Holds, OthersSame
    <3>4. Minded(c) => Minded(c)'
      BY <2>2, <3>3 DEF Minded, QueuesGrow
    <3>5. Safe(c)'
      BY <2>2, <3>1, <3>4 DEF Safe, Live
    <3>6. FlagHeld(c)'
      BY <2>2, <3>1, <3>3 DEF FlagHeld, Live, QueuesGrow
    <3>7. QED
      BY <3>5, <3>6
  <2>3. QED
    BY <2>1, <2>2
<1>3. QED
  BY <1>1, <1>2 DEF ReplyRest

LEMMA InactiveNotifyReplies ==
  ASSUME ReplyInv, NEW w \in Workers, InactiveNotify(w)
  PROVE  ReplyRest'
<1>1. /\ th[w].pc = "inact_notify" /\ Dispatch(FreeTask) /\ Done(w)
      /\ conn' = conn /\ sock' = sock /\ eops' = eops
  BY DEF InactiveNotify
<1>2. OthersSame(w) /\ th'[w] = IdleThread
  BY <1>1, MovesOn DEF ReplyInv
<1>3. QueuesOK' /\ EopsOK' /\ QueuesGrow
  BY <1>1, Dispatched DEF Tasks
<1>4. CountOK' /\ BlankOK'
  BY <1>1, SameCounts DEF SameData
<1>5. QED
  BY <1>1, <1>2, <1>3, <1>4, Aside

LEMMA FreeFuncReplies ==
  ASSUME ReplyInv, NEW w \in Workers, FreeFunc(w)
  PROVE  ReplyRest'
<1>1. /\ th[w].pc = "f_run" /\ Done(w) /\ sock' = sock /\ eops' = eops /\ NoDispatch
      /\ \A c \in Conns : conn'[c] = IF freeList[c] > 0 /\ Reclaimable(c)
                                     THEN Freed(c) ELSE conn[c]
  BY DEF FreeFunc, NoDispatch
<1>2. OthersSame(w) /\ th'[w] = IdleThread
  BY <1>1, MovesOn DEF ReplyInv
<1>3. QueuesOK' /\ EopsOK' /\ QueuesGrow
  BY <1>1, QuietQueues
<1>4. ASSUME NEW c \in Conns
      PROVE  Freed(c).mem = "freed" /\ SameData(Freed(c), conn[c])
  <2> DEFINE s == [conn[c] EXCEPT !.mem = "freed"]
             r == [s EXCEPT !.events = {}]
  <2>1. ConnFields(conn[c])
    BY DEF ReplyInv, ListInv, ConnOK
  <2>2. s = [conn[c] EXCEPT !.mem = "freed"] /\ r = [s EXCEPT !.events = {}] /\ Freed(c) = r
    BY <2>1 DEF Freed
  <2> HIDE DEF s, r
  <2>3. /\ ConnFields(s) /\ s.mem = "freed"
        /\ s.rbuf = conn[c].rbuf /\ s.wbuf = conn[c].wbuf /\ s.writeReqs = conn[c].writeReqs
    BY <2>1, <2>2, SetMem
  <2>4. /\ r.mem = s.mem
        /\ r.rbuf = s.rbuf /\ r.wbuf = s.wbuf /\ r.writeReqs = s.writeReqs
    BY <2>2, <2>3, SetEvents
  <2>5. QED
    BY <2>2, <2>3, <2>4 DEF SameData
<1>5. \A c \in Conns : /\ conn'[c] = conn[c] \/ conn'[c].mem = "freed"
                       /\ SameData(conn'[c], conn[c])
  BY <1>1, <1>4 DEF SameData
<1>6. CountOK' /\ BlankOK'
  BY <1>1, <1>5, SameCounts
<1>7. QED
  BY <1>1, <1>2, <1>3, <1>5, <1>6, Aside DEF Live, SameData

(* A worker takes a task: the write task in the queue becomes a worker     *)
(* that runs it.                                                           *)
LEMMA TakeReplies ==
  ASSUME ReplyInv, NEW w \in Workers, WorkerTake(w)
  PROVE  ReplyRest'
<1>1. /\ th = [v \in Workers |-> th[v]] /\ ThreadFields(th[w])
      /\ th[w].pc = "idle" /\ wq[w] # <<>>
      /\ wq' = [wq EXCEPT ![w] = Tail(wq[w])] /\ wq \in [Workers -> Seq(Tasks)]
      /\ conn' = conn /\ sock' = sock /\ eops' = eops
      /\ SeenOK
  BY DEF ReplyInv, ReplyRest, ListInv, ThreadOK, QueuesOK, WorkerTake
<1> DEFINE q == wq[w]
           p == TaskStart(Head(q).kind)
           e == Head(q).c
           u == th[w]
           s == [u EXCEPT !.pc = p]
           t == [s EXCEPT !.c = e]
<1>2. q \in Seq(Tasks) /\ Tail(q) \in Seq(Tasks) /\ Head(q) \in Tasks
  BY <1>1
<1>3. th' = [th EXCEPT ![w] = t] /\ ThreadFields(u)
  BY <1>1 DEF WorkerTake
<1>4. t.pc = p /\ t.c = e /\ t.wreqs = u.wreqs /\ t.wrmn = u.wrmn
  <2>1. s = [u EXCEPT !.pc = p] /\ t = [s EXCEPT !.c = e]
    OBVIOUS
  <2> HIDE DEF p, e, u, s, t
  <2>2. ThreadFields(s) /\ s.pc = p /\ s.wreqs = u.wreqs /\ s.wrmn = u.wrmn
    BY <1>3, <2>1 DEF ThreadFields
  <2>3. QED
    BY <2>1, <2>2 DEF ThreadFields
<1>5. p \in {"r_active", "w_active", "f_run"} /\ (Head(q).kind = "write" => p = "w_active")
  <2>1. Head(q).kind \in {"read", "write", "free"}
    BY <1>2 DEF Tasks, FreeTask
  <2>2. QED
    BY <2>1 DEF TaskStart
<1> HIDE DEF t, s
<1>6. OthersSame(w) /\ th'[w] = t
  BY <1>1, <1>3 DEF OthersSame
<1>7. QueuesOK' /\ EopsOK'
  BY TakeKeepsQueues, <1>1 DEF ReplyInv, ReplyRest, EopsOK
<1>8. CountOK' /\ BlankOK'
  BY <1>1, SameCounts DEF SameData
<1>9. SeenOK'
  <2>1. ASSUME NEW v \in Workers
        PROVE  /\ th'[v].wreqs \in Nat /\ th'[v].wrmn \in Nat
               /\ \A d \in Conns : th'[v].c = d /\ th'[v].pc \in Reads
                                     => th'[v].wreqs <= conn'[d].writeReqs
    <3>1. CASE v = w
      BY <1>1, <1>4, <1>5, <1>6, <3>1 DEF SeenOK, Reads
    <3>2. CASE v # w
      BY <1>1, <1>6, <3>2 DEF OthersSame, SeenOK
    <3>3. QED
      BY <3>1, <3>2
  <2>2. QED
    BY <2>1 DEF SeenOK
<1>10. ASSUME NEW c \in Conns, Pending("write", c)
       PROVE  Pending("write", c)' \/ (Minds(w, c)' /\ Holds(w, c)')
  <2>1. PICK v \in Workers : \E i \in DOMAIN wq[v] : wq[v][i] = [kind |-> "write", c |-> c]
    BY <1>10 DEF Pending
  <2>2. PICK i \in DOMAIN wq[v] : wq[v][i] = [kind |-> "write", c |-> c]
    BY <2>1
  <2>3. CASE v # w
    <3>1. wq'[v] = wq[v]
      BY <1>1, <2>3
    <3>2. QED
      BY <2>2, <3>1 DEF Pending
  <2>4. CASE v = w /\ i # 1
    <3>1. i \in 1 .. Len(q)
      BY <1>2, <2>4
    <3>2. i - 1 \in DOMAIN Tail(q) /\ Tail(q)[i - 1] = q[i]
      BY <1>2, <2>4, <3>1
    <3>3. wq'[w] = Tail(q)
      BY <1>1
    <3>4. QED
      BY <2>2, <2>4, <3>2, <3>3 DEF Pending
  <2>5. CASE v = w /\ i = 1
    <3>1. Head(q) = [kind |-> "write", c |-> c]
      BY <1>1, <1>2, <2>2, <2>5
    <3>2. p = "w_active" /\ e = c
      BY <1>5, <3>1
    <3>3. QED
      BY <1>4, <1>6, <3>2 DEF Minds, Holds, Writing
  <2>6. QED
    BY <2>3, <2>4, <2>5
<1>11. ASSUME NEW c \in Conns PROVE Safe(c)' /\ FlagHeld(c)'
  <2>1. Safe(c) /\ FlagHeld(c)
    BY DEF ReplyInv, ReplyRest
  <2>2. \A v \in Workers : (Minds(v, c) \/ Holds(v, c)) => v # w
    BY <1>1 DEF Minds, Holds, Writing
  <2>3. \A v \in Workers : /\ Minds(v, c) => Minds(v, c)'
                           /\ Holds(v, c) => Holds(v, c)'
    BY <1>1, <1>6, <2>2 DEF Minds, Holds, OthersSame
  <2>4. OpsFor(c) => OpsFor(c)'
    BY <1>1 DEF OpsFor
  <2>5. Minded(c) => Minded(c)'
    BY <1>1, <1>10, <2>3, <2>4 DEF Minded
  <2>6. Safe(c)'
    BY <1>1, <2>1, <2>5 DEF Safe, Live
  <2>7. FlagHeld(c)'
    BY <1>1, <1>10, <2>1, <2>3 DEF FlagHeld, Live
  <2>8. QED
    BY <2>6, <2>7
<1>12. QED
  BY <1>7, <1>8, <1>9, <1>11 DEF ReplyRest

LEMMA WorkerReplies ==
  ASSUME MaxReqs <= SockCap, ReplyInv, NEW w \in Workers, Worker(w)
  PROVE  ReplyRest'
<1>1. ASSUME NEW c \in Conns, ReadTask(w, c) PROVE ReplyRest'
  BY <1>1, BranchesReply, ReadRawReplies, SessReplies, NotifyReplies, ReadAddReplies, CheckReplies
     DEF ReadTask, ReadCheck, At
<1>2. ASSUME NEW c \in Conns, WriteTask(w, c) PROVE ReplyRest'
  BY <1>2, BranchesReply, LooksReplies, WriteRawReplies, InterReplies, YieldReplies, CheckReplies
     DEF WriteTask, WriteCheck, At
<1>3. ASSUME NEW c \in Conns, Inactive(w, c) PROVE ReplyRest'
  BY <1>3, BranchesReply, LockReplies DEF Inactive
<1>4. QED
  BY <1>1, <1>2, <1>3, TakeReplies, FreeFuncReplies, InactiveNotifyReplies DEF Worker

-----------------------------------------------------------------------------
(* The clients and the event loop: no thread moves.                        *)
LEMMA Away ==
  ASSUME ReplyInv, th' = th, NEW c \in Conns, conn'[c].mem = conn[c].mem,
         SameActive(conn'[c], conn[c]), SameData(conn'[c], conn[c]),
         Pending("write", c) => Pending("write", c)',
         WRITE \in conn[c].events => WRITE \in conn'[c].events \/ Pending("write", c)',
         OpsFor(c) => OpsFor(c)' \/ WRITE \in conn'[c].events,
         conn'[c].onWrite => conn[c].onWrite \/ Pending("write", c)'
  PROVE  Safe(c)' /\ FlagHeld(c)'
<1>1. Safe(c) /\ FlagHeld(c)
  BY DEF ReplyInv, ReplyRest
<1>2. \A v \in Workers : (Minds(v, c) => Minds(v, c)') /\ (Holds(v, c) => Holds(v, c)')
  BY DEF Minds, Holds, SameData
<1>3. Minded(c) => Minded(c)'
  BY <1>2 DEF Minded
<1>4. Safe(c)'
  BY <1>1, <1>3 DEF Safe, Live, SameActive, SameData
<1>5. FlagHeld(c)'
  BY <1>1, <1>2 DEF FlagHeld, Live, SameActive
<1>6. QED
  BY <1>4, <1>5

LEMMA AwaySame ==
  ASSUME ReplyInv, th' = th, conn' = conn, NoDispatch, eops' = eops, CountOK'
  PROVE  ReplyRest'
<1>1. QueuesOK' /\ EopsOK' /\ QueuesGrow
  BY QuietQueues
<1>2. \A c \in Conns : Safe(c)' /\ FlagHeld(c)'
  BY <1>1, Away DEF QueuesGrow, SameActive, SameData
<1>3. SeenOK'
  BY SeenSame
<1>4. BlankOK'
  BY DEF ReplyInv, ReplyRest, BlankOK
<1>5. QED
  BY <1>1, <1>2, <1>3, <1>4 DEF ReplyRest

LEMMA ClientReplies ==
  ASSUME ReplyInv, NEW c \in Conns, Client(c)
  PROVE  ReplyRest'
<1>1. th' = th /\ conn' = conn /\ NoDispatch /\ eops' = eops
  BY DEF Client, ClientSend, ClientRecv, ClientClose, ClientReset, SockStep, NoDispatch
<1>2. CountOK /\ SockFields(sock[c]) /\ Counted(conn[c], sock[c]) /\ MaxReqs \in Nat
  BY ConnAssumption DEF ReplyInv, ReplyRest, CountOK
<1>3. ASSUME NEW t, SockFields(t), Counted(conn[c], t), sock' = [sock EXCEPT ![c] = t]
      PROVE  CountOK'
  <2>1. /\ sock' = [d \in Conns |-> sock'[d]] /\ \A d \in Conns : SockFields(sock'[d])
        /\ sock'[c] = t /\ \A d \in Conns \ {c} : sock'[d] = sock[d]
    BY <1>2, <1>3, SockSet
  <2>2. QED
    BY <1>1, <1>2, <1>3, <2>1 DEF CountOK
<1>4. CASE ClientSend(c)
  <2> DEFINE a == sock[c].asked + 1
             n == sock[c].in + 1
             s == [sock[c] EXCEPT !.asked = a]
             t == [s EXCEPT !.in = n]
  <2>1. sock' = [sock EXCEPT ![c] = t]
    BY <1>2, <1>4 DEF ClientSend, SockStep, SockFields
  <2>2. sock[c].asked < MaxReqs
    BY <1>4 DEF ClientSend
  <2>3. s = [sock[c] EXCEPT !.asked = a]
    OBVIOUS
  <2>4. t = [s EXCEPT !.in = n]
    OBVIOUS
  <2>5. a = sock[c].asked + 1 /\ n = sock[c].in + 1
    OBVIOUS
  <2> HIDE DEF a, n, s, t
  <2>6. /\ SockFields(s) /\ s.in = sock[c].in /\ s.out = sock[c].out
        /\ s.asked = a /\ s.answered = sock[c].answered
    BY <1>2, <2>3, SockAsked
  <2>7. /\ SockFields(t) /\ t.in = n /\ t.out = s.out
        /\ t.asked = s.asked /\ t.answered = s.answered
    BY <2>4, <2>6, SockIn
  <2>8. Counted(conn[c], t)
    BY <1>2, <2>2, <2>5, <2>6, <2>7 DEF Counted
  <2>9. QED
    BY <1>1, <1>3, <2>1, <2>7, <2>8, AwaySame
<1>5. CASE ClientRecv(c)
  <2> DEFINE a == sock[c].out - 1
             n == sock[c].answered + 1
             s == [sock[c] EXCEPT !.out = a]
             t == [s EXCEPT !.answered = n]
  <2>1. sock' = [sock EXCEPT ![c] = t]
    BY <1>2, <1>5 DEF ClientRecv, SockStep, SockFields
  <2>2. sock[c].out > 0
    BY <1>5 DEF ClientRecv
  <2>3. s = [sock[c] EXCEPT !.out = a]
    OBVIOUS
  <2>4. t = [s EXCEPT !.answered = n]
    OBVIOUS
  <2>5. a = sock[c].out - 1 /\ n = sock[c].answered + 1
    OBVIOUS
  <2> HIDE DEF a, n, s, t
  <2>6. /\ SockFields(s) /\ s.in = sock[c].in /\ s.out = a
        /\ s.asked = sock[c].asked /\ s.answered = sock[c].answered
    BY <1>2, <2>3, SockOut
  <2>7. /\ SockFields(t) /\ t.in = s.in /\ t.out = s.out
        /\ t.asked = s.asked /\ t.answered = n
    BY <2>4, <2>6, SockAnswered
  <2>8. Counted(conn[c], t)
    BY <1>2, <2>2, <2>5, <2>6, <2>7 DEF Counted
  <2>9. QED
    BY <1>1, <1>3, <2>1, <2>7, <2>8, AwaySame
<1>6. CASE ClientClose(c) \/ ClientReset(c)
  <2>1. PICK v : sock' = [sock EXCEPT ![c] = [sock[c] EXCEPT !.peer = v]]
    BY <1>6 DEF ClientClose, ClientReset, SockStep
  <2> DEFINE t == [sock[c] EXCEPT !.peer = v]
  <2>2. sock' = [sock EXCEPT ![c] = t] /\ t = [sock[c] EXCEPT !.peer = v]
    BY <2>1
  <2> HIDE DEF t
  <2>3. /\ SockFields(t) /\ t.in = sock[c].in /\ t.out = sock[c].out
        /\ t.asked = sock[c].asked /\ t.answered = sock[c].answered
    BY <1>2, <2>2, SockPeer
  <2>4. Counted(conn[c], t)
    BY <1>2, <2>3 DEF Counted
  <2>5. QED
    BY <1>1, <1>3, <2>2, <2>3, <2>4, AwaySame
<1>7. QED
  BY <1>4, <1>5, <1>6 DEF Client

(* The loop performs the operations of the pipe: what was asked for is now *)
(* watched.                                                                *)
LEMMA OpsReplies ==
  ASSUME ReplyInv, HandleOps
  PROVE  ReplyRest'
<1> DEFINE masks(c) == {eops[i].mask : i \in {j \in DOMAIN eops : eops[j].c = c}}
           m(c) == conn[c].events \cup masks(c)
           r(c) == [conn[c] EXCEPT !.events = m(c)]
<1>1. /\ conn' = [c \in Conns |-> r(c)] /\ th' = th /\ sock' = sock /\ eops' = <<>>
      /\ NoDispatch
  BY DEF HandleOps, NoDispatch
<1>2. ASSUME NEW c \in Conns, OpsFor(c) PROVE WRITE \in m(c)
  BY <1>2 DEF OpsFor
<1>3. \A c \in Conns : r(c) = [conn[c] EXCEPT !.events = m(c)] /\ conn[c].events \subseteq m(c)
  OBVIOUS
<1> HIDE DEF m, r
<1>4. ASSUME NEW c \in Conns
      PROVE  /\ conn'[c].mem = conn[c].mem /\ conn'[c].events = m(c)
             /\ SameActive(conn'[c], conn[c]) /\ SameOnWrite(conn'[c], conn[c])
             /\ SameData(conn'[c], conn[c])
  <2>1. ConnFields(conn[c]) /\ conn'[c] = r(c)
    BY <1>1 DEF ReplyInv, ListInv, ConnOK
  <2>2. r(c) = [conn[c] EXCEPT !.events = m(c)]
    BY <1>3
  <2>3. QED
    BY <2>1, <2>2, SetEvents DEF SameData
<1>5. CountOK' /\ BlankOK'
  BY <1>1, <1>4, SameCounts
<1>6. SeenOK'
  BY <1>1, <1>4, SeenSame DEF SameData
<1>7. QueuesOK'
  BY <1>1, QueuesSame DEF ReplyInv, ReplyRest
<1>8. EopsOK'
  BY <1>1 DEF EopsOK
<1>9. ASSUME NEW c \in Conns PROVE Safe(c)' /\ FlagHeld(c)'
  <2>1. Pending("write", c) => Pending("write", c)'
    BY <1>1 DEF Pending, NoDispatch
  <2>2. WRITE \in conn[c].events \/ OpsFor(c) => WRITE \in conn'[c].events
    BY <1>2, <1>3, <1>4
  <2>3. conn'[c].onWrite => conn[c].onWrite
    BY <1>4 DEF SameOnWrite
  <2>4. QED
    BY <1>1, <1>4, <2>1, <2>2, <2>3, Away
<1>10. QED
  BY <1>5, <1>6, <1>7, <1>8, <1>9 DEF ReplyRest

LEMMA AcceptReplies ==
  ASSUME ReplyInv, NEW c \in Conns, Accept(c)
  PROVE  ReplyRest'
<1>1. /\ th' = th /\ sock' = sock /\ eops' = eops /\ NoDispatch
      /\ conn[c].mem = "none" /\ conn' = [conn EXCEPT ![c] = Opened] /\ ListInv
      /\ BlankOK
  BY DEF Accept, NoDispatch, ReplyInv, ReplyRest
<1>2. conn'[c] = Opened /\ OnlyAt(c)
  BY <1>1, At1
<1>3. Opened.mem = "live" /\ Opened.rbuf = 0 /\ Opened.wbuf = 0 /\ Opened.writeReqs = 0
      /\ ~ Opened.onWrite
  BY DEF Opened, NewConn
<1>4. conn[c].rbuf = 0 /\ conn[c].wbuf = 0 /\ conn[c].writeReqs = 0
  BY <1>1 DEF BlankOK
<1>5. \A d \in Conns : SameData(conn'[d], conn[d])
                       /\ (conn'[d].mem = "none" => conn[d].mem = "none")
  BY <1>1, <1>2, <1>3, <1>4 DEF SameData, OnlyAt
<1>6. CountOK' /\ BlankOK'
  BY <1>1, <1>5, SameCounts
<1>7. SeenOK'
  BY <1>1, <1>5, SeenSame DEF SameData
<1>8. QueuesOK' /\ EopsOK' /\ QueuesGrow
  BY <1>1, QuietQueues
<1>9. ASSUME NEW d \in Conns PROVE Safe(d)' /\ FlagHeld(d)'
  <2>1. CASE d = c
    BY <1>2, <1>3, <2>1 DEF Safe, FlagHeld
  <2>2. CASE d # c
    <3>1. conn'[d] = conn[d]
      BY <1>2, <2>2 DEF OnlyAt
    <3>2. QED
      BY <1>1, <1>8, <3>1, Away DEF QueuesGrow, SameActive, SameData
  <2>3. QED
    BY <2>1, <2>2
<1>10. QED
  BY <1>6, <1>7, <1>8, <1>9 DEF ReplyRest

(* The loop stops watching and starts a task; on_write is set with the     *)
(* write task in a queue.                                                  *)
LEMMA HandleReplies ==
  ASSUME ReplyInv, NEW c \in Conns, HandleRead(c) \/ HandleWrite(c)
  PROVE  ReplyRest'
<1>1. th' = th /\ sock' = sock /\ eops' = eops
  BY DEF HandleRead, HandleWrite
<1>2. conn = [d \in Conns |-> conn[d]] /\ ConnFields(conn[c]) /\ ListInv
  BY DEF ReplyInv, ListInv, ConnOK
<1>3. /\ QueuesOK' /\ EopsOK' /\ QueuesGrow
      /\ HandleWrite(c) => Pending("write", c)'
  <2>1. [kind |-> "read", c |-> c] \in Tasks /\ [kind |-> "write", c |-> c] \in Tasks
    BY DEF Tasks
  <2>2. QED
    BY <1>1, <2>1, Dispatched DEF HandleRead, HandleWrite
<1>4. /\ conn'[c].mem = conn[c].mem /\ SameActive(conn'[c], conn[c])
      /\ SameData(conn'[c], conn[c]) /\ OnlyAt(c)
      /\ WRITE \in conn[c].events => WRITE \in conn'[c].events \/ Pending("write", c)'
      /\ conn'[c].onWrite => conn[c].onWrite \/ Pending("write", c)'
  <2>1. CASE HandleRead(c)
    <3> DEFINE m == conn[c].events \ {READ}
               s == [conn[c] EXCEPT !.events = m]
               r == [s EXCEPT !.onRead = TRUE]
    <3>1. conn' = [conn EXCEPT ![c] = r]
      BY <1>2, <2>1 DEF HandleRead
    <3>2. s = [conn[c] EXCEPT !.events = m]
      OBVIOUS
    <3>3. r = [s EXCEPT !.onRead = TRUE]
      OBVIOUS
    <3>4. WRITE \in conn[c].events => WRITE \in m
      BY DEF READ, WRITE
    <3> HIDE DEF m, s, r
    <3>5. /\ ConnFields(s) /\ s.mem = conn[c].mem /\ s.events = m
          /\ SameActive(s, conn[c]) /\ SameOnWrite(s, conn[c])
          /\ s.rbuf = conn[c].rbuf /\ s.wbuf = conn[c].wbuf /\ s.writeReqs = conn[c].writeReqs
      BY <1>2, <3>2, SetEvents
    <3>6. /\ SameRest(r, s) /\ SameActive(r, s) /\ SameOnWrite(r, s)
          /\ r.rbuf = s.rbuf /\ r.wbuf = s.wbuf /\ r.writeReqs = s.writeReqs
      BY <3>3, <3>5, SetOnRead
    <3>7. conn'[c] = r /\ OnlyAt(c)
      BY <1>2, <3>1, At1
    <3>8. QED
      BY <3>4, <3>5, <3>6, <3>7 DEF SameRest, SameActive, SameOnWrite, SameData
  <2>2. CASE HandleWrite(c)
    <3> DEFINE m == conn[c].events \ {WRITE}
               s == [conn[c] EXCEPT !.events = m]
               r == [s EXCEPT !.onWrite = TRUE]
    <3>1. conn' = [conn EXCEPT ![c] = r]
      BY <1>2, <2>2 DEF HandleWrite
    <3>2. s = [conn[c] EXCEPT !.events = m]
      OBVIOUS
    <3>3. r = [s EXCEPT !.onWrite = TRUE]
      OBVIOUS
    <3> HIDE DEF m, s, r
    <3>4. /\ ConnFields(s) /\ s.mem = conn[c].mem
          /\ SameActive(s, conn[c])
          /\ s.rbuf = conn[c].rbuf /\ s.wbuf = conn[c].wbuf /\ s.writeReqs = conn[c].writeReqs
      BY <1>2, <3>2, SetEvents
    <3>5. /\ SameRest(r, s) /\ SameActive(r, s)
          /\ r.rbuf = s.rbuf /\ r.wbuf = s.wbuf /\ r.writeReqs = s.writeReqs
      BY <3>3, <3>4, SetOnWrite
    <3>6. conn'[c] = r /\ OnlyAt(c)
      BY <1>2, <3>1, At1
    <3>7. QED
      BY <1>3, <2>2, <3>4, <3>5, <3>6 DEF SameRest, SameActive, SameData
  <2>3. QED
    BY <2>1, <2>2
<1>5. \A d \in Conns : SameData(conn'[d], conn[d]) /\ conn'[d].mem = conn[d].mem
  BY <1>4 DEF SameData, OnlyAt
<1>6. CountOK' /\ BlankOK'
  BY <1>1, <1>5, SameCounts
<1>7. SeenOK'
  BY <1>1, <1>5, SeenSame DEF SameData
<1>8. ASSUME NEW d \in Conns PROVE Safe(d)' /\ FlagHeld(d)'
  <2>1. CASE d = c
    BY <1>1, <1>3, <1>4, <2>1, Away DEF QueuesGrow
  <2>2. CASE d # c
    <3>1. conn'[d] = conn[d]
      BY <1>4, <2>2 DEF OnlyAt
    <3>2. QED
      BY <1>1, <1>3, <3>1, Away DEF QueuesGrow, SameActive, SameData
  <2>3. QED
    BY <2>1, <2>2
<1>9. QED
  BY <1>3, <1>6, <1>7, <1>8 DEF ReplyRest

LEMMA LoopReplies ==
  ASSUME ReplyInv, Loop
  PROVE  ReplyRest'
<1>1. CASE EpollWait \/ \E c \in Conns : SkipEntry(c)
  <2>1. th' = th /\ conn' = conn /\ sock' = sock /\ NoDispatch /\ eops' = eops
    BY <1>1 DEF EpollWait, SkipEntry, NoDispatch
  <2>2. CountOK'
    BY <2>1, SameCounts DEF SameData
  <2>3. QED
    BY <2>1, <2>2, AwaySame
<1>2. QED
  BY <1>1, OpsReplies, AcceptReplies, HandleReplies DEF Loop

LEMMA InitReplies == Init => ReplyInv
<1> SUFFICES ASSUME Init PROVE ReplyInv
  OBVIOUS
<1>1. QueuesOK /\ ListInv
  BY InitWaits DEF WaitInv
<1>2. EopsOK
  BY DEF Init, EopsOK
<1>3. CountOK
  BY ConnAssumption DEF Init, CountOK, SockFields, Counted, NewConn
<1>4. BlankOK
  BY DEF Init, BlankOK, NewConn
<1>5. SeenOK
  BY DEF Init, SeenOK, IdleThread, Reads
<1>6. \A c \in Conns : Safe(c) /\ FlagHeld(c)
  BY DEF Init, Safe, FlagHeld, Live, NewConn
<1>7. QED
  BY <1>1, <1>2, <1>3, <1>4, <1>5, <1>6 DEF ReplyInv, ReplyRest

LEMMA NextReplies ==
  ASSUME MaxReqs <= SockCap
  PROVE  ReplyInv /\ [Next]_vars => ReplyInv'
<1> SUFFICES ASSUME ReplyInv, [Next]_vars PROVE ReplyRest'
  BY NextKeeps DEF ReplyInv
<1>1. CASE UNCHANGED vars
  <2>1. th' = th /\ conn' = conn /\ sock' = sock /\ NoDispatch /\ eops' = eops
    BY <1>1 DEF vars, NoDispatch
  <2>2. CountOK'
    BY <2>1, SameCounts DEF SameData
  <2>3. QED
    BY <2>1, <2>2, AwaySame
<1>2. CASE Stopped
  BY <1>1, <1>2 DEF Stopped
<1>3. QED
  BY <1>1, <1>2, ClientReplies, LoopReplies, WorkerReplies DEF Next

(* While the send buffer takes every reply, no reply in w_buf is left to   *)
(* nobody, whatever the order of the sessions, the write tasks, the event  *)
(* loop and the clients: write_reqs and on_write (atm_conn_write_notify,   *)
(* atm_conn_inter_write, atm_conn_yield_write) do not lose a request.      *)
THEOREM RepliesNeverStuck ==
  ASSUME MaxReqs <= SockCap
  PROVE  Spec => []ReplyNotStuck
<1>1. ReplyInv => ReplyNotStuck
  <2> SUFFICES ASSUME ReplyInv, NEW c \in Conns, Live(c), conn[c].active, conn[c].wbuf > 0
               PROVE  WriterComing(c)
    BY DEF ReplyNotStuck
  <2>1. Minded(c) /\ CountOK /\ SeenOK
    BY DEF ReplyInv, ReplyRest, Safe
  <2>2. conn[c].writeReqs \in Nat /\ \A w \in Workers : th[w].wreqs \in Nat
    BY <2>1 DEF CountOK, Counted, SeenOK
  <2>3. ASSUME NEW w \in Workers, Minds(w, c) PROVE WriterComing(c)
    BY <2>2, <2>3 DEF Minds, WriterComing
  <2>4. QED
    BY <2>1, <2>3 DEF Minded, OpsFor, WriterComing
<1>2. QED
  BY InitReplies, NextReplies, <1>1, PTL DEF Spec

-----------------------------------------------------------------------------
(* One worker at a time runs the code of a session and no session is freed *)
(* under it, as long as no client resets its connection.  (With resets     *)
(* both are false: epoll reports a reset whatever the mask.)  The invariant*)
(* follows the right to read a connection through the mask, the event pipe,*)
(* the queues of tasks and the workers, one place at a time.               *)

(* x is in the sequence s; it is there at most once.                       *)
Has(s, x) == \E i \in DOMAIN s : s[i] = x

Once(s, x) == \A i, j \in DOMAIN s : s[i] = x /\ s[j] = x => i = j

LEMMA AppendHas ==
  ASSUME NEW S, NEW s \in Seq(S), NEW y \in S, NEW x
  PROVE  /\ x # y /\ Has(Append(s, y), x) => Has(s, x)
         /\ x # y /\ Once(s, x) => Once(Append(s, y), x)
         /\ x = y /\ ~ Has(s, x) => Once(Append(s, y), x)
<1> DEFINE r == Append(s, y)
<1>1. /\ r \in Seq(S) /\ Len(r) = Len(s) + 1 /\ Len(s) \in Nat /\ r[Len(s) + 1] = y
      /\ DOMAIN r = 1 .. Len(s) + 1 /\ DOMAIN s = 1 .. Len(s)
      /\ \A i \in DOMAIN s : r[i] = s[i]
  OBVIOUS
<1> HIDE DEF r
<1>2. \A i \in DOMAIN r : i \in DOMAIN s \/ i = Len(s) + 1
  BY <1>1
<1>3. QED
  BY <1>1, <1>2 DEF Has, Once, r

LEMMA TailHas ==
  ASSUME NEW S, NEW s \in Seq(S), s # <<>>, NEW x
  PROVE  /\ Has(Tail(s), x) => Has(s, x)
         /\ Once(s, x) => Once(Tail(s), x)
         /\ Once(s, x) /\ Head(s) = x => ~ Has(Tail(s), x)
         /\ Head(s) # x /\ Has(s, x) => Has(Tail(s), x)
<1> DEFINE r == Tail(s)
<1>1. /\ Len(s) \in Nat \ {0} /\ DOMAIN s = 1 .. Len(s) /\ DOMAIN r = 1 .. Len(s) - 1
      /\ \A i \in DOMAIN r : i + 1 \in DOMAIN s /\ r[i] = s[i + 1]
      /\ Head(s) = s[1]
  OBVIOUS
<1> HIDE DEF r
<1>2. \A i \in DOMAIN s : i # 1 => i - 1 \in DOMAIN r /\ r[i - 1] = s[i]
  <2> TAKE i \in DOMAIN s
  <2>1. i # 1 => i - 1 \in DOMAIN r /\ (i - 1) + 1 = i
    BY <1>1
  <2>2. QED
    BY <1>1, <2>1
<1>3. Has(r, x) => Has(s, x)
  BY <1>1 DEF Has
<1>4. Once(s, x) => Once(r, x)
  <2> SUFFICES ASSUME Once(s, x), NEW i \in DOMAIN r, NEW j \in DOMAIN r, r[i] = x, r[j] = x
               PROVE  i = j
    BY DEF Once
  <2>1. i + 1 = j + 1
    BY <1>1 DEF Once
  <2>2. i \in Nat /\ j \in Nat
    BY <1>1
  <2>3. QED
    BY <2>1, <2>2
<1>5. Once(s, x) /\ Head(s) = x => ~ Has(r, x)
  <2> SUFFICES ASSUME Once(s, x), s[1] = x, NEW i \in DOMAIN r, r[i] = x
               PROVE  FALSE
    BY <1>1 DEF Has
  <2>1. i + 1 = 1
    BY <1>1 DEF Once
  <2>2. QED
    BY <1>1, <2>1
<1>6. Head(s) # x /\ Has(s, x) => Has(r, x)
  BY <1>1, <1>2 DEF Has
<1>7. QED
  BY <1>3, <1>4, <1>5, <1>6 DEF r

-----------------------------------------------------------------------------
(* The right to read a connection is in one place at a time: the mask      *)
(* watched, an operation in the event pipe that is to add READ to it, a    *)
(* read task in a queue, or a worker in such a task that has not given it  *)
(* back.                                                                   *)
ReadOp(c) == [c |-> c, mask |-> READ]
ReadJob(c) == [kind |-> "read", c |-> c]
ReadEntry(c) == [c |-> c, ev |-> READ]

Reading == {"r_active", "r_raw", "r_sess", "r_notify", "r_restore", "r_add",
            "inact_check", "inact_lock"}

Carries(w, c) == th[w].c = c /\ th[w].pc \in Reading
Watched(c) == READ \in conn[c].events
Asked(c) == Has(eops, ReadOp(c))
Queued(c) == \E v \in Workers : Has(wq[v], ReadJob(c))
Carried(c) == \E v \in Workers : Carries(v, c)

OnceAnywhere(c) ==
    /\ Once(eops, ReadOp(c)) /\ Once(batch, ReadEntry(c))
    /\ \A v \in Workers : Once(wq[v], ReadJob(c))
    /\ \A v, w \in Workers : Has(wq[v], ReadJob(c)) /\ Has(wq[w], ReadJob(c)) => v = w
    /\ \A v, w \in Workers : Carries(v, c) /\ Carries(w, c) => v = w

OnePlace(c) ==
    /\ Watched(c) => ~ Asked(c) /\ ~ Queued(c) /\ ~ Carried(c)
    /\ Asked(c) => ~ Queued(c) /\ ~ Carried(c)
    /\ Queued(c) => ~ Carried(c)
    /\ Has(batch, ReadEntry(c)) => Watched(c)

(* While the right exists the connection is in use: without resets, only   *)
(* a read task makes it inactive.                                          *)
InUse(c) == Watched(c) \/ Asked(c) \/ Queued(c) \/ Carried(c) => Live(c) /\ conn[c].active

OneRight(c) == OnceAnywhere(c) /\ OnePlace(c) /\ InUse(c)

BatchOK == batch \in Seq([c : Conns \cup {NoConn}, ev : {READ, WRITE}])

NoReset ==
    /\ sock = [c \in Conns |-> sock[c]]
    /\ \A c \in Conns : SockFields(sock[c]) /\ sock[c].peer # "reset"

RightRest == QueuesOK /\ EopsOK /\ BatchOK /\ NoReset /\ \A c \in Conns : OneRight(c)

RightInv == ListInv /\ RightRest

-----------------------------------------------------------------------------
(* A step that only takes places away keeps the right of d in one place.   *)
JobsShrink(d) ==
    \A v \in Workers : /\ Has(wq'[v], ReadJob(d)) => Has(wq[v], ReadJob(d))
                       /\ Once(wq[v], ReadJob(d)) => Once(wq'[v], ReadJob(d))

OpsShrink(d) ==
    /\ Has(eops', ReadOp(d)) => Has(eops, ReadOp(d))
    /\ Once(eops, ReadOp(d)) => Once(eops', ReadOp(d))

BatchShrinks(d) ==
    /\ Has(batch', ReadEntry(d)) => Has(batch, ReadEntry(d))
    /\ Once(batch, ReadEntry(d)) => Once(batch', ReadEntry(d))

LEMMA Shrinks ==
  ASSUME NEW d, OneRight(d), JobsShrink(d), OpsShrink(d), BatchShrinks(d),
         \A v \in Workers : Carries(v, d)' => Carries(v, d),
         Watched(d)' => Watched(d),
         Has(batch', ReadEntry(d)) => Watched(d)',
         InUse(d)'
  PROVE  OneRight(d)'
<1>1. OnceAnywhere(d)'
  BY DEF OneRight, OnceAnywhere, JobsShrink, OpsShrink, BatchShrinks
<1>2. /\ Asked(d)' => Asked(d)
      /\ Queued(d)' => Queued(d)
      /\ Carried(d)' => Carried(d)
  BY DEF JobsShrink, OpsShrink, Asked, Queued, Carried
<1>3. OnePlace(d)'
  BY <1>2 DEF OneRight, OnePlace
<1>4. QED
  BY <1>1, <1>3 DEF OneRight

(* The same, when the connection stays in use if it was.                   *)
LEMMA ShrinksInUse ==
  ASSUME NEW d, OneRight(d), JobsShrink(d), OpsShrink(d), BatchShrinks(d),
         \A v \in Workers : Carries(v, d)' => Carries(v, d),
         Watched(d)' => Watched(d),
         Has(batch', ReadEntry(d)) => Watched(d)',
         Live(d) /\ conn[d].active => Live(d)' /\ conn'[d].active
  PROVE  OneRight(d)'
<1>1. /\ Asked(d)' => Asked(d)
      /\ Queued(d)' => Queued(d)
      /\ Carried(d)' => Carried(d)
  BY DEF JobsShrink, OpsShrink, Asked, Queued, Carried
<1>2. InUse(d)'
  BY <1>1 DEF OneRight, InUse
<1>3. QED
  BY <1>2, Shrinks

(* What the steps do to the queues.                                        *)
LEMMA Quiet ==
  /\ NoDispatch => \A d \in Conns : JobsShrink(d)
  /\ eops' = eops => \A d \in Conns : OpsShrink(d)
  /\ batch' = batch => \A d \in Conns : BatchShrinks(d)
  BY DEF NoDispatch, JobsShrink, OpsShrink, BatchShrinks

LEMMA OtherTask ==
  ASSUME QueuesOK, NEW task \in Tasks, Dispatch(task), NEW d, task # ReadJob(d)
  PROVE  JobsShrink(d)
<1> DEFINE v == (round + 1) % NWorkers
<1>1. v \in Workers /\ wq' = [wq EXCEPT ![v] = Append(@, task)] /\ wq \in [Workers -> Seq(Tasks)]
  BY ConnAssumption DEF Dispatch, QueuesOK, Workers
<1> HIDE DEF v
<1>2. \A u \in Workers : wq'[u] = IF u = v THEN Append(wq[v], task) ELSE wq[u]
  BY <1>1
<1>3. wq[v] \in Seq(Tasks)
  BY <1>1
<1>4. /\ Has(Append(wq[v], task), ReadJob(d)) => Has(wq[v], ReadJob(d))
      /\ Once(wq[v], ReadJob(d)) => Once(Append(wq[v], task), ReadJob(d))
  BY <1>3, AppendHas
<1>5. QED
  BY <1>2, <1>4 DEF JobsShrink

LEMMA OtherOp ==
  ASSUME EopsOK, NEW c \in Conns, NEW mask \in {READ, WRITE}, AddNotify(c, mask),
         NEW d, c # d \/ mask = WRITE
  PROVE  OpsShrink(d)
<1> DEFINE op == [c |-> c, mask |-> mask]
<1>1. /\ op \in [c : Conns, mask : {READ, WRITE}] /\ eops' = Append(eops, op)
      /\ eops \in Seq([c : Conns, mask : {READ, WRITE}]) /\ op # ReadOp(d)
  BY DEF EopsOK, AddNotify, READ, WRITE, ReadOp
<1> DEFINE Ops == [c : Conns, mask : {READ, WRITE}]
           x == ReadOp(d)
<1>2. op \in Ops /\ eops \in Seq(Ops) /\ op # x
  BY <1>1
<1> HIDE DEF op, Ops, x
<1>3. /\ Has(Append(eops, op), x) => Has(eops, x)
      /\ Once(eops, x) => Once(Append(eops, op), x)
  BY <1>2, AppendHas
<1>4. QED
  BY <1>1, <1>3 DEF OpsShrink, x

(* The types of the queues and the sockets.                                *)
LEMMA NewOp ==
  ASSUME EopsOK, NEW c \in Conns, NEW mask \in {READ, WRITE}, AddNotify(c, mask)
  PROVE  EopsOK'
<1> DEFINE op == [c |-> c, mask |-> mask]
<1>1. /\ op \in [c : Conns, mask : {READ, WRITE}] /\ eops' = Append(eops, op)
      /\ eops \in Seq([c : Conns, mask : {READ, WRITE}])
  BY DEF EopsOK, AddNotify
<1> HIDE DEF op
<1>2. QED
  BY <1>1 DEF EopsOK

LEMMA SamePeer ==
  ASSUME NoReset, NEW c \in Conns, NEW t, SockFields(t), t.peer # "reset",
         sock' = [sock EXCEPT ![c] = t]
  PROVE  NoReset'
<1>1. sock = [d \in Conns |-> sock[d]] /\ \A d \in Conns : SockFields(sock[d]) /\ sock[d].peer # "reset"
  BY DEF NoReset
<1>2. sock' = [d \in Conns |-> IF d = c THEN t ELSE sock[d]]
  BY <1>1
<1>3. QED
  BY <1>1, <1>2 DEF NoReset

-----------------------------------------------------------------------------
(* A worker's step in its task on c.                                       *)
LEMMA WorkerStep ==
  ASSUME RightInv, NEW w \in Workers, NEW c \in Conns, Own(w, c), batch' = batch,
         \A d \in Conns : JobsShrink(d) /\ OpsShrink(d),
         SameRest(conn'[c], conn[c]),
         Carries(w, c)' => Carries(w, c),
         SameActive(conn'[c], conn[c]) \/ (Carries(w, c) /\ ~ Carries(w, c)')
  PROVE  \A d \in Conns : OneRight(d)'
<1>1. NoConn \notin Conns /\ \A d \in Conns : OneRight(d)
  BY ConnAssumption DEF RightInv, RightRest
<1>2. ASSUME NEW d \in Conns, NEW v \in Workers, Carries(v, d)' PROVE Carries(v, d)
  BY <1>1, <1>2 DEF Own, OthersSame, Carries
<1>3. \A d \in Conns : BatchShrinks(d)
  BY DEF BatchShrinks
<1>4. ASSUME NEW d \in Conns
      PROVE  /\ Watched(d)' => Watched(d)
             /\ Has(batch', ReadEntry(d)) => Watched(d)'
  BY <1>1 DEF OneRight, OnePlace, Watched, Own, OnlyAt, SameRest
<1>5. ASSUME NEW d \in Conns, d # c \/ SameActive(conn'[c], conn[c])
      PROVE  Live(d) /\ conn[d].active => Live(d)' /\ conn'[d].active
  BY <1>5 DEF Own, OnlyAt, SameRest, SameActive, Live
<1>6. ASSUME Carries(w, c), ~ Carries(w, c)' PROVE InUse(c)'
  <2>1. \A v \in Workers : ~ Carries(v, c)'
    BY <1>1, <1>2, <1>6 DEF OneRight, OnceAnywhere
  <2>2. Carried(c)
    BY <1>6 DEF Carried
  <2>3. ~ Watched(c) /\ ~ Asked(c) /\ ~ Queued(c)
    BY <1>1, <2>2 DEF OneRight, OnePlace
  <2>4. ~ Watched(c)' /\ ~ Asked(c)' /\ ~ Queued(c)'
    BY <1>4, <2>3 DEF JobsShrink, OpsShrink, Asked, Queued
  <2>5. QED
    BY <2>1, <2>4 DEF InUse, Carried
<1>7. ASSUME NEW d \in Conns PROVE OneRight(d)'
  <2>1. CASE d # c \/ SameActive(conn'[c], conn[c])
    BY <1>1, <1>2, <1>3, <1>4, <1>5, <2>1, ShrinksInUse
  <2>2. CASE d = c /\ Carries(w, c) /\ ~ Carries(w, c)'
    BY <1>1, <1>2, <1>3, <1>4, <1>6, <2>2, Shrinks
  <2>3. QED
    BY <2>1, <2>2
<1>8. QED
  BY <1>7

LEMMA Steps ==
  ASSUME RightInv, NEW w \in Workers, NEW c \in Conns, Own(w, c), batch' = batch, NoReset',
         NoDispatch \/ Dispatch(FreeTask),
         eops' = eops \/ AddNotify(c, WRITE),
         SameRest(conn'[c], conn[c]),
         Carries(w, c)' => Carries(w, c),
         SameActive(conn'[c], conn[c]) \/ (Carries(w, c) /\ ~ Carries(w, c)')
  PROVE  RightRest'
<1>1. QueuesOK /\ EopsOK /\ BatchOK
  BY DEF RightInv, RightRest
<1>2. FreeTask \in Tasks /\ \A d : FreeTask # ReadJob(d)
  BY DEF Tasks, FreeTask, ReadJob
<1>3. QueuesOK' /\ \A d \in Conns : JobsShrink(d)
  <2>1. CASE NoDispatch
    BY <1>1, <2>1, QueuesSame, Quiet
  <2>2. CASE Dispatch(FreeTask)
    BY <1>1, <1>2, <2>2, DispatchKeeps, OtherTask
  <2>3. QED
    BY <2>1, <2>2
<1>4. EopsOK' /\ \A d \in Conns : OpsShrink(d)
  <2>1. CASE eops' = eops
    BY <1>1, <2>1, Quiet DEF EopsOK
  <2>2. CASE AddNotify(c, WRITE)
    BY <1>1, <2>2, NewOp, OtherOp
  <2>3. QED
    BY <2>1, <2>2
<1>5. BatchOK'
  BY <1>1 DEF BatchOK
<1>6. QED
  BY <1>3, <1>4, <1>5, WorkerStep DEF RightRest

LEMMA SameSocks ==
  ASSUME RightInv, sock' = sock
  PROVE  NoReset'
  BY DEF RightInv, RightRest, NoReset

(* The steps that change nothing but where the worker is.                  *)
LEMMA LooksRights ==
  ASSUME RightInv, NEW w \in Workers, NEW c \in Conns, th[w].c = c, OthersSame(w),
         th'[w].c \in {c, NoConn}, conn' = conn, sock' = sock, batch' = batch,
         eops' = eops, NoDispatch \/ Dispatch(FreeTask),
         th'[w].pc \in Reading => th[w].pc \in Reading
  PROVE  RightRest'
<1>1. Own(w, c)
  BY DEF Own, OnlyAt
<1>2. Carries(w, c)' => Carries(w, c)
  BY DEF Carries
<1>3. SameRest(conn'[c], conn[c]) /\ SameActive(conn'[c], conn[c])
  BY DEF SameRest, SameActive
<1>4. NoReset'
  BY SameSocks
<1>5. QED
  BY <1>1, <1>2, <1>3, <1>4, Steps

LEMMA BranchRights ==
  ASSUME RightInv, NEW w \in Workers, NEW c \in Conns, th[w].c = c, NEW to, Branch(w, to),
         to \in Reading => th[w].pc \in Reading
  PROVE  RightRest'
<1>1. To(w, to) /\ conn' = conn /\ sock' = sock /\ eops' = eops /\ batch' = batch /\ NoDispatch
  BY DEF Branch, NoDispatch
<1>2. OthersSame(w) /\ th'[w].pc = to /\ th'[w].c = c
  BY <1>1, MovesOn DEF RightInv
<1>3. QED
  BY <1>1, <1>2, LooksRights

(* A step that updates the connection, and does not touch the mask.        *)
LEMMA UpdateRights ==
  ASSUME RightInv, NEW w \in Workers, NEW c \in Conns, th[w].c = c, OthersSame(w),
         th'[w].c \in {c, NoConn}, NEW r, conn' = [conn EXCEPT ![c] = r],
         SameRest(r, conn[c]), SameActive(r, conn[c]) \/ (Carries(w, c) /\ ~ Carries(w, c)'),
         batch' = batch, NoReset', NoDispatch \/ Dispatch(FreeTask),
         eops' = eops \/ AddNotify(c, WRITE),
         th'[w].pc \in Reading => th[w].pc \in Reading
  PROVE  RightRest'
<1>1. conn'[c] = r /\ OnlyAt(c)
  BY At1 DEF RightInv
<1>2. Own(w, c)
  BY <1>1 DEF Own
<1>3. Carries(w, c)' => Carries(w, c)
  BY DEF Carries
<1>4. QED
  BY <1>1, <1>2, <1>3, Steps

-----------------------------------------------------------------------------
(* The read task.                                                          *)
LEMMA CarrierInUse ==
  ASSUME RightInv, NEW w \in Workers, NEW c \in Conns, Carries(w, c)
  PROVE  Live(c) /\ conn[c].active /\ ~ Watched(c) /\ ~ Asked(c) /\ ~ Queued(c)
         /\ \A v \in Workers : Carries(v, c) => v = w
<1>1. OneRight(c) /\ Carried(c)
  BY DEF RightInv, RightRest, Carried
<1>2. QED
  BY <1>1 DEF OneRight, OnceAnywhere, OnePlace, InUse

LEMMA ReadRawRights ==
  ASSUME RightInv, NEW w \in Workers, NEW c \in Conns, ReadRaw(w, c)
  PROVE  RightRest'
<1>1. /\ th[w].pc = "r_raw" /\ th[w].c = c /\ eops' = eops /\ NoDispatch /\ batch' = batch
      /\ ListInv /\ ConnFields(conn[c]) /\ NoReset /\ SockFields(sock[c])
      /\ sock[c].peer # "reset"
      /\ conn = [d \in Conns |-> conn[d]] /\ sock = [d \in Conns |-> sock[d]]
  BY DEF ReadRaw, At, NoDispatch, RightInv, RightRest, ListInv, ConnOK, NoReset
<1>2. CASE /\ conn' = [conn EXCEPT ![c].rbuf = @ + sock[c].in]
           /\ sock' = [sock EXCEPT ![c].in = 0]
           /\ To(w, "r_sess")
  <2> DEFINE n == conn[c].rbuf + sock[c].in
             r == [conn[c] EXCEPT !.rbuf = n]
             t == [sock[c] EXCEPT !.in = 0]
  <2>1. conn' = [conn EXCEPT ![c] = r] /\ sock' = [sock EXCEPT ![c] = t]
    BY <1>1, <1>2
  <2>2. r = [conn[c] EXCEPT !.rbuf = n] /\ t = [sock[c] EXCEPT !.in = 0]
    OBVIOUS
  <2>3. t.peer = sock[c].peer
    BY <1>1 DEF SockFields
  <2> HIDE DEF n, r, t
  <2>4. SameRest(r, conn[c]) /\ SameActive(r, conn[c]) /\ SockFields(t)
    BY <1>1, <2>2, SetRbuf, SockIn
  <2>5. NoReset'
    BY <1>1, <2>1, <2>3, <2>4, SamePeer
  <2>6. OthersSame(w) /\ th'[w].c = c
    BY <1>1, <1>2, MovesOn
  <2>7. "r_raw" \in Reading
    BY DEF Reading
  <2>8. QED
    BY <1>1, <2>1, <2>4, <2>5, <2>6, <2>7, UpdateRights
<1>3. CASE conn' = conn /\ sock' = sock /\ CallInactive(w, "onRead")
  <2>1. OthersSame(w) /\ th'[w].c = c
    BY <1>1, <1>3, MovesOn
  <2>2. QED
    BY <1>1, <1>3, <2>1, LooksRights DEF Reading
<1>4. QED
  BY <1>2, <1>3 DEF ReadRaw

LEMMA SessRights ==
  ASSUME RightInv, NEW w \in Workers, NEW c \in Conns, SessProcess(w, c)
  PROVE  RightRest'
<1>1. /\ th[w].pc = "r_sess" /\ th[w].c = c /\ eops' = eops /\ NoDispatch /\ batch' = batch
      /\ ListInv /\ ConnFields(conn[c]) /\ sock' = sock
  BY DEF SessProcess, At, NoDispatch, RightInv, ListInv, ConnOK
<1>2. CASE conn' = [conn EXCEPT ![c] = Answered(c)] /\ To(w, "r_notify")
  <2> DEFINE s == [conn[c] EXCEPT !.rbuf = @ - 1]
             r == [s EXCEPT !.wbuf = @ + 1]
             n == conn[c].rbuf - 1
             m == s.wbuf + 1
  <2>1. conn' = [conn EXCEPT ![c] = r]
    BY <1>2 DEF Answered
  <2>2. s = [conn[c] EXCEPT !.rbuf = n]
    OBVIOUS
  <2>3. r = [s EXCEPT !.wbuf = m]
    OBVIOUS
  <2> HIDE DEF s, r, n, m
  <2>4. ConnFields(s) /\ SameRest(s, conn[c]) /\ SameActive(s, conn[c])
    BY <1>1, <2>2, SetRbuf
  <2>5. SameRest(r, s) /\ SameActive(r, s)
    BY <2>3, <2>4, SetWbuf
  <2>6. SameRest(r, conn[c]) /\ SameActive(r, conn[c])
    BY <2>4, <2>5 DEF SameRest, SameActive
  <2>7. OthersSame(w) /\ th'[w].c = c
    BY <1>1, <1>2, MovesOn
  <2>8. "r_sess" \in Reading /\ NoReset'
    BY <1>1, SameSocks DEF Reading
  <2>9. QED
    BY <1>1, <2>1, <2>6, <2>7, <2>8, UpdateRights
<1>3. CASE conn' = conn /\ To(w, "r_restore")
  <2>1. OthersSame(w) /\ th'[w].c = c
    BY <1>1, <1>3, MovesOn
  <2>2. QED
    BY <1>1, <1>3, <2>1, LooksRights DEF Reading
<1>4. QED
  BY <1>2, <1>3 DEF SessProcess

LEMMA NotifyRights ==
  ASSUME RightInv, NEW w \in Workers, NEW c \in Conns, WriteNotify(w, c)
  PROVE  RightRest'
<1>1. /\ th[w].pc = "r_notify" /\ th[w].c = c /\ NoDispatch /\ batch' = batch
      /\ ListInv /\ ConnFields(conn[c]) /\ sock' = sock
  BY DEF WriteNotify, At, NoDispatch, RightInv, ListInv, ConnOK
<1>2. OthersSame(w) /\ th'[w].c = c
  BY <1>1, MovesOn DEF WriteNotify
<1>3. CASE /\ conn' = [conn EXCEPT ![c].writeReqs = @ + 1]
           /\ eops' = eops \/ AddNotify(c, WRITE)
  <2> DEFINE n == conn[c].writeReqs + 1
             r == [conn[c] EXCEPT !.writeReqs = n]
  <2>1. conn' = [conn EXCEPT ![c] = r]
    BY <1>3
  <2>2. r = [conn[c] EXCEPT !.writeReqs = n]
    OBVIOUS
  <2> HIDE DEF n, r
  <2>3. SameRest(r, conn[c]) /\ SameActive(r, conn[c])
    BY <1>1, <2>2, SetWriteReqs
  <2>4. "r_notify" \in Reading /\ NoReset'
    BY <1>1, SameSocks DEF Reading
  <2>5. QED
    BY <1>1, <1>2, <1>3, <2>1, <2>3, <2>4, UpdateRights
<1>4. CASE conn' = conn /\ eops' = eops
  BY <1>1, <1>2, <1>4, LooksRights DEF Reading
<1>5. QED
  BY <1>3, <1>4 DEF WriteNotify

(* The right goes from the worker to the event pipe.                       *)
LEMMA ReadAddRights ==
  ASSUME RightInv, NEW w \in Workers, NEW c \in Conns, ReadAdd(w, c)
  PROVE  RightRest'
<1>1. /\ th[w].pc = "r_add" /\ th[w].c = c /\ NoDispatch /\ batch' = batch
      /\ ListInv /\ QueuesOK /\ EopsOK /\ BatchOK /\ conn' = conn /\ sock' = sock
      /\ AddNotify(c, READ) /\ To(w, "r_check")
  BY DEF ReadAdd, At, NoDispatch, RightInv, RightRest
<1>2. OthersSame(w) /\ th'[w].c = c /\ th'[w].pc = "r_check"
  BY <1>1, MovesOn
<1>3. QueuesOK' /\ EopsOK' /\ BatchOK' /\ NoReset'
  BY <1>1, QueuesSame, NewOp, SameSocks DEF BatchOK
<1>4. Carries(w, c) /\ \A d \in Conns, v \in Workers : Carries(v, d)' => Carries(v, d) /\ v # w
  BY <1>1, <1>2 DEF Carries, Reading, OthersSame
<1>5. ASSUME NEW d \in Conns, d # c PROVE OneRight(d)'
  <2>1. OpsShrink(d)
    BY <1>1, <1>5, OtherOp
  <2>2. OneRight(d)
    BY DEF RightInv, RightRest
  <2>3. QED
    BY <1>1, <1>4, <2>1, <2>2, Quiet, ShrinksInUse DEF Watched, Live, OneRight, OnePlace
<1>6. OneRight(c)'
  <2>1. OneRight(c) /\ Live(c) /\ conn[c].active /\ ~ Watched(c) /\ ~ Asked(c) /\ ~ Queued(c)
        /\ \A v \in Workers : Carries(v, c) => v = w
    BY <1>4, CarrierInUse DEF RightInv, RightRest
  <2> DEFINE Ops == [c : Conns, mask : {READ, WRITE}]
             x == ReadOp(c)
  <2>2. x \in Ops /\ eops \in Seq(Ops) /\ eops' = Append(eops, x)
    BY <1>1 DEF EopsOK, AddNotify, ReadOp
  <2> HIDE DEF Ops, x
  <2>3. Once(eops', x)
    BY <2>1, <2>2, AppendHas DEF Asked, x
  <2>4. ~ Carried(c)'
    BY <1>4, <2>1 DEF Carried
  <2>5. ~ Watched(c)' /\ ~ Queued(c)' /\ ~ Has(batch', ReadEntry(c))
    BY <1>1, <2>1 DEF Watched, Queued, OneRight, OnePlace, NoDispatch
  <2>6. Live(c)' /\ conn'[c].active
    BY <1>1, <2>1 DEF Live
  <2>7. OnceAnywhere(c)'
    <3>1. \A v \in Workers : ~ Carries(v, c)'
      BY <2>4 DEF Carried
    <3>2. \A v \in Workers : wq'[v] = wq[v]
      BY <1>1 DEF NoDispatch
    <3>3. QED
      BY <1>1, <2>1, <2>3, <3>1, <3>2 DEF OnceAnywhere, OneRight, x
  <2>8. OnePlace(c)'
    BY <2>4, <2>5 DEF OnePlace
  <2>9. QED
    BY <2>6, <2>7, <2>8 DEF OneRight, InUse
<1>7. QED
  BY <1>3, <1>5, <1>6 DEF RightRest

(* A task ends: its flag is cleared.                                       *)
LEMMA CheckRights ==
  ASSUME RightInv, NEW w \in Workers, NEW c \in Conns, ReadCheck(w, c) \/ WriteCheck(w, c)
  PROVE  RightRest'
<1>1. /\ th[w].c = c /\ (NoDispatch \/ Dispatch(FreeTask))
      /\ batch' = batch /\ eops' = eops /\ sock' = sock /\ Done(w)
      /\ ListInv /\ ConnFields(conn[c]) /\ conn = [d \in Conns |-> conn[d]]
  BY DEF ReadCheck, WriteCheck, FreeCheck, At, RightInv, ListInv, ConnOK
<1>2. OthersSame(w) /\ th'[w].c = NoConn /\ th'[w].pc \notin Reading
  BY <1>1, MovesOn DEF IdleThread, Reading
<1>3. NoReset'
  BY <1>1, SameSocks
<1>4. CASE ReadCheck(w, c)
  <2> DEFINE r == [conn[c] EXCEPT !.onRead = FALSE]
  <2>1. conn' = [conn EXCEPT ![c].onRead = FALSE]
    BY <1>4 DEF ReadCheck, FreeCheck
  <2>2. conn' = [conn EXCEPT ![c] = r] /\ r = [conn[c] EXCEPT !.onRead = FALSE]
    BY <2>1
  <2> HIDE DEF r
  <2>3. SameRest(r, conn[c]) /\ SameActive(r, conn[c])
    BY <1>1, <2>2, SetOnRead
  <2>4. QED
    BY <1>1, <1>2, <1>3, <2>2, <2>3, UpdateRights
<1>5. CASE WriteCheck(w, c)
  <2> DEFINE r == [conn[c] EXCEPT !.onWrite = FALSE]
  <2>1. conn' = [conn EXCEPT ![c].onWrite = FALSE]
    BY <1>5 DEF WriteCheck, FreeCheck
  <2>2. conn' = [conn EXCEPT ![c] = r] /\ r = [conn[c] EXCEPT !.onWrite = FALSE]
    BY <2>1
  <2> HIDE DEF r
  <2>3. SameRest(r, conn[c]) /\ SameActive(r, conn[c])
    BY <1>1, <2>2, SetOnWrite
  <2>4. QED
    BY <1>1, <1>2, <1>3, <2>2, <2>3, UpdateRights
<1>6. QED
  BY <1>4, <1>5

(* The write task has no business with the right to read: without a reset  *)
(* its write never fails.                                                  *)
LEMMA WriteRawRights ==
  ASSUME RightInv, NEW w \in Workers, NEW c \in Conns, WriteRaw(w, c)
  PROVE  RightRest'
<1>1. /\ th[w].pc = "w_raw" /\ th[w].c = c /\ eops' = eops /\ NoDispatch /\ batch' = batch
      /\ ListInv /\ ConnFields(conn[c]) /\ NoReset /\ SockFields(sock[c])
      /\ sock[c].peer # "reset"
      /\ conn = [d \in Conns |-> conn[d]] /\ sock = [d \in Conns |-> sock[d]]
  BY DEF WriteRaw, At, NoDispatch, RightInv, RightRest, ListInv, ConnOK, NoReset
<1>2. CASE conn' = conn /\ sock' = sock /\ To(w, "w_rmn")
  <2>1. OthersSame(w) /\ th'[w].c = c /\ th'[w].pc \notin Reading
    BY <1>1, <1>2, MovesOn DEF Reading
  <2>2. QED
    BY <1>1, <1>2, <2>1, LooksRights
<1>3. ASSUME NEW n,
             conn' = [conn EXCEPT ![c].wbuf = @ - n],
             sock' = [sock EXCEPT ![c].out = @ + n], To(w, "w_yield")
      PROVE  RightRest'
  <2> DEFINE m == conn[c].wbuf - n
             k == sock[c].out + n
             r == [conn[c] EXCEPT !.wbuf = m]
             t == [sock[c] EXCEPT !.out = k]
  <2>1. conn' = [conn EXCEPT ![c] = r] /\ sock' = [sock EXCEPT ![c] = t]
    BY <1>1, <1>3
  <2>2. r = [conn[c] EXCEPT !.wbuf = m] /\ t = [sock[c] EXCEPT !.out = k]
    OBVIOUS
  <2>3. t.peer = sock[c].peer
    BY <1>1 DEF SockFields
  <2> HIDE DEF m, k, r, t
  <2>4. SameRest(r, conn[c]) /\ SameActive(r, conn[c]) /\ SockFields(t)
    BY <1>1, <2>2, SetWbuf, SockOut
  <2>5. NoReset'
    BY <1>1, <2>1, <2>3, <2>4, SamePeer
  <2>6. OthersSame(w) /\ th'[w].c = c /\ th'[w].pc \notin Reading
    BY <1>1, <1>3, MovesOn DEF Reading
  <2>7. QED
    BY <1>1, <2>1, <2>4, <2>5, <2>6, UpdateRights
<1>4. QED
  BY <1>1, <1>2, <1>3 DEF WriteRaw

(* The steps that only note a counter of the connection.                   *)
LEMMA NotesRights ==
  ASSUME RightInv, NEW w \in Workers, NEW c \in Conns, WriteReqs(w, c) \/ WriteRmn(w, c)
  PROVE  RightRest'
<1>1. /\ th[w].c = c /\ conn' = conn /\ sock' = sock /\ eops' = eops /\ batch' = batch
      /\ NoDispatch /\ th = [v \in Workers |-> th[v]] /\ ThreadFields(th[w])
  BY DEF WriteReqs, WriteRmn, At, NoDispatch, RightInv, ListInv, ThreadOK
<1>2. ASSUME NEW to, NEW n, NEW m, to \notin Reading,
             th' = [th EXCEPT ![w] = [pc |-> to, c |-> th[w].c, flag |-> th[w].flag,
                                      wreqs |-> n, wrmn |-> m]]
      PROVE  RightRest'
  <2>1. OthersSame(w) /\ th'[w].c = c /\ th'[w].pc = to
    BY <1>1, <1>2 DEF OthersSame
  <2>2. QED
    BY <1>1, <1>2, <2>1, LooksRights
<1>3. CASE WriteReqs(w, c)
  <2> DEFINE t == th[w]
             n == conn[c].writeReqs
             s == [t EXCEPT !.pc = "w_raw"]
             u == [s EXCEPT !.wreqs = n]
  <2>1. th' = [th EXCEPT ![w] = u]
    BY <1>1, <1>3 DEF WriteReqs
  <2> HIDE DEF n, t
  <2>2. s = [pc |-> "w_raw", c |-> t.c, flag |-> t.flag, wreqs |-> t.wreqs, wrmn |-> t.wrmn]
    BY <1>1 DEF ThreadFields, t
  <2> HIDE DEF s
  <2>3. u = [pc |-> "w_raw", c |-> t.c, flag |-> t.flag, wreqs |-> n, wrmn |-> t.wrmn]
    BY <2>2
  <2> HIDE DEF u
  <2>4. u = [pc |-> "w_raw", c |-> th[w].c, flag |-> th[w].flag, wreqs |-> n, wrmn |-> th[w].wrmn]
    BY <2>3 DEF t
  <2>5. "w_raw" \notin Reading
    BY DEF Reading
  <2>6. QED
    BY <1>2, <2>1, <2>4, <2>5
<1>4. CASE WriteRmn(w, c)
  <2> DEFINE t == th[w]
             n == conn[c].wbuf
             s == [t EXCEPT !.pc = "w_inter"]
             u == [s EXCEPT !.wrmn = n]
  <2>1. th' = [th EXCEPT ![w] = u]
    BY <1>1, <1>4 DEF WriteRmn
  <2> HIDE DEF n, t
  <2>2. s = [pc |-> "w_inter", c |-> t.c, flag |-> t.flag, wreqs |-> t.wreqs, wrmn |-> t.wrmn]
    BY <1>1 DEF ThreadFields, t
  <2> HIDE DEF s
  <2>3. u = [pc |-> "w_inter", c |-> t.c, flag |-> t.flag, wreqs |-> t.wreqs, wrmn |-> n]
    BY <2>2
  <2> HIDE DEF u
  <2>4. u = [pc |-> "w_inter", c |-> th[w].c, flag |-> th[w].flag, wreqs |-> th[w].wreqs, wrmn |-> n]
    BY <2>3 DEF t
  <2>5. "w_inter" \notin Reading
    BY DEF Reading
  <2>6. QED
    BY <1>2, <2>1, <2>4, <2>5
<1>5. QED
  BY <1>3, <1>4

LEMMA EndRights ==
  ASSUME RightInv, NEW w \in Workers, NEW c \in Conns, InterWrite(w, c) \/ YieldWrite(w, c)
  PROVE  RightRest'
<1>1. /\ th[w].c = c /\ NoDispatch /\ batch' = batch /\ sock' = sock
      /\ (eops' = eops \/ AddNotify(c, WRITE))
      /\ ListInv /\ ConnFields(conn[c]) /\ conn = [d \in Conns |-> conn[d]]
      /\ To(w, "w_check") \/ To(w, "w_active")
  BY DEF InterWrite, YieldWrite, At, NoDispatch, RightInv, ListInv, ConnOK
<1>2. OthersSame(w) /\ th'[w].c = c /\ th'[w].pc \notin Reading
  BY <1>1, MovesOn DEF Reading
<1>3. NoReset'
  BY <1>1, SameSocks
<1>4. CASE conn' = [conn EXCEPT ![c].onWrite = FALSE]
  <2> DEFINE r == [conn[c] EXCEPT !.onWrite = FALSE]
  <2>1. conn' = [conn EXCEPT ![c] = r] /\ r = [conn[c] EXCEPT !.onWrite = FALSE]
    BY <1>4
  <2> HIDE DEF r
  <2>2. SameRest(r, conn[c]) /\ SameActive(r, conn[c])
    BY <1>1, <2>1, SetOnWrite
  <2>3. QED
    BY <1>1, <1>2, <1>3, <2>1, <2>2, UpdateRights
<1>5. CASE conn' = conn /\ eops' = eops
  BY <1>1, <1>2, <1>5, LooksRights
<1>6. QED
  BY <1>4, <1>5 DEF InterWrite, YieldWrite

(* The connection becomes inactive: the right to read it ends.             *)
LEMMA LockRights ==
  ASSUME RightInv, NEW w \in Workers, NEW c \in Conns, InactiveLock(w, c)
  PROVE  RightRest'
<1>1. /\ th[w].pc = "inact_lock" /\ th[w].c = c /\ NoDispatch /\ batch' = batch
      /\ sock' = sock /\ eops' = eops /\ th[w].flag \in {"onRead", "onWrite"}
      /\ ListInv /\ ConnFields(conn[c]) /\ conn = [d \in Conns |-> conn[d]]
  BY DEF InactiveLock, At, NoDispatch, RightInv, ListInv, ConnOK, ThreadOK
<1>2. NoReset' /\ Carries(w, c)
  BY <1>1, SameSocks DEF Carries, Reading
<1>3. CASE /\ conn' = [conn EXCEPT ![c].active = FALSE, ![c][th[w].flag] = FALSE]
           /\ To(w, "inact_unlock")
  <2>1. OthersSame(w) /\ th'[w].c = c /\ th'[w].pc \notin Reading
    BY <1>1, <1>3, MovesOn DEF Reading
  <2> DEFINE s == [conn[c] EXCEPT !.active = FALSE]
             p == [s EXCEPT !.onRead = FALSE]
             q == [s EXCEPT !.onWrite = FALSE]
  <2>2. /\ conn' = [conn EXCEPT ![c] = p] \/ conn' = [conn EXCEPT ![c] = q]
    BY <1>1, <1>3
  <2>3. s = [conn[c] EXCEPT !.active = FALSE]
    OBVIOUS
  <2>4. p = [s EXCEPT !.onRead = FALSE] /\ q = [s EXCEPT !.onWrite = FALSE]
    OBVIOUS
  <2> HIDE DEF s, p, q
  <2>5. ConnFields(s) /\ SameRest(s, conn[c])
    BY <1>1, <2>3, SetActive
  <2>6. SameRest(p, s) /\ SameRest(q, s)
    BY <2>4, <2>5, SetOnRead, SetOnWrite
  <2>7. SameRest(p, conn[c]) /\ SameRest(q, conn[c])
    BY <2>5, <2>6 DEF SameRest
  <2>8. ~ Carries(w, c)'
    BY <2>1 DEF Carries
  <2>9. QED
    BY <1>1, <1>2, <2>1, <2>2, <2>7, <2>8, UpdateRights
<1>4. CASE conn' = conn /\ To(w, "inact_notify")
  <2>1. OthersSame(w) /\ th'[w].c = c
    BY <1>1, <1>4, MovesOn
  <2>2. QED
    BY <1>1, <1>2, <1>4, <2>1, LooksRights DEF Carries
<1>5. QED
  BY <1>3, <1>4 DEF InactiveLock

LEMMA BranchesRights ==
  ASSUME RightInv, NEW w \in Workers, NEW c \in Conns,
         \/ ReadActive(w, c) \/ ReadRestore(w, c) \/ WriteActive(w, c)
         \/ InactiveCheck(w, c) \/ InactiveUnlock(w, c)
  PROVE  RightRest'
<1>1. th[w].c = c
  BY DEF ReadActive, ReadRestore, WriteActive, InactiveCheck, InactiveUnlock, At
<1>2. CASE ReadActive(w, c)
  BY <1>1, <1>2, BranchRights DEF ReadActive, At, Reading
<1>3. CASE ReadRestore(w, c)
  BY <1>1, <1>3, BranchRights DEF ReadRestore, At, Reading
<1>4. CASE WriteActive(w, c)
  BY <1>1, <1>4, BranchRights DEF WriteActive, At, Reading
<1>5. CASE InactiveCheck(w, c)
  BY <1>1, <1>5, BranchRights DEF InactiveCheck, At, Reading
<1>6. CASE InactiveUnlock(w, c)
  BY <1>1, <1>6, BranchRights DEF InactiveUnlock, At, Reading
<1>7. QED
  BY <1>2, <1>3, <1>4, <1>5, <1>6

LEMMA TaskRights ==
  ASSUME RightInv, NEW w \in Workers, NEW c \in Conns,
         ReadTask(w, c) \/ WriteTask(w, c) \/ Inactive(w, c)
  PROVE  RightRest'
<1>1. CASE ReadTask(w, c)
  BY <1>1, BranchesRights, ReadRawRights, SessRights, NotifyRights, ReadAddRights, CheckRights
  DEF ReadTask
<1>2. CASE WriteTask(w, c)
  BY <1>2, BranchesRights, NotesRights, WriteRawRights, EndRights, CheckRights DEF WriteTask
<1>3. CASE Inactive(w, c)
  BY <1>3, BranchesRights, LockRights DEF Inactive
<1>4. QED
  BY <1>1, <1>2, <1>3

-----------------------------------------------------------------------------
(* The other steps of a worker.                                            *)

(* A step that starts nothing, and changes only connections not in use.    *)
LEMMA CalmRights ==
  ASSUME RightInv, sock' = sock, batch' = batch, eops' = eops,
         NoDispatch \/ Dispatch(FreeTask),
         \A d \in Conns, v \in Workers : Carries(v, d)' => Carries(v, d),
         \A d \in Conns : Watched(d)' => Watched(d),
         \A d \in Conns : Live(d) /\ conn[d].active => conn'[d] = conn[d]
  PROVE  RightRest'
<1>1. QueuesOK /\ EopsOK /\ BatchOK /\ \A d \in Conns : OneRight(d)
  BY DEF RightInv, RightRest
<1>2. FreeTask \in Tasks /\ \A d : FreeTask # ReadJob(d)
  BY DEF Tasks, FreeTask, ReadJob
<1>3. QueuesOK' /\ \A d \in Conns : JobsShrink(d)
  <2>1. CASE NoDispatch
    BY <1>1, <2>1, QueuesSame, Quiet
  <2>2. CASE Dispatch(FreeTask)
    BY <1>1, <1>2, <2>2, DispatchKeeps, OtherTask
  <2>3. QED
    BY <2>1, <2>2
<1>4. EopsOK' /\ BatchOK' /\ NoReset'
  BY <1>1, SameSocks DEF EopsOK, BatchOK
<1>5. ASSUME NEW d \in Conns PROVE OneRight(d)'
  <2>1. Live(d) /\ conn[d].active => Live(d)' /\ conn'[d].active
    BY DEF Live
  <2>2. Watched(d) => Watched(d)'
    BY <1>1 DEF OneRight, InUse, Watched
  <2>3. Has(batch', ReadEntry(d)) => Watched(d)'
    BY <1>1, <2>2 DEF OneRight, OnePlace
  <2>4. QED
    BY <1>1, <1>3, <2>1, <2>3, Quiet, ShrinksInUse
<1>6. QED
  BY <1>3, <1>4, <1>5 DEF RightRest

LEMMA InactiveNotifyRights ==
  ASSUME RightInv, NEW w \in Workers, InactiveNotify(w)
  PROVE  RightRest'
<1>1. /\ Dispatch(FreeTask) /\ Done(w) /\ conn' = conn /\ sock' = sock /\ batch' = batch
      /\ eops' = eops
  BY DEF InactiveNotify
<1>2. OthersSame(w) /\ th'[w].pc \notin Reading
  BY <1>1, MovesOn DEF RightInv, IdleThread, Reading
<1>3. \A d \in Conns, v \in Workers : Carries(v, d)' => Carries(v, d)
  BY <1>2 DEF OthersSame, Carries
<1>4. QED
  BY <1>1, <1>3, CalmRights DEF Watched

LEMMA FreeFuncRights ==
  ASSUME RightInv, NEW w \in Workers, FreeFunc(w)
  PROVE  RightRest'
<1>1. /\ NoDispatch /\ Done(w) /\ sock' = sock /\ batch' = batch /\ eops' = eops
      /\ \A c \in Conns : conn'[c] = IF freeList[c] > 0 /\ Reclaimable(c)
                                      THEN Freed(c) ELSE conn[c]
  BY DEF FreeFunc, NoDispatch
<1>2. OthersSame(w) /\ th'[w].pc \notin Reading
  BY <1>1, MovesOn DEF RightInv, IdleThread, Reading
<1>3. \A d \in Conns, v \in Workers : Carries(v, d)' => Carries(v, d)
  BY <1>2 DEF OthersSame, Carries
<1>4. ASSUME NEW d \in Conns PROVE Watched(d)' => Watched(d)
  <2> DEFINE s == [conn[d] EXCEPT !.mem = "freed"]
             r == [s EXCEPT !.events = {}]
  <2>1. ConnFields(conn[d]) /\ Freed(d) = r /\ s = [conn[d] EXCEPT !.mem = "freed"]
    BY DEF RightInv, ListInv, ConnOK, Freed
  <2>2. r = [s EXCEPT !.events = {}]
    OBVIOUS
  <2> HIDE DEF s, r
  <2>3. r.events = {}
    BY <2>1, <2>2, SetMem, SetEvents
  <2>4. QED
    BY <1>1, <2>1, <2>3 DEF Watched
<1>5. ASSUME NEW d \in Conns, Live(d), conn[d].active PROVE conn'[d] = conn[d]
  <2>1. freeList[d] = 0
    BY <1>5 DEF RightInv, ListInv, ListedIffInactive
  <2>2. QED
    BY <1>1, <2>1
<1>6. QED
  BY <1>1, <1>3, <1>4, <1>5, CalmRights

(* A worker takes a task; with a read task, the right to read.             *)
LEMMA TakeRights ==
  ASSUME RightInv, NEW w \in Workers, WorkerTake(w)
  PROVE  RightRest'
<1>1. /\ th = [v \in Workers |-> th[v]] /\ ThreadFields(th[w])
      /\ wq[w] # <<>> /\ wq' = [wq EXCEPT ![w] = Tail(wq[w])] /\ wq \in [Workers -> Seq(Tasks)]
      /\ conn' = conn /\ sock' = sock /\ batch' = batch /\ eops' = eops
  BY DEF RightInv, RightRest, ListInv, ThreadOK, QueuesOK, WorkerTake
<1> DEFINE q == wq[w]
           k == Head(q).kind
           p == TaskStart(k)
           e == Head(q).c
           s == [th[w] EXCEPT !.pc = p]
           t == [s EXCEPT !.c = e]
<1>2. q \in Seq(Tasks) /\ q # <<>> /\ Head(q) \in Tasks
  BY <1>1
<1>3. th' = [th EXCEPT ![w] = t]
  BY <1>1 DEF WorkerTake
<1>4. t.pc = p /\ t.c = e
  <2> HIDE DEF p, e
  <2> DEFINE u == th[w]
  <2>0. ThreadFields(u)
    BY <1>1
  <2> HIDE DEF u
  <2>1. ThreadFields(s) /\ s.pc = p
    <3>1. s = [u EXCEPT !.pc = p]
      BY DEF u
    <3> HIDE DEF s
    <3>2. QED
      BY <2>0, <3>1 DEF ThreadFields
  <2> HIDE DEF s
  <2>2. QED
    BY <2>1 DEF ThreadFields
<1> HIDE DEF t
<1>5. OthersSame(w) /\ th'[w].pc = p /\ th'[w].c = e
  BY <1>1, <1>3, <1>4 DEF OthersSame
<1>6. QueuesOK' /\ EopsOK' /\ BatchOK' /\ NoReset'
  BY <1>1, TakeKeepsQueues, SameSocks DEF RightInv, RightRest, EopsOK, BatchOK
<1>7. p \in Reading <=> k = "read"
  <2>1. k \in {"read", "write", "free"}
    BY <1>2 DEF Tasks, FreeTask
  <2> HIDE DEF k
  <2>2. QED
    BY <2>1 DEF TaskStart, Reading
<1>8. \A d \in Conns : k = "read" /\ e = d <=> Head(q) = ReadJob(d)
  BY <1>2, ConnAssumption DEF Tasks, FreeTask, ReadJob
<1> HIDE DEF k, p, e
<1>9. /\ \A v \in Workers : v # w => wq'[v] = wq[v]
      /\ wq'[w] = Tail(q)
  BY <1>1
<1>10. ASSUME NEW d \in Conns PROVE OneRight(d)'
  <2>1. OneRight(d)
    BY DEF RightInv, RightRest
  <2>2. Once(q, ReadJob(d))
    BY <2>1 DEF OneRight, OnceAnywhere
  <2>3. /\ Has(Tail(q), ReadJob(d)) => Has(q, ReadJob(d))
        /\ Once(Tail(q), ReadJob(d))
        /\ Head(q) = ReadJob(d) => ~ Has(Tail(q), ReadJob(d)) /\ Has(q, ReadJob(d))
    <3>1. Head(q) = q[1] /\ 1 \in DOMAIN q
      BY <1>2
    <3>2. QED
      BY <1>2, <2>2, <3>1, TailHas DEF Has
  <2> HIDE DEF q
  <2>4. JobsShrink(d)
    <3> SUFFICES ASSUME NEW v \in Workers
                 PROVE  /\ Has(wq'[v], ReadJob(d)) => Has(wq[v], ReadJob(d))
                        /\ Once(wq[v], ReadJob(d)) => Once(wq'[v], ReadJob(d))
      BY DEF JobsShrink
    <3>1. CASE v = w
      BY <1>9, <2>3, <3>1 DEF q
    <3>2. CASE v # w
      BY <1>9, <3>2
    <3>3. QED
      BY <3>1, <3>2
  <2>5. CASE Head(q) # ReadJob(d)
    <3>1. \A v \in Workers : Carries(v, d)' => Carries(v, d)
      BY <1>5, <1>7, <1>8, <2>5 DEF Carries, OthersSame
    <3>2. QED
      BY <1>1, <2>1, <2>4, <3>1, Quiet, ShrinksInUse DEF Watched, Live, OneRight, OnePlace
  <2>6. CASE Head(q) = ReadJob(d)
    <3>1. Has(wq[w], ReadJob(d)) /\ Queued(d)
      BY <2>3, <2>6 DEF Queued, q
    <3>2. ~ Watched(d) /\ ~ Asked(d) /\ ~ Carried(d) /\ Live(d) /\ conn[d].active
          /\ \A v \in Workers : Has(wq[v], ReadJob(d)) => v = w
      BY <2>1, <3>1 DEF OneRight, OnceAnywhere, OnePlace, InUse
    <3>3. \A v \in Workers : ~ Has(wq'[v], ReadJob(d))
      <4> TAKE v \in Workers
      <4>1. CASE v = w
        BY <1>9, <2>3, <2>6, <4>1
      <4>2. CASE v # w
        BY <1>9, <3>2, <4>2
      <4>3. QED
        BY <4>1, <4>2
    <3>4. ~ Watched(d)' /\ ~ Asked(d)' /\ ~ Queued(d)' /\ Live(d)' /\ conn'[d].active
      BY <1>1, <3>2, <3>3 DEF Watched, Asked, Queued, Live
    <3>5. \A v \in Workers : Carries(v, d)' => v = w
      BY <1>5, <3>2 DEF Carries, Carried, OthersSame
    <3>6. OnceAnywhere(d)'
      BY <1>1, <2>1, <2>4, <3>3, <3>5 DEF OneRight, OnceAnywhere, JobsShrink
    <3>7. OnePlace(d)'
      BY <1>1, <2>1, <3>2, <3>4 DEF OneRight, OnePlace
    <3>8. QED
      BY <3>4, <3>6, <3>7 DEF OneRight, InUse
  <2>7. QED
    BY <2>5, <2>6
<1>11. QED
  BY <1>6, <1>10 DEF RightRest

LEMMA WorkerRights ==
  ASSUME RightInv, NEW w \in Workers, Worker(w)
  PROVE  RightRest'
  BY TakeRights, FreeFuncRights, InactiveNotifyRights, TaskRights DEF Worker

-----------------------------------------------------------------------------
(* The client and the loop.                                                *)
LEMMA ClientRights ==
  ASSUME RightInv, AllowReset = FALSE, NEW c \in Conns, Client(c)
  PROVE  RightRest'
<1>1. NoReset /\ SockFields(sock[c]) /\ sock[c].peer # "reset" /\ sock = [d \in Conns |-> sock[d]]
  BY DEF RightInv, RightRest, NoReset
<1>2. ASSUME NEW t, SockFields(t), t.peer # "reset", SockStep(c, t) PROVE RightRest'
  <2>1. /\ sock' = [sock EXCEPT ![c] = t] /\ conn' = conn /\ batch' = batch /\ eops' = eops
        /\ NoDispatch /\ th' = th
    BY <1>2 DEF SockStep, NoDispatch
  <2>2. NoReset'
    BY <1>1, <1>2, <2>1, SamePeer
  <2>3. QueuesOK' /\ EopsOK' /\ BatchOK'
    BY <2>1, QueuesSame DEF RightInv, RightRest, EopsOK, BatchOK
  <2>4. ASSUME NEW d \in Conns PROVE OneRight(d)'
    <3>1. OneRight(d)
      BY DEF RightInv, RightRest
    <3>2. QED
      BY <2>1, <3>1, Quiet, ShrinksInUse DEF Watched, Live, Carries, OneRight, OnePlace
  <2>5. QED
    BY <2>2, <2>3, <2>4 DEF RightRest
<1>3. CASE ClientSend(c)
  <2> DEFINE n == sock[c].asked + 1
             s == [sock[c] EXCEPT !.asked = n]
             m == s.in + 1
             t == [s EXCEPT !.in = m]
  <2>1. SockStep(c, t)
    BY <1>3 DEF ClientSend
  <2>2. s = [sock[c] EXCEPT !.asked = n] /\ SockFields(s) /\ s.peer = sock[c].peer
    <3> HIDE DEF n
    <3>1. QED
      BY <1>1 DEF SockFields
  <2> HIDE DEF s, m
  <2>3. t = [s EXCEPT !.in = m]
    OBVIOUS
  <2> HIDE DEF t
  <2>4. SockFields(t) /\ t.peer = s.peer
    BY <2>2, <2>3 DEF SockFields
  <2>5. QED
    BY <1>1, <1>2, <2>1, <2>2, <2>4
<1>4. CASE ClientRecv(c)
  <2> DEFINE n == sock[c].out - 1
             s == [sock[c] EXCEPT !.out = n]
             m == s.answered + 1
             t == [s EXCEPT !.answered = m]
  <2>1. SockStep(c, t)
    BY <1>4 DEF ClientRecv
  <2>2. s = [sock[c] EXCEPT !.out = n] /\ SockFields(s) /\ s.peer = sock[c].peer
    <3> HIDE DEF n
    <3>1. QED
      BY <1>1 DEF SockFields
  <2> HIDE DEF s, m
  <2>3. t = [s EXCEPT !.answered = m]
    OBVIOUS
  <2> HIDE DEF t
  <2>4. SockFields(t) /\ t.peer = s.peer
    BY <2>2, <2>3 DEF SockFields
  <2>5. QED
    BY <1>1, <1>2, <2>1, <2>2, <2>4
<1>5. CASE ClientClose(c)
  <2> DEFINE t == [sock[c] EXCEPT !.peer = "eof"]
  <2>1. SockStep(c, t)
    BY <1>5 DEF ClientClose
  <2>2. SockFields(t) /\ t.peer = "eof"
    BY <1>1 DEF SockFields
  <2> HIDE DEF t
  <2>3. QED
    BY <1>2, <2>1, <2>2
<1>6. QED
  BY <1>3, <1>4, <1>5 DEF Client, ClientReset

(* The entries epoll_wait hands over: finitely many, each once, and an     *)
(* entry to read only of a connection that is watched.                     *)
LEMMA EntriesFinite ==
  IsFiniteSet([c : Conns \cup {NoConn}, ev : {READ, WRITE}])
<1> DEFINE C == Conns \cup {NoConn}
           E == {READ, WRITE}
           T == [c : C, ev : E]
           f == [p \in C \X E |-> [c |-> p[1], ev |-> p[2]]]
<1>1. IsFiniteSet(C)
  BY ConnAssumption, FS_AddElement
<1>2. IsFiniteSet(E)
  <2>1. IsFiniteSet({READ})
    BY FS_Singleton
  <2>2. E = {READ} \cup {WRITE}
    OBVIOUS
  <2>3. QED
    BY <2>1, <2>2, FS_AddElement
<1>3. IsFiniteSet(C \X E)
  BY <1>1, <1>2, FS_Product
<1>4. f \in Surjection(C \X E, T)
  <2>1. f \in [C \X E -> T]
    OBVIOUS
  <2>2. ASSUME NEW x \in T PROVE \E p \in C \X E : f[p] = x
    <3>1. <<x.c, x.ev>> \in C \X E /\ f[<<x.c, x.ev>>] = x
      OBVIOUS
    <3>2. QED
      BY <3>1
  <2> HIDE DEF f, C, E, T
  <2>3. QED
    BY <2>1, <2>2 DEF Surjection
<1>5. QED
  BY <1>3, <1>4, FS_Surjection

LEMMA WaitRights ==
  ASSUME RightInv, ready \subseteq Conns, EpollWait
  PROVE  RightRest'
<1> DEFINE R == UNION {Entries(c) : c \in ready}
           P == IF eops # <<>> THEN {PipeEntry} ELSE {}
           S == R \cup P
           T == [c : Conns \cup {NoConn}, ev : {READ, WRITE}]
<1>1. /\ batch' \in SetToSeqs(S) /\ conn' = conn /\ sock' = sock /\ eops' = eops /\ th' = th
      /\ NoDispatch
  <2>1. conn' = conn /\ sock' = sock /\ eops' = eops /\ th' = th /\ NoDispatch
    BY DEF EpollWait, NoDispatch
  <2>2. batch' \in SetToSeqs(S)
    <3>1. QED
      BY Zenon DEF EpollWait
  <2>3. QED
    BY <2>1, <2>2
<1>2. ASSUME NEW c \in Conns
      PROVE  Reported(sock[c], conn[c].events) \subseteq conn[c].events \cap {READ, WRITE}
  BY <1>2 DEF RightInv, RightRest, NoReset, Reported
<1>3. ASSUME NEW x \in S
      PROVE  /\ x \in T
             /\ \A d \in Conns : x = ReadEntry(d) => Watched(d)
  <2>1. CASE x \in R
    <3>1. PICK c \in ready : x \in Entries(c)
      BY <2>1
    <3>2. PICK ev \in Reported(sock[c], conn[c].events) : x = [c |-> c, ev |-> ev]
      BY <3>1 DEF Entries
    <3>3. c \in Conns /\ ev \in conn[c].events /\ ev \in {READ, WRITE}
      BY <1>2, <3>2
    <3>4. \A d \in Conns : x = ReadEntry(d) => c = d /\ ev = READ
      BY <3>2 DEF ReadEntry
    <3>5. QED
      BY <3>2, <3>3, <3>4 DEF Watched
  <2>2. CASE x \in P
    BY <2>2, ConnAssumption DEF PipeEntry, ReadEntry
  <2>3. QED
    BY <2>1, <2>2
<1>4. IsFiniteSet(S)
  <2> HIDE DEF S, T
  <2>1. S \subseteq T
    BY <1>3
  <2>2. QED
    BY <2>1, EntriesFinite, FS_Subset DEF T
<1> DEFINE n == Cardinality(S)
<1>5. n \in Nat
  BY <1>4, FS_CardinalityType
<1> HIDE DEF R, P, S
<1>6. /\ batch' \in [1 .. n -> S]
      /\ \A i, j \in 1 .. n : i # j => batch'[i] # batch'[j]
  BY <1>1 DEF SetToSeqs
<1> HIDE DEF n
<1>7. DOMAIN batch' = 1 .. n /\ \A i \in 1 .. n : batch'[i] \in S /\ batch'[i] \in T
  BY <1>3, <1>6
<1>8. BatchOK'
  <2>1. batch' \in [1 .. n -> T]
    BY <1>3, <1>6
  <2> HIDE DEF T
  <2>2. batch' \in Seq(T)
    BY <1>5, <2>1
  <2>3. QED
    BY <2>2 DEF BatchOK, T
<1>9. QueuesOK' /\ EopsOK' /\ NoReset'
  BY <1>1, QueuesSame, SameSocks DEF RightInv, RightRest, EopsOK
<1>10. ASSUME NEW d \in Conns PROVE OneRight(d)'
  <2>1. Once(batch', ReadEntry(d))
    BY <1>6, <1>7 DEF Once
  <2>2. Has(batch', ReadEntry(d)) => Watched(d)
    BY <1>3, <1>7 DEF Has
  <2>3. OneRight(d)
    BY DEF RightInv, RightRest
  <2>4. /\ Watched(d)' = Watched(d) /\ Asked(d)' = Asked(d) /\ Queued(d)' = Queued(d)
        /\ Carried(d)' = Carried(d) /\ Live(d)' = Live(d)
    BY <1>1 DEF Watched, Asked, Queued, Carried, Carries, Live, NoDispatch
  <2>5. OnceAnywhere(d)'
    BY <1>1, <2>1, <2>3 DEF OneRight, OnceAnywhere, Carries, NoDispatch
  <2>6. OnePlace(d)'
    BY <2>2, <2>3, <2>4 DEF OneRight, OnePlace
  <2>7. InUse(d)'
    BY <1>1, <2>3, <2>4 DEF OneRight, InUse
  <2>8. QED
    BY <2>5, <2>6, <2>7 DEF OneRight
<1>11. QED
  BY <1>8, <1>9, <1>10 DEF RightRest

LEMMA OpsTyped ==
  ASSUME EopsOK, NEW i \in DOMAIN eops
  PROVE  eops[i] \in [c : Conns, mask : {READ, WRITE}]
<1> DEFINE T == [c : Conns, mask : {READ, WRITE}]
<1> HIDE DEF T
<1>1. eops \in Seq(T)
  BY DEF EopsOK, T
<1>2. eops[i] \in T
  BY <1>1
<1>3. QED
  BY <1>2 DEF T

(* The loop performs the operations of the pipe: what was asked for is now *)
(* watched.                                                                *)
LEMMA OpsRights ==
  ASSUME RightInv, HandleOps
  PROVE  RightRest'
<1> DEFINE masks(c) == {eops[i].mask : i \in {j \in DOMAIN eops : eops[j].c = c}}
           m(c) == conn[c].events \cup masks(c)
           r(c) == [conn[c] EXCEPT !.events = m(c)]
<1>1. /\ conn' = [c \in Conns |-> r(c)] /\ th' = th /\ sock' = sock /\ eops' = <<>>
      /\ NoDispatch /\ batch # <<>> /\ Head(batch) = PipeEntry /\ batch' = Tail(batch)
  BY DEF HandleOps, NoDispatch
<1>2. QueuesOK /\ EopsOK /\ BatchOK /\ \A d \in Conns : OneRight(d)
  BY DEF RightInv, RightRest
<1>3. ASSUME NEW c \in Conns PROVE READ \in m(c) <=> Watched(c) \/ Asked(c)
  <2>1. \A i \in DOMAIN eops : eops[i] \in [c : Conns, mask : {READ, WRITE}]
    BY <1>2, OpsTyped
  <2>2. \A i \in DOMAIN eops : eops[i].c = c /\ eops[i].mask = READ <=> eops[i] = ReadOp(c)
    BY <2>1 DEF ReadOp
  <2>3. QED
    BY <2>2 DEF Watched, Asked, Has
<1>4. \A c \in Conns : r(c) = [conn[c] EXCEPT !.events = m(c)]
  OBVIOUS
<1> HIDE DEF m, r
<1>5. ASSUME NEW c \in Conns
      PROVE  conn'[c].mem = conn[c].mem /\ conn'[c].events = m(c) /\ SameActive(conn'[c], conn[c])
  <2>1. ConnFields(conn[c]) /\ conn'[c] = r(c) /\ r(c) = [conn[c] EXCEPT !.events = m(c)]
    BY <1>1, <1>4 DEF RightInv, ListInv, ConnOK
  <2>2. QED
    BY <2>1, SetEvents
<1>6. QueuesOK' /\ NoReset'
  BY <1>1, <1>2, QueuesSame, SameSocks
<1>7. EopsOK' /\ BatchOK'
  <2> DEFINE T == [c : Conns \cup {NoConn}, ev : {READ, WRITE}]
  <2> HIDE DEF T
  <2>1. batch \in Seq(T)
    BY <1>2 DEF BatchOK, T
  <2>2. Tail(batch) \in Seq(T)
    BY <1>1, <2>1
  <2>3. QED
    BY <1>1, <2>2 DEF EopsOK, BatchOK, T
<1>8. ASSUME NEW d \in Conns PROVE OneRight(d)'
  <2>1. OneRight(d) /\ JobsShrink(d)
    BY <1>1, <1>2, Quiet
  <2>2. BatchShrinks(d)
    <3> DEFINE T == [c : Conns \cup {NoConn}, ev : {READ, WRITE}]
               x == ReadEntry(d)
    <3> HIDE DEF T, x
    <3>1. batch \in Seq(T)
      BY <1>2 DEF BatchOK, T
    <3>2. (Has(Tail(batch), x) => Has(batch, x)) /\ (Once(batch, x) => Once(Tail(batch), x))
      BY <1>1, <3>1, TailHas
    <3>3. QED
      BY <1>1, <3>2 DEF BatchShrinks, x
  <2>3. /\ Watched(d)' <=> Watched(d) \/ Asked(d)
        /\ ~ Asked(d)' /\ Once(eops', ReadOp(d))
    <3>1. Watched(d)' <=> READ \in m(d)
      BY <1>5 DEF Watched
    <3>2. ~ Asked(d)' /\ Once(eops', ReadOp(d))
      BY <1>1 DEF Asked, Has, Once
    <3>3. QED
      BY <1>3, <3>1, <3>2
  <2>4. Queued(d)' = Queued(d) /\ Carried(d)' = Carried(d)
    BY <1>1 DEF Queued, Carried, Carries, NoDispatch
  <2>5. OnceAnywhere(d)'
    BY <1>1, <2>1, <2>2, <2>3 DEF OneRight, OnceAnywhere, JobsShrink, BatchShrinks, Carries
  <2>6. OnePlace(d)'
    BY <2>1, <2>2, <2>3, <2>4 DEF OneRight, OnePlace, BatchShrinks
  <2>7. Live(d)' = Live(d) /\ (conn[d].active => conn'[d].active)
    BY <1>5 DEF Live, SameActive
  <2>8. InUse(d)'
    BY <2>1, <2>3, <2>4, <2>7 DEF OneRight, InUse
  <2>9. QED
    BY <2>5, <2>6, <2>8 DEF OneRight
<1>9. QED
  BY <1>6, <1>7, <1>8 DEF RightRest

(* A connection that is accepted was in no place before.                   *)
LEMMA AcceptRights ==
  ASSUME RightInv, NEW c \in Conns, Accept(c)
  PROVE  RightRest'
<1>1. /\ th' = th /\ sock' = sock /\ eops' = eops /\ batch' = batch /\ batch = <<>> /\ NoDispatch
      /\ conn[c].mem = "none" /\ conn' = [conn EXCEPT ![c] = Opened] /\ ListInv
  BY DEF Accept, NoDispatch, RightInv
<1>2. QueuesOK /\ EopsOK /\ BatchOK /\ \A d \in Conns : OneRight(d)
  BY DEF RightInv, RightRest
<1>3. conn'[c] = Opened /\ OnlyAt(c)
  BY <1>1, At1
<1>4. Opened.mem = "live" /\ Opened.active /\ READ \in Opened.events
  BY DEF Opened, NewConn
<1>5. QueuesOK' /\ EopsOK' /\ BatchOK' /\ NoReset'
  BY <1>1, <1>2, QueuesSame, SameSocks DEF EopsOK, BatchOK
<1>6. ASSUME NEW d \in Conns PROVE OneRight(d)'
  <2>1. OneRight(d) /\ ~ Has(batch', ReadEntry(d))
    BY <1>1, <1>2 DEF Has
  <2>2. Asked(d)' = Asked(d) /\ Queued(d)' = Queued(d) /\ Carried(d)' = Carried(d)
    BY <1>1 DEF Asked, Queued, Carried, Carries, NoDispatch
  <2>3. OnceAnywhere(d)'
    BY <1>1, <2>1 DEF OneRight, OnceAnywhere, Carries, NoDispatch
  <2>4. CASE d = c
    <3>1. ~ Watched(d) /\ ~ Asked(d) /\ ~ Queued(d) /\ ~ Carried(d)
      BY <1>1, <2>1, <2>4 DEF OneRight, InUse, Live
    <3>2. OnePlace(d)'
      BY <2>1, <2>2, <3>1 DEF OnePlace
    <3>3. InUse(d)'
      BY <1>3, <1>4, <2>4 DEF InUse, Live
    <3>4. QED
      BY <2>3, <3>2, <3>3 DEF OneRight
  <2>5. CASE d # c
    <3>1. conn'[d] = conn[d]
      BY <1>3, <2>5 DEF OnlyAt
    <3>2. Watched(d)' = Watched(d) /\ Live(d)' = Live(d)
      BY <3>1 DEF Watched, Live
    <3>3. OnePlace(d)'
      BY <2>1, <2>2, <3>2 DEF OneRight, OnePlace
    <3>4. InUse(d)'
      BY <2>1, <2>2, <3>1, <3>2 DEF OneRight, InUse
    <3>5. QED
      BY <2>3, <3>3, <3>4 DEF OneRight
  <2>6. QED
    BY <2>4, <2>5
<1>7. QED
  BY <1>5, <1>6 DEF RightRest

(* What taking the head of the batch does to it.                           *)
LEMMA NextEntryRights ==
  ASSUME RightInv, NEW c, NEW ev, NextEntry(c, ev)
  PROVE  /\ BatchOK' /\ \A d \in Conns : BatchShrinks(d)
         /\ ev = READ /\ c \in Conns =>
                Has(batch, ReadEntry(c)) /\ ~ Has(batch', ReadEntry(c))
<1> DEFINE T == [c : Conns \cup {NoConn}, ev : {READ, WRITE}]
<1>1. batch \in Seq(T)
  BY DEF RightInv, RightRest, BatchOK
<1>2. batch # <<>> /\ Head(batch) = [c |-> c, ev |-> ev] /\ batch' = Tail(batch)
  BY DEF NextEntry
<1> HIDE DEF T
<1>3. Tail(batch) \in Seq(T) /\ Head(batch) = batch[1] /\ 1 \in DOMAIN batch
  BY <1>1, <1>2
<1>4. BatchOK'
  BY <1>2, <1>3 DEF BatchOK, T
<1>5. ASSUME NEW x
      PROVE  /\ Has(batch', x) => Has(batch, x)
             /\ Once(batch, x) => Once(batch', x)
             /\ Once(batch, x) /\ Head(batch) = x => ~ Has(batch', x)
  BY <1>1, <1>2, TailHas
<1>6. \A d \in Conns : BatchShrinks(d)
  BY <1>5 DEF BatchShrinks
<1>7. ASSUME ev = READ, c \in Conns
      PROVE  Has(batch, ReadEntry(c)) /\ ~ Has(batch', ReadEntry(c))
  <2>1. Head(batch) = ReadEntry(c)
    BY <1>2, <1>7 DEF ReadEntry
  <2>2. Once(batch, ReadEntry(c))
    BY <1>7 DEF RightInv, RightRest, OneRight, OnceAnywhere
  <2>3. QED
    BY <1>3, <1>5, <2>1, <2>2 DEF Has
<1>8. QED
  BY <1>4, <1>6, <1>7

LEMMA SkipRights ==
  ASSUME RightInv, NEW c \in Conns, SkipEntry(c)
  PROVE  RightRest'
<1>1. /\ th' = th /\ sock' = sock /\ conn' = conn /\ eops' = eops /\ NoDispatch
      /\ \E ev \in {READ, WRITE} : NextEntry(c, ev)
  BY DEF SkipEntry, NoDispatch
<1>2. QueuesOK /\ EopsOK /\ \A d \in Conns : OneRight(d)
  BY DEF RightInv, RightRest
<1>3. BatchOK' /\ \A d \in Conns : BatchShrinks(d)
  BY <1>1, NextEntryRights
<1>4. QueuesOK' /\ EopsOK' /\ NoReset'
  BY <1>1, <1>2, QueuesSame, SameSocks DEF EopsOK
<1>5. ASSUME NEW d \in Conns PROVE OneRight(d)'
  <2>1. /\ \A v \in Workers : Carries(v, d)' => Carries(v, d)
        /\ Watched(d)' <=> Watched(d)
        /\ Live(d) /\ conn[d].active => Live(d)' /\ conn'[d].active
    BY <1>1 DEF Carries, Watched, Live
  <2>2. OneRight(d) /\ (Has(batch', ReadEntry(d)) => Watched(d)')
    BY <1>2, <1>3, <2>1 DEF OneRight, OnePlace, BatchShrinks
  <2>3. QED
    BY <1>1, <1>3, <2>1, <2>2, Quiet, ShrinksInUse
<1>6. QED
  BY <1>3, <1>4, <1>5 DEF RightRest

LEMMA HandleWriteRights ==
  ASSUME RightInv, NEW c \in Conns, HandleWrite(c)
  PROVE  RightRest'
<1>1. /\ th' = th /\ sock' = sock /\ eops' = eops /\ NextEntry(c, WRITE)
      /\ Dispatch([kind |-> "write", c |-> c])
  BY DEF HandleWrite
<1>2. QueuesOK /\ EopsOK /\ \A d \in Conns : OneRight(d)
  BY DEF RightInv, RightRest
<1>3. BatchOK' /\ \A d \in Conns : BatchShrinks(d)
  BY <1>1, NextEntryRights
<1> DEFINE task == [kind |-> "write", c |-> c]
<1>4. task \in Tasks /\ \A d : task # ReadJob(d)
  BY DEF Tasks, ReadJob
<1> HIDE DEF task
<1>5. Dispatch(task)
  BY <1>1 DEF task
<1>6. QueuesOK' /\ \A d \in Conns : JobsShrink(d)
  BY <1>2, <1>4, <1>5, DispatchKeeps, OtherTask
<1>7. EopsOK' /\ NoReset'
  BY <1>1, <1>2, SameSocks DEF EopsOK
<1> DEFINE m == conn[c].events \ {WRITE}
           s == [conn[c] EXCEPT !.events = m]
           r == [s EXCEPT !.onWrite = TRUE]
<1>8. ListInv /\ conn = [d \in Conns |-> conn[d]] /\ ConnFields(conn[c])
  BY DEF RightInv, ListInv, ConnOK
<1>9. conn' = [conn EXCEPT ![c] = r]
  BY <1>8 DEF HandleWrite
<1>10. s = [conn[c] EXCEPT !.events = m]
  OBVIOUS
<1>11. r = [s EXCEPT !.onWrite = TRUE]
  OBVIOUS
<1>12. READ \in m <=> Watched(c)
  BY DEF Watched, READ, WRITE
<1> HIDE DEF m, s, r
<1>13. ConnFields(s) /\ s.mem = conn[c].mem /\ s.events = m /\ SameActive(s, conn[c])
  BY <1>8, <1>10, SetEvents
<1>14. SameRest(r, s) /\ SameActive(r, s)
  BY <1>11, <1>13, SetOnWrite
<1>15. conn'[c] = r /\ OnlyAt(c)
  BY <1>8, <1>9, At1
<1>16. ASSUME NEW d \in Conns
       PROVE  /\ Watched(d)' <=> Watched(d)
              /\ Live(d) /\ conn[d].active => Live(d)' /\ conn'[d].active
  BY <1>12, <1>13, <1>14, <1>15 DEF Watched, Live, OnlyAt, SameRest, SameActive
<1>17. ASSUME NEW d \in Conns PROVE OneRight(d)'
  <2>1. OneRight(d) /\ (Has(batch', ReadEntry(d)) => Watched(d)')
    BY <1>2, <1>3, <1>16 DEF OneRight, OnePlace, BatchShrinks
  <2>2. \A v \in Workers : Carries(v, d)' => Carries(v, d)
    BY <1>1 DEF Carries
  <2>3. QED
    BY <1>1, <1>3, <1>6, <1>16, <2>1, <2>2, Quiet, ShrinksInUse
<1>18. QED
  BY <1>3, <1>6, <1>7, <1>17 DEF RightRest

(* The loop reads a connection it watches: it stops watching, and the right *)
(* goes with the task.                                                     *)
LEMMA HandleReadRights ==
  ASSUME RightInv, NEW c \in Conns, HandleRead(c)
  PROVE  RightRest'
<1>1. /\ th' = th /\ sock' = sock /\ eops' = eops /\ NextEntry(c, READ)
      /\ Dispatch([kind |-> "read", c |-> c])
  BY DEF HandleRead
<1>2. QueuesOK /\ EopsOK /\ \A d \in Conns : OneRight(d)
  BY DEF RightInv, RightRest
<1>3. /\ BatchOK' /\ \A d \in Conns : BatchShrinks(d)
      /\ Has(batch, ReadEntry(c)) /\ ~ Has(batch', ReadEntry(c))
  BY <1>1, NextEntryRights
<1> DEFINE task == [kind |-> "read", c |-> c]
<1>4. task \in Tasks /\ task = ReadJob(c) /\ \A d : d # c => task # ReadJob(d)
  BY DEF Tasks, ReadJob
<1> HIDE DEF task
<1>5. Dispatch(task)
  BY <1>1 DEF task
<1>6. QueuesOK' /\ \A d \in Conns \ {c} : JobsShrink(d)
  BY <1>2, <1>4, <1>5, DispatchKeeps, OtherTask
<1>7. EopsOK' /\ NoReset'
  BY <1>1, <1>2, SameSocks DEF EopsOK
<1> DEFINE m == conn[c].events \ {READ}
           s == [conn[c] EXCEPT !.events = m]
           r == [s EXCEPT !.onRead = TRUE]
<1>8. ListInv /\ conn = [d \in Conns |-> conn[d]] /\ ConnFields(conn[c])
  BY DEF RightInv, ListInv, ConnOK
<1>9. conn' = [conn EXCEPT ![c] = r]
  BY <1>8 DEF HandleRead
<1>10. s = [conn[c] EXCEPT !.events = m]
  OBVIOUS
<1>11. r = [s EXCEPT !.onRead = TRUE]
  OBVIOUS
<1>12. READ \notin m
  OBVIOUS
<1> HIDE DEF m, s, r
<1>13. ConnFields(s) /\ s.mem = conn[c].mem /\ s.events = m /\ SameActive(s, conn[c])
  BY <1>8, <1>10, SetEvents
<1>14. SameRest(r, s) /\ SameActive(r, s)
  BY <1>11, <1>13, SetOnRead
<1>15. conn'[c] = r /\ OnlyAt(c)
  BY <1>8, <1>9, At1
<1>16. ~ Watched(c)' /\ (Live(c) /\ conn[c].active => Live(c)' /\ conn'[c].active)
  BY <1>12, <1>13, <1>14, <1>15 DEF Watched, Live, SameRest, SameActive
<1>17. ASSUME NEW d \in Conns \ {c} PROVE OneRight(d)'
  <2>1. conn'[d] = conn[d]
    BY <1>15 DEF OnlyAt
  <2>2. OneRight(d) /\ (Has(batch', ReadEntry(d)) => Watched(d)')
    BY <1>2, <1>3, <2>1 DEF OneRight, OnePlace, BatchShrinks, Watched
  <2>3. \A v \in Workers : Carries(v, d)' => Carries(v, d)
    BY <1>1 DEF Carries
  <2>4. QED
    BY <1>1, <1>3, <1>6, <2>1, <2>2, <2>3, Quiet, ShrinksInUse DEF Watched, Live
<1>18. OneRight(c)'
  <2>1. /\ Watched(c) /\ ~ Asked(c) /\ ~ Queued(c) /\ ~ Carried(c) /\ Live(c) /\ conn[c].active
        /\ OneRight(c)
    BY <1>2, <1>3 DEF OneRight, OnePlace, InUse
  <2> DEFINE u == (round + 1) % NWorkers
  <2>2. u \in Workers /\ wq' = [wq EXCEPT ![u] = Append(@, task)] /\ wq \in [Workers -> Seq(Tasks)]
    BY <1>2, <1>5, ConnAssumption DEF Dispatch, QueuesOK, Workers
  <2> HIDE DEF u
  <2>3. \A v \in Workers : wq'[v] = IF v = u THEN Append(wq[u], task) ELSE wq[v]
    BY <2>2
  <2>4. wq[u] \in Seq(Tasks)
    BY <2>2
  <2>5. \A v \in Workers : ~ Has(wq[v], ReadJob(c))
    BY <2>1 DEF Queued
  <2>6. Once(Append(wq[u], task), ReadJob(c))
    BY <1>4, <2>2, <2>4, <2>5, AppendHas
  <2>7. /\ \A v \in Workers : Once(wq'[v], ReadJob(c))
        /\ \A v \in Workers : Has(wq'[v], ReadJob(c)) => v = u
    <3>1. \A v \in Workers : Once(wq[v], ReadJob(c))
      BY <2>1 DEF OneRight, OnceAnywhere
    <3>2. QED
      BY <2>3, <2>5, <2>6, <3>1
  <2>8. ~ Asked(c)' /\ ~ Carried(c)'
    BY <1>1, <2>1 DEF Asked, Carried, Carries
  <2>9. OnceAnywhere(c)'
    BY <1>1, <1>3, <2>1, <2>7 DEF OneRight, OnceAnywhere, Carries, BatchShrinks
  <2>10. OnePlace(c)'
    BY <1>3, <1>16, <2>8 DEF OnePlace
  <2>11. InUse(c)'
    BY <1>16, <2>1 DEF InUse
  <2>12. QED
    BY <2>9, <2>10, <2>11 DEF OneRight
<1>19. QED
  BY <1>3, <1>6, <1>7, <1>17, <1>18 DEF RightRest

LEMMA LoopRights ==
  ASSUME RightInv, ready \subseteq Conns, Loop
  PROVE  RightRest'
  BY WaitRights, OpsRights, AcceptRights, SkipRights, HandleReadRights, HandleWriteRights DEF Loop

-----------------------------------------------------------------------------
(* epoll's ready list holds connections.                                   *)
LEMMA ReadyStays == ready \subseteq Conns /\ EopsOK /\ [Next]_vars => (ready \subseteq Conns)'
<1> SUFFICES ASSUME ready \subseteq Conns, EopsOK, [Next]_vars PROVE ready' \subseteq Conns
  OBVIOUS
<1>1. \A c, s, mask : Rearm(c, s, mask) \subseteq {c}
  BY DEF Rearm
<1>2. ASSUME NEW c \in Conns, Client(c) PROVE ready' \subseteq Conns
  <2>1. \E s : SockStep(c, s)
    BY <1>2 DEF Client, ClientSend, ClientRecv, ClientClose, ClientReset
  <2>2. QED
    BY <1>1, <2>1 DEF SockStep
<1>3. CASE HandleOps
  <2> DEFINE touched == {eops[i].c : i \in DOMAIN eops}
             added == UNION {Rearm(c, sock[c], conn'[c].events) : c \in touched}
  <2>1. ready' = ready \cup added
    BY <1>3 DEF HandleOps
  <2>2. touched \subseteq Conns
    BY OpsTyped
  <2>3. added \subseteq touched
    BY <1>1
  <2> HIDE DEF touched, added
  <2>4. QED
    BY <2>1, <2>2, <2>3
<1>4. CASE Loop
  <2>1. ASSUME NEW c \in Conns, Accept(c) \/ SkipEntry(c) \/ HandleRead(c) \/ HandleWrite(c)
        PROVE  ready' \subseteq Conns
    BY <1>1, <2>1 DEF Accept, SkipEntry, HandleRead, HandleWrite
  <2>2. CASE EpollWait
    BY <2>2 DEF EpollWait
  <2>3. QED
    BY <1>3, <1>4, <2>1, <2>2 DEF Loop
<1>5. ASSUME NEW w \in Workers, Worker(w) PROVE ready' \subseteq Conns
  <2>1. CASE FreeFunc(w)
    BY <2>1 DEF FreeFunc
  <2>2. CASE WorkerTake(w) \/ InactiveNotify(w)
    BY <2>2 DEF WorkerTake, InactiveNotify
  <2>3. ASSUME NEW c \in Conns, ReadTask(w, c) PROVE ready' = ready
    BY <2>3 DEF ReadTask, ReadActive, ReadRaw, SessProcess, WriteNotify, ReadRestore, ReadAdd,
                ReadCheck, FreeCheck, Branch
  <2>4. ASSUME NEW c \in Conns, WriteTask(w, c) PROVE ready' = ready
    BY <2>4 DEF WriteTask, WriteActive, WriteReqs, WriteRaw, WriteRmn, InterWrite, YieldWrite,
                WriteCheck, FreeCheck, Branch
  <2>5. ASSUME NEW c \in Conns, Inactive(w, c) PROVE ready' = ready
    BY <2>5 DEF Inactive, InactiveCheck, InactiveLock, InactiveUnlock, Branch
  <2>6. QED
    BY <1>5, <2>1, <2>2, <2>3, <2>4, <2>5 DEF Worker
<1>6. CASE Stopped \/ UNCHANGED vars
  BY <1>6 DEF Stopped, vars
<1>7. QED
  BY <1>2, <1>4, <1>5, <1>6 DEF Next

LEMMA InitRights == Init => RightInv /\ ready \subseteq Conns
<1> SUFFICES ASSUME Init PROVE RightInv /\ ready \subseteq Conns
  OBVIOUS
<1>1. ListInv /\ QueuesOK /\ ready = {}
  BY InitWaits DEF WaitInv, Init
<1>2. EopsOK /\ BatchOK
  BY DEF Init, EopsOK, BatchOK
<1>3. NoReset
  BY DEF Init, NoReset, SockFields
<1>4. ASSUME NEW c \in Conns PROVE OneRight(c)
  <2>1. ~ Watched(c) /\ ~ Asked(c) /\ ~ Queued(c) /\ ~ Carried(c) /\ ~ Has(batch, ReadEntry(c))
    BY DEF Init, NewConn, Watched, Asked, Queued, Carried, Carries, Has, IdleThread, Reading
  <2>2. OnceAnywhere(c)
    BY <2>1 DEF Init, OnceAnywhere, Once, Queued, Carried
  <2>3. QED
    BY <2>1, <2>2 DEF OneRight, OnePlace, InUse
<1>5. QED
  BY <1>1, <1>2, <1>3, <1>4 DEF RightInv, RightRest

LEMMA NextRights ==
  ASSUME AllowReset = FALSE
  PROVE  RightInv /\ ready \subseteq Conns /\ [Next]_vars => (RightInv /\ ready \subseteq Conns)'
<1> SUFFICES ASSUME RightInv, ready \subseteq Conns, [Next]_vars PROVE RightRest'
  BY NextKeeps, ReadyStays DEF RightInv, RightRest
<1>1. CASE UNCHANGED vars
  <2>1. /\ th' = th /\ conn' = conn /\ sock' = sock /\ NoDispatch /\ eops' = eops
        /\ batch' = batch
    BY <1>1 DEF vars, NoDispatch
  <2>2. QED
    BY <2>1, CalmRights DEF Carries, Watched
<1>2. CASE Stopped
  BY <1>1, <1>2 DEF Stopped
<1>3. QED
  BY <1>1, <1>2, ClientRights, LoopRights, WorkerRights DEF Next

(* Without resets, at most one worker runs a session's code at a time,     *)
(* however the event loop, the event pipe, the queues and the other tasks  *)
(* of the connection are interleaved.  (A reset is reported whatever the   *)
(* mask, and then it does not hold.)                                       *)
THEOREM OneSessionThread ==
  ASSUME AllowReset = FALSE
  PROVE  Spec => []SingleSessionThread
<1>1. RightInv => SingleSessionThread
  <2> SUFFICES ASSUME RightInv, NEW c \in Conns, NEW v \in Workers, NEW w \in Workers,
                      InSession(v, c), InSession(w, c)
               PROVE  v = w
    BY DEF SingleSessionThread
  <2>1. Carries(v, c) /\ Carries(w, c)
    BY DEF InSession, Carries, Reading
  <2>2. QED
    BY <2>1 DEF RightInv, RightRest, OneRight, OnceAnywhere
<1>2. QED
  BY InitRights, NextRights, <1>1, PTL DEF Spec

-----------------------------------------------------------------------------
(* What a session's worker reads and writes is there: the connection is    *)
(* not freed, and every counter keeps its range.  That write_reqs does not *)
(* pass the number of replies rests on there being one session at a time.  *)
Buffers ==
    [mem : {"none", "live", "freed"}, active : BOOLEAN, events : SUBSET {READ, WRITE},
     onRead : BOOLEAN, onWrite : BOOLEAN, writeReqs : Nat, rbuf : Nat, wbuf : Nat]

Socket ==
    [asked : Nat, in : Nat, out : Nat, answered : Nat, peer : {"open", "eof", "reset"}]

PCs == DerefPCs \cup {"idle", "inact_notify", "f_run"}

Thread ==
    [pc : PCs, c : Conns \cup {NoConn}, flag : {"onRead", "onWrite"},
     wreqs : 0 .. MaxReqs, wrmn : 0 .. MaxReqs]

ConnsTyped == conn \in [Conns -> Buffers]
SocksTyped == sock \in [Conns -> Socket]
ThreadsTyped == th \in [Workers -> Thread]

Tells(w, c) == th[w].c = c /\ th[w].pc = "r_notify"

Replied(c) == conn[c].wbuf + sock[c].out + sock[c].answered

(* Every request of a client is in one place, and write_reqs counts        *)
(* replies: one less than there are while a session is about to count its  *)
(* own.                                                                    *)
Tally(c) ==
    /\ sock[c].in + conn[c].rbuf + Replied(c) = sock[c].asked
    /\ sock[c].asked <= MaxReqs
    /\ conn[c].writeReqs <= Replied(c)
    /\ (\E w \in Workers : Tells(w, c)) => conn[c].writeReqs < Replied(c)
    /\ conn[c].mem = "none" => conn[c].rbuf = 0 /\ conn[c].wbuf = 0 /\ conn[c].writeReqs = 0

SizeInv == ConnsTyped /\ SocksTyped /\ ThreadsTyped /\ \A c \in Conns : Tally(c)

LEMMA TypeFollows ==
  ASSUME RightInv, ready \subseteq Conns, SizeInv
  PROVE  TypeOK
<1>1. /\ batch \in Seq([c : Conns \cup {NoConn}, ev : {READ, WRITE}])
      /\ eops \in Seq([c : Conns, mask : {READ, WRITE}])
      /\ wq \in [Workers -> Seq(Tasks)] /\ round \in Workers /\ freeList \in [Conns -> Nat]
  BY DEF RightInv, RightRest, ListInv, BatchOK, EopsOK, QueuesOK
<1>2. MaxReqs \in Nat
  BY ConnAssumption
<1>3. ASSUME NEW c \in Conns
      PROVE  conn[c] \in ConnType /\ sock[c] \in SockType
  <2> DEFINE r == conn[c]
             t == sock[c]
  <2>1. r \in Buffers /\ t \in Socket /\ Tally(c)
    BY DEF SizeInv, ConnsTyped, SocksTyped
  <2>2. t.in + r.rbuf + (r.wbuf + t.out + t.answered) = t.asked /\ t.asked <= MaxReqs
        /\ r.writeReqs <= r.wbuf + t.out + t.answered
    BY <2>1 DEF Tally, Replied
  <2> HIDE DEF r, t
  <2>3. {t.in, r.rbuf, r.wbuf, t.out, t.answered, t.asked, r.writeReqs} \subseteq Nat
    BY <2>1 DEF Buffers, Socket
  <2>4. {t.in, r.rbuf, r.wbuf, t.out, t.answered, t.asked, r.writeReqs} \subseteq 0 .. MaxReqs
    BY <1>2, <2>2, <2>3
  <2>5. r \in ConnType
    BY <2>1, <2>4 DEF Buffers, ConnType
  <2>6. t \in SockType
    BY <2>1, <2>4 DEF Socket, SockType
  <2>7. QED
    BY <2>5, <2>6 DEF r, t
<1>4. conn \in [Conns -> ConnType] /\ sock \in [Conns -> SockType]
  BY <1>3 DEF SizeInv, ConnsTyped, SocksTyped
<1>5. th \in [Workers -> [pc : DerefPCs \cup {"idle", "inact_notify", "f_run"},
                           c : Conns \cup {NoConn}, flag : {"onRead", "onWrite"},
                           wreqs : 0 .. MaxReqs, wrmn : 0 .. MaxReqs]]
  BY DEF SizeInv, ThreadsTyped, Thread, PCs
<1>6. QED
  BY <1>1, <1>4, <1>5 DEF TypeOK

(* The types of what the actions build.                                    *)
LEMMA BuffersSet ==
  ASSUME NEW s \in Buffers, NEW n \in Nat, NEW b \in BOOLEAN, NEW e \in SUBSET {READ, WRITE},
         NEW r, \/ r = [s EXCEPT !.rbuf = n] \/ r = [s EXCEPT !.wbuf = n]
                \/ r = [s EXCEPT !.writeReqs = n] \/ r = [s EXCEPT !.onRead = b]
                \/ r = [s EXCEPT !.onWrite = b] \/ r = [s EXCEPT !.active = b]
                \/ r = [s EXCEPT !.events = e] \/ r = [s EXCEPT !.mem = "freed"]
  PROVE  r \in Buffers
  BY DEF Buffers

LEMMA SocketSet ==
  ASSUME NEW s \in Socket, NEW n \in Nat, NEW p \in {"open", "eof", "reset"},
         NEW r, \/ r = [s EXCEPT !.asked = n] \/ r = [s EXCEPT !.in = n]
                \/ r = [s EXCEPT !.out = n] \/ r = [s EXCEPT !.answered = n]
                \/ r = [s EXCEPT !.peer = p]
  PROVE  r \in Socket
  BY DEF Socket

LEMMA ThreadSet ==
  ASSUME NEW s \in Thread, NEW to \in PCs, NEW d \in Conns \cup {NoConn},
         NEW f \in {"onRead", "onWrite"}, NEW n \in 0 .. MaxReqs,
         NEW r, \/ r = [s EXCEPT !.pc = to] \/ r = [s EXCEPT !.c = d]
                \/ r = [s EXCEPT !.flag = f] \/ r = [s EXCEPT !.wreqs = n]
                \/ r = [s EXCEPT !.wrmn = n]
  PROVE  r \in Thread
  BY DEF Thread

LEMMA MovesTyped ==
  ASSUME ThreadsTyped, NEW w \in Workers
  PROVE  /\ \A to \in PCs : To(w, to) => ThreadsTyped'
         /\ \A f \in {"onRead", "onWrite"} : CallInactive(w, f) => ThreadsTyped'
         /\ Done(w) => ThreadsTyped'
<1>1. th[w] \in Thread
  BY DEF ThreadsTyped
<1> DEFINE u == th[w]
<1>2. ASSUME NEW to \in PCs, To(w, to) PROVE ThreadsTyped'
  <2> DEFINE t == [u EXCEPT !.pc = to]
  <2>1. th' = [th EXCEPT ![w] = t]
    BY <1>1, <1>2 DEF To
  <2>2. t = [u EXCEPT !.pc = to]
    OBVIOUS
  <2> HIDE DEF t
  <2>3. u \in Thread
    BY <1>1
  <2> HIDE DEF u
  <2>4. t \in Thread
    <3>1. NoConn \in Conns \cup {NoConn} /\ "onRead" \in {"onRead", "onWrite"} /\ 0 \in 0 .. MaxReqs
      BY ConnAssumption
    <3>2. QED
      BY <2>2, <2>3, <3>1, ThreadSet
  <2>5. QED
    BY <2>1, <2>4 DEF ThreadsTyped
<1>3. ASSUME NEW f \in {"onRead", "onWrite"}, CallInactive(w, f) PROVE ThreadsTyped'
  <2> DEFINE s == [u EXCEPT !.pc = "inact_check"]
             t == [s EXCEPT !.flag = f]
  <2>1. th' = [th EXCEPT ![w] = t]
    BY <1>1, <1>3 DEF CallInactive
  <2>2. s = [u EXCEPT !.pc = "inact_check"]
    OBVIOUS
  <2>3. t = [s EXCEPT !.flag = f]
    OBVIOUS
  <2> HIDE DEF s, t
  <2>4. u \in Thread /\ "inact_check" \in PCs
    BY <1>1 DEF PCs, DerefPCs, InactPCs
  <2> HIDE DEF u
  <2>5. NoConn \in Conns \cup {NoConn} /\ "onRead" \in {"onRead", "onWrite"} /\ 0 \in 0 .. MaxReqs
    BY ConnAssumption
  <2>6. s \in Thread
    BY <2>2, <2>4, <2>5, ThreadSet
  <2>7. t \in Thread
    BY <2>3, <2>4, <2>5, <2>6, ThreadSet
  <2>8. QED
    BY <2>1, <2>7 DEF ThreadsTyped
<1>4. ASSUME Done(w) PROVE ThreadsTyped'
  <2>1. IdleThread \in Thread
    BY ConnAssumption DEF IdleThread, Thread, PCs
  <2>2. QED
    BY <1>4, <2>1 DEF Done, ThreadsTyped
<1>5. QED
  BY <1>2, <1>3, <1>4

LEMMA ConnPut ==
  ASSUME ConnsTyped, NEW c \in Conns, NEW r \in Buffers, conn' = [conn EXCEPT ![c] = r]
  PROVE  ConnsTyped' /\ conn'[c] = r /\ OnlyAt(c)
  BY DEF ConnsTyped, OnlyAt

LEMMA SockPut ==
  ASSUME SocksTyped, NEW c \in Conns, NEW t \in Socket, sock' = [sock EXCEPT ![c] = t]
  PROVE  SocksTyped' /\ sock'[c] = t /\ \A d \in Conns \ {c} : sock'[d] = sock[d]
  BY DEF SocksTyped

(* A step that changes the counters of c only.                             *)
LEMMA SizeStep ==
  ASSUME SizeInv, NEW c \in Conns, OnlyAt(c), \A d \in Conns \ {c} : sock'[d] = sock[d],
         ConnsTyped', SocksTyped', ThreadsTyped', Tally(c)',
         \A v \in Workers, d \in Conns \ {c} : Tells(v, d)' => Tells(v, d)
  PROVE  SizeInv'
<1>1. ASSUME NEW d \in Conns \ {c} PROVE Tally(d)'
  <2>1. conn'[d] = conn[d] /\ sock'[d] = sock[d] /\ Tally(d)
    BY DEF SizeInv, OnlyAt
  <2>2. Replied(d)' = Replied(d)
    BY <2>1 DEF Replied
  <2>3. QED
    BY <2>1, <2>2 DEF Tally
<1>2. QED
  BY <1>1 DEF SizeInv

(* A step that changes no counter.                                         *)
LEMMA SizeSame ==
  ASSUME SizeInv, ConnsTyped', ThreadsTyped', sock' = sock,
         \A d \in Conns : SameData(conn'[d], conn[d]),
         \A d \in Conns : conn'[d].mem = "none" => conn[d].mem = "none",
         \A v \in Workers, d \in Conns : Tells(v, d)' => Tells(v, d)
  PROVE  SizeInv'
<1>1. ASSUME NEW d \in Conns PROVE Tally(d)'
  <2>1. Tally(d)
    BY DEF SizeInv
  <2>2. Replied(d)' = Replied(d)
    BY DEF Replied, SameData
  <2>3. QED
    BY <2>1, <2>2 DEF Tally, SameData
<1>2. QED
  BY <1>1 DEF SizeInv, SocksTyped

LEMMA QuietTells ==
  ASSUME NEW w \in Workers, OthersSame(w), th'[w].pc # "r_notify"
  PROVE  \A v \in Workers, d \in Conns : Tells(v, d)' => Tells(v, d)
  BY DEF Tells, OthersSame

(* A worker's step that changes no counter and puts one updated record r   *)
(* where c was.                                                            *)
LEMMA SizePut ==
  ASSUME SizeInv, NEW w \in Workers, NEW c \in Conns, NEW r \in Buffers,
         conn' = [conn EXCEPT ![c] = r], sock' = sock, SameData(r, conn[c]),
         r.mem = conn[c].mem, ThreadsTyped', OthersSame(w), th'[w].pc # "r_notify"
  PROVE  SizeInv'
<1>1. ConnsTyped' /\ conn'[c] = r /\ OnlyAt(c)
  BY ConnPut DEF SizeInv
<1>2. \A d \in Conns : /\ SameData(conn'[d], conn[d])
                       /\ conn'[d].mem = "none" => conn[d].mem = "none"
  BY <1>1 DEF OnlyAt, SameData
<1>3. QED
  BY <1>1, <1>2, QuietTells, SizeSame

(* Steps that leave the connections and the sockets alone.                 *)
LEMMA SizeLooks ==
  ASSUME SizeInv, conn' = conn, sock' = sock, ThreadsTyped',
         \A v \in Workers, d \in Conns : Tells(v, d)' => Tells(v, d)
  PROVE  SizeInv'
<1>1. ConnsTyped'
  BY DEF SizeInv, ConnsTyped
<1>2. QED
  BY <1>1, SizeSame DEF SameData

LEMMA BranchSize ==
  ASSUME ListInv, SizeInv, NEW w \in Workers, NEW to \in PCs \ {"r_notify"}, Branch(w, to)
  PROVE  SizeInv'
<1>1. To(w, to) /\ conn' = conn /\ sock' = sock
  BY DEF Branch
<1>2. OthersSame(w) /\ th'[w].pc = to
  BY <1>1, MovesOn
<1>3. ThreadsTyped'
  BY <1>1, MovesTyped DEF SizeInv
<1>4. QED
  BY <1>1, <1>2, <1>3, QuietTells, SizeLooks

LEMMA BranchesSize ==
  ASSUME ListInv, SizeInv, NEW w \in Workers, NEW c \in Conns,
         \/ ReadActive(w, c) \/ ReadRestore(w, c) \/ WriteActive(w, c)
         \/ InactiveCheck(w, c) \/ InactiveUnlock(w, c)
  PROVE  SizeInv'
<1>1. {"r_raw", "r_restore", "r_add", "r_check", "w_reqs", "w_check", "inact_lock",
       "inact_notify"} \subseteq PCs \ {"r_notify"}
  BY DEF PCs, DerefPCs, ReadPCs, WritePCs, InactPCs
<1>2. \E to \in PCs \ {"r_notify"} : Branch(w, to)
  BY <1>1 DEF ReadActive, ReadRestore, WriteActive, InactiveCheck, InactiveUnlock
<1>3. QED
  BY <1>2, BranchSize

LEMMA PCsHave ==
  {"r_sess", "r_notify", "r_restore", "r_check", "w_rmn", "w_raw", "w_inter", "w_yield",
   "w_check", "w_active", "inact_unlock", "inact_notify", "idle"} \subseteq PCs
  BY DEF PCs, DerefPCs, ReadPCs, WritePCs, InactPCs

LEMMA CheckSize ==
  ASSUME ListInv, SizeInv, NEW w \in Workers, NEW c \in Conns, ReadCheck(w, c) \/ WriteCheck(w, c)
  PROVE  SizeInv'
<1>1. PICK flag \in {"onRead", "onWrite"} : FreeCheck(w, c, flag)
  BY DEF ReadCheck, WriteCheck
<1>2. conn' = [conn EXCEPT ![c][flag] = FALSE] /\ Done(w) /\ sock' = sock
  BY <1>1 DEF FreeCheck
<1> DEFINE u == conn[c]
           r == [u EXCEPT ![flag] = FALSE]
<1>3. conn' = [conn EXCEPT ![c] = r] /\ u \in Buffers
  BY <1>2 DEF SizeInv, ConnsTyped
<1> HIDE DEF u
<1>4. r = [u EXCEPT !.onRead = FALSE] \/ r = [u EXCEPT !.onWrite = FALSE]
  BY <1>1
<1> HIDE DEF r
<1>5. r \in Buffers
  BY <1>3, <1>4, BuffersSet
<1>6. SameData(r, u) /\ r.mem = u.mem
  BY <1>3, <1>4 DEF Buffers, SameData
<1>7. ThreadsTyped' /\ OthersSame(w) /\ th'[w].pc # "r_notify"
  BY <1>2, MovesTyped, MovesOn DEF SizeInv, IdleThread
<1>8. QED
  BY <1>2, <1>3, <1>5, <1>6, <1>7, SizePut DEF u

LEMMA EndSize ==
  ASSUME ListInv, SizeInv, NEW w \in Workers, NEW c \in Conns, InterWrite(w, c) \/ YieldWrite(w, c)
  PROVE  SizeInv'
<1>1. /\ sock' = sock /\ \E to \in {"w_check", "w_active"} : To(w, to)
      /\ conn' = conn \/ conn' = [conn EXCEPT ![c].onWrite = FALSE]
  BY DEF InterWrite, YieldWrite
<1>2. ThreadsTyped' /\ OthersSame(w) /\ th'[w].pc # "r_notify"
  BY <1>1, MovesTyped, MovesOn, PCsHave DEF SizeInv
<1> DEFINE u == conn[c]
           r == [u EXCEPT !.onWrite = FALSE]
<1>3. u \in Buffers /\ (conn' = conn \/ conn' = [conn EXCEPT ![c] = r])
  BY <1>1 DEF SizeInv, ConnsTyped
<1>4. r = [u EXCEPT !.onWrite = FALSE]
  OBVIOUS
<1> HIDE DEF r, u
<1>5. r \in Buffers
  BY <1>3, <1>4, BuffersSet
<1>6. SameData(r, u) /\ r.mem = u.mem
  BY <1>3, <1>4 DEF Buffers, SameData
<1>7. CASE conn' = conn
  BY <1>1, <1>2, <1>7, QuietTells, SizeLooks
<1>8. CASE conn' = [conn EXCEPT ![c] = r]
  BY <1>1, <1>2, <1>5, <1>6, <1>8, SizePut DEF u
<1>9. QED
  BY <1>3, <1>7, <1>8

LEMMA LockSize ==
  ASSUME ListInv, SizeInv, NEW w \in Workers, NEW c \in Conns, InactiveLock(w, c)
  PROVE  SizeInv'
<1> DEFINE u == conn[c]
           s == [u EXCEPT !.active = FALSE]
           p == [s EXCEPT !.onRead = FALSE]
           q == [s EXCEPT !.onWrite = FALSE]
<1>1. u \in Buffers /\ conn \in [Conns -> Buffers] /\ th[w].flag \in {"onRead", "onWrite"}
  BY DEF SizeInv, ConnsTyped, ListInv, ThreadOK
<1>2. sock' = sock /\ \E to \in {"inact_unlock", "inact_notify"} : To(w, to)
  BY DEF InactiveLock
<1>3. \/ conn' = conn \/ conn' = [conn EXCEPT ![c] = p] \/ conn' = [conn EXCEPT ![c] = q]
  BY <1>1 DEF InactiveLock
<1>4. ThreadsTyped' /\ OthersSame(w) /\ th'[w].pc # "r_notify"
  BY <1>2, MovesTyped, MovesOn, PCsHave DEF SizeInv
<1>5. s = [u EXCEPT !.active = FALSE]
  OBVIOUS
<1>6. p = [s EXCEPT !.onRead = FALSE] /\ q = [s EXCEPT !.onWrite = FALSE]
  OBVIOUS
<1> HIDE DEF u, s, p, q
<1>7. s \in Buffers /\ SameData(s, u) /\ s.mem = u.mem
  <2>1. s \in Buffers
    BY <1>1, <1>5, BuffersSet
  <2>2. QED
    BY <1>1, <1>5, <2>1 DEF Buffers, SameData
<1>8. p \in Buffers /\ q \in Buffers
  BY <1>6, <1>7, BuffersSet
<1>9. SameData(p, u) /\ p.mem = u.mem /\ SameData(q, u) /\ q.mem = u.mem
  BY <1>6, <1>7 DEF Buffers, SameData
<1>10. CASE conn' = conn
  BY <1>2, <1>4, <1>10, QuietTells, SizeLooks
<1>11. CASE conn' # conn
  BY <1>2, <1>3, <1>4, <1>8, <1>9, <1>11, SizePut DEF u
<1>12. QED
  BY <1>10, <1>11

(* A write task notes write_reqs or what is left of w_buf.                 *)
LEMMA NotesSize ==
  ASSUME ListInv, SizeInv, NEW w \in Workers, NEW c \in Conns, WriteReqs(w, c) \/ WriteRmn(w, c)
  PROVE  SizeInv'
<1>1. /\ conn[c] \in Buffers /\ sock[c] \in Socket /\ Tally(c) /\ th \in [Workers -> Thread]
      /\ MaxReqs \in Nat
  BY ConnAssumption DEF SizeInv, ConnsTyped, SocksTyped, ThreadsTyped
<1>2. conn[c].writeReqs \in 0 .. MaxReqs /\ conn[c].wbuf \in 0 .. MaxReqs
  <2> DEFINE r == conn[c]
             t == sock[c]
  <2>1. /\ t.in + r.rbuf + (r.wbuf + t.out + t.answered) = t.asked /\ t.asked <= MaxReqs
        /\ r.writeReqs <= r.wbuf + t.out + t.answered
        /\ r \in Buffers /\ t \in Socket
    BY <1>1 DEF Tally, Replied
  <2> HIDE DEF r, t
  <2>2. {t.in, r.rbuf, r.wbuf, t.out, t.answered, t.asked, r.writeReqs} \subseteq Nat
    BY <2>1 DEF Buffers, Socket
  <2>3. r.writeReqs \in 0 .. MaxReqs /\ r.wbuf \in 0 .. MaxReqs
    BY <1>1, <2>1, <2>2
  <2>4. QED
    BY <2>3 DEF r
<1> DEFINE u == th[w]
           m == conn[c].writeReqs
           n == conn[c].wbuf
           s == [u EXCEPT !.pc = "w_raw"]
           p == [s EXCEPT !.wreqs = m]
           t == [u EXCEPT !.pc = "w_inter"]
           q == [t EXCEPT !.wrmn = n]
<1>3. /\ conn' = conn /\ sock' = sock
      /\ th' = [th EXCEPT ![w] = p] \/ th' = [th EXCEPT ![w] = q]
  BY <1>1 DEF WriteReqs, WriteRmn
<1>4. u \in Thread /\ "w_raw" \in PCs /\ "w_inter" \in PCs /\ NoConn \in Conns \cup {NoConn}
      /\ "onRead" \in {"onRead", "onWrite"}
  BY <1>1, PCsHave
<1>5. s = [u EXCEPT !.pc = "w_raw"] /\ t = [u EXCEPT !.pc = "w_inter"]
  OBVIOUS
<1>6. p = [s EXCEPT !.wreqs = m] /\ q = [t EXCEPT !.wrmn = n]
  OBVIOUS
<1> HIDE DEF u, m, n, s, p, t, q
<1>7. m \in 0 .. MaxReqs /\ n \in 0 .. MaxReqs
  BY <1>2 DEF m, n
<1>8. s \in Thread /\ t \in Thread
  BY <1>4, <1>5, <1>7, ThreadSet
<1>9. s.pc = "w_raw" /\ t.pc = "w_inter"
  BY <1>4, <1>5 DEF Thread
<1>10. p \in Thread /\ q \in Thread
  BY <1>4, <1>6, <1>7, <1>8, ThreadSet
<1>11. p.pc = "w_raw" /\ q.pc = "w_inter"
  BY <1>6, <1>8, <1>9 DEF Thread
<1>12. ThreadsTyped' /\ OthersSame(w) /\ th'[w].pc # "r_notify"
  BY <1>1, <1>3, <1>10, <1>11 DEF ThreadsTyped, OthersSame
<1>13. QED
  BY <1>3, <1>12, QuietTells, SizeLooks

LEMMA ReadAddSize ==
  ASSUME ListInv, SizeInv, NEW w \in Workers, NEW c \in Conns, ReadAdd(w, c)
  PROVE  SizeInv'
<1>1. conn' = conn /\ sock' = sock /\ To(w, "r_check")
  BY DEF ReadAdd
<1>2. ThreadsTyped' /\ OthersSame(w) /\ th'[w].pc = "r_check"
  BY <1>1, MovesTyped, MovesOn, PCsHave DEF SizeInv
<1>3. QED
  BY <1>1, <1>2, QuietTells, SizeLooks

LEMMA ReadRawSize ==
  ASSUME ListInv, SizeInv, NEW w \in Workers, NEW c \in Conns, ReadRaw(w, c)
  PROVE  SizeInv'
<1>1. Live(c) /\ conn[c] \in Buffers /\ sock[c] \in Socket /\ Tally(c)
  BY DEF ReadRaw, At, SizeInv, ConnsTyped, SocksTyped
<1>2. CASE CallInactive(w, "onRead") /\ conn' = conn /\ sock' = sock
  <2>1. ThreadsTyped' /\ OthersSame(w) /\ th'[w].pc # "r_notify"
    BY <1>2, MovesTyped, MovesOn DEF SizeInv
  <2>2. QED
    BY <1>2, <2>1, QuietTells, SizeLooks
<1>3. CASE /\ conn' = [conn EXCEPT ![c].rbuf = @ + sock[c].in]
           /\ sock' = [sock EXCEPT ![c].in = 0] /\ To(w, "r_sess")
  <2> DEFINE u == conn[c]
             k == sock[c]
             n == u.rbuf + k.in
             r == [u EXCEPT !.rbuf = n]
             t == [k EXCEPT !.in = 0]
  <2>1. conn' = [conn EXCEPT ![c] = r] /\ sock' = [sock EXCEPT ![c] = t]
    BY <1>3 DEF SizeInv, ConnsTyped, SocksTyped
  <2>2. u \in Buffers /\ k \in Socket /\ u.mem = "live"
    BY <1>1 DEF Live
  <2>3. r = [u EXCEPT !.rbuf = n]
    OBVIOUS
  <2>4. t = [k EXCEPT !.in = 0]
    OBVIOUS
  <2>5. n = u.rbuf + k.in
    OBVIOUS
  <2> HIDE DEF u, k, n, r, t
  <2>6. n \in Nat /\ u.rbuf \in Nat /\ k.in \in Nat
    BY <2>2, <2>5 DEF Buffers, Socket
  <2>7. r \in Buffers /\ t \in Socket
    BY <2>2, <2>3, <2>4, <2>6, BuffersSet, SocketSet
  <2>8. /\ r.rbuf = n /\ r.wbuf = u.wbuf /\ r.writeReqs = u.writeReqs /\ r.mem = "live"
        /\ t.in = 0 /\ t.out = k.out /\ t.answered = k.answered /\ t.asked = k.asked
    BY <2>2, <2>3, <2>4 DEF Buffers, Socket
  <2>9. /\ ConnsTyped' /\ conn'[c] = r /\ OnlyAt(c) /\ SocksTyped' /\ sock'[c] = t
        /\ \A d \in Conns \ {c} : sock'[d] = sock[d]
    BY <2>1, <2>7, ConnPut, SockPut DEF SizeInv
  <2>10. ThreadsTyped' /\ OthersSame(w) /\ th'[w].pc # "r_notify"
    BY <1>3, MovesTyped, MovesOn, PCsHave DEF SizeInv
  <2>11. \A v \in Workers, d \in Conns : Tells(v, d)' => Tells(v, d)
    BY <2>10, QuietTells
  <2>12. Replied(c)' = Replied(c)
    BY <2>8, <2>9 DEF Replied, u, k
  <2>13. Replied(c) \in Nat
    <3>1. {u.wbuf, k.out, k.answered} \subseteq Nat
      BY <2>2 DEF Buffers, Socket
    <3>2. QED
      BY <3>1 DEF Replied, u, k
  <2>14. t.in + r.rbuf + Replied(c)' = t.asked
    <3>1. k.in + u.rbuf + Replied(c) = k.asked
      BY <1>1 DEF Tally, u, k
    <3>2. QED
      BY <2>5, <2>6, <2>8, <2>12, <2>13, <3>1
  <2>15. Tally(c)'
    BY <1>1, <2>8, <2>9, <2>11, <2>12, <2>14 DEF Tally, u, k
  <2>16. QED
    BY <2>9, <2>10, <2>11, <2>15, SizeStep
<1>4. QED
  BY <1>2, <1>3 DEF ReadRaw

LEMMA WriteRawSize ==
  ASSUME ListInv, SizeInv, NEW w \in Workers, NEW c \in Conns, WriteRaw(w, c)
  PROVE  SizeInv'
<1>1. Live(c) /\ conn[c] \in Buffers /\ sock[c] \in Socket /\ Tally(c)
  BY DEF WriteRaw, At, SizeInv, ConnsTyped, SocksTyped
<1>2. CASE (CallInactive(w, "onWrite") \/ To(w, "w_rmn")) /\ conn' = conn /\ sock' = sock
  <2>1. ThreadsTyped' /\ OthersSame(w) /\ th'[w].pc # "r_notify"
    BY <1>2, MovesTyped, MovesOn, PCsHave DEF SizeInv
  <2>2. QED
    BY <1>2, <2>1, QuietTells, SizeLooks
<1>3. ASSUME NEW n \in 0 .. conn[c].wbuf,
             conn' = [conn EXCEPT ![c].wbuf = @ - n], sock' = [sock EXCEPT ![c].out = @ + n],
             To(w, "w_yield")
      PROVE  SizeInv'
  <2> DEFINE u == conn[c]
             k == sock[c]
             x == u.wbuf - n
             y == k.out + n
             r == [u EXCEPT !.wbuf = x]
             t == [k EXCEPT !.out = y]
  <2>1. conn' = [conn EXCEPT ![c] = r] /\ sock' = [sock EXCEPT ![c] = t]
    BY <1>3 DEF SizeInv, ConnsTyped, SocksTyped
  <2>2. u \in Buffers /\ k \in Socket /\ u.mem = "live" /\ n \in 0 .. u.wbuf
    BY <1>1 DEF Live
  <2>3. r = [u EXCEPT !.wbuf = x]
    OBVIOUS
  <2>4. t = [k EXCEPT !.out = y]
    OBVIOUS
  <2>5. x = u.wbuf - n /\ y = k.out + n
    OBVIOUS
  <2> HIDE DEF u, k, x, y, r, t
  <2>6. {u.wbuf, k.out, k.answered} \subseteq Nat
    BY <2>2 DEF Buffers, Socket
  <2>7. x \in Nat /\ y \in Nat /\ x + y + k.answered = u.wbuf + k.out + k.answered
    BY <2>2, <2>5, <2>6
  <2>8. r \in Buffers /\ t \in Socket
    BY <2>2, <2>3, <2>4, <2>7, BuffersSet, SocketSet
  <2>9. /\ r.rbuf = u.rbuf /\ r.wbuf = x /\ r.writeReqs = u.writeReqs /\ r.mem = "live"
        /\ t.in = k.in /\ t.out = y /\ t.answered = k.answered /\ t.asked = k.asked
    BY <2>2, <2>3, <2>4 DEF Buffers, Socket
  <2>10. /\ ConnsTyped' /\ conn'[c] = r /\ OnlyAt(c) /\ SocksTyped' /\ sock'[c] = t
         /\ \A d \in Conns \ {c} : sock'[d] = sock[d]
    BY <2>1, <2>8, ConnPut, SockPut DEF SizeInv
  <2>11. ThreadsTyped' /\ OthersSame(w) /\ th'[w].pc # "r_notify"
    BY <1>3, MovesTyped, MovesOn, PCsHave DEF SizeInv
  <2>12. \A v \in Workers, d \in Conns : Tells(v, d)' => Tells(v, d)
    BY <2>11, QuietTells
  <2>13. Replied(c)' = Replied(c)
    <3>1. Replied(c)' = x + y + k.answered
      BY <2>9, <2>10 DEF Replied
    <3>2. Replied(c) = u.wbuf + k.out + k.answered
      BY DEF Replied, u, k
    <3>3. QED
      BY <2>7, <3>1, <3>2
  <2>14. Tally(c)'
    BY <1>1, <2>9, <2>10, <2>12, <2>13 DEF Tally, u, k
  <2>15. QED
    BY <2>10, <2>11, <2>12, <2>14, SizeStep
<1>4. QED
  BY <1>2, <1>3 DEF WriteRaw

(* No other session of c is about to count its reply.                      *)
LEMMA OnlyTeller ==
  ASSUME RightInv, NEW c \in Conns, NEW w \in Workers, Carries(w, c)
  PROVE  \A v \in Workers : Tells(v, c) => v = w
<1>1. \A v \in Workers : Tells(v, c) => Carries(v, c)
  BY DEF Tells, Carries, Reading
<1>2. OnceAnywhere(c)
  BY DEF RightInv, RightRest, OneRight
<1>3. QED
  BY <1>1, <1>2 DEF OnceAnywhere

(* A session answers a request; its reply is not counted yet.              *)
LEMMA SessSize ==
  ASSUME RightInv, SizeInv, NEW w \in Workers, NEW c \in Conns, SessProcess(w, c)
  PROVE  SizeInv'
<1>1. /\ Live(c) /\ conn[c] \in Buffers /\ sock[c] \in Socket /\ Tally(c) /\ ListInv
      /\ sock' = sock /\ th[w].pc = "r_sess" /\ th[w].c = c
  BY DEF SessProcess, At, SizeInv, ConnsTyped, SocksTyped, RightInv
<1>2. CASE conn' = conn /\ To(w, "r_restore")
  <2>1. ThreadsTyped' /\ OthersSame(w) /\ th'[w].pc # "r_notify"
    BY <1>1, <1>2, MovesTyped, MovesOn, PCsHave DEF SizeInv
  <2>2. QED
    BY <1>1, <1>2, <2>1, QuietTells, SizeLooks
<1>3. CASE HasLine(c) /\ conn' = [conn EXCEPT ![c] = Answered(c)] /\ To(w, "r_notify")
  <2> DEFINE u == conn[c]
             k == sock[c]
             x == u.rbuf - 1
             y == u.wbuf + 1
             s == [u EXCEPT !.rbuf = x]
             r == [s EXCEPT !.wbuf = y]
  <2>1. conn' = [conn EXCEPT ![c] = r]
    <3>1. Answered(c) = r
      BY <1>1 DEF Answered, Buffers
    <3>2. QED
      BY <1>3, <3>1
  <2>2. u \in Buffers /\ k \in Socket /\ u.mem = "live" /\ u.rbuf > 0
    BY <1>1, <1>3 DEF Live, HasLine
  <2>3. s = [u EXCEPT !.rbuf = x]
    OBVIOUS
  <2>4. r = [s EXCEPT !.wbuf = y]
    OBVIOUS
  <2>5. x = u.rbuf - 1 /\ y = u.wbuf + 1
    OBVIOUS
  <2> HIDE DEF u, k, x, y, s, r
  <2>6. {u.rbuf, u.wbuf, u.writeReqs, k.in, k.out, k.answered, k.asked} \subseteq Nat
    BY <2>2 DEF Buffers, Socket
  <2>7. x \in Nat /\ y \in Nat
    BY <2>2, <2>5, <2>6
  <2>8. s \in Buffers
    BY <2>2, <2>3, <2>7, BuffersSet
  <2>9. r \in Buffers
    BY <2>4, <2>7, <2>8, BuffersSet
  <2>10. s.rbuf = x /\ s.wbuf = u.wbuf /\ s.writeReqs = u.writeReqs /\ s.mem = "live"
    BY <2>2, <2>3 DEF Buffers
  <2>11. r.rbuf = x /\ r.wbuf = y /\ r.writeReqs = u.writeReqs /\ r.mem = "live"
    BY <2>4, <2>8, <2>10 DEF Buffers
  <2>12. ConnsTyped' /\ conn'[c] = r /\ OnlyAt(c)
    BY <2>1, <2>9, ConnPut DEF SizeInv
  <2>13. ThreadsTyped' /\ OthersSame(w) /\ th'[w].c = c
    BY <1>1, <1>3, MovesTyped, MovesOn, PCsHave DEF SizeInv
  <2>14. \A v \in Workers, d \in Conns \ {c} : Tells(v, d)' => Tells(v, d)
    BY <2>13 DEF Tells, OthersSame
  <2>15. k.in + u.rbuf + (u.wbuf + k.out + k.answered) = k.asked /\ k.asked <= MaxReqs
         /\ u.writeReqs <= u.wbuf + k.out + k.answered
    BY <1>1 DEF Tally, Replied, u, k
  <2>16. k.in + x + (y + k.out + k.answered) = k.asked
         /\ u.writeReqs < y + k.out + k.answered
    BY <2>5, <2>6, <2>15
  <2>17. u.writeReqs <= y + k.out + k.answered
    BY <2>6, <2>7, <2>16
  <2>18. Tally(c)'
    BY <1>1, <2>11, <2>12, <2>15, <2>16, <2>17 DEF Tally, Replied, k
  <2>19. QED
    BY <1>1, <2>12, <2>13, <2>14, <2>18, SizeStep DEF SizeInv, SocksTyped
<1>4. QED
  BY <1>2, <1>3 DEF SessProcess

(* A session counts its reply, if the connection is still active.          *)
LEMMA NotifySize ==
  ASSUME RightInv, SizeInv, NEW w \in Workers, NEW c \in Conns, WriteNotify(w, c)
  PROVE  SizeInv'
<1>1. /\ Live(c) /\ conn[c] \in Buffers /\ sock[c] \in Socket /\ Tally(c) /\ ListInv
      /\ sock' = sock /\ th[w].pc = "r_notify" /\ th[w].c = c /\ To(w, "r_restore")
  BY DEF WriteNotify, At, SizeInv, ConnsTyped, SocksTyped, RightInv
<1>2. ThreadsTyped' /\ OthersSame(w) /\ th'[w].pc # "r_notify"
  BY <1>1, MovesTyped, MovesOn, PCsHave DEF SizeInv
<1>3. CASE conn' = conn
  BY <1>1, <1>2, <1>3, QuietTells, SizeLooks
<1>4. CASE conn' = [conn EXCEPT ![c].writeReqs = @ + 1]
  <2> DEFINE u == conn[c]
             k == sock[c]
             x == u.writeReqs + 1
             r == [u EXCEPT !.writeReqs = x]
  <2>1. conn' = [conn EXCEPT ![c] = r]
    BY <1>4 DEF SizeInv, ConnsTyped
  <2>2. u \in Buffers /\ k \in Socket /\ u.mem = "live"
    BY <1>1 DEF Live
  <2>3. r = [u EXCEPT !.writeReqs = x]
    OBVIOUS
  <2>4. x = u.writeReqs + 1
    OBVIOUS
  <2> HIDE DEF u, k, x, r
  <2>5. {u.wbuf, u.writeReqs, k.out, k.answered} \subseteq Nat
    BY <2>2 DEF Buffers, Socket
  <2>6. r \in Buffers
    <3>1. x \in Nat
      BY <2>4, <2>5
    <3>2. QED
      BY <2>2, <2>3, <3>1, BuffersSet
  <2>7. r.rbuf = u.rbuf /\ r.wbuf = u.wbuf /\ r.writeReqs = x /\ r.mem = "live"
    BY <2>2, <2>3 DEF Buffers
  <2>8. ConnsTyped' /\ conn'[c] = r /\ OnlyAt(c)
    BY <2>1, <2>6, ConnPut DEF SizeInv
  <2>9. u.writeReqs < u.wbuf + k.out + k.answered
    BY <1>1 DEF Tally, Tells, Replied, u, k
  <2>10. x <= u.wbuf + k.out + k.answered
    BY <2>4, <2>5, <2>9
  <2>11. Carries(w, c)
    BY <1>1 DEF Carries, Reading
  <2>12. \A v \in Workers : ~ Tells(v, c)'
    BY <1>2, <2>11, OnlyTeller DEF Tells, OthersSame
  <2>13. Tally(c)'
    BY <1>1, <2>7, <2>8, <2>10, <2>12 DEF Tally, Replied, u, k
  <2>14. QED
    BY <1>1, <1>2, <2>8, <2>13, QuietTells, SizeStep DEF SizeInv, SocksTyped
<1>5. QED
  BY <1>3, <1>4 DEF WriteNotify

LEMMA TaskSize ==
  ASSUME RightInv, SizeInv, NEW w \in Workers, NEW c \in Conns,
         ReadTask(w, c) \/ WriteTask(w, c) \/ Inactive(w, c)
  PROVE  SizeInv'
<1>1. ListInv
  BY DEF RightInv
<1>2. CASE ReadTask(w, c)
  BY <1>1, <1>2, BranchesSize, ReadRawSize, SessSize, NotifySize, ReadAddSize, CheckSize
  DEF ReadTask
<1>3. CASE WriteTask(w, c)
  BY <1>1, <1>3, BranchesSize, NotesSize, WriteRawSize, EndSize, CheckSize DEF WriteTask
<1>4. CASE Inactive(w, c)
  BY <1>1, <1>4, BranchesSize, LockSize DEF Inactive
<1>5. QED
  BY <1>2, <1>3, <1>4

LEMMA FreeFuncSize ==
  ASSUME ListInv, SizeInv, NEW w \in Workers, FreeFunc(w) \/ InactiveNotify(w)
  PROVE  SizeInv'
<1>1. sock' = sock /\ Done(w)
  BY DEF FreeFunc, InactiveNotify
<1>2. ThreadsTyped' /\ OthersSame(w) /\ th'[w].pc # "r_notify"
  BY <1>1, MovesTyped, MovesOn DEF SizeInv, IdleThread
<1>3. \A v \in Workers, d \in Conns : Tells(v, d)' => Tells(v, d)
  BY <1>2, QuietTells
<1>4. CASE InactiveNotify(w)
  <2>1. conn' = conn
    BY <1>4 DEF InactiveNotify
  <2>2. QED
    BY <1>1, <1>2, <1>3, <2>1, SizeLooks
<1>5. CASE FreeFunc(w)
  <2>1. conn' = [c \in Conns |-> IF freeList[c] > 0 /\ Reclaimable(c) THEN Freed(c) ELSE conn[c]]
    BY <1>5 DEF FreeFunc
  <2>2. ASSUME NEW c \in Conns
        PROVE  Freed(c) \in Buffers /\ SameData(Freed(c), conn[c]) /\ Freed(c).mem = "freed"
    <3> DEFINE u == conn[c]
               s == [u EXCEPT !.mem = "freed"]
               r == [s EXCEPT !.events = {}]
    <3>1. u \in Buffers
      BY DEF SizeInv, ConnsTyped
    <3>2. Freed(c) = r
      BY <3>1 DEF Freed, Buffers
    <3>3. s = [u EXCEPT !.mem = "freed"]
      OBVIOUS
    <3>4. r = [s EXCEPT !.events = {}]
      OBVIOUS
    <3> HIDE DEF u, s, r
    <3>5. s \in Buffers /\ s.mem = "freed" /\ SameData(s, u)
      BY <3>1, <3>3 DEF Buffers, SameData
    <3>6. r \in Buffers /\ r.mem = "freed" /\ SameData(r, u)
      BY <3>4, <3>5 DEF Buffers, SameData
    <3>7. QED
      BY <3>2, <3>6 DEF u
  <2>3. ConnsTyped'
    BY <2>1, <2>2 DEF SizeInv, ConnsTyped
  <2>4. \A c \in Conns : /\ SameData(conn'[c], conn[c])
                         /\ conn'[c].mem = "none" => conn[c].mem = "none"
    BY <2>1, <2>2 DEF SameData
  <2>5. QED
    BY <1>1, <1>2, <1>3, <2>3, <2>4, SizeSame
<1>6. QED
  BY <1>4, <1>5

LEMMA TakeSize ==
  ASSUME QueuesOK, SizeInv, NEW w \in Workers, WorkerTake(w)
  PROVE  SizeInv'
<1>1. /\ th \in [Workers -> Thread] /\ wq \in [Workers -> Seq(Tasks)] /\ wq[w] # <<>>
      /\ conn' = conn /\ sock' = sock
  BY DEF SizeInv, ThreadsTyped, QueuesOK, WorkerTake
<1> DEFINE k == Head(wq[w]).kind
           e == Head(wq[w]).c
           p == TaskStart(k)
           u == th[w]
           s == [u EXCEPT !.pc = p]
           t == [s EXCEPT !.c = e]
<1>2. k \in {"read", "write", "free"} /\ e \in Conns \cup {NoConn}
  <2> DEFINE q == wq[w]
  <2>1. q \in Seq(Tasks) /\ q # <<>>
    BY <1>1
  <2> HIDE DEF q
  <2>2. Head(q) \in Tasks
    BY <2>1
  <2>3. QED
    BY <2>2 DEF Tasks, FreeTask, q
<1>3. th' = [th EXCEPT ![w] = t]
  BY <1>1 DEF WorkerTake
<1>4. u \in Thread
  BY <1>1
<1>5. s = [u EXCEPT !.pc = p]
  OBVIOUS
<1>6. t = [s EXCEPT !.c = e]
  OBVIOUS
<1>7. p \in PCs /\ p # "r_notify"
  <2> HIDE DEF k
  <2>1. QED
    BY <1>2 DEF TaskStart, PCs, DerefPCs, ReadPCs, WritePCs
<1> HIDE DEF u, s, t, p, e, k
<1>8. "onRead" \in {"onRead", "onWrite"} /\ 0 \in 0 .. MaxReqs
  BY ConnAssumption
<1>9. s \in Thread
  BY <1>2, <1>4, <1>5, <1>7, <1>8, ThreadSet
<1>10. t \in Thread
  BY <1>2, <1>6, <1>7, <1>8, <1>9, ThreadSet
<1>11. t.pc = p
  BY <1>4, <1>5, <1>6, <1>9 DEF Thread
<1>12. ThreadsTyped' /\ OthersSame(w) /\ th'[w].pc # "r_notify"
  BY <1>1, <1>3, <1>7, <1>10, <1>11 DEF ThreadsTyped, OthersSame
<1>13. QED
  BY <1>1, <1>12, QuietTells, SizeLooks

LEMMA WorkerSize ==
  ASSUME RightInv, SizeInv, NEW w \in Workers, Worker(w)
  PROVE  SizeInv'
<1>1. ListInv /\ QueuesOK
  BY DEF RightInv, RightRest
<1>2. QED
  BY <1>1, TakeSize, FreeFuncSize, TaskSize DEF Worker

-----------------------------------------------------------------------------
LEMMA SockSize ==
  ASSUME SizeInv, NEW c \in Conns, NEW t \in Socket, SockStep(c, t),
         \A r : r = conn[c] =>
             /\ t.in + r.rbuf + (r.wbuf + t.out + t.answered) = t.asked
             /\ t.asked <= MaxReqs
             /\ r.wbuf + t.out + t.answered = Replied(c)
  PROVE  SizeInv'
<1>1. conn' = conn /\ th' = th /\ sock' = [sock EXCEPT ![c] = t]
  BY DEF SockStep
<1>2. SocksTyped' /\ sock'[c] = t /\ \A d \in Conns \ {c} : sock'[d] = sock[d]
  BY <1>1, SockPut DEF SizeInv
<1>3. ConnsTyped' /\ ThreadsTyped' /\ OnlyAt(c) /\ \A v \in Workers, d \in Conns : Tells(v, d)' => Tells(v, d)
  BY <1>1 DEF SizeInv, ConnsTyped, ThreadsTyped, OnlyAt, Tells
<1>4. Replied(c)' = Replied(c)
  BY <1>1, <1>2 DEF Replied
<1>5. Tally(c)'
  BY <1>1, <1>2, <1>3, <1>4 DEF SizeInv, Tally
<1>6. QED
  BY <1>2, <1>3, <1>5, SizeStep

LEMMA ClientSize ==
  ASSUME SizeInv, NEW c \in Conns, Client(c)
  PROVE  SizeInv'
<1> DEFINE r == conn[c]
           k == sock[c]
<1>1. r \in Buffers /\ k \in Socket /\ MaxReqs \in Nat
  BY ConnAssumption DEF SizeInv, ConnsTyped, SocksTyped
<1>2. k.in + r.rbuf + Replied(c) = k.asked /\ k.asked <= MaxReqs
      /\ Replied(c) = r.wbuf + k.out + k.answered
  BY DEF SizeInv, Tally, Replied
<1>3. {r.rbuf, r.wbuf, k.in, k.out, k.answered, k.asked} \subseteq Nat
  BY <1>1 DEF Buffers, Socket
<1>4. CASE ClientSend(c)
  <2> DEFINE n == k.asked + 1
             m == k.in + 1
             s == [k EXCEPT !.asked = n]
             t == [s EXCEPT !.in = m]
  <2>1. SockStep(c, t) /\ k.asked < MaxReqs
    BY <1>1, <1>4 DEF ClientSend
  <2>2. s = [k EXCEPT !.asked = n]
    OBVIOUS
  <2>3. t = [s EXCEPT !.in = m]
    OBVIOUS
  <2>4. n = k.asked + 1 /\ m = k.in + 1
    OBVIOUS
  <2> HIDE DEF n, m, s, t, r, k
  <2>5. n \in Nat /\ m \in Nat
    BY <1>3, <2>4
  <2>6. s \in Socket
    BY <1>1, <2>2, <2>5, SocketSet
  <2>7. t \in Socket
    BY <2>3, <2>5, <2>6, SocketSet
  <2>8. t.asked = n /\ t.in = m /\ t.out = k.out /\ t.answered = k.answered
    BY <1>1, <2>2, <2>3, <2>6 DEF Socket
  <2>9. m + r.rbuf + (r.wbuf + k.out + k.answered) = n /\ n <= MaxReqs
    BY <1>1, <1>2, <1>3, <2>1, <2>4
  <2>10. QED
    BY <1>2, <2>1, <2>7, <2>8, <2>9, SockSize DEF r
<1>5. CASE ClientRecv(c)
  <2> DEFINE n == k.out - 1
             m == k.answered + 1
             s == [k EXCEPT !.out = n]
             t == [s EXCEPT !.answered = m]
  <2>1. SockStep(c, t) /\ k.out > 0
    BY <1>1, <1>5 DEF ClientRecv
  <2>2. s = [k EXCEPT !.out = n]
    OBVIOUS
  <2>3. t = [s EXCEPT !.answered = m]
    OBVIOUS
  <2>4. n = k.out - 1 /\ m = k.answered + 1
    OBVIOUS
  <2> HIDE DEF n, m, s, t, r, k
  <2>5. n \in Nat /\ m \in Nat
    BY <1>3, <2>1, <2>4
  <2>6. s \in Socket
    BY <1>1, <2>2, <2>5, SocketSet
  <2>7. t \in Socket
    BY <2>3, <2>5, <2>6, SocketSet
  <2>8. t.asked = k.asked /\ t.in = k.in /\ t.out = n /\ t.answered = m
    BY <1>1, <2>2, <2>3, <2>6 DEF Socket
  <2>9. /\ r.wbuf + n + m = r.wbuf + k.out + k.answered
        /\ k.in + r.rbuf + (r.wbuf + k.out + k.answered) = k.asked
    BY <1>2, <1>3, <2>4
  <2>10. QED
    BY <1>2, <2>1, <2>7, <2>8, <2>9, SockSize DEF r
<1>6. CASE ClientClose(c) \/ ClientReset(c)
  <2>1. PICK p \in {"open", "eof", "reset"} : SockStep(c, [k EXCEPT !.peer = p])
    BY <1>6 DEF ClientClose, ClientReset
  <2> DEFINE t == [k EXCEPT !.peer = p]
  <2>2. t = [k EXCEPT !.peer = p]
    OBVIOUS
  <2>3. SockStep(c, t)
    BY <2>1
  <2> HIDE DEF t, r, k
  <2>4. t \in Socket
    BY <1>1, <2>2, SocketSet
  <2>5. t.asked = k.asked /\ t.in = k.in /\ t.out = k.out /\ t.answered = k.answered
    BY <1>1, <2>2 DEF Socket
  <2>6. QED
    BY <1>2, <2>3, <2>4, <2>5, SockSize DEF r
<1>7. QED
  BY <1>4, <1>5, <1>6 DEF Client

(* The loop changes no counter.                                            *)
LEMMA SizeLoop ==
  ASSUME SizeInv, ConnsTyped', th' = th, sock' = sock,
         \A d \in Conns : SameData(conn'[d], conn[d]),
         \A d \in Conns : conn'[d].mem = "none" => conn[d].mem = "none"
  PROVE  SizeInv'
<1>1. ThreadsTyped' /\ \A v \in Workers, d \in Conns : Tells(v, d)' => Tells(v, d)
  BY DEF SizeInv, ThreadsTyped, Tells
<1>2. QED
  BY <1>1, SizeSame

LEMMA OpsSize ==
  ASSUME RightInv, SizeInv, HandleOps
  PROVE  SizeInv'
<1> DEFINE masks(c) == {eops[i].mask : i \in {j \in DOMAIN eops : eops[j].c = c}}
           m(c) == conn[c].events \cup masks(c)
           r(c) == [conn[c] EXCEPT !.events = m(c)]
<1>1. conn' = [c \in Conns |-> r(c)] /\ th' = th /\ sock' = sock
  BY DEF HandleOps
<1>2. ASSUME NEW c \in Conns PROVE m(c) \in SUBSET {READ, WRITE}
  <2>1. EopsOK /\ conn[c] \in Buffers
    BY DEF RightInv, RightRest, SizeInv, ConnsTyped
  <2>2. masks(c) \subseteq {READ, WRITE}
    BY <2>1, OpsTyped
  <2>3. conn[c].events \subseteq {READ, WRITE}
    BY <2>1 DEF Buffers
  <2>4. QED
    BY <2>2, <2>3
<1>3. \A c \in Conns : r(c) = [conn[c] EXCEPT !.events = m(c)]
  OBVIOUS
<1> HIDE DEF m, r
<1>4. ASSUME NEW c \in Conns
      PROVE  r(c) \in Buffers /\ SameData(r(c), conn[c]) /\ r(c).mem = conn[c].mem
  <2> DEFINE u == conn[c]
  <2>1. u \in Buffers /\ r(c) = [u EXCEPT !.events = m(c)] /\ m(c) \in SUBSET {READ, WRITE}
    BY <1>2, <1>3 DEF SizeInv, ConnsTyped
  <2> HIDE DEF u
  <2>2. QED
    BY <2>1 DEF Buffers, SameData, u
<1>5. ConnsTyped'
  BY <1>1, <1>4 DEF ConnsTyped
<1>6. QED
  BY <1>1, <1>4, <1>5, SizeLoop

LEMMA AcceptSize ==
  ASSUME SizeInv, NEW c \in Conns, Accept(c)
  PROVE  SizeInv'
<1>1. conn' = [conn EXCEPT ![c] = Opened] /\ th' = th /\ sock' = sock /\ conn[c].mem = "none"
  BY DEF Accept
<1>2. /\ Opened \in Buffers /\ Opened.mem = "live"
      /\ Opened.rbuf = 0 /\ Opened.wbuf = 0 /\ Opened.writeReqs = 0
  BY DEF Opened, NewConn, Buffers
<1>3. ConnsTyped' /\ conn'[c] = Opened /\ OnlyAt(c)
  BY <1>1, <1>2, ConnPut DEF SizeInv
<1>4. conn[c].rbuf = 0 /\ conn[c].wbuf = 0 /\ conn[c].writeReqs = 0
  BY <1>1 DEF SizeInv, Tally
<1>5. \A d \in Conns : SameData(conn'[d], conn[d]) /\ (conn'[d].mem = "none" => conn[d].mem = "none")
  BY <1>1, <1>2, <1>3, <1>4 DEF SameData, OnlyAt
<1>6. QED
  BY <1>1, <1>3, <1>5, SizeLoop

LEMMA HandleSize ==
  ASSUME SizeInv, NEW c \in Conns, HandleRead(c) \/ HandleWrite(c)
  PROVE  SizeInv'
<1> DEFINE u == conn[c]
           m == u.events \ {READ}
           n == u.events \ {WRITE}
           s == [u EXCEPT !.events = m]
           p == [s EXCEPT !.onRead = TRUE]
           t == [u EXCEPT !.events = n]
           q == [t EXCEPT !.onWrite = TRUE]
<1>1. u \in Buffers /\ conn \in [Conns -> Buffers] /\ th' = th /\ sock' = sock
  BY DEF SizeInv, ConnsTyped, HandleRead, HandleWrite
<1>2. conn' = [conn EXCEPT ![c] = p] \/ conn' = [conn EXCEPT ![c] = q]
  BY <1>1 DEF HandleRead, HandleWrite
<1>3. m \in SUBSET {READ, WRITE} /\ n \in SUBSET {READ, WRITE}
  BY <1>1 DEF Buffers
<1>4. s = [u EXCEPT !.events = m] /\ t = [u EXCEPT !.events = n]
  OBVIOUS
<1>5. p = [s EXCEPT !.onRead = TRUE] /\ q = [t EXCEPT !.onWrite = TRUE]
  OBVIOUS
<1> HIDE DEF u, m, n, s, p, t, q
<1>6. s \in Buffers /\ t \in Buffers /\ SameData(s, u) /\ SameData(t, u) /\ s.mem = u.mem /\ t.mem = u.mem
  BY <1>1, <1>3, <1>4 DEF Buffers, SameData
<1>7. p \in Buffers /\ q \in Buffers /\ SameData(p, u) /\ SameData(q, u) /\ p.mem = u.mem /\ q.mem = u.mem
  BY <1>5, <1>6 DEF Buffers, SameData
<1>8. ConnsTyped' /\ (conn'[c] = p \/ conn'[c] = q) /\ OnlyAt(c)
  BY <1>2, <1>7, ConnPut DEF SizeInv
<1>9. \A d \in Conns : SameData(conn'[d], conn[d]) /\ (conn'[d].mem = "none" => conn[d].mem = "none")
  BY <1>7, <1>8 DEF SameData, OnlyAt, u
<1>10. QED
  BY <1>1, <1>8, <1>9, SizeLoop

LEMMA LoopSize ==
  ASSUME RightInv, SizeInv, Loop
  PROVE  SizeInv'
<1>1. CASE EpollWait \/ \E c \in Conns : SkipEntry(c)
  <2>1. th' = th /\ conn' = conn /\ sock' = sock
    BY <1>1 DEF EpollWait, SkipEntry
  <2>2. QED
    BY <2>1, SizeLoop DEF SizeInv, ConnsTyped, SameData
<1>2. QED
  BY <1>1, OpsSize, AcceptSize, HandleSize DEF Loop

LEMMA InitSize == Init => SizeInv
<1> SUFFICES ASSUME Init PROVE SizeInv
  OBVIOUS
<1>1. NewConn \in Buffers /\ IdleThread \in Thread
  BY ConnAssumption DEF NewConn, Buffers, IdleThread, Thread, PCs
<1>2. ConnsTyped /\ SocksTyped /\ ThreadsTyped
  BY <1>1 DEF Init, ConnsTyped, SocksTyped, ThreadsTyped, Socket
<1>3. ASSUME NEW c \in Conns PROVE Tally(c)
  <2>1. /\ conn[c].rbuf = 0 /\ conn[c].wbuf = 0 /\ conn[c].writeReqs = 0
        /\ sock[c].in = 0 /\ sock[c].out = 0 /\ sock[c].answered = 0 /\ sock[c].asked = 0
    BY DEF Init, NewConn
  <2>2. \A w \in Workers : ~ Tells(w, c)
    BY DEF Init, IdleThread, Tells
  <2>3. QED
    BY <2>1, <2>2, ConnAssumption DEF Tally, Replied
<1>4. QED
  BY <1>2, <1>3 DEF SizeInv

LEMMA NextSize == RightInv /\ SizeInv /\ [Next]_vars => SizeInv'
<1> SUFFICES ASSUME RightInv, SizeInv, [Next]_vars PROVE SizeInv'
  OBVIOUS
<1>1. CASE UNCHANGED vars
  <2>1. th' = th /\ conn' = conn /\ sock' = sock
    BY <1>1 DEF vars
  <2>2. QED
    BY <2>1, SizeLoop DEF SizeInv, ConnsTyped, SameData
<1>2. CASE Stopped
  BY <1>1, <1>2 DEF Stopped
<1>3. QED
  BY <1>1, <1>2, ClientSize, LoopSize, WorkerSize DEF Next

(* Without resets no session is freed while a worker runs its code         *)
(* (atm_sess_free from atm_conn_free_func), and every variable keeps its   *)
(* type: write_reqs never passes the number of requests.                   *)
THEOREM SessionNeverFreed ==
  ASSUME AllowReset = FALSE
  PROVE  Spec => []SessionNotFreed
<1>1. RightInv => \A c \in Conns, w \in Workers : InSession(w, c) => Live(c)
  <2> SUFFICES ASSUME RightInv, NEW c \in Conns, NEW w \in Workers, InSession(w, c)
               PROVE  Live(c)
    OBVIOUS
  <2>1. Carried(c)
    BY DEF InSession, Carried, Carries, Reading
  <2>2. QED
    BY <2>1 DEF RightInv, RightRest, OneRight, InUse
<1>2. RightInv /\ ready \subseteq Conns /\ SizeInv => SessionNotFreed
  BY <1>1, TypeFollows DEF SessionNotFreed
<1>3. QED
  BY InitRights, NextRights, InitSize, NextSize, <1>2, PTL DEF Spec

=============================================================================
