--------------------------- MODULE AtmQueueProofs ---------------------------
(***************************************************************************)
(* Proofs about the blocking queue, for any number of pushes.              *)
(***************************************************************************)
EXTENDS AtmQueue, TLAPS

(* A push has allocated its entry and not yet linked it.                   *)
Unlinked == ppc \in {"tail", "head", "first", "link"}

(* A pop holds the entry it read as the head.                              *)
Holding == cpc \in {"next", "tail", "cleartail", "sizeload", "sizestore", "free"}

(* ... and has moved the head past it.                                     *)
Past == cpc \in {"tail", "cleartail", "sizeload", "sizestore", "free"}

Newest == IF Unlinked THEN pushed - 1 ELSE pushed

(* What the order of the pops rests on: a pointer is to an entry pushed    *)
(* after the one that holds it, the head is past what was popped, and what *)
(* a push has not linked is known to nobody.                               *)
Ordered ==
    /\ {head, tail, res} \subseteq 0..Newest
    /\ next \in [Nodes -> 0..Newest]
    /\ \A n \in Nodes : next[n] # NULL => next[n] > n
    /\ ppc = "settail" => tail < pushed
    /\ ppc = "link" => ptail \in 0..pushed - 1
    /\ popped \in Seq(Nodes)
    /\ \A i \in DOMAIN popped : popped[i] <= Newest
    /\ \A i, j \in DOMAIN popped : i < j => popped[i] < popped[j]
    /\ head # NULL => \A i \in DOMAIN popped : popped[i] < head
    /\ Holding => res # NULL /\ \A i \in DOMAIN popped : popped[i] < res
    /\ Past /\ head # NULL => res < head

(* What the size rests on: only the pop makes it smaller, after it saw     *)
(* that it was not zero; and it never counts more than was pushed.         *)
Counted ==
    /\ size \in 0..MaxPush /\ psize \in 0..MaxPush /\ csize \in 0..MaxPush
    /\ size <= pushed /\ csize <= pushed
    /\ ppc # "idle" => size <= pushed - 1 /\ csize <= pushed - 1
    /\ ppc = "sizestore" => psize <= pushed - 1
    /\ cpc \in {"head", "next", "tail", "cleartail", "sizeload"} => size # 0
    /\ cpc = "sizestore" => csize # 0

Control ==
    /\ pushed \in 0..MaxPush
    /\ ppc \in {"idle", "tail", "head", "first", "link", "settail", "sizeload", "sizestore"}
    /\ cpc \in {"call", "head", "next", "tail", "cleartail", "sizeload", "sizestore", "free"}
    /\ ptail \in Nodes \cup {NULL} /\ freed \subseteq Nodes
    /\ qlock \in {"loop", "none"} /\ (qlock = "loop" <=> ppc # "idle")
    /\ ppc # "idle" => pushed >= 1

QueueInv == Control /\ Ordered /\ Counted

LEMMA QueueInvInit == Init => QueueInv
<1> SUFFICES ASSUME Init PROVE QueueInv
  OBVIOUS
<1>0. MaxPush \in Nat \ {0}
  BY QueueAssumption
<1>1. Control
  BY <1>0 DEF Init, Control, NULL, Nodes
<1>2. Ordered
  BY <1>0 DEF Init, Ordered, Newest, Unlinked, Holding, Past, NULL, Nodes
<1>3. Counted
  BY <1>0 DEF Init, Counted
<1>4. QED
  BY <1>1, <1>2, <1>3 DEF QueueInv

-----------------------------------------------------------------------------
(* The push.                                                               *)

LEMMA PushKeeps ==
  ASSUME QueueInv, Push
  PROVE  QueueInv'
<1>0. MaxPush \in Nat \ {0} /\ pushed \in Nat
  BY QueueAssumption DEF QueueInv, Control
<1> USE DEF Newest, Unlinked, Holding, Past
<1>1. CASE PushLock
  <2> USE <1>1 DEF PushLock, QueueInv, list, pop
  <2>1. Control'
    BY <1>0 DEF Control
  <2>2. Ordered'
    BY <1>0 DEF Ordered, Control, NULL
  <2>3. Counted'
    BY <1>0 DEF Counted, Control
  <2>4. QED
    BY <2>1, <2>2, <2>3
<1>2. CASE PushReadTail
  <2> USE <1>2 DEF PushReadTail, QueueInv, list, pop
  <2>1. Control'
    BY <1>0 DEF Control, Ordered, Nodes, NULL
  <2>2. Ordered'
    BY <1>0 DEF Ordered, Control, NULL
  <2>3. Counted'
    BY <1>0 DEF Counted, Control
  <2>4. QED
    BY <2>1, <2>2, <2>3
<1>3. CASE PushReadHead
  <2> USE <1>3 DEF PushReadHead, QueueInv, list, pop
  <2>1. Control'
    BY <1>0 DEF Control
  <2>2. Ordered'
    BY <1>0 DEF Ordered, Control, NULL
  <2>3. Counted'
    BY <1>0 DEF Counted, Control
  <2>4. QED
    BY <2>1, <2>2, <2>3
<1>4. CASE PushFirst
  <2> USE <1>4 DEF PushFirst, QueueInv, pop
  <2>1. Control'
    BY <1>0 DEF Control
  <2>2. Ordered'
    <3>1. {head, tail, res}' \subseteq 0..Newest'
      BY <1>0 DEF Ordered, Control, NULL
    <3>2. next' \in [Nodes -> 0..Newest']
      BY <1>0 DEF Ordered, Control, NULL
    <3>3. \A i \in DOMAIN popped : popped[i] <= Newest' /\ popped[i] < pushed
      BY <1>0, SMTT(30) DEF Ordered, Control, NULL, Nodes
    <3>4. head' # NULL => \A i \in DOMAIN popped : popped[i] < head'
      BY <1>0, <3>3
    <3>5. Past /\ head' # NULL => res < head'
      BY <1>0 DEF Ordered, Control, NULL
    <3>6. QED
      BY <1>0, <3>1, <3>2, <3>3, <3>4, <3>5 DEF Ordered, Control, NULL
  <2>3. Counted'
    BY <1>0 DEF Counted, Control
  <2>4. QED
    BY <2>1, <2>2, <2>3
<1>5. CASE PushLink
  <2> USE <1>5 DEF PushLink, QueueInv, pop
  <2>1. Control'
    BY <1>0 DEF Control
  <2>2. Ordered'
    <3>1. CASE UNCHANGED <<next, ppc>>
      BY <1>0, <3>1 DEF Ordered, Control, NULL
    <3>2. ASSUME NEW t \in {ptail, tail}, t # NULL, next' = [next EXCEPT ![t] = pushed], ppc' = "settail"
          PROVE  Ordered'
      <4>1. t \in Nodes /\ t < pushed /\ tail < pushed
        BY <1>0, <3>2, SMTT(30) DEF Ordered, Control, NULL, Nodes
      <4>2. next' \in [Nodes -> 0..pushed] /\ \A n \in Nodes : next'[n] # NULL => next'[n] > n
        BY <1>0, <3>2, <4>1 DEF Ordered, Control
      <4>3. {head, tail, res}' \subseteq 0..pushed /\ tail' < pushed
        BY <1>0, <4>1 DEF Ordered, Control
      <4>4. \A i \in DOMAIN popped : popped[i] <= pushed
        BY <1>0 DEF Ordered, Control, Nodes
      <4>5. Newest' = pushed /\ ~ (ppc' = "link")
        BY <3>2
      <4>6. QED
        BY <1>0, <3>2, <4>2, <4>3, <4>4, <4>5 DEF Ordered, Control
    <3>3. QED
      BY <3>1, <3>2
  <2>3. Counted'
    BY <1>0 DEF Counted, Control
  <2>4. QED
    BY <2>1, <2>2, <2>3
<1>6. CASE PushSetTail
  <2> USE <1>6 DEF PushSetTail, QueueInv, pop
  <2>1. Control'
    BY <1>0 DEF Control
  <2>2. Ordered'
    BY <1>0 DEF Ordered, Control, NULL
  <2>3. Counted'
    BY <1>0 DEF Counted, Control
  <2>4. QED
    BY <2>1, <2>2, <2>3
<1>7. CASE PushReadSize
  <2> USE <1>7 DEF PushReadSize, QueueInv, list, pop
  <2>1. Control'
    BY <1>0 DEF Control
  <2>2. Ordered'
    BY <1>0 DEF Ordered, Control, NULL
  <2>3. Counted'
    BY <1>0 DEF Counted, Control
  <2>4. QED
    BY <2>1, <2>2, <2>3
<1>8. CASE PushUnlock
  <2> USE <1>8 DEF PushUnlock, QueueInv, pop
  <2>1. Control'
    BY <1>0 DEF Control
  <2>2. Ordered'
    BY <1>0 DEF Ordered, Control, NULL
  <2>3. Counted'
    BY <1>0 DEF Counted, Control
  <2>4. QED
    BY <2>1, <2>2, <2>3
<1>9. QED
  BY <1>1, <1>2, <1>3, <1>4, <1>5, <1>6, <1>7, <1>8 DEF Push

-----------------------------------------------------------------------------
(* The pop.                                                                *)

LEMMA PopKeeps ==
  ASSUME QueueInv, Pop
  PROVE  QueueInv'
<1>0. MaxPush \in Nat \ {0} /\ pushed \in Nat
  BY QueueAssumption DEF QueueInv, Control
<1> USE DEF Newest, Unlinked, Holding, Past
<1>1. CASE NonemptyWait
  <2> USE <1>1 DEF NonemptyWait, QueueInv, list, push
  <2>1. Control'
    BY <1>0 DEF Control
  <2>2. Ordered'
    BY <1>0 DEF Ordered, Control, NULL
  <2>3. Counted'
    BY <1>0 DEF Counted, Control
  <2>4. QED
    BY <2>1, <2>2, <2>3
<1>2. CASE PopReadHead
  <2> USE <1>2 DEF PopReadHead, QueueInv, list, push
  <2>1. Control'
    BY <1>0 DEF Control
  <2>2. Ordered'
    BY <1>0 DEF Ordered, Control, NULL
  <2>3. Counted'
    BY <1>0 DEF Counted, Control
  <2>4. QED
    BY <2>1, <2>2, <2>3
<1>3. CASE PopNext
  <2> USE <1>3 DEF PopNext, QueueInv, push
  <2>1. Control'
    BY <1>0 DEF Control
  <2>2. Ordered'
    <3>1. res \in Nodes /\ next[res] \in 0..Newest /\ (next[res] # NULL => next[res] > res)
      BY <1>0, SMTT(30) DEF Ordered, Control, NULL, Nodes
    <3>2. \A i \in DOMAIN popped : popped[i] \in Nat /\ popped[i] < res
      BY <1>0, SMTT(30) DEF Ordered, Control, NULL, Nodes
    <3>3. head' # NULL => \A i \in DOMAIN popped : popped[i] < head'
      BY <1>0, <3>1, <3>2 DEF NULL, Nodes
    <3>4. QED
      BY <1>0, <3>1, <3>2, <3>3 DEF Ordered, Control
  <2>3. Counted'
    BY <1>0 DEF Counted, Control
  <2>4. QED
    BY <2>1, <2>2, <2>3
<1>4. CASE PopReadTail
  <2> USE <1>4 DEF PopReadTail, QueueInv, list, push
  <2>1. Control'
    BY <1>0 DEF Control
  <2>2. Ordered'
    BY <1>0 DEF Ordered, Control, NULL
  <2>3. Counted'
    BY <1>0 DEF Counted, Control
  <2>4. QED
    BY <2>1, <2>2, <2>3
<1>5. CASE PopClearTail
  <2> USE <1>5 DEF PopClearTail, QueueInv, push
  <2>1. Control'
    BY <1>0 DEF Control
  <2>2. Ordered'
    BY <1>0 DEF Ordered, Control, NULL
  <2>3. Counted'
    BY <1>0 DEF Counted, Control
  <2>4. QED
    BY <2>1, <2>2, <2>3
<1>6. CASE PopReadSize
  <2> USE <1>6 DEF PopReadSize, QueueInv, list, push
  <2>1. Control'
    BY <1>0 DEF Control
  <2>2. Ordered'
    BY <1>0 DEF Ordered, Control, NULL
  <2>3. Counted'
    BY <1>0 DEF Counted, Control
  <2>4. QED
    BY <2>1, <2>2, <2>3
<1>7. CASE PopWriteSize
  <2> USE <1>7 DEF PopWriteSize, QueueInv, push
  <2>1. Control'
    BY <1>0 DEF Control
  <2>2. Ordered'
    BY <1>0 DEF Ordered, Control, NULL
  <2>3. Counted'
    BY <1>0 DEF Counted, Control
  <2>4. QED
    BY <2>1, <2>2, <2>3
<1>8. CASE PopFree
  <2> USE <1>8 DEF PopFree, QueueInv, push
  <2>0. res \in Nodes
    BY <1>0 DEF Ordered, Control, NULL, Nodes
  <2>1. Control'
    BY <1>0, <2>0 DEF Control
  <2>2. Ordered'
    <3>1. next' \in [Nodes -> 0..Newest'] /\ \A n \in Nodes : next'[n] # NULL => next'[n] > n
      BY <1>0, <2>0 DEF Ordered, Control, NULL
    <3>2. popped' = Append(popped, res) /\ popped \in Seq(Nodes)
      BY DEF Ordered
    <3>3. /\ popped' \in Seq(Nodes) /\ Len(popped) \in Nat
          /\ DOMAIN popped = 1..Len(popped) /\ DOMAIN popped' = 1..Len(popped) + 1
          /\ \A i \in DOMAIN popped : popped'[i] = popped[i] /\ popped[i] \in Nat
          /\ popped'[Len(popped) + 1] = res
      <4>1. \A i \in DOMAIN popped : popped[i] \in Nat
        BY <1>0, <3>2 DEF Nodes
      <4> HIDE DEF PopFree, QueueInv
      <4>2. QED
        BY <2>0, <3>2, <4>1
    <3>4. \A i \in DOMAIN popped : popped[i] <= Newest /\ popped[i] < res
      BY DEF Ordered
    <3>5. \A i, j \in DOMAIN popped' : i < j => popped'[i] < popped'[j]
      <4> SUFFICES ASSUME NEW i \in DOMAIN popped', NEW j \in DOMAIN popped', i < j
          PROVE  popped'[i] < popped'[j]
        OBVIOUS
      <4>1. i \in DOMAIN popped
        BY <3>3
      <4>2. CASE j \in DOMAIN popped
        BY <3>3, <4>1, <4>2 DEF Ordered
      <4>3. CASE j = Len(popped) + 1
        BY <3>3, <3>4, <4>1, <4>3
      <4>4. QED
        BY <3>3, <4>2, <4>3
    <3>6. \A i \in DOMAIN popped' : popped'[i] <= Newest'
      <4>1. res <= Newest
        BY <1>0 DEF Ordered, Control
      <4>2. QED
        BY <3>3, <3>4, <4>1
    <3>7. head' # NULL => \A i \in DOMAIN popped' : popped'[i] < head'
      <4>1. head # NULL => res < head /\ \A i \in DOMAIN popped : popped[i] < head
        BY DEF Ordered
      <4>2. QED
        BY <3>3, <4>1
    <3>8. {head, tail, res}' \subseteq 0..Newest' /\ (ppc' = "settail" => tail' < pushed')
          /\ (ppc' = "link" => ptail' \in 0..pushed' - 1)
      BY DEF Ordered
    <3>9. QED
      BY <3>1, <3>3, <3>5, <3>6, <3>7, <3>8 DEF Ordered
  <2>3. Counted'
    BY <1>0 DEF Counted, Control
  <2>4. QED
    BY <2>1, <2>2, <2>3
<1>9. QED
  BY <1>1, <1>2, <1>3, <1>4, <1>5, <1>6, <1>7, <1>8 DEF Pop

LEMMA QueueInvStep == QueueInv /\ [Next]_vars => QueueInv'
<1> SUFFICES ASSUME QueueInv, [Next]_vars PROVE QueueInv'
  OBVIOUS
<1>1. CASE Push
  BY <1>1, PushKeeps
<1>2. CASE Pop
  BY <1>2, PopKeeps
<1>3. CASE UNCHANGED vars
  <2>1. Control'
    BY <1>3 DEF vars, list, push, pop, QueueInv, Control
  <2>2. Ordered'
    BY <1>3 DEF vars, list, push, pop, QueueInv, Ordered, Newest, Unlinked, Holding, Past
  <2>3. Counted'
    BY <1>3 DEF vars, list, push, pop, QueueInv, Counted
  <2>4. QED
    BY <2>1, <2>2, <2>3 DEF QueueInv
<1>4. QED
  BY <1>1, <1>2, <1>3 DEF Next, Step

LEMMA QueueInvAlways == Spec => []QueueInv
  BY QueueInvInit, QueueInvStep, PTL DEF Spec

(* Whatever the missing lock of atm_queue_pop does to the list, a task is  *)
(* run at most once, the tasks of a worker run in the order they were      *)
(* pushed, and the size does not wrap (atm_queue.c:113).                   *)
THEOREM PopsAlwaysInOrder == Spec => []PopsInOrder
<1>1. QueueInv => PopsInOrder
  <2> SUFFICES ASSUME QueueInv PROVE PopsInOrder
    OBVIOUS
  <2>1. MaxPush \in Nat \ {0} /\ Newest \in Nat /\ Newest <= MaxPush
    BY QueueAssumption DEF QueueInv, Control, Newest, Unlinked
  <2>2. {head, tail, ptail, res} \subseteq Nodes \cup {NULL} /\ next \in [Nodes -> Nodes \cup {NULL}]
    BY <2>1, SMTT(30) DEF QueueInv, Control, Ordered, Nodes, NULL
  <2>3. TypeOK
    BY <2>1, <2>2 DEF QueueInv, Control, Ordered, Counted, TypeOK
  <2>4. QED
    BY <2>3 DEF QueueInv, Ordered, PopsInOrder
<1>2. QED
  BY <1>1, QueueInvAlways, PTL

-----------------------------------------------------------------------------
(* The list while no push has met the pop of the last entry.  Lo is the    *)
(* first entry not popped, Front the one the head should point to, Back    *)
(* the last one the tail has been told of.                                 *)
Lo == Len(popped) + 1
Front == IF Past THEN Lo + 1 ELSE Lo
Back == IF ppc = "settail" THEN pushed - 1 ELSE Newest

Harmless ==
    /\ crash = "no"
    /\ freed = 1..Len(popped)
    /\ Holding => res = Lo /\ Lo <= Newest
    /\ Front <= Newest + 1
    /\ ppc = "settail" => Front <= pushed
    /\ head = IF Front > Newest THEN NULL ELSE Front
    /\ \A n \in Nodes : n >= Front /\ n < Newest => next[n] = n + 1
    /\ \A n \in Nodes : n >= Newest => next[n] = NULL
    /\ tail = IF Back >= Front \/ (cpc \in {"tail", "cleartail"} /\ Back = Lo) THEN Back ELSE NULL
    /\ cpc = "cleartail" => tail = res
    /\ ppc \in {"head", "first"} => tail = NULL
    /\ ppc = "link" => ptail = tail /\ tail # NULL

HarmInv == (Overlap => raced) /\ (~ raced => Harmless)

LEMMA HarmInvInit == Init => HarmInv
<1> SUFFICES ASSUME Init PROVE HarmInv
  OBVIOUS
<1>0. MaxPush \in Nat \ {0}
  BY QueueAssumption
<1>1. ~ Overlap
  BY DEF Init, Overlap
<1>2. Len(popped) = 0 /\ Lo = 1 /\ Front = 1 /\ Newest = 0 /\ Back = 0
  BY DEF Init, Lo, Front, Newest, Back, Past, Unlinked
<1>3. Harmless
  BY <1>0, <1>2 DEF Init, Harmless, Holding, NULL, Nodes
<1>4. QED
  BY <1>1, <1>3 DEF HarmInv

(* Facts every step uses.                                                  *)
LEMMA HarmFacts ==
  ASSUME QueueInv
  PROVE  /\ MaxPush \in Nat \ {0} /\ pushed \in Nat /\ pushed <= MaxPush
         /\ Len(popped) \in Nat /\ Newest \in Nat /\ Nodes = 1..MaxPush
         /\ (ppc # "idle" => pushed >= 1)
  BY QueueAssumption DEF QueueInv, Control, Ordered, Newest, Unlinked, Nodes

LEMMA PushHarmless ==
  ASSUME QueueInv, Harmless, ~ Overlap, ~ Overlap', Push
  PROVE  Harmless'
<1>0. /\ MaxPush \in Nat \ {0} /\ pushed \in Nat /\ pushed <= MaxPush
      /\ Len(popped) \in Nat /\ Newest \in Nat /\ Nodes = 1..MaxPush
      /\ (ppc # "idle" => pushed >= 1)
  BY HarmFacts
<1> USE DEF Newest, Unlinked, Holding, Past, Lo, Front, Back, NULL
<1>1. CASE PushLock
  BY <1>0, <1>1 DEF PushLock, Harmless, list, pop, Overlap
<1>2. CASE PushReadTail
  BY <1>0, <1>2 DEF PushReadTail, Harmless, list, pop, Overlap
<1>3. CASE PushReadHead
  BY <1>0, <1>3 DEF PushReadHead, Harmless, list, pop, Overlap
<1>4. CASE PushFirst
  BY <1>0, <1>4 DEF PushFirst, Harmless, list, pop, Overlap
<1>5. CASE PushLink
  <2>1. /\ ppc = "link" /\ ptail = tail /\ tail # NULL /\ tail = pushed - 1
        /\ Front <= pushed - 1
    <3>1. ppc = "link"
      BY <1>5 DEF PushLink
    <3>2. ptail = tail /\ tail # NULL
      BY <3>1 DEF Harmless
    <3>3. tail = IF Back >= Front \/ (cpc \in {"tail", "cleartail"} /\ Back = Lo) THEN Back ELSE NULL
      BY DEF Harmless
    <3>4. Back = pushed - 1
      BY <3>1
    <3>5. ~ (cpc \in {"tail", "cleartail"} /\ Back = Lo)
      BY <3>1, <3>4 DEF Harmless, Overlap
    <3>6. Back >= Front
      BY <3>2, <3>3, <3>5
    <3>7. QED
      BY <1>0, <3>1, <3>2, <3>3, <3>4, <3>6
  <2>2. tail \in Nodes /\ tail \notin freed
    BY <1>0, <2>1 DEF Harmless
  <2>3. /\ crash' = crash /\ ppc' = "settail" /\ next' = [next EXCEPT ![pushed - 1] = pushed]
        /\ UNCHANGED <<head, tail, qlock, ptail, pushed, popped, freed, cpc, res>>
    BY <1>5, <2>1, <2>2 DEF PushLink, pop
  <2>4. next \in [Nodes -> 0..Newest] /\ pushed - 1 \in Nodes
    BY <2>1, <2>2 DEF QueueInv, Ordered
  <2>5. \A n \in Nodes : next'[n] = IF n = pushed - 1 THEN pushed ELSE next[n]
    BY <2>3, <2>4
  <2>6. /\ \A n \in Nodes : n >= Front' /\ n < Newest' => next'[n] = n + 1
        /\ \A n \in Nodes : n >= Newest' => next'[n] = NULL
    BY <1>0, <2>1, <2>3, <2>5 DEF Harmless
  <2>7. QED
    BY <1>0, <2>1, <2>3, <2>6 DEF Harmless, Overlap
<1>6. CASE PushSetTail
  BY <1>0, <1>6 DEF PushSetTail, Harmless, list, pop, Overlap
<1>7. CASE PushReadSize
  BY <1>0, <1>7 DEF PushReadSize, Harmless, list, pop, Overlap
<1>8. CASE PushUnlock
  BY <1>0, <1>8 DEF PushUnlock, Harmless, list, pop, Overlap
<1>9. QED
  BY <1>1, <1>2, <1>3, <1>4, <1>5, <1>6, <1>7, <1>8 DEF Push

LEMMA PopHarmless ==
  ASSUME QueueInv, Harmless, ~ Overlap, ~ Overlap', Pop
  PROVE  Harmless'
<1>0. /\ MaxPush \in Nat \ {0} /\ pushed \in Nat /\ pushed <= MaxPush
      /\ Len(popped) \in Nat /\ Newest \in Nat /\ Nodes = 1..MaxPush
      /\ (ppc # "idle" => pushed >= 1)
  BY HarmFacts
<1> USE DEF Newest, Unlinked, Holding, Past, Lo, Front, Back, NULL
<1>1. CASE NonemptyWait
  BY <1>0, <1>1 DEF NonemptyWait, Harmless, list, push, Overlap
<1>2. CASE PopReadHead
  BY <1>0, <1>2 DEF PopReadHead, Harmless, list, push, Overlap
<1>3. CASE PopNext
  BY <1>0, <1>3 DEF PopNext, Harmless, list, push, Overlap
<1>4. CASE PopReadTail
  BY <1>0, <1>4 DEF PopReadTail, Harmless, list, push, Overlap
<1>5. CASE PopClearTail
  BY <1>0, <1>5 DEF PopClearTail, Harmless, list, push, Overlap
<1>6. CASE PopReadSize
  BY <1>0, <1>6 DEF PopReadSize, Harmless, list, push, Overlap
<1>7. CASE PopWriteSize
  BY <1>0, <1>7 DEF PopWriteSize, Harmless, list, push, Overlap
<1>8. CASE PopFree
  BY <1>0, <1>8 DEF PopFree, Harmless, list, push, Overlap
<1>9. QED
  BY <1>1, <1>2, <1>3, <1>4, <1>5, <1>6, <1>7, <1>8 DEF Pop

LEMMA HarmInvStep == QueueInv /\ HarmInv /\ [Next]_vars => HarmInv'
<1> SUFFICES ASSUME QueueInv, HarmInv, [Next]_vars PROVE HarmInv'
  OBVIOUS
<1>1. CASE Next
  <2>1. raced' = (raced \/ Overlap') /\ (Push \/ Pop)
    BY <1>1 DEF Next, Step
  <2>2. Overlap' => raced'
    BY <2>1
  <2>3. ASSUME ~ raced' PROVE Harmless'
    <3>1. ~ Overlap' /\ ~ Overlap /\ Harmless
      BY <2>1, <2>3 DEF HarmInv
    <3>2. QED
      BY <2>1, <3>1, PushHarmless, PopHarmless
  <2>4. QED
    BY <2>2, <2>3 DEF HarmInv
<1>2. CASE UNCHANGED vars
  BY <1>2 DEF vars, list, push, pop, HarmInv, Harmless, Overlap, Lo, Front, Back, Newest, Unlinked, Holding, Past
<1>3. QED
  BY <1>1, <1>2

(* The missing lock of atm_queue_pop does harm to the pointers only where  *)
(* a push runs while the last entry is being popped: until then the list   *)
(* is the entries pushed and not popped, and no freed entry is used        *)
(* (atm_queue.c:155, atm_list.c:109-115, 205-218).                         *)
THEOREM HarmAlwaysAtLastEntry == Spec => []HarmOnlyAtLastEntry
<1>1. QueueInv /\ HarmInv => HarmOnlyAtLastEntry
  <2> SUFFICES ASSUME QueueInv, HarmInv, ~ raced
      PROVE  crash = "no" /\ (Between => Linked)
    BY DEF HarmOnlyAtLastEntry
  <2>0. /\ MaxPush \in Nat \ {0} /\ pushed \in Nat /\ pushed <= MaxPush
        /\ Len(popped) \in Nat /\ Newest \in Nat /\ Nodes = 1..MaxPush
    BY HarmFacts
  <2>1. Harmless
    BY DEF HarmInv
  <2>2. ASSUME ppc = "idle", cpc = "call" PROVE Linked
    BY <2>0, <2>1, <2>2 DEF Harmless, Linked, Lo, Front, Back, Newest, Unlinked, Past, NULL
  <2>3. QED
    BY <2>1, <2>2 DEF Harmless, Between
<1>2. QED
  BY <1>1, QueueInvAlways, HarmInvInit, HarmInvStep, PTL DEF Spec

-----------------------------------------------------------------------------
(* The size while no two updates of it have met: a push counts its entry   *)
(* when it ends, a pop the one it took before it returns it.               *)
Sized ==
    /\ size = pushed - Len(popped) - (IF ppc = "idle" THEN 0 ELSE 1)
                                   - (IF cpc = "free" THEN 1 ELSE 0)
    /\ ppc = "sizestore" => psize = size
    /\ cpc = "sizestore" => csize = size

SizeInv == (SizeOverlap => miscounted) /\ (~ miscounted => Sized)

LEMMA SizeInvInit == Init => SizeInv
<1> SUFFICES ASSUME Init PROVE SizeInv
  OBVIOUS
<1>1. ~ SizeOverlap
  BY DEF Init, SizeOverlap
<1>2. size = 0 /\ pushed = 0 /\ Len(popped) = 0 /\ ppc = "idle" /\ cpc = "call"
  BY DEF Init
<1>3. QED
  BY <1>1, <1>2 DEF SizeInv, Sized

LEMMA PushSized ==
  ASSUME QueueInv, Sized, ~ SizeOverlap, Push
  PROVE  Sized'
<1>0. size \in Nat /\ psize \in Nat /\ pushed \in Nat /\ Len(popped) \in Nat
  BY QueueAssumption DEF QueueInv, Control, Counted, Ordered
<1>1. CASE PushLock
  BY <1>0, <1>1 DEF PushLock, Sized, list, pop
<1>2. CASE PushReadTail
  BY <1>0, <1>2 DEF PushReadTail, Sized, list, pop
<1>3. CASE PushReadHead
  BY <1>0, <1>3 DEF PushReadHead, Sized, list, pop
<1>4. CASE PushFirst
  BY <1>0, <1>4 DEF PushFirst, Sized, pop
<1>5. CASE PushLink
  BY <1>0, <1>5 DEF PushLink, Sized, pop
<1>6. CASE PushSetTail
  BY <1>0, <1>6 DEF PushSetTail, Sized, pop
<1>7. CASE PushReadSize
  BY <1>0, <1>7 DEF PushReadSize, Sized, list, pop
<1>8. CASE PushUnlock
  BY <1>0, <1>8 DEF PushUnlock, Sized, SizeOverlap, pop
<1>9. QED
  BY <1>1, <1>2, <1>3, <1>4, <1>5, <1>6, <1>7, <1>8 DEF Push

LEMMA PopSized ==
  ASSUME QueueInv, Sized, ~ SizeOverlap, Pop
  PROVE  Sized'
<1>0. /\ size \in Nat /\ csize \in Nat /\ pushed \in Nat /\ Len(popped) \in Nat
      /\ cpc = "sizestore" => csize # 0
  BY QueueAssumption DEF QueueInv, Control, Counted, Ordered
<1>1. CASE NonemptyWait
  BY <1>0, <1>1 DEF NonemptyWait, Sized, list, push
<1>2. CASE PopReadHead
  BY <1>0, <1>2 DEF PopReadHead, Sized, list, push
<1>3. CASE PopNext
  BY <1>0, <1>3 DEF PopNext, Sized, push
<1>4. CASE PopReadTail
  BY <1>0, <1>4 DEF PopReadTail, Sized, list, push
<1>5. CASE PopClearTail
  BY <1>0, <1>5 DEF PopClearTail, Sized, push
<1>6. CASE PopReadSize
  BY <1>0, <1>6 DEF PopReadSize, Sized, list, push
<1>7. CASE PopWriteSize
  BY <1>0, <1>7 DEF PopWriteSize, Sized, SizeOverlap, push
<1>8. CASE PopFree
  <2>1. Len(popped') = Len(popped) + 1
    BY <1>8 DEF PopFree, QueueInv, Ordered
  <2>2. QED
    BY <1>0, <1>8, <2>1 DEF PopFree, Sized, push
<1>9. QED
  BY <1>1, <1>2, <1>3, <1>4, <1>5, <1>6, <1>7, <1>8 DEF Pop

LEMMA SizeInvStep == QueueInv /\ SizeInv /\ [Next]_vars => SizeInv'
<1> SUFFICES ASSUME QueueInv, SizeInv, [Next]_vars PROVE SizeInv'
  OBVIOUS
<1>1. CASE Next
  <2>1. miscounted' = (miscounted \/ SizeOverlap') /\ (Push \/ Pop)
    BY <1>1 DEF Next, Step
  <2>2. ASSUME ~ miscounted' PROVE Sized'
    <3>1. ~ SizeOverlap /\ Sized
      BY <2>1, <2>2 DEF SizeInv
    <3>2. QED
      BY <2>1, <3>1, PushSized, PopSized
  <2>3. QED
    BY <2>1, <2>2 DEF SizeInv
<1>2. CASE UNCHANGED vars
  BY <1>2 DEF vars, list, push, pop, SizeInv, Sized, SizeOverlap
<1>3. QED
  BY <1>1, <1>2

(* The missing lock of atm_queue_pop does harm to size only where a push   *)
(* and a pop have both read it before either has written it: until then it *)
(* is the number of entries pushed and not popped (atm_list.c:116, 220).   *)
THEOREM SizeAlwaysCounts == Spec => []SizeCounts
<1>1. QueueInv /\ SizeInv => SizeCounts
  <2> SUFFICES ASSUME QueueInv, SizeInv, ~ miscounted, Between
      PROVE  size = pushed - Len(popped)
    BY DEF SizeCounts
  <2>1. size \in Nat /\ pushed \in Nat /\ Len(popped) \in Nat
    BY DEF QueueInv, Control, Counted, Ordered
  <2>2. QED
    BY <2>1 DEF SizeInv, Sized, Between
<1>2. QED
  BY <1>1, QueueInvAlways, SizeInvInit, SizeInvStep, PTL DEF Spec

(* As long as neither race has happened, a worker about to wait finds size *)
(* zero only when no entry is linked (atm_queue.c:33).                     *)
THEOREM WaitsOnlyWhenEmpty ==
  Spec => [](~ raced /\ ~ miscounted /\ Between => (size = 0 <=> head = NULL))
<1>1. QueueInv /\ HarmOnlyAtLastEntry /\ SizeCounts =>
        (~ raced /\ ~ miscounted /\ Between => (size = 0 <=> head = NULL))
  <2> SUFFICES ASSUME QueueInv, HarmOnlyAtLastEntry, SizeCounts, ~ raced, ~ miscounted, Between
      PROVE  size = 0 <=> head = NULL
    OBVIOUS
  <2>1. /\ size \in Nat /\ pushed \in Nat /\ Len(popped) \in Nat
        /\ size = pushed - Len(popped) /\ Linked
    BY DEF QueueInv, Control, Counted, Ordered, HarmOnlyAtLastEntry, SizeCounts
  <2>2. CASE pushed < Len(popped) + 1
    BY <2>1, <2>2 DEF Linked, NULL
  <2>3. CASE ~ (pushed < Len(popped) + 1)
    BY <2>1, <2>3 DEF Linked, NULL
  <2>4. QED
    BY <2>2, <2>3
<1>2. QED
  BY <1>1, QueueInvAlways, HarmAlwaysAtLastEntry, SizeAlwaysCounts, PTL
=============================================================================
