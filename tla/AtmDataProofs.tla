---------------------------- MODULE AtmDataProofs ---------------------------
(***************************************************************************)
(* Proofs about the data structures: the array of core/atm_arr.c, for      *)
(* every sequence of calls, every initial size from six on and whatever    *)
(* the slots hold; the strings of core/atm_str.c, for texts of any length; *)
(* the list of core/atm_list.c and its iterator, for any number of entries *)
(* and any values, down to the deque it implements.                        *)
(***************************************************************************)
EXTENDS AtmArrCalls, AtmStr, AtmList, SequenceTheorems, WellFoundedInduction, TLAPS

(* An array whose fields have their types and whose slots are its capacity.*)
ArrType(a) ==
    a \in [vals : [Slots(a.capacity) -> Word], capacity : Nat, length : Nat]

(* What keeps room: the capacity was enough for the last call of           *)
(* atm_arr_add, which asks for two thirds of it.                           *)
Room(a) ==
    /\ a.capacity >= InitialLen
    /\ a.length >= 1 => ((a.length - 1) * 3) \div 2 + 1 <= a.capacity

(* Room is two free slots.                                                 *)
LEMMA RoomIsTwo ==
  ASSUME NEW a, ArrType(a), Room(a)
  PROVE  a.length + 2 <= a.capacity
<1>1. a.capacity \in Nat /\ a.length \in Nat /\ InitialLen \in Nat /\ InitialLen >= 6
  BY ArrAssumption DEF ArrType
<1>2. CASE a.length <= 4
  BY <1>1, <1>2 DEF Room
<1>3. CASE a.length >= 5
  <2> DEFINE n == (a.length - 1) * 3
  <2>1. n \in Nat /\ 2 * (n \div 2) >= n - 1 /\ n \div 2 \in Nat
    BY <1>1, <1>3
  <2>2. n \div 2 + 1 <= a.capacity
    BY <1>1, <1>3 DEF Room
  <2>3. n = 3 * a.length - 3
    BY <1>1
  <2>4. 2 * a.capacity >= 3 * a.length - 2
    BY <1>1, <2>1, <2>2, <2>3
  <2>5. QED
    BY <1>1, <1>3, <2>4
<1>4. QED
  BY <1>1, <1>2, <1>3

(* Doubling keeps the slots and the length.                                *)
LEMMA DoubledType ==
  ASSUME NEW a, ArrType(a), a.capacity >= InitialLen
  PROVE  /\ ArrType(Doubled(a))
         /\ Doubled(a).capacity = 2 * a.capacity
         /\ Doubled(a).length = a.length
         /\ \A i \in Slots(2 * a.capacity) :
               Doubled(a).vals[i] = IF i < a.capacity THEN a.vals[i] ELSE Zero
<1>1. a.capacity \in Nat /\ a.length \in Nat /\ a.vals \in [Slots(a.capacity) -> Word] /\ Zero \in Word
  BY ArrAssumption DEF ArrType
<1> DEFINE twice == [i \in Slots(2 * a.capacity) |-> IF i < a.capacity THEN a.vals[i] ELSE Zero]
<1>2. twice \in [Slots(2 * a.capacity) -> Word]
  BY <1>1 DEF Slots
<1>3. Doubled(a) = [vals |-> twice, capacity |-> 2 * a.capacity, length |-> a.length]
  BY DEF Doubled
<1>4. 2 * a.capacity \in Nat
  BY <1>1
<1> HIDE DEF twice
<1>5. ArrType(Doubled(a)) /\ Doubled(a).capacity = 2 * a.capacity /\ Doubled(a).length = a.length
  BY <1>1, <1>2, <1>3, <1>4 DEF ArrType
<1>6. QED
  BY <1>3, <1>5 DEF twice

(* atm_arr_add keeps an array an array with room, and writes one slot.     *)
LEMMA AddKeeps ==
  ASSUME NEW a, ArrType(a), Room(a), NEW v \in Word
  PROVE  /\ ArrType(ArrAdd(a, v)) /\ Room(ArrAdd(a, v))
         /\ ArrAdd(a, v).length = a.length + 1
         /\ ArrAdd(a, v).capacity >= a.capacity
         /\ \A i \in Slots(ArrAdd(a, v).capacity) :
               ArrAdd(a, v).vals[i] = IF i = a.length THEN v
                                      ELSE IF i < a.capacity THEN a.vals[i] ELSE Zero
<1> DEFINE b == IF MustGrow(a) THEN Doubled(a) ELSE a
           c == [vals |-> [b.vals EXCEPT ![b.length] = v],
                 capacity |-> b.capacity, length |-> b.length + 1]
<1>0. /\ a.capacity \in Nat /\ a.length \in Nat /\ a.capacity >= InitialLen
      /\ InitialLen \in Nat /\ InitialLen >= 6 /\ a.length + 2 <= a.capacity
  BY ArrAssumption, RoomIsTwo DEF ArrType, Room
<1>1. /\ ArrType(b) /\ b.length = a.length /\ b.capacity \in {a.capacity, 2 * a.capacity}
      /\ \A i \in Slots(b.capacity) : b.vals[i] = IF i < a.capacity THEN a.vals[i] ELSE Zero
  <2>1. CASE MustGrow(a)
    BY <1>0, <2>1, DoubledType
  <2>2. CASE ~ MustGrow(a)
    BY <1>0, <2>2 DEF Slots
  <2>3. QED
    BY <2>1, <2>2
<1>2. (a.length * 3) \div 2 + 1 <= b.capacity
  <2> DEFINE n == a.length * 3
  <2>1. CASE MustGrow(a)
    <3>1. n \in Nat /\ 2 * (n \div 2) <= n /\ n \div 2 \in Nat
      BY <1>0
    <3>2. b.capacity = 2 * a.capacity
      BY <1>0, <2>1, DoubledType
    <3>3. n \div 2 + 1 <= 2 * a.capacity
      BY <1>0, <3>1
    <3>4. QED
      BY <3>2, <3>3
  <2>2. CASE ~ MustGrow(a)
    <3>1. n \in Nat /\ n \div 2 \in Nat
      BY <1>0
    <3>2. QED
      BY <1>0, <2>2, <3>1 DEF MustGrow
  <2>3. QED
    BY <2>1, <2>2
<1>3. ArrAdd(a, v) = c
  BY DEF ArrAdd
<1> HIDE DEF b
<1>4. c.vals \in [Slots(c.capacity) -> Word] /\ c.capacity \in Nat /\ c.length \in Nat
  <2>1. b.vals \in [Slots(b.capacity) -> Word] /\ b.capacity \in Nat /\ b.length \in Nat
    BY <1>1 DEF ArrType
  <2>2. [b.vals EXCEPT ![b.length] = v] \in [Slots(b.capacity) -> Word]
    BY <2>1
  <2>3. c.vals = [b.vals EXCEPT ![b.length] = v] /\ c.capacity = b.capacity /\ c.length = b.length + 1
    OBVIOUS
  <2> HIDE DEF c
  <2>4. QED
    BY <2>1, <2>2, <2>3
<1>5. ArrType(c)
  BY <1>4 DEF ArrType
<1>6. Room(c)
  <2>1. c.length - 1 = a.length /\ c.capacity = b.capacity /\ b.capacity >= InitialLen
    BY <1>0, <1>1
  <2>2. QED
    BY <1>2, <2>1 DEF Room
<1>7. \A i \in Slots(c.capacity) :
         c.vals[i] = IF i = a.length THEN v ELSE IF i < a.capacity THEN a.vals[i] ELSE Zero
  BY <1>0, <1>1, <1>4 DEF ArrType
<1>8. c.length = a.length + 1 /\ c.capacity >= a.capacity
  BY <1>0, <1>1
<1>9. QED
  BY <1>3, <1>5, <1>6, <1>7, <1>8

(* atm_arr_set writes a slot in use and nothing else.                      *)
LEMMA SetKeeps ==
  ASSUME NEW a, ArrType(a), Room(a), NEW i \in Nat, i < a.length, NEW v \in Word
  PROVE  /\ ArrType(ArrSet(a, i, v)) /\ Room(ArrSet(a, i, v))
         /\ ArrSet(a, i, v).length = a.length
         /\ ArrSet(a, i, v).capacity = a.capacity
         /\ \A j \in Slots(a.capacity) :
               ArrSet(a, i, v).vals[j] = IF j = i THEN v ELSE a.vals[j]
<1> DEFINE c == ArrSet(a, i, v)
<1>1. c = [a EXCEPT !.vals = [@ EXCEPT ![i] = v]]
  BY DEF ArrSet, HasSlot
<1>2. /\ a \in [vals : [Slots(a.capacity) -> Word], capacity : Nat, length : Nat]
      /\ a.vals \in [Slots(a.capacity) -> Word] /\ a.capacity \in Nat /\ a.length \in Nat
  BY DEF ArrType
<1>3. [a.vals EXCEPT ![i] = v] \in [Slots(a.capacity) -> Word]
  BY <1>2
<1> HIDE DEF c
<1>4. c.vals = [a.vals EXCEPT ![i] = v] /\ c.capacity = a.capacity /\ c.length = a.length
  BY <1>1, <1>2
<1>5. c \in [vals : [Slots(a.capacity) -> Word], capacity : Nat, length : Nat]
  BY <1>1, <1>2, <1>3
<1>6. ArrType(c) /\ Room(c)
  BY <1>4, <1>5 DEF ArrType, Room
<1>7. \A j \in Slots(a.capacity) : c.vals[j] = IF j = i THEN v ELSE a.vals[j]
  BY <1>2, <1>4
<1>8. QED
  BY <1>4, <1>6, <1>7 DEF c

(* atm_arr_del closes the gap, and may halve the array, with room left.    *)
LEMMA DelKeeps ==
  ASSUME NEW a, ArrType(a), Room(a), NEW i \in Nat, i < a.length
  PROVE  /\ ArrType(ArrDel(a, i)) /\ Room(ArrDel(a, i))
         /\ ArrDel(a, i).length = a.length - 1
         /\ \A j \in Slots(ArrDel(a, i).capacity) :
               /\ j \in Slots(a.capacity)
               /\ ArrDel(a, i).vals[j] =
                     IF j < i THEN a.vals[j]
                     ELSE IF j < a.length - 1 THEN a.vals[j + 1] ELSE Zero
<1> DEFINE cap == DelCapacity(a)
           fresh == [j \in Slots(cap) |-> IF j < i THEN a.vals[j]
                                          ELSE IF j < a.length - 1 THEN a.vals[j + 1] ELSE Zero]
           c == ArrDel(a, i)
<1>1. c = [vals |-> fresh, capacity |-> cap, length |-> a.length - 1]
  BY DEF ArrDel, HasSlot
<1>2. /\ a.vals \in [Slots(a.capacity) -> Word] /\ a.capacity \in Nat /\ a.length \in Nat
      /\ InitialLen \in Nat /\ InitialLen >= 6 /\ Zero \in Word
      /\ a.capacity >= InitialLen /\ a.length + 2 <= a.capacity
  BY ArrAssumption, RoomIsTwo DEF ArrType, Room
<1>3. cap \in Nat /\ cap >= InitialLen /\ cap <= a.capacity
  BY <1>2 DEF DelCapacity
<1>4. a.length - 1 >= 1 => ((a.length - 2) * 3) \div 2 + 1 <= cap
  <2> SUFFICES ASSUME a.length >= 2
      PROVE  ((a.length - 2) * 3) \div 2 + 1 <= cap
    BY <1>2
  <2> DEFINE n == (a.length - 2) * 3
  <2>0. n \in Nat /\ n \div 2 \in Nat /\ 2 * (n \div 2) <= n /\ n = 3 * a.length - 6
    BY <1>2
  <2>1. CASE a.length * 4 < a.capacity /\ 2 * InitialLen <= a.capacity
    <3>1. cap = a.capacity \div 2
      BY <2>1 DEF DelCapacity
    <3>2. 2 * (a.capacity \div 2) >= a.capacity - 1 /\ a.capacity \div 2 \in Nat
      BY <1>2
    <3> HIDE DEF n, cap
    <3>3. n \div 2 + 1 <= cap
      BY <1>2, <2>0, <2>1, <3>1, <3>2
    <3>4. QED
      BY <3>3 DEF n
  <2>2. CASE ~ (a.length * 4 < a.capacity /\ 2 * InitialLen <= a.capacity)
    <3>1. cap = a.capacity
      BY <2>2 DEF DelCapacity
    <3>2. ((a.length - 1) * 3) \div 2 + 1 <= a.capacity
      BY <1>2 DEF Room
    <3> DEFINE m == (a.length - 1) * 3
    <3>3. m \in Nat /\ m \div 2 \in Nat /\ 2 * (m \div 2) >= m - 1 /\ m = 3 * a.length - 3
      BY <1>2
    <3> HIDE DEF n, m, cap
    <3>4. m \div 2 + 1 <= a.capacity
      BY <3>2 DEF m
    <3>5. n \div 2 + 1 <= cap
      BY <1>2, <2>0, <3>1, <3>3, <3>4
    <3>6. QED
      BY <3>5 DEF n
  <2>3. QED
    BY <2>1, <2>2
<1>5. fresh \in [Slots(cap) -> Word]
  <2> SUFFICES ASSUME NEW j \in Slots(cap)
      PROVE  (IF j < i THEN a.vals[j]
              ELSE IF j < a.length - 1 THEN a.vals[j + 1] ELSE Zero) \in Word
    OBVIOUS
  <2> HIDE DEF cap
  <2>1. j \in Slots(a.capacity) /\ (j < a.length - 1 => j + 1 \in Slots(a.capacity))
    BY <1>2, <1>3 DEF Slots
  <2>2. QED
    BY <1>2, <2>1
<1> HIDE DEF fresh, cap, c
<1>6. c.vals = fresh /\ c.capacity = cap /\ c.length = a.length - 1
  BY <1>1
<1>7. ArrType(c)
  BY <1>1, <1>2, <1>3, <1>5, <1>6 DEF ArrType
<1>8. Room(c)
  <2>1. c.length - 1 = a.length - 2 /\ (c.length >= 1 => a.length - 1 >= 1)
    BY <1>2, <1>6
  <2>2. QED
    BY <1>3, <1>4, <1>6, <2>1 DEF Room
<1>9. \A j \in Slots(cap) :
        /\ j \in Slots(a.capacity)
        /\ fresh[j] = IF j < i THEN a.vals[j]
                      ELSE IF j < a.length - 1 THEN a.vals[j + 1] ELSE Zero
  BY <1>2, <1>3 DEF fresh, Slots
<1>10. QED
  BY <1>6, <1>7, <1>8, <1>9 DEF c

-----------------------------------------------------------------------------
(* What the removal of one element does to a sequence.                     *)
LEMMA RemoveAtProps ==
  ASSUME NEW S, NEW s \in Seq(S), NEW k \in 1 .. Len(s)
  PROVE  /\ RemoveAt(s, k) \in Seq(S)
         /\ Len(RemoveAt(s, k)) = Len(s) - 1
         /\ \A j \in 1 .. Len(s) - 1 :
               RemoveAt(s, k)[j] = IF j < k THEN s[j] ELSE s[j + 1]
<1> DEFINE left == SubSeq(s, 1, k - 1)
           right == SubSeq(s, k + 1, Len(s))
<1>1. Len(s) \in Nat /\ \A j \in 1 .. Len(s) : s[j] \in S
  OBVIOUS
<1>2. /\ left \in Seq(S) /\ Len(left) = k - 1
      /\ \A j \in 1 .. k - 1 : left[j] = s[j]
  <2>1. \A j \in 1 .. k - 1 : s[j] \in S
    BY <1>1
  <2>2. /\ left \in Seq(S)
        /\ Len(left) = IF 1 <= k - 1 THEN (k - 1) - 1 + 1 ELSE 0
        /\ \A j \in 1 .. (k - 1) - 1 + 1 : left[j] = s[1 + j - 1]
    BY <1>1, <2>1, SubSeqProperties
  <2> HIDE DEF left
  <2>3. QED
    BY <1>1, <2>2
<1>3. /\ right \in Seq(S) /\ Len(right) = Len(s) - k
      /\ \A j \in 1 .. Len(s) - k : right[j] = s[k + j]
  <2>1. \A j \in k + 1 .. Len(s) : s[j] \in S
    BY <1>1
  <2>2. /\ right \in Seq(S)
        /\ Len(right) = IF k + 1 <= Len(s) THEN Len(s) - (k + 1) + 1 ELSE 0
        /\ \A j \in 1 .. Len(s) - (k + 1) + 1 : right[j] = s[(k + 1) + j - 1]
    BY <1>1, <2>1, SubSeqProperties
  <2> HIDE DEF right
  <2>3. QED
    BY <1>1, <2>2
<1>4. RemoveAt(s, k) = left \o right
  BY DEF RemoveAt
<1> HIDE DEF left, right
<1>5. /\ left \o right \in Seq(S) /\ Len(left \o right) = Len(left) + Len(right)
      /\ \A j \in 1 .. Len(left) + Len(right) :
            (left \o right)[j] = IF j <= Len(left) THEN left[j] ELSE right[j - Len(left)]
  BY <1>2, <1>3, ConcatProperties
<1>6. Len(left) + Len(right) = Len(s) - 1
  BY <1>1, <1>2, <1>3
<1>7. ASSUME NEW j \in 1 .. Len(s) - 1
      PROVE  (left \o right)[j] = IF j < k THEN s[j] ELSE s[j + 1]
  <2>1. (left \o right)[j] = IF j <= k - 1 THEN left[j] ELSE right[j - (k - 1)]
    BY <1>2, <1>5, <1>6
  <2>2. CASE j < k
    BY <1>1, <1>2, <2>1, <2>2
  <2>3. CASE j >= k
    <3>1. j - (k - 1) \in 1 .. Len(s) - k /\ k + (j - (k - 1)) = j + 1 /\ ~ (j <= k - 1) /\ ~ (j < k)
      BY <1>1, <2>3
    <3>2. right[j - (k - 1)] = s[k + (j - (k - 1))]
      BY <1>3, <3>1
    <3>3. QED
      BY <2>1, <3>1, <3>2
  <2>4. j < k \/ j >= k
    BY <1>1
  <2>5. QED
    BY <2>2, <2>3, <2>4, Zenon
<1>8. QED
  BY <1>4, <1>5, <1>6, <1>7

(* The inductive invariant: an array with room that holds the sequence.    *)
ArrInv ==
    /\ ArrType(arr)
    /\ Room(arr)
    /\ ref \in Seq(Word)
    /\ ArrHolds

LEMMA ArrInvInit == ArrInit => ArrInv
<1> SUFFICES ASSUME ArrInit PROVE ArrInv
  OBVIOUS
<1>1. /\ arr.vals = [i \in Slots(InitialLen) |-> Zero]
      /\ arr.capacity = InitialLen /\ arr.length = 0 /\ ref = <<>>
  BY DEF ArrInit, ArrNew
<1>2. InitialLen \in Nat /\ Zero \in Word
  BY ArrAssumption
<1>3. arr.vals \in [Slots(InitialLen) -> Word]
  BY <1>1, <1>2
<1>4. ArrType(arr)
  <2>1. arr = [vals |-> arr.vals, capacity |-> InitialLen, length |-> 0]
    BY <1>1 DEF ArrInit, ArrNew
  <2>2. QED
    BY <1>1, <1>2, <1>3, <2>1 DEF ArrType
<1>5. Room(arr) /\ ref \in Seq(Word)
  BY <1>1, <1>2 DEF Room
<1>6. ArrHolds
  BY <1>1, <1>2 DEF ArrHolds, Slots
<1>7. QED
  BY <1>4, <1>5, <1>6 DEF ArrInv

LEMMA ArrInvAdd ==
  ASSUME ArrInv, NEW v \in Word, CallAdd(v)
  PROVE  ArrInv'
<1>1. /\ arr' = ArrAdd(arr, v) /\ ref' = Append(ref, v)
      /\ ArrType(arr) /\ Room(arr) /\ ref \in Seq(Word) /\ arr.length = Len(ref)
      /\ \A i \in Slots(arr.capacity) :
           arr.vals[i] = IF i < Len(ref) THEN ref[i + 1] ELSE Zero
  BY DEF CallAdd, ArrInv, ArrHolds
<1>2. /\ ArrType(arr') /\ Room(arr') /\ arr'.length = arr.length + 1
      /\ arr'.capacity >= arr.capacity
      /\ \A i \in Slots(arr'.capacity) :
            arr'.vals[i] = IF i = arr.length THEN v ELSE IF i < arr.capacity THEN arr.vals[i] ELSE Zero
  BY <1>1, AddKeeps
<1>3. /\ ref' \in Seq(Word) /\ Len(ref') = Len(ref) + 1 /\ Len(ref) \in Nat
      /\ \A k \in 1 .. Len(ref) + 1 : ref'[k] = IF k <= Len(ref) THEN ref[k] ELSE v
  BY <1>1
<1>4. /\ arr.capacity \in Nat /\ arr.length + 2 <= arr.capacity /\ arr'.capacity \in Nat
      /\ arr'.vals \in [Slots(arr'.capacity) -> Word]
  BY <1>1, <1>2, RoomIsTwo DEF ArrType
<1>5. ASSUME NEW i \in Slots(arr'.capacity)
      PROVE  arr'.vals[i] = IF i < Len(ref') THEN ref'[i + 1] ELSE Zero
  <2>0. i \in Nat
    BY <1>4 DEF Slots
  <2>1. CASE i < arr.length
    <3>1. i \in Slots(arr.capacity) /\ i # arr.length /\ i < arr.capacity
      BY <1>4, <2>0, <2>1, <1>1, <1>3 DEF Slots
    <3>2. arr'.vals[i] = ref[i + 1]
      BY <1>1, <1>2, <2>1, <3>1
    <3>3. i + 1 \in 1 .. Len(ref) + 1 /\ i + 1 <= Len(ref) /\ i < Len(ref')
      BY <1>1, <1>3, <2>0, <2>1
    <3>4. QED
      BY <1>3, <3>2, <3>3
  <2>2. CASE i = arr.length
    <3>1. i + 1 \in 1 .. Len(ref) + 1 /\ ~ (i + 1 <= Len(ref)) /\ i < Len(ref')
      BY <1>1, <1>3, <2>2
    <3>2. QED
      BY <1>2, <1>3, <2>2, <3>1
  <2>3. CASE i > arr.length
    <3>1. i # arr.length /\ ~ (i < Len(ref')) /\ ~ (i < Len(ref))
      BY <1>1, <1>3, <2>0, <2>3
    <3>2. i < arr.capacity => i \in Slots(arr.capacity)
      BY <1>4, <2>0 DEF Slots
    <3>3. QED
      BY <1>1, <1>2, <3>1, <3>2
  <2>4. QED
    BY <1>1, <1>3, <2>0, <2>1, <2>2, <2>3
<1>6. ArrHolds'
  BY <1>1, <1>2, <1>3, <1>4, <1>5 DEF ArrHolds
<1>7. QED
  BY <1>2, <1>3, <1>6 DEF ArrInv, ArrType, Room

LEMMA ArrInvSet ==
  ASSUME ArrInv, NEW i \in Nat, NEW v \in Word, CallSet(i, v)
  PROVE  ArrInv'
<1>1. /\ arr' = ArrSet(arr, i, v)
      /\ ref' = IF i < Len(ref) THEN [ref EXCEPT ![i + 1] = v] ELSE ref
      /\ ArrType(arr) /\ Room(arr) /\ ref \in Seq(Word) /\ arr.length = Len(ref)
      /\ DOMAIN arr.vals = Slots(arr.capacity)
      /\ \A j \in Slots(arr.capacity) :
           arr.vals[j] = IF j < Len(ref) THEN ref[j + 1] ELSE Zero
  BY DEF CallSet, ArrInv, ArrHolds
<1>2. CASE i >= Len(ref)
  <2>1. arr' = arr /\ ref' = ref
    BY <1>1, <1>2 DEF ArrSet, HasSlot
  <2>2. QED
    BY <2>1 DEF ArrInv, ArrType, Room, ArrHolds
<1>3. CASE i < Len(ref)
  <2>1. /\ ArrType(arr') /\ Room(arr') /\ arr'.length = arr.length
        /\ arr'.capacity = arr.capacity
        /\ \A j \in Slots(arr.capacity) : arr'.vals[j] = IF j = i THEN v ELSE arr.vals[j]
    BY <1>1, <1>3, SetKeeps
  <2>2. /\ ref' \in Seq(Word) /\ Len(ref') = Len(ref)
        /\ \A k \in 1 .. Len(ref) : ref'[k] = IF k = i + 1 THEN v ELSE ref[k]
    BY <1>1, <1>3
  <2>3. arr'.vals \in [Slots(arr'.capacity) -> Word] /\ arr.capacity \in Nat
    BY <1>1, <2>1 DEF ArrType
  <2>4. ASSUME NEW j \in Slots(arr.capacity)
        PROVE  arr'.vals[j] = IF j < Len(ref') THEN ref'[j + 1] ELSE Zero
    <3>1. j \in Nat /\ Len(ref) \in Nat
      BY <1>1, <2>3 DEF Slots
    <3>2. j < Len(ref) => j + 1 \in 1 .. Len(ref) /\ (j + 1 = i + 1 <=> j = i)
      BY <3>1
    <3>3. QED
      BY <1>1, <1>3, <2>1, <2>2, <3>1, <3>2
  <2>5. ArrHolds'
    BY <1>1, <2>1, <2>2, <2>3, <2>4 DEF ArrHolds
  <2>6. QED
    BY <2>1, <2>2, <2>5 DEF ArrInv, ArrType, Room
<1>4. QED
  BY <1>1, <1>2, <1>3

LEMMA ArrInvDel ==
  ASSUME ArrInv, NEW i \in Nat, CallDel(i)
  PROVE  ArrInv'
<1>1. /\ arr' = ArrDel(arr, i)
      /\ ref' = IF i < Len(ref) THEN RemoveAt(ref, i + 1) ELSE ref
      /\ ArrType(arr) /\ Room(arr) /\ ref \in Seq(Word) /\ arr.length = Len(ref)
      /\ \A j \in Slots(arr.capacity) :
           arr.vals[j] = IF j < Len(ref) THEN ref[j + 1] ELSE Zero
  BY DEF CallDel, ArrInv, ArrHolds
<1>2. CASE i >= Len(ref)
  <2>1. arr' = arr /\ ref' = ref
    BY <1>1, <1>2 DEF ArrDel, HasSlot
  <2>2. QED
    BY <2>1 DEF ArrInv, ArrType, Room, ArrHolds
<1>3. CASE i < Len(ref)
  <2>1. /\ ArrType(arr') /\ Room(arr') /\ arr'.length = arr.length - 1
        /\ \A j \in Slots(arr'.capacity) :
              /\ j \in Slots(arr.capacity)
              /\ arr'.vals[j] = IF j < i THEN arr.vals[j]
                                ELSE IF j < arr.length - 1 THEN arr.vals[j + 1] ELSE Zero
    BY <1>1, <1>3, DelKeeps
  <2>2. /\ ref' \in Seq(Word) /\ Len(ref') = Len(ref) - 1
        /\ \A k \in 1 .. Len(ref) - 1 : ref'[k] = IF k < i + 1 THEN ref[k] ELSE ref[k + 1]
    <3>1. i + 1 \in 1 .. Len(ref) /\ ref' = RemoveAt(ref, i + 1)
      BY <1>1, <1>3
    <3>2. /\ RemoveAt(ref, i + 1) \in Seq(Word)
          /\ Len(RemoveAt(ref, i + 1)) = Len(ref) - 1
          /\ \A k \in 1 .. Len(ref) - 1 :
                RemoveAt(ref, i + 1)[k] = IF k < i + 1 THEN ref[k] ELSE ref[k + 1]
      BY <1>1, <3>1, RemoveAtProps, Zenon
    <3>3. QED
      BY <3>1, <3>2, Zenon
  <2>3. /\ arr'.vals \in [Slots(arr'.capacity) -> Word] /\ arr.capacity \in Nat
        /\ arr'.capacity \in Nat /\ Len(ref) \in Nat /\ arr.length + 2 <= arr.capacity
    BY <1>1, <2>1, RoomIsTwo DEF ArrType
  <2>4. ASSUME NEW j \in Slots(arr'.capacity)
        PROVE  arr'.vals[j] = IF j < Len(ref') THEN ref'[j + 1] ELSE Zero
    <3>1. j \in Nat
      BY <2>3 DEF Slots
    <3>2. CASE j < i
      <4>1. /\ j \in Slots(arr.capacity) /\ arr'.vals[j] = ref[j + 1] /\ j < Len(ref')
            /\ j + 1 \in 1 .. Len(ref) - 1 /\ j + 1 < i + 1
        BY <1>1, <1>3, <2>1, <2>2, <2>3, <3>1, <3>2
      <4>2. QED
        BY <2>2, <4>1
    <3>3. CASE j >= i /\ j < Len(ref) - 1
      <4>1. /\ arr'.vals[j] = arr.vals[j + 1] /\ j + 1 \in Slots(arr.capacity)
            /\ j + 1 < Len(ref) /\ j < Len(ref') /\ j + 1 \in 1 .. Len(ref) - 1 /\ ~ (j + 1 < i + 1)
        BY <1>1, <1>3, <2>1, <2>2, <2>3, <3>1, <3>3, SMTT(30) DEF Slots
      <4>2. arr.vals[j + 1] = ref[(j + 1) + 1] /\ ref'[j + 1] = ref[(j + 1) + 1]
        BY <1>1, <2>2, <4>1
      <4>3. QED
        BY <4>1, <4>2
    <3>4. CASE j >= i /\ j >= Len(ref) - 1
      BY <1>1, <1>3, <2>1, <2>2, <2>3, <3>1, <3>4
    <3>5. QED
      BY <2>3, <3>1, <3>2, <3>3, <3>4
  <2>5. ArrHolds'
    BY <1>1, <2>1, <2>2, <2>3, <2>4 DEF ArrHolds
  <2>6. QED
    BY <2>1, <2>2, <2>5 DEF ArrInv, ArrType, Room
<1>4. QED
  BY <1>1, <1>2, <1>3

LEMMA ArrInvStep == ArrInv /\ [ArrNext]_<<arr, ref>> => ArrInv'
<1> SUFFICES ASSUME ArrInv, [ArrNext]_<<arr, ref>> PROVE ArrInv'
  OBVIOUS
<1>1. ASSUME NEW v \in Word, CallAdd(v) PROVE ArrInv'
  BY <1>1, ArrInvAdd
<1>2. ASSUME NEW i \in 0 .. MaxLength, NEW v \in Word, CallSet(i, v) PROVE ArrInv'
  BY <1>2, ArrInvSet, ArrCallsAssumption
<1>3. ASSUME NEW i \in 0 .. MaxLength, CallDel(i) PROVE ArrInv'
  BY <1>3, ArrInvDel, ArrCallsAssumption
<1>4. CASE UNCHANGED <<arr, ref>>
  BY <1>4 DEF ArrInv, ArrType, Room, ArrHolds
<1>5. QED
  BY <1>1, <1>2, <1>3, <1>4 DEF ArrNext

(* Through growth, deletions and shrinking the array holds the sequence    *)
(* its calls describe (core/atm_arr.c).                                    *)
THEOREM ArrHoldsAlways == ArrSpec => []ArrHolds
<1>1. ArrInv => ArrHolds
  BY DEF ArrInv
<1>2. QED
  BY ArrInvInit, ArrInvStep, <1>1, PTL DEF ArrSpec

(* There are always two free slots after the last one used, which is what  *)
(* the pool of workers relies on when it reads past its workers            *)
(* (atm_task.c:78).                                                        *)
THEOREM RoomForTwoAlways == ArrSpec => []RoomForTwo
<1>1. ArrInv => RoomForTwo
  BY RoomIsTwo DEF ArrInv, RoomForTwo
<1>2. QED
  BY ArrInvInit, ArrInvStep, <1>1, PTL DEF ArrSpec

-----------------------------------------------------------------------------
(* The strings of core/atm_str.c, for texts of any length.                 *)
(* The size of an allocation is rounded up to the next word, always with   *)
(* at least one byte to spare.                                             *)
LEMMA SizeSpares ==
  ASSUME NEW n \in Nat \ {0}
  PROVE  StrSize(n) \in Nat /\ StrSize(n) >= n + 1 /\ StrSize(n) <= n + 8
  BY DEF StrSize, WordLen

(* A string made from a text is whole, and one byte more fits.             *)
LEMMA NewWhole ==
  ASSUME NEW B, NEW text \in Seq(B)
  PROVE  /\ Whole(StrNew(text)) /\ StrNew(text).text = text
         /\ StrNew(text).cap \in Nat /\ StrNew(text).cap >= StrNew(text).len + 1
<1> DEFINE n == HdrLen + Len(text) + 1
<1>1. n \in Nat \ {0} /\ Len(text) \in Nat /\ n = Len(text) + 9
  BY DEF HdrLen
<1>2. StrSize(n) \in Nat /\ StrSize(n) >= n + 1
  BY <1>1, SizeSpares
<1>3. StrNew(text) = [cap |-> StrSize(n) - 9, len |-> Len(text), text |-> text]
  BY <1>1, <1>2 DEF StrNew, HdrLen
<1> HIDE DEF n
<1>4. QED
  BY <1>1, <1>2, <1>3 DEF Whole

(* Where the room is enough, atm_str_cats adds the text and its length.    *)
LEMMA CatsInRoom ==
  ASSUME NEW B, NEW cap \in Nat, NEW text \in Seq(B), NEW src \in Seq(B),
         Len(text) + Len(src) <= cap,
         NEW s, s = [cap |-> cap, len |-> Len(text), text |-> text], s # NullStr
  PROVE  StrCats(s, src) = [cap |-> cap, len |-> Len(text) + Len(src), text |-> text \o src]
<1>1. /\ s.cap = cap /\ s.len = Len(text) /\ s.text = text
      /\ Len(text) \in Nat /\ Len(src) \in Nat
  OBVIOUS
<1>2. StrGrow(s, Len(src)) = s
  BY <1>1 DEF StrGrow
<1>3. StrCats(s, src) = [s EXCEPT !.len = Len(text) + Len(src), !.text = text \o src]
  BY <1>1, <1>2 DEF StrCats
<1> DEFINE longer == text \o src
           len == Len(text) + Len(src)
<1> HIDE DEF longer, len
<1>4. StrCats(s, src) = [s EXCEPT !.len = len, !.text = longer]
  BY <1>3 DEF longer, len
<1>5. StrCats(s, src) = [cap |-> cap, len |-> len, text |-> longer]
  BY <1>4
<1>6. QED
  BY <1>5 DEF longer, len

(* The line feed that a command adds to its reply (atm_cmd.c) always fits, *)
(* so that every reply of the session is whole and ends with it.           *)
THEOREM ReplyWhole ==
  ASSUME NEW B, NEW text \in Seq(B), NEW lf \in B, StrNew(text) # NullStr
  PROVE  /\ Whole(StrCats(StrNew(text), <<lf>>))
         /\ StrCats(StrNew(text), <<lf>>).text = text \o <<lf>>
<1> DEFINE cap == StrNew(text).cap
<1>1. cap \in Nat /\ cap >= Len(text) + 1 /\ Len(text) \in Nat
  BY NewWhole DEF Whole
<1>2. StrNew(text) = [cap |-> cap, len |-> Len(text), text |-> text]
  BY DEF StrNew
<1>3. <<lf>> \in Seq(B) /\ Len(<<lf>>) = 1
  OBVIOUS
<1> HIDE DEF cap
<1>4. StrCats(StrNew(text), <<lf>>) = [cap |-> cap, len |-> Len(text) + 1, text |-> text \o <<lf>>]
  BY <1>1, <1>2, <1>3, CatsInRoom
<1>5. Len(text \o <<lf>>) = Len(text) + 1
  BY <1>3
<1>6. QED
  BY <1>1, <1>4, <1>5 DEF Whole

(* A string that has to grow is not: atm_str_grow gives the copy the       *)
(* length it is to have, and atm_str_cats adds to that once more           *)
(* (atm_str.c:333).  No string of a session grows; the lines of the        *)
(* configuration do (atm_config.c:239).                                    *)
THEOREM GrownNotWhole ==
  ASSUME NEW B, NEW text \in Seq(B), NEW src \in Seq(B), NEW s, s # NullStr,
         NEW cap \in Nat, s = [cap |-> cap, len |-> Len(text), text |-> text],
         Whole(s), cap - Len(text) < Len(src)
  PROVE  ~ Whole(StrCats(s, src)) /\ StrCats(s, src).text = text \o src
<1>1. /\ s.cap = cap /\ s.len = Len(text) /\ s.text = text
      /\ Len(text) \in Nat /\ Len(src) \in Nat /\ Len(text) <= cap /\ Len(src) >= 1
  BY DEF Whole
<1> DEFINE size == StrSize(HdrLen + (Len(text) + Len(src)) + 1) - HdrLen - 1
           g == StrGrow(s, Len(src))
<1>2. g = [s EXCEPT !.cap = size, !.len = Len(text) + Len(src)]
  <2>1. ~ (s.len > s.cap \/ s.cap - s.len >= Len(src))
    BY <1>1
  <2>2. s.len + Len(src) = Len(text) + Len(src)
    BY <1>1
  <2>3. QED
    BY <2>1, <2>2, Zenon DEF StrGrow
<1> HIDE DEF size
<1>3. g.len = Len(text) + Len(src) /\ g.text = text /\ g = [cap |-> size, len |-> g.len, text |-> text]
  <2> DEFINE len == Len(text) + Len(src)
  <2>1. g = [s EXCEPT !.cap = size, !.len = len]
    BY <1>2
  <2> HIDE DEF len, g
  <2>2. g = [cap |-> size, len |-> len, text |-> text]
    BY <2>1
  <2>3. QED
    BY <2>2 DEF len
<1> DEFINE c == StrCats(s, src)
<1>4. c = [g EXCEPT !.len = g.len + Len(src), !.text = text \o src]
  BY <1>3 DEF StrCats
<1> HIDE DEF g
<1>5. c.len = Len(text) + Len(src) + Len(src) /\ c.text = text \o src
  <2> DEFINE len == g.len + Len(src)
             longer == text \o src
  <2>1. c = [g EXCEPT !.len = len, !.text = longer]
    BY <1>4
  <2> HIDE DEF len, longer, c
  <2>2. c.len = len /\ c.text = longer
    BY <1>3, <2>1
  <2>3. QED
    BY <1>3, <2>2 DEF len, longer
<1>6. Len(text \o src) = Len(text) + Len(src)
  BY <1>1
<1> HIDE DEF c
<1>7. ~ Whole(c)
  BY <1>1, <1>5, <1>6 DEF Whole
<1>8. QED
  BY <1>5, <1>7 DEF c

-----------------------------------------------------------------------------
(* Induction over the numbers up to n.                                     *)

(* A set of numbers has a least one.                                       *)
LEMMA LeastNat ==
  ASSUME NEW T \in SUBSET Nat, T # {}
  PROVE  \E m \in T : \A n \in T : m <= n
<1> DEFINE R == {p \in Nat \X Nat : p[1] < p[2]}
<1>1. IsWellFoundedOn(R, Nat)
  <2>1. OpToRel(<, Nat) = R
    BY DEF OpToRel
  <2>2. QED
    BY <2>1, NatLessThanWellFounded
<1>2. PICK m \in T : \A n \in T : ~ (<<n, m>> \in R)
  <2> HIDE DEF R
  <2>1. QED
    BY <1>1, WFMin
<1>3. \A n \in T : <<n, m>> \in R <=> n < m
  OBVIOUS
<1>4. \A n \in T : n \in Nat
  OBVIOUS
<1> HIDE DEF R
<1>5. \A n \in T : ~ (n < m)
  BY <1>2, <1>3, Zenon
<1>6. \A n \in T : m <= n
  BY <1>4, <1>5
<1>7. QED
  BY <1>6

(* What holds at the start and, where it holds, one further, holds         *)
(* everywhere.                                                             *)
LEMMA Upward ==
  ASSUME NEW n \in Nat, NEW B, 0 \in B, \A i \in 1 .. n : i - 1 \in B => i \in B
  PROVE  \A i \in 0 .. n : i \in B
<1> DEFINE T == {i \in 0 .. n : i \notin B}
<1>1. SUFFICES ASSUME T # {} PROVE FALSE
  OBVIOUS
<1>2. T \in SUBSET Nat
  OBVIOUS
<1>3. PICK k \in T : \A j \in T : k <= j
  <2> HIDE DEF T
  <2>1. QED
    BY <1>1, <1>2, LeastNat
<1>4. k \in 0 .. n /\ k \notin B
  OBVIOUS
<1>5. k \in 1 .. n /\ k - 1 \in 0 .. n /\ ~ (k <= k - 1)
  BY <1>4
<1>6. k - 1 \in B
  BY <1>3, <1>5
<1>7. QED
  BY <1>4, <1>5, <1>6

(* A function that is defined step by step is there: f says what the i-th  *)
(* step makes of a value.                                                  *)
Steps(f, n, X) == \A i \in 1 .. n : \A x \in X : f[<<i, x>>] \in X
Run(m, f, n, start) == m[0] = start /\ \A i \in 1 .. n : m[i] = f[<<i, m[i - 1]>>]

LEMMA Unfolds ==
  ASSUME NEW n \in Nat, NEW X, NEW start \in X, NEW f, Steps(f, n, X)
  PROVE  \E m \in [0 .. n -> X] : Run(m, f, n, start)
<1> DEFINE Has(k) == \E m \in [0 .. k -> X] : Run(m, f, k, start)
           T == {k \in 0 .. n : ~ Has(k)}
<1>1. Has(0)
  <2> DEFINE m == [i \in 0 .. 0 |-> start]
  <2>1. m \in [0 .. 0 -> X] /\ m[0] = start
    OBVIOUS
  <2>2. \A i \in 1 .. 0 : m[i] = f[<<i, m[i - 1]>>]
    OBVIOUS
  <2> HIDE DEF m
  <2>3. QED
    BY <2>1, <2>2 DEF Run
<1>2. ASSUME NEW k \in 1 .. n, Has(k - 1) PROVE Has(k)
  <2>1. PICK m \in [0 .. k - 1 -> X] :
          m[0] = start /\ \A i \in 1 .. k - 1 : m[i] = f[<<i, m[i - 1]>>]
    BY <1>2 DEF Run
  <2> DEFINE y == f[<<k, m[k - 1]>>]
             g == [i \in 0 .. k |-> IF i = k THEN y ELSE m[i]]
  <2>2. m[k - 1] \in X
    BY <2>1
  <2>3. y \in X
    BY <2>2 DEF Steps
  <2> HIDE DEF y
  <2>4. g \in [0 .. k -> X]
    BY <2>1, <2>3
  <2>5. g[0] = start /\ g[k] = y /\ \A i \in 0 .. k - 1 : g[i] = m[i]
    BY <2>1
  <2> HIDE DEF g
  <2>6. \A i \in 1 .. k : g[i] = f[<<i, g[i - 1]>>]
    <3> SUFFICES ASSUME NEW i \in 1 .. k PROVE g[i] = f[<<i, g[i - 1]>>]
      OBVIOUS
    <3>1. i - 1 \in 0 .. k - 1 /\ (i # k => i \in 0 .. k - 1 /\ i \in 1 .. k - 1)
      OBVIOUS
    <3>2. g[i - 1] = m[i - 1]
      BY <2>5, <3>1
    <3>3. CASE i = k
      BY <2>5, <3>2, <3>3 DEF y
    <3>4. CASE i # k
      BY <2>1, <2>5, <3>1, <3>2, <3>4
    <3>5. QED
      BY <3>3, <3>4
  <2>7. QED
    BY <2>4, <2>5, <2>6 DEF Run
<1> HIDE DEF Has
<1>3. T = {}
  <2> SUFFICES ASSUME T # {} PROVE FALSE
    OBVIOUS
  <2>1. PICK k \in T : \A j \in T : k <= j
    <3>1. T \in SUBSET Nat
      OBVIOUS
    <3> HIDE DEF T
    <3>2. QED
      BY <3>1, LeastNat
  <2>2. k \in 0 .. n /\ ~ Has(k)
    BY <2>1
  <2>3. k # 0
    BY <1>1, <2>2
  <2>4. k \in 1 .. n /\ k - 1 \in 0 .. n /\ ~ (k <= k - 1)
    BY <2>2, <2>3
  <2>5. Has(k - 1)
    BY <2>1, <2>4
  <2>6. QED
    BY <1>2, <2>2, <2>4, <2>5
<1>4. Has(n)
  BY <1>3
<1>5. QED
  BY <1>4 DEF Has

-----------------------------------------------------------------------------
(* The list of core/atm_list.c, for any number of entries and any keys.    *)
(* s are the entries of the list in order: since a push takes the next     *)
(* number and an entry never moves, their numbers go up.                   *)
Ptr == Entries \cup {NULL}

Entry == [mem : {"none", "live", "freed"}, val : Value \cup {NULL}, prev : Ptr, next : Ptr]

ListType == [ent : [Entries -> Entry], head : Ptr, tail : Ptr, size : Int]

At(s, i) == IF i \in 1 .. Len(s) THEN s[i] ELSE NULL

Upwards(s) ==
    /\ \A i \in 1 .. Len(s) : i <= s[i]
    /\ \A i, j \in 1 .. Len(s) : i < j => s[i] < s[j]

Chain(l, s) ==
    /\ l.head = At(s, 1) /\ l.tail = At(s, Len(s)) /\ l.size = Len(s)
    /\ \A i \in 1 .. Len(s) : /\ l.ent[s[i]].mem = "live"
                              /\ l.ent[s[i]].next = At(s, i + 1)
                              /\ l.ent[s[i]].prev = At(s, i - 1)
    /\ \A n \in Entries : l.ent[n].mem = "live" => \E i \in 1 .. Len(s) : s[i] = n

Holds(l, s) == l \in ListType /\ s \in Seq(Entries) /\ Upwards(s) /\ Chain(l, s)

LEMMA AtType ==
  ASSUME NEW s \in Seq(Entries), NEW i
  PROVE  At(s, i) \in Ptr /\ (At(s, i) = NULL <=> i \notin 1 .. Len(s))
<1>1. CASE i \in 1 .. Len(s)
  <2>1. s[i] \in Entries /\ At(s, i) = s[i]
    BY <1>1 DEF At
  <2>2. s[i] # NULL
    BY <2>1 DEF Entries, NULL
  <2>3. QED
    BY <1>1, <2>1, <2>2 DEF Ptr
<1>2. CASE i \notin 1 .. Len(s)
  BY <1>2 DEF At, Ptr
<1>3. QED
  BY <1>1, <1>2

(* Two places of the list hold two entries.                                *)
LEMMA AtOnce ==
  ASSUME NEW s \in Seq(Entries), Upwards(s), NEW i \in 1 .. Len(s), NEW j \in 1 .. Len(s),
         s[i] = s[j]
  PROVE  i = j
<1>1. s[i] \in Nat /\ s[j] \in Nat /\ ~ (s[i] < s[j]) /\ ~ (s[j] < s[i])
  <2>1. s[i] \in Entries /\ s[j] \in Entries
    OBVIOUS
  <2>2. QED
    BY <2>1 DEF Entries
<1>2. ~ (i < j) /\ ~ (j < i)
  BY <1>1 DEF Upwards
<1>3. QED
  BY <1>2

-----------------------------------------------------------------------------
(* What the assignments do to the entries.                                 *)
LEMMA SetPrevIs ==
  ASSUME NEW ent \in [Entries -> Entry], NEW n \in Ptr, NEW p \in Ptr
  PROVE  /\ SetPrev(ent, n, p) \in [Entries -> Entry]
         /\ \A x \in Entries :
              /\ SetPrev(ent, n, p)[x].prev = IF x = n THEN p ELSE ent[x].prev
              /\ SetPrev(ent, n, p)[x].next = ent[x].next
              /\ SetPrev(ent, n, p)[x].mem = ent[x].mem
              /\ SetPrev(ent, n, p)[x].val = ent[x].val
<1>1. CASE n = NULL
  <2>1. NULL \notin Entries
    BY DEF NULL, Entries
  <2>2. SetPrev(ent, n, p) = ent
    BY <1>1 DEF SetPrev
  <2>3. QED
    BY <1>1, <2>1, <2>2
<1>2. CASE n # NULL
  <2>1. n \in Entries
    BY <1>2 DEF Ptr
  <2>2. SetPrev(ent, n, p) = [ent EXCEPT ![n].prev = p]
    BY <1>2 DEF SetPrev
  <2>3. QED
    BY <2>1, <2>2 DEF Entry
<1>3. QED
  BY <1>1, <1>2

LEMMA SetNextIs ==
  ASSUME NEW ent \in [Entries -> Entry], NEW n \in Ptr, NEW p \in Ptr
  PROVE  /\ SetNext(ent, n, p) \in [Entries -> Entry]
         /\ \A x \in Entries :
              /\ SetNext(ent, n, p)[x].next = IF x = n THEN p ELSE ent[x].next
              /\ SetNext(ent, n, p)[x].prev = ent[x].prev
              /\ SetNext(ent, n, p)[x].mem = ent[x].mem
              /\ SetNext(ent, n, p)[x].val = ent[x].val
<1>1. CASE n = NULL
  <2>1. NULL \notin Entries
    BY DEF NULL, Entries
  <2>2. SetNext(ent, n, p) = ent
    BY <1>1 DEF SetNext
  <2>3. QED
    BY <1>1, <2>1, <2>2
<1>2. CASE n # NULL
  <2>1. n \in Entries
    BY <1>2 DEF Ptr
  <2>2. SetNext(ent, n, p) = [ent EXCEPT ![n].next = p]
    BY <1>2 DEF SetNext
  <2>3. QED
    BY <2>1, <2>2 DEF Entry
<1>3. QED
  BY <1>1, <1>2

LEMMA DropIs ==
  ASSUME NEW ent \in [Entries -> Entry], NEW n \in Entries
  PROVE  /\ Drop(ent, n) \in [Entries -> Entry]
         /\ \A x \in Entries :
              /\ Drop(ent, n)[x].next = IF x = n THEN NULL ELSE ent[x].next
              /\ Drop(ent, n)[x].prev = IF x = n THEN NULL ELSE ent[x].prev
              /\ Drop(ent, n)[x].mem = IF x = n THEN "freed" ELSE ent[x].mem
              /\ Drop(ent, n)[x].val = ent[x].val
<1>1. Drop(ent, n) = [ent EXCEPT ![n].prev = NULL, ![n].next = NULL, ![n].mem = "freed"]
  BY DEF Drop
<1>2. PICK r : r = [ent[n] EXCEPT !.prev = NULL, !.next = NULL, !.mem = "freed"]
  OBVIOUS
<1>3. Drop(ent, n) = [ent EXCEPT ![n] = r]
  BY <1>1, <1>2
<1>4. ent[n] \in Entry /\ NULL \in Ptr
  BY DEF Ptr
<1>5. r \in Entry /\ r.prev = NULL /\ r.next = NULL /\ r.mem = "freed" /\ r.val = ent[n].val
  BY <1>2, <1>4 DEF Entry
<1>6. QED
  BY <1>3, <1>5

-----------------------------------------------------------------------------
(* A list without its i-th entry.                                          *)
LEMMA RemovedAt ==
  ASSUME NEW s \in Seq(Entries), NEW i \in 1 .. Len(s), NEW k \in Nat
  PROVE  At(RemoveAt(s, i), k) = IF k < i THEN At(s, k) ELSE At(s, k + 1)
<1>0. PICK t : t = RemoveAt(s, i)
  OBVIOUS
<1>1. PICK n \in Nat : n = Len(s) /\ t = RemoveAt(s, i)
  BY <1>0
<1>2. Len(t) = n - 1 /\ \A j \in 1 .. n - 1 : t[j] = IF j < i THEN s[j] ELSE s[j + 1]
  BY <1>1, RemoveAtProps
<1>3. i \in 1 .. n
  BY <1>1
<1>4. CASE k < i
  <2>1. k \in 1 .. n - 1 <=> k \in 1 .. n
    BY <1>3, <1>4
  <2>2. QED
    BY <1>1, <1>2, <1>4, <2>1 DEF At
<1>5. CASE ~ (k < i)
  <2>1. k \in 1 .. n - 1 <=> k + 1 \in 1 .. n
    BY <1>3, <1>5
  <2>2. QED
    BY <1>1, <1>2, <1>5, <2>1 DEF At
<1>6. QED
  BY <1>4, <1>5

LEMMA RemovedUpwards ==
  ASSUME NEW s \in Seq(Entries), Upwards(s), NEW i \in 1 .. Len(s)
  PROVE  Upwards(RemoveAt(s, i))
<1>0. PICK t : t = RemoveAt(s, i)
  OBVIOUS
<1>1. PICK n \in Nat : n = Len(s) /\ t = RemoveAt(s, i)
  BY <1>0
<1>2. Len(t) = n - 1 /\ \A j \in 1 .. n - 1 : t[j] = IF j < i THEN s[j] ELSE s[j + 1]
  BY <1>1, RemoveAtProps
<1>3. \A j \in 1 .. n : s[j] \in Nat /\ j <= s[j]
  <2>1. \A j \in 1 .. n : s[j] \in Entries
    BY <1>1
  <2>2. QED
    BY <1>1, <2>1 DEF Upwards, Entries
<1>4. \A j, k \in 1 .. n : j < k => s[j] < s[k]
  BY <1>1 DEF Upwards
<1>5. ASSUME NEW j \in 1 .. n - 1 PROVE j <= t[j]
  <2>1. j \in 1 .. n /\ j + 1 \in 1 .. n
    OBVIOUS
  <2>2. t[j] = s[j] \/ t[j] = s[j + 1]
    BY <1>2
  <2>3. j <= s[j] /\ j + 1 <= s[j + 1] /\ s[j + 1] \in Nat
    BY <1>3, <2>1
  <2>4. QED
    BY <2>2, <2>3
<1>6. ASSUME NEW j \in 1 .. n - 1, NEW k \in 1 .. n - 1, j < k PROVE t[j] < t[k]
  <2>1. j \in 1 .. n /\ j + 1 \in 1 .. n /\ k \in 1 .. n /\ k + 1 \in 1 .. n
    OBVIOUS
  <2>2. CASE k < i
    <3>1. t[j] = s[j] /\ t[k] = s[k]
      BY <1>1, <1>2, <1>6, <2>2
    <3>2. QED
      BY <1>4, <1>6, <2>1, <3>1
  <2>3. CASE ~ (k < i) /\ j < i
    <3>1. t[j] = s[j] /\ t[k] = s[k + 1] /\ j < k + 1
      BY <1>2, <1>6, <2>3
    <3>2. QED
      BY <1>4, <2>1, <3>1
  <2>4. CASE ~ (k < i) /\ ~ (j < i)
    <3>1. t[j] = s[j + 1] /\ t[k] = s[k + 1] /\ j + 1 < k + 1
      BY <1>2, <1>6, <2>4
    <3>2. QED
      BY <1>4, <2>1, <3>1
  <2>5. QED
    BY <2>2, <2>3, <2>4
<1>7. QED
  BY <1>1, <1>2, <1>5, <1>6 DEF Upwards

-----------------------------------------------------------------------------
(* One entry less: both pops are such a removal too.                       *)
Gone(l, m, e) ==
    \A x \in Entries : /\ m.ent[x].val = l.ent[x].val
                       /\ m.ent[x].mem = IF x = e THEN "freed" ELSE l.ent[x].mem

LEMMA UnlinkedHolds ==
  ASSUME NEW l, NEW s, Holds(l, s), NEW i \in 1 .. Len(s)
  PROVE  Holds(Unlinked(l, s[i]), RemoveAt(s, i)) /\ Gone(l, Unlinked(l, s[i]), s[i])
<1>0. PICK e, t, before, after, m, a, b, c :
        /\ e = s[i] /\ t = RemoveAt(s, i) /\ m = Unlinked(l, e)
        /\ before = At(s, i - 1) /\ after = At(s, i + 1)
        /\ a = SetNext(l.ent, before, after) /\ b = SetPrev(a, after, before) /\ c = Drop(b, e)
  OBVIOUS
<1>1. l \in ListType /\ s \in Seq(Entries) /\ Upwards(s) /\ Chain(l, s)
  BY DEF Holds
<1>2. PICK n \in Nat : n = Len(s)
  BY <1>1
<1>3. i \in 1 .. n /\ e \in Entries /\ l.ent \in [Entries -> Entry]
  BY <1>0, <1>1, <1>2 DEF ListType
<1>4. /\ l.head = At(s, 1) /\ l.tail = At(s, n) /\ l.size = n
      /\ \A j \in 1 .. n : /\ l.ent[s[j]].mem = "live"
                           /\ l.ent[s[j]].next = At(s, j + 1)
                           /\ l.ent[s[j]].prev = At(s, j - 1)
      /\ \A x \in Entries : l.ent[x].mem = "live" => \E j \in 1 .. n : s[j] = x
  BY <1>1, <1>2 DEF Chain
<1>5. before \in Ptr /\ after \in Ptr
  BY <1>0, <1>1, AtType
<1>6. c \in [Entries -> Entry]
  BY <1>0, <1>3, <1>5, SetNextIs, SetPrevIs, DropIs
<1>7. ASSUME NEW x \in Entries
      PROVE  /\ c[x].next = IF x = e THEN NULL ELSE IF x = before THEN after ELSE l.ent[x].next
             /\ c[x].prev = IF x = e THEN NULL ELSE IF x = after THEN before ELSE l.ent[x].prev
             /\ c[x].mem = IF x = e THEN "freed" ELSE l.ent[x].mem
             /\ c[x].val = l.ent[x].val
  <2>1. a \in [Entries -> Entry] /\ b \in [Entries -> Entry]
    BY <1>0, <1>3, <1>5, SetNextIs, SetPrevIs
  <2>2. /\ a[x].next = IF x = before THEN after ELSE l.ent[x].next
        /\ a[x].prev = l.ent[x].prev /\ a[x].mem = l.ent[x].mem /\ a[x].val = l.ent[x].val
    BY <1>0, <1>3, <1>5, SetNextIs
  <2>3. /\ b[x].prev = IF x = after THEN before ELSE a[x].prev
        /\ b[x].next = a[x].next /\ b[x].mem = a[x].mem /\ b[x].val = a[x].val
    BY <1>0, <1>5, <2>1, SetPrevIs
  <2>4. /\ c[x].next = IF x = e THEN NULL ELSE b[x].next
        /\ c[x].prev = IF x = e THEN NULL ELSE b[x].prev
        /\ c[x].mem = IF x = e THEN "freed" ELSE b[x].mem
        /\ c[x].val = b[x].val
    BY <1>0, <1>3, <2>1, DropIs
  <2>5. QED
    BY <2>2, <2>3, <2>4
<1>8. m = [ent |-> c, head |-> IF before = NULL THEN after ELSE l.head,
           tail |-> IF after = NULL THEN before ELSE l.tail, size |-> l.size - 1]
  <2>1. l.ent[e].prev = before /\ l.ent[e].next = after
    BY <1>0, <1>3, <1>4
  <2>2. QED
    BY <1>0, <2>1 DEF Unlinked
<1>9. m \in ListType
  <2>1. l.head \in Ptr /\ l.tail \in Ptr /\ l.size - 1 \in Int
    BY <1>1 DEF ListType
  <2>2. QED
    BY <1>5, <1>6, <1>8, <2>1 DEF ListType
<1>10. /\ t \in Seq(Entries) /\ Len(t) = n - 1
       /\ \A j \in 1 .. n - 1 : t[j] = IF j < i THEN s[j] ELSE s[j + 1]
  BY <1>0, <1>1, <1>2, RemoveAtProps
<1>11. \A k \in Nat : At(t, k) = IF k < i THEN At(s, k) ELSE At(s, k + 1)
  BY <1>0, <1>1, RemovedAt
<1>12. Upwards(t)
  BY <1>0, <1>1, RemovedUpwards
<1>13. before = NULL <=> i = 1
  <2>1. before = NULL <=> i - 1 \notin 1 .. n
    BY <1>0, <1>1, <1>2, AtType
  <2>2. QED
    BY <1>3, <2>1
<1>14. after = NULL <=> i = n
  <2>1. after = NULL <=> i + 1 \notin 1 .. n
    BY <1>0, <1>1, <1>2, AtType
  <2>2. QED
    BY <1>2, <1>3, <2>1
<1>15. m.head = At(t, 1)
  <2>1. At(t, 1) = IF 1 < i THEN At(s, 1) ELSE At(s, 1 + 1)
    BY <1>11
  <2>2. CASE i = 1
    BY <1>0, <1>8, <1>13, <2>1, <2>2
  <2>3. CASE i # 1
    <3>1. 1 < i
      BY <1>3, <2>3
    <3>2. QED
      BY <1>4, <1>8, <1>13, <2>1, <2>3, <3>1
  <2>4. QED
    BY <2>2, <2>3
<1>16. m.tail = At(t, n - 1)
  <2>1. n - 1 \in Nat /\ (n - 1) + 1 = n
    BY <1>2, <1>3
  <2>2. At(t, n - 1) = IF n - 1 < i THEN At(s, n - 1) ELSE At(s, n)
    BY <1>11, <2>1
  <2>3. CASE i = n
    BY <1>0, <1>8, <1>14, <2>1, <2>2, <2>3
  <2>4. CASE i # n
    <3>1. ~ (n - 1 < i)
      BY <1>2, <1>3, <2>4
    <3>2. QED
      BY <1>4, <1>8, <1>14, <2>2, <2>4, <3>1
  <2>5. QED
    BY <2>3, <2>4
<1>17. m.size = Len(t)
  BY <1>4, <1>8, <1>10
<1>18. ASSUME NEW j \in 1 .. n - 1
       PROVE  /\ m.ent[t[j]].mem = "live"
              /\ m.ent[t[j]].next = At(t, j + 1)
              /\ m.ent[t[j]].prev = At(t, j - 1)
  <2>1. PICK k \in 1 .. n : k = (IF j < i THEN j ELSE j + 1) /\ k # i
    BY <1>2, <1>3
  <2>2. t[j] = s[k] /\ s[k] \in Entries /\ s[k] # e
    <3>1. t[j] = s[k]
      BY <1>10, <2>1
    <3>2. s[k] \in Entries
      BY <1>1, <1>2
    <3>3. s[k] # s[i]
      BY <1>1, <1>2, <2>1, AtOnce
    <3>4. QED
      BY <1>0, <3>1, <3>2, <3>3
  <2>3. /\ m.ent[t[j]].mem = "live"
        /\ m.ent[t[j]].next = IF s[k] = before THEN after ELSE At(s, k + 1)
        /\ m.ent[t[j]].prev = IF s[k] = after THEN before ELSE At(s, k - 1)
    <3>1. PICK y \in Entries : y = t[j] /\ y = s[k] /\ y # e
      BY <2>2
    <3>2. /\ l.ent[y].mem = "live" /\ l.ent[y].next = At(s, k + 1)
          /\ l.ent[y].prev = At(s, k - 1)
      BY <1>4, <2>1, <3>1
    <3>3. m.ent = c
      BY <1>8
    <3>4. /\ c[y].mem = l.ent[y].mem
          /\ c[y].next = IF y = before THEN after ELSE l.ent[y].next
          /\ c[y].prev = IF y = after THEN before ELSE l.ent[y].prev
      BY <1>7, <3>1
    <3>5. QED
      BY <3>1, <3>2, <3>3, <3>4
  <2>4. s[k] = before <=> k = i - 1
    <3>1. CASE i - 1 \in 1 .. n
      <4>1. before = s[i - 1]
        BY <1>0, <1>2, <3>1 DEF At
      <4>2. s[k] = s[i - 1] => k = i - 1
        BY <1>1, <1>2, <3>1, AtOnce
      <4>3. QED
        BY <4>1, <4>2
    <3>2. CASE i - 1 \notin 1 .. n
      <4>1. before = NULL /\ s[k] # NULL
        BY <1>0, <1>2, <2>2, <3>2 DEF At, Entries, NULL
      <4>2. k # i - 1
        BY <3>2
      <4>3. QED
        BY <4>1, <4>2
    <3>3. QED
      BY <3>1, <3>2
  <2>5. s[k] = after <=> k = i + 1
    <3>1. CASE i + 1 \in 1 .. n
      <4>1. after = s[i + 1]
        BY <1>0, <1>2, <3>1 DEF At
      <4>2. s[k] = s[i + 1] => k = i + 1
        BY <1>1, <1>2, <3>1, AtOnce
      <4>3. QED
        BY <4>1, <4>2
    <3>2. CASE i + 1 \notin 1 .. n
      <4>1. after = NULL /\ s[k] # NULL
        BY <1>0, <1>2, <2>2, <3>2 DEF At, Entries, NULL
      <4>2. k # i + 1
        BY <3>2
      <4>3. QED
        BY <4>1, <4>2
    <3>3. QED
      BY <3>1, <3>2
  <2>6. (IF k = i - 1 THEN after ELSE At(s, k + 1)) = At(t, j + 1)
    <3>1. At(t, j + 1) = IF j + 1 < i THEN At(s, j + 1) ELSE At(s, (j + 1) + 1)
      BY <1>11
    <3>2. CASE k = i - 1
      <4>1. j = k /\ ~ (j + 1 < i) /\ (j + 1) + 1 = i + 1
        BY <1>3, <2>1, <3>2
      <4>2. QED
        BY <1>0, <3>1, <3>2, <4>1
    <3>3. CASE k # i - 1 /\ j < i
      <4>1. j = k /\ j + 1 < i
        BY <1>3, <2>1, <3>3
      <4>2. QED
        BY <3>1, <3>3, <4>1
    <3>4. CASE k # i - 1 /\ ~ (j < i)
      <4>1. k = j + 1 /\ ~ (j + 1 < i)
        BY <1>3, <2>1, <3>4
      <4>2. QED
        BY <3>1, <3>4, <4>1
    <3>5. QED
      BY <3>2, <3>3, <3>4
  <2>7. (IF k = i + 1 THEN before ELSE At(s, k - 1)) = At(t, j - 1)
    <3>0. j - 1 \in Nat
      OBVIOUS
    <3>1. At(t, j - 1) = IF j - 1 < i THEN At(s, j - 1) ELSE At(s, (j - 1) + 1)
      BY <1>11, <3>0
    <3>2. CASE k = i + 1
      <4>1. j = i /\ j - 1 < i /\ j - 1 = i - 1
        BY <1>3, <2>1, <3>2
      <4>2. QED
        BY <1>0, <3>1, <3>2, <4>1
    <3>3. CASE k # i + 1 /\ j < i
      <4>1. j = k /\ j - 1 < i
        BY <1>3, <2>1, <3>3
      <4>2. QED
        BY <3>1, <3>3, <4>1
    <3>4. CASE k # i + 1 /\ ~ (j < i)
      <4>1. k = j + 1 /\ ~ (j - 1 < i) /\ k - 1 = (j - 1) + 1
        BY <1>3, <2>1, <3>4
      <4>2. QED
        BY <3>1, <3>4, <4>1
    <3>5. QED
      BY <3>2, <3>3, <3>4
  <2>8. QED
    BY <2>3, <2>4, <2>5, <2>6, <2>7
<1>19. ASSUME NEW x \in Entries, m.ent[x].mem = "live" PROVE \E j \in 1 .. n - 1 : t[j] = x
  <2>1. x # e /\ l.ent[x].mem = "live"
    BY <1>7, <1>8, <1>19
  <2>2. PICK k \in 1 .. n : s[k] = x
    BY <1>4, <2>1
  <2>3. k # i
    BY <1>0, <2>1, <2>2
  <2>4. PICK j \in 1 .. n - 1 : k = IF j < i THEN j ELSE j + 1
    <3>1. CASE k < i
      <4>1. k \in 1 .. n - 1
        BY <1>3, <3>1
      <4>2. QED
        BY <3>1, <4>1
    <3>2. CASE ~ (k < i)
      <4>1. k - 1 \in 1 .. n - 1 /\ ~ (k - 1 < i) /\ k = (k - 1) + 1
        BY <1>2, <1>3, <2>3, <3>2
      <4>2. QED
        BY <4>1
    <3>3. QED
      BY <3>1, <3>2
  <2>5. QED
    BY <1>10, <2>2, <2>4
<1>20. Chain(m, t)
  BY <1>10, <1>15, <1>16, <1>17, <1>18, <1>19 DEF Chain
<1>21. Gone(l, m, e)
  BY <1>7, <1>8 DEF Gone
<1>22. QED
  BY <1>0, <1>9, <1>10, <1>12, <1>20, <1>21 DEF Holds

LEMMA PoppedIsUnlinked ==
  ASSUME NEW l, NEW s, Holds(l, s), s # <<>>
  PROVE  /\ 1 \in 1 .. Len(s) /\ Len(s) \in 1 .. Len(s)
         /\ l.head = s[1] /\ LeftPopped(l) = Unlinked(l, s[1])
         /\ l.tail = s[Len(s)] /\ RightPopped(l) = Unlinked(l, s[Len(s)])
<1>1. l \in ListType /\ s \in Seq(Entries) /\ Upwards(s) /\ Chain(l, s)
  BY DEF Holds
<1>2. PICK n \in Nat : n = Len(s) /\ n # 0
  <2>1. Len(s) # 0
    BY <1>1, EmptySeq
  <2>2. QED
    BY <1>1, <2>1
<1>3. 1 \in 1 .. n /\ n \in 1 .. n /\ 0 \notin 1 .. n /\ n + 1 \notin 1 .. n /\ 1 - 1 = 0
  BY <1>2
<1>4. PICK h, t, u, v : h = s[1] /\ t = s[n] /\ u = At(s, 2) /\ v = At(s, n - 1)
  OBVIOUS
<1>5. l.head = h /\ l.tail = t /\ h # NULL /\ t # NULL
  <2>1. l.head = At(s, 1) /\ l.tail = At(s, n)
    BY <1>1, <1>2 DEF Chain
  <2>2. h \in Entries /\ t \in Entries
    BY <1>1, <1>2, <1>3, <1>4
  <2>3. QED
    BY <1>2, <1>3, <1>4, <2>1, <2>2 DEF At, Entries, NULL
<1>6. /\ l.ent[h].prev = NULL /\ l.ent[h].next = u
      /\ l.ent[t].prev = v /\ l.ent[t].next = NULL
  <2>1. \A j \in 1 .. n : l.ent[s[j]].next = At(s, j + 1) /\ l.ent[s[j]].prev = At(s, j - 1)
    BY <1>1, <1>2 DEF Chain
  <2>2. l.ent[h].next = At(s, 1 + 1) /\ l.ent[h].prev = At(s, 1 - 1)
    BY <1>3, <1>4, <2>1
  <2>3. l.ent[t].next = At(s, n + 1) /\ l.ent[t].prev = At(s, n - 1)
    BY <1>3, <1>4, <2>1
  <2>4. At(s, 1 - 1) = NULL /\ At(s, n + 1) = NULL /\ 1 + 1 = 2
    BY <1>2, <1>3 DEF At
  <2>5. QED
    BY <1>4, <2>2, <2>3, <2>4
<1>7. (u = NULL <=> h = t) /\ (v = NULL <=> h = t)
  <2>1. u = NULL <=> 2 \notin 1 .. n
    BY <1>1, <1>2, <1>4, AtType
  <2>2. v = NULL <=> n - 1 \notin 1 .. n
    BY <1>1, <1>2, <1>4, AtType
  <2>3. h = t <=> n = 1
    <3>1. s[1] = s[n] => 1 = n
      BY <1>1, <1>2, <1>3, AtOnce
    <3>2. QED
      BY <1>4, <3>1
  <2>4. QED
    BY <1>2, <2>1, <2>2, <2>3
<1>8. LeftPopped(l) = Unlinked(l, h)
  <2>1. SetNext(l.ent, NULL, u) = l.ent
    BY DEF SetNext
  <2>2. QED
    BY <1>5, <1>6, <1>7, <2>1 DEF LeftPopped, Unlinked
<1>9. RightPopped(l) = Unlinked(l, t)
  <2>1. SetPrev(SetNext(l.ent, v, NULL), NULL, v) = SetNext(l.ent, v, NULL)
    BY DEF SetPrev
  <2>2. QED
    BY <1>5, <1>6, <1>7, <2>1 DEF RightPopped, Unlinked
<1>10. QED
  BY <1>2, <1>3, <1>4, <1>5, <1>8, <1>9

-----------------------------------------------------------------------------
(* One entry more.                                                         *)
Pushed(l, n, k) ==
    [ent |-> SetNext([l.ent EXCEPT ![n] = [mem |-> "live", val |-> <<n, k>>,
                                           prev |-> l.tail, next |-> NULL]], l.tail, n),
     head |-> IF l.tail = NULL THEN n ELSE l.head, tail |-> n, size |-> l.size + 1]

(* Entries are allocated in the order of their numbers.                    *)
InOrder(ent) ==
    \A x, y \in Entries : x < y /\ ent[x].mem = "none" => ent[y].mem = "none"

LEMMA AppendIs ==
  ASSUME NEW X, NEW s \in Seq(X), NEW e \in X
  PROVE  /\ Append(s, e) \in Seq(X) /\ Len(Append(s, e)) = Len(s) + 1
         /\ Append(s, e)[Len(s) + 1] = e
         /\ \A i \in 1 .. Len(s) : Append(s, e)[i] = s[i]
BY AppendProperties

LEMMA PushedHolds ==
  ASSUME NEW l, NEW s, Holds(l, s), NEW n \in Entries, NEW k \in Key,
         l.ent[n].mem = "none", InOrder(l.ent)
  PROVE  /\ Holds(Pushed(l, n, k), Append(s, n))
         /\ \A x \in Entries :
              /\ Pushed(l, n, k).ent[x].mem = IF x = n THEN "live" ELSE l.ent[x].mem
              /\ Pushed(l, n, k).ent[x].val = IF x = n THEN <<n, k>> ELSE l.ent[x].val
<1>0. PICK t, m, r, a, c :
        /\ t = Append(s, n) /\ m = Pushed(l, n, k)
        /\ r = [mem |-> "live", val |-> <<n, k>>, prev |-> l.tail, next |-> NULL]
        /\ a = [l.ent EXCEPT ![n] = r] /\ c = SetNext(a, l.tail, n)
  OBVIOUS
<1>1. l \in ListType /\ s \in Seq(Entries) /\ Upwards(s) /\ Chain(l, s)
  BY DEF Holds
<1>2. PICK z \in Nat : z = Len(s)
  BY <1>1
<1>3. /\ l.ent \in [Entries -> Entry] /\ l.tail \in Ptr /\ l.head \in Ptr /\ l.size \in Int
  BY <1>1 DEF ListType
<1>4. /\ l.head = At(s, 1) /\ l.tail = At(s, z) /\ l.size = z
      /\ \A j \in 1 .. z : /\ l.ent[s[j]].mem = "live"
                           /\ l.ent[s[j]].next = At(s, j + 1)
                           /\ l.ent[s[j]].prev = At(s, j - 1)
      /\ \A x \in Entries : l.ent[x].mem = "live" => \E j \in 1 .. z : s[j] = x
  BY <1>1, <1>2 DEF Chain
<1>5. r \in Entry
  <2>1. <<n, k>> \in Value /\ NULL \in Ptr
    BY DEF Value, Ptr
  <2>2. QED
    BY <1>0, <1>3, <2>1 DEF Entry
<1>6. a \in [Entries -> Entry] /\ \A x \in Entries : a[x] = IF x = n THEN r ELSE l.ent[x]
  BY <1>0, <1>3, <1>5
<1>7. n \in Ptr
  BY DEF Ptr
<1>8. c \in [Entries -> Entry]
  BY <1>0, <1>3, <1>6, <1>7, SetNextIs
<1>9. ASSUME NEW x \in Entries
      PROVE  /\ c[x].next = IF x = l.tail THEN n ELSE a[x].next
             /\ c[x].prev = a[x].prev /\ c[x].mem = a[x].mem /\ c[x].val = a[x].val
  <2>1. PICK tail \in Ptr : tail = l.tail
    BY <1>3
  <2>2. c = SetNext(a, tail, n)
    BY <1>0, <2>1
  <2>3. /\ c[x].next = IF x = tail THEN n ELSE a[x].next
        /\ c[x].prev = a[x].prev /\ c[x].mem = a[x].mem /\ c[x].val = a[x].val
    BY <1>6, <1>7, <2>2, SetNextIs
  <2>4. QED
    BY <2>1, <2>3
<1>10. m = [ent |-> c, head |-> IF l.tail = NULL THEN n ELSE l.head, tail |-> n,
            size |-> l.size + 1]
  BY <1>0 DEF Pushed
<1>11. m \in ListType
  BY <1>3, <1>7, <1>8, <1>10 DEF ListType
<1>12. \A j \in 1 .. z : s[j] \in Entries /\ s[j] # n /\ s[j] < n
  <2> SUFFICES ASSUME NEW j \in 1 .. z PROVE s[j] \in Entries /\ s[j] # n /\ s[j] < n
    OBVIOUS
  <2>1. s[j] \in Entries
    BY <1>1, <1>2
  <2>2. l.ent[s[j]].mem = "live" /\ "live" # "none"
    BY <1>4
  <2>3. s[j] # n /\ ~ (n < s[j])
    BY <2>1, <2>2 DEF InOrder
  <2>4. QED
    BY <2>1, <2>3 DEF Entries
<1>13. t \in Seq(Entries) /\ Len(t) = z + 1 /\ t[z + 1] = n /\ \A j \in 1 .. z : t[j] = s[j]
  <2>1. /\ t \in Seq(Entries) /\ Len(t) = Len(s) + 1 /\ t[Len(s) + 1] = n
        /\ \A j \in 1 .. Len(s) : t[j] = s[j]
    BY <1>0, <1>1, AppendIs
  <2>2. QED
    BY <1>2, <2>1
<1>14. \A j \in 1 .. z + 1 : j = z + 1 \/ j \in 1 .. z
  OBVIOUS
<1>15. Upwards(t)
  <2>1. \A j \in 1 .. z : j <= s[j]
    BY <1>1, <1>2 DEF Upwards
  <2>2. z + 1 <= n
    <3>1. n \in Nat /\ 1 <= n
      BY DEF Entries
    <3>2. CASE z = 0
      BY <3>1, <3>2
    <3>3. CASE z # 0
      <4>1. z \in 1 .. z
        BY <3>3
      <4>2. z <= s[z] /\ s[z] < n /\ s[z] \in Nat
        BY <1>12, <2>1, <4>1 DEF Entries
      <4>3. QED
        BY <3>1, <4>2
    <3>4. QED
      BY <3>2, <3>3
  <2>3. \A j \in 1 .. z + 1 : j <= t[j]
    BY <1>13, <1>14, <2>1, <2>2
  <2>4. \A i, j \in 1 .. z : i < j => s[i] < s[j]
    BY <1>1, <1>2 DEF Upwards
  <2>5. ASSUME NEW i \in 1 .. z + 1, NEW j \in 1 .. z + 1, i < j PROVE t[i] < t[j]
    <3>1. i \in 1 .. z
      BY <2>5
    <3>2. CASE j = z + 1
      BY <1>12, <1>13, <3>1, <3>2
    <3>3. CASE j \in 1 .. z
      BY <1>13, <2>4, <2>5, <3>1, <3>3
    <3>4. QED
      BY <1>14, <3>2, <3>3
  <2>6. QED
    BY <1>13, <2>3, <2>5 DEF Upwards
<1>16. \A i \in Nat : At(t, i) = IF i = z + 1 THEN n ELSE At(s, i)
  <2> SUFFICES ASSUME NEW i \in Nat PROVE At(t, i) = IF i = z + 1 THEN n ELSE At(s, i)
    OBVIOUS
  <2>1. CASE i = z + 1
    <3>1. i \in 1 .. z + 1
      BY <2>1
    <3>2. QED
      BY <1>13, <2>1, <3>1 DEF At
  <2>2. CASE i # z + 1
    <3>1. i \in 1 .. z + 1 <=> i \in 1 .. z
      BY <2>2
    <3>2. QED
      BY <1>2, <1>13, <2>2, <3>1 DEF At
  <2>3. QED
    BY <2>1, <2>2
<1>17. l.tail = NULL <=> z = 0
  <2>1. At(s, z) = NULL <=> z \notin 1 .. z
    BY <1>1, <1>2, AtType
  <2>2. QED
    BY <1>4, <2>1
<1>18. m.head = At(t, 1) /\ m.tail = At(t, z + 1) /\ m.size = Len(t)
  <2>1. At(t, 1) = IF 1 = z + 1 THEN n ELSE At(s, 1)
    BY <1>16
  <2>2. At(t, z + 1) = n
    BY <1>16
  <2>3. 1 = z + 1 <=> z = 0
    OBVIOUS
  <2>4. QED
    BY <1>4, <1>10, <1>13, <1>17, <2>1, <2>2, <2>3
<1>19. ASSUME NEW j \in 1 .. z + 1
       PROVE  /\ m.ent[t[j]].mem = "live"
              /\ m.ent[t[j]].next = At(t, j + 1)
              /\ m.ent[t[j]].prev = At(t, j - 1)
  <2>0. m.ent = c /\ j - 1 \in Nat /\ j + 1 \in Nat
    BY <1>10
  <2>1. CASE j = z + 1
    <3>1. t[j] = n /\ n # l.tail /\ a[n] = r
      <4>1. z = 0 \/ (z \in 1 .. z /\ l.tail = s[z])
        BY <1>2, <1>4 DEF At
      <4>2. n # NULL
        BY DEF Entries, NULL
      <4>3. n # l.tail
        BY <1>12, <1>17, <4>1, <4>2
      <4>4. QED
        BY <1>6, <1>13, <2>1, <4>3
    <3>2. c[n].mem = "live" /\ c[n].next = NULL /\ c[n].prev = l.tail
      <4>1. c[n].next = a[n].next /\ c[n].prev = a[n].prev /\ c[n].mem = a[n].mem
        BY <1>9, <3>1
      <4>2. r.mem = "live" /\ r.next = NULL /\ r.prev = l.tail
        BY <1>0
      <4>3. QED
        BY <3>1, <4>1, <4>2
    <3>3. At(t, j + 1) = NULL
      <4>1. j + 1 \notin 1 .. z + 1
        BY <2>1
      <4>2. QED
        BY <1>13, <4>1 DEF At
    <3>4. At(t, j - 1) = At(s, z)
      <4>1. j - 1 = z /\ z # z + 1
        BY <2>1
      <4>2. QED
        BY <1>16, <4>1
    <3>5. QED
      BY <1>4, <2>0, <3>1, <3>2, <3>3, <3>4
  <2>2. CASE j \in 1 .. z
    <3>1. PICK x \in Entries : x = t[j] /\ x = s[j] /\ x # n
      BY <1>12, <1>13, <2>2
    <3>2. a[x] = l.ent[x]
      BY <1>6, <3>1
    <3>3. /\ c[x].mem = "live" /\ c[x].prev = At(s, j - 1)
          /\ c[x].next = IF x = l.tail THEN n ELSE At(s, j + 1)
      BY <1>4, <1>9, <2>2, <3>1, <3>2
    <3>4. x = l.tail <=> j = z
      <4>1. z \in 1 .. z /\ l.tail = s[z]
        BY <1>2, <1>4, <2>2 DEF At
      <4>2. s[j] = s[z] => j = z
        BY <1>1, <1>2, <2>2, <4>1, AtOnce
      <4>3. QED
        BY <3>1, <4>1, <4>2
    <3>5. At(t, j + 1) = IF j = z THEN n ELSE At(s, j + 1)
      BY <1>16, <2>0, <2>2
    <3>6. At(t, j - 1) = At(s, j - 1)
      <4>1. j - 1 # z + 1
        BY <2>2
      <4>2. QED
        BY <1>16, <2>0, <4>1
    <3>7. QED
      BY <2>0, <3>1, <3>3, <3>4, <3>5, <3>6
  <2>3. QED
    BY <1>14, <2>1, <2>2
<1>20. ASSUME NEW x \in Entries, m.ent[x].mem = "live" PROVE \E j \in 1 .. z + 1 : t[j] = x
  <2>1. CASE x = n
    <3>1. z + 1 \in 1 .. z + 1
      OBVIOUS
    <3>2. QED
      BY <1>13, <2>1, <3>1
  <2>2. CASE x # n
    <3>1. l.ent[x].mem = "live"
      BY <1>6, <1>9, <1>10, <1>20, <2>2
    <3>2. PICK j \in 1 .. z : s[j] = x
      BY <1>4, <3>1
    <3>3. j \in 1 .. z + 1
      OBVIOUS
    <3>4. QED
      BY <1>13, <3>2, <3>3
  <2>3. QED
    BY <2>1, <2>2
<1>21. Chain(m, t)
  BY <1>13, <1>18, <1>19, <1>20 DEF Chain
<1>22. \A x \in Entries : /\ m.ent[x].mem = IF x = n THEN "live" ELSE l.ent[x].mem
                          /\ m.ent[x].val = IF x = n THEN <<n, k>> ELSE l.ent[x].val
  <2>1. r.mem = "live" /\ r.val = <<n, k>>
    BY <1>0
  <2>2. m.ent = c
    BY <1>10
  <2>3. \A x \in Entries : c[x].mem = a[x].mem /\ c[x].val = a[x].val
    BY <1>9
  <2>4. QED
    BY <1>6, <2>1, <2>2, <2>3
<1>23. QED
  BY <1>0, <1>11, <1>13, <1>15, <1>21, <1>22 DEF Holds

-----------------------------------------------------------------------------
(* Walks along the pointers.                                               *)
WalkRun(w, step, first) ==
    w = [i \in Entries |->
           IF i = 1 THEN first ELSE IF w[i - 1] = NULL THEN NULL ELSE step[w[i - 1]]]

LEMMA WalkRuns ==
  ASSUME NEW step, NEW first, \E w : WalkRun(w, step, first)
  PROVE  \E w : /\ WalkRun(w, step, first)
                /\ Walk(step, first) = [i \in {j \in Entries : w[j] # NULL} |-> w[i]]
BY DEF Walk, WalkRun

Follows(step, t) ==
    Len(t) <= MaxPush /\ \A i \in 1 .. Len(t) : step[t[i]] = At(t, i + 1)

LEMMA WalkIs ==
  ASSUME NEW step, NEW t \in Seq(Entries), Follows(step, t)
  PROVE  Walk(step, At(t, 1)) = t
<1>1. PICK z \in Nat : z = Len(t)
  OBVIOUS
<1>2. MaxPush \in Nat /\ z <= MaxPush /\ \A i \in 1 .. z : step[t[i]] = At(t, i + 1)
  BY <1>1, ListAssumption DEF Follows
<1>3. PICK first : first = At(t, 1)
  OBVIOUS
<1>4. \A i \in Entries : i # 1 => i - 1 \in Entries /\ (i - 1) + 1 = i
  BY <1>2 DEF Entries
<1>5. ASSUME NEW i \in Entries, i # 1
      PROVE  At(t, i) = IF At(t, i - 1) = NULL THEN NULL ELSE step[At(t, i - 1)]
  <2>1. At(t, i - 1) = NULL <=> i - 1 \notin 1 .. z
    BY <1>1, AtType
  <2>2. CASE i - 1 \in 1 .. z
    <3>1. At(t, i - 1) = t[i - 1]
      BY <1>1, <2>2 DEF At
    <3>2. step[t[i - 1]] = At(t, i)
      BY <1>2, <1>4, <1>5, <2>2
    <3>3. QED
      BY <2>1, <2>2, <3>1, <3>2
  <2>3. CASE i - 1 \notin 1 .. z
    <3>1. i \notin 1 .. z
      BY <1>2, <1>5, <2>3 DEF Entries
    <3>2. At(t, i) = NULL
      BY <1>1, <3>1 DEF At
    <3>3. QED
      BY <2>1, <2>3, <3>2
  <2>4. QED
    BY <2>2, <2>3
<1>6. \E w : WalkRun(w, step, first)
  <2>1. PICK w : w = [i \in Entries |-> At(t, i)]
    OBVIOUS
  <2>2. \A i \in Entries : w[i] = At(t, i)
    BY <2>1
  <2>3. ASSUME NEW i \in Entries
        PROVE  At(t, i) = IF i = 1 THEN first
                          ELSE IF w[i - 1] = NULL THEN NULL ELSE step[w[i - 1]]
    <3>1. CASE i = 1
      BY <1>3, <3>1
    <3>2. CASE i # 1
      <4>1. w[i - 1] = At(t, i - 1)
        BY <1>4, <2>2, <3>2
      <4>2. QED
        BY <1>5, <3>2, <4>1
    <3>3. QED
      BY <3>1, <3>2
  <2>4. w = [i \in Entries |->
               IF i = 1 THEN first ELSE IF w[i - 1] = NULL THEN NULL ELSE step[w[i - 1]]]
    BY <2>1, <2>3
  <2>5. QED
    BY <2>4 DEF WalkRun
<1>7. PICK w : /\ WalkRun(w, step, first)
               /\ Walk(step, first) = [i \in {j \in Entries : w[j] # NULL} |-> w[i]]
  BY <1>6, WalkRuns
<1>8. \A i \in Entries :
        w[i] = IF i = 1 THEN first ELSE IF w[i - 1] = NULL THEN NULL ELSE step[w[i - 1]]
  BY <1>7 DEF WalkRun
<1> DEFINE B == {i \in 0 .. MaxPush : i = 0 \/ w[i] = At(t, i)}
<1>9. 0 \in B
  BY <1>2
<1>10. \A i \in 1 .. MaxPush : i - 1 \in B => i \in B
  <2> SUFFICES ASSUME NEW i \in 1 .. MaxPush, i - 1 \in B PROVE w[i] = At(t, i)
    BY <1>2
  <2>1. i \in Entries
    BY DEF Entries
  <2>2. CASE i = 1
    BY <1>3, <1>8, <2>1, <2>2
  <2>3. CASE i # 1
    <3>1. i - 1 # 0
      BY <2>3
    <3>2. w[i - 1] = At(t, i - 1)
      BY <3>1
    <3>3. QED
      BY <1>5, <1>8, <2>1, <2>3, <3>2
  <2>4. QED
    BY <2>2, <2>3
<1> HIDE DEF B
<1>11. \A i \in 0 .. MaxPush : i \in B
  BY <1>2, <1>9, <1>10, Upward
<1>12. \A i \in Entries : w[i] = At(t, i)
  <2>1. \A i \in Entries : i \in 0 .. MaxPush /\ i # 0
    BY DEF Entries
  <2>2. QED
    BY <1>11, <2>1 DEF B
<1>13. {j \in Entries : w[j] # NULL} = 1 .. z
  <2>1. \A j \in Entries : w[j] # NULL <=> j \in 1 .. z
    BY <1>1, <1>12, AtType
  <2>2. \A j \in 1 .. z : j \in Entries
    BY <1>2 DEF Entries
  <2>3. QED
    BY <2>1, <2>2
<1>14. \A j \in 1 .. z : w[j] = t[j]
  <2>1. \A j \in 1 .. z : j \in Entries
    BY <1>2 DEF Entries
  <2>2. QED
    BY <1>1, <1>12, <2>1 DEF At
<1>15. Walk(step, first) = [i \in 1 .. z |-> t[i]]
  BY <1>7, <1>13, <1>14
<1>16. t = [i \in 1 .. z |-> t[i]]
  BY <1>1
<1>17. QED
  BY <1>3, <1>15, <1>16

LEMMA HoldsLen ==
  ASSUME NEW s \in Seq(Entries), Upwards(s)
  PROVE  Len(s) <= MaxPush
<1>1. CASE Len(s) = 0
  BY <1>1, ListAssumption
<1>2. CASE Len(s) # 0
  <2>1. Len(s) \in 1 .. Len(s)
    BY <1>2
  <2>2. s[Len(s)] \in Entries /\ Len(s) <= s[Len(s)]
    BY <2>1 DEF Upwards
  <2>3. QED
    BY <2>2, ListAssumption DEF Entries
<1>3. QED
  BY <1>1, <1>2

(* From the j-th entry on.                                                 *)
From(s, j) == [i \in 1 .. Len(s) - j + 1 |-> s[i + j - 1]]

LEMMA FromIs ==
  ASSUME NEW X, NEW s \in Seq(X), NEW j \in 1 .. Len(s) + 1
  PROVE  /\ From(s, j) \in Seq(X) /\ Len(From(s, j)) = Len(s) - j + 1
         /\ \A i \in 1 .. Len(s) - j + 1 : From(s, j)[i] = s[i + j - 1] /\ i + j - 1 \in 1 .. Len(s)
<1>1. PICK z \in Nat : z = Len(s)
  OBVIOUS
<1>2. PICK y \in Nat : y = z - j + 1
  BY <1>1
<1>3. \A i \in 1 .. y : i + j - 1 \in 1 .. z
  <2>1. j \in Nat /\ 1 <= j
    BY <1>1
  <2>2. QED
    BY <1>2, <2>1
<1>4. \A i \in 1 .. y : s[i + j - 1] \in X
  BY <1>1, <1>3
<1>5. PICK t : t = [i \in 1 .. y |-> s[i + j - 1]]
  OBVIOUS
<1>6. t \in Seq(X) /\ Len(t) = y /\ \A i \in 1 .. y : t[i] = s[i + j - 1]
  BY <1>4, <1>5
<1>7. From(s, j) = t
  BY <1>1, <1>2, <1>5 DEF From
<1>8. QED
  BY <1>1, <1>2, <1>3, <1>6, <1>7

LEMMA WalkOn ==
  ASSUME NEW l, NEW s, Holds(l, s), NEW j \in 1 .. Len(s) + 1
  PROVE  WalkFrom(l.ent, At(s, j)) = From(s, j)
<1>0. PICK t, step : t = From(s, j) /\ step = [n \in Entries |-> l.ent[n].next]
  OBVIOUS
<1>1. s \in Seq(Entries) /\ Upwards(s) /\ Chain(l, s)
  BY DEF Holds
<1>2. PICK z \in Nat : z = Len(s)
  BY <1>1
<1>3. PICK y \in Nat : y = z - j + 1
  BY <1>2
<1>4. t \in Seq(Entries) /\ Len(t) = y /\ \A i \in 1 .. y : t[i] = s[i + j - 1] /\ i + j - 1 \in 1 .. z
  BY <1>0, <1>1, <1>2, <1>3, FromIs
<1>5. j \in Nat /\ 1 <= j /\ j <= z + 1
  BY <1>2
<1>6. \A i \in Nat \ {0} : At(t, i) = At(s, i + j - 1)
  <2> SUFFICES ASSUME NEW i \in Nat \ {0} PROVE At(t, i) = At(s, i + j - 1)
    OBVIOUS
  <2>1. i \in 1 .. y <=> i + j - 1 \in 1 .. z
    BY <1>3, <1>5
  <2>2. CASE i \in 1 .. y
    BY <1>2, <1>4, <2>1, <2>2 DEF At
  <2>3. CASE i \notin 1 .. y
    BY <1>2, <1>4, <2>1, <2>3 DEF At
  <2>4. QED
    BY <2>2, <2>3
<1>7. Follows(step, t)
  <2>1. Len(t) <= MaxPush
    <3>1. z <= MaxPush /\ MaxPush \in Nat
      BY <1>1, <1>2, HoldsLen, ListAssumption
    <3>2. QED
      BY <1>3, <1>4, <1>5, <3>1
  <2>2. ASSUME NEW i \in 1 .. y PROVE step[t[i]] = At(t, i + 1)
    <3>1. PICK k \in 1 .. z : k = i + j - 1 /\ t[i] = s[k]
      BY <1>4
    <3>2. s[k] \in Entries /\ l.ent[s[k]].next = At(s, k + 1)
      BY <1>1, <1>2 DEF Chain
    <3>3. At(t, i + 1) = At(s, (i + 1) + j - 1) /\ (i + 1) + j - 1 = k + 1
      <4>1. i + 1 \in Nat \ {0} /\ (i + 1) + j - 1 = k + 1
        BY <1>5, <3>1
      <4>2. QED
        BY <1>6, <4>1
    <3>4. QED
      BY <1>0, <3>1, <3>2, <3>3
  <2>3. QED
    BY <1>4, <2>1, <2>2 DEF Follows
<1>8. At(t, 1) = At(s, j)
  <2>1. 1 \in Nat \ {0} /\ 1 + j - 1 = j
    BY <1>5
  <2>2. QED
    BY <1>6, <2>1
<1>9. Walk(step, At(t, 1)) = t
  BY <1>4, <1>7, WalkIs
<1>10. QED
  BY <1>0, <1>8, <1>9 DEF WalkFrom

LEMMA WalkAll ==
  ASSUME NEW l, NEW s, Holds(l, s)
  PROVE  WalkFrom(l.ent, l.head) = s
<1>1. s \in Seq(Entries) /\ Chain(l, s) /\ Len(s) \in Nat
  BY DEF Holds
<1>2. l.head = At(s, 1) /\ 1 \in 1 .. Len(s) + 1
  BY <1>1 DEF Chain
<1>3. WalkFrom(l.ent, l.head) = From(s, 1)
  BY <1>2, WalkOn
<1>4. From(s, 1) = s
  <2>1. PICK z \in Nat : z = Len(s)
    BY <1>1
  <2>2. z - 1 + 1 = z /\ \A i \in 1 .. z : i + 1 - 1 = i
    BY <2>1
  <2>3. From(s, 1) = [i \in 1 .. z |-> s[i]]
    BY <2>1, <2>2 DEF From
  <2>4. s = [i \in 1 .. z |-> s[i]]
    BY <1>1, <2>1
  <2>5. QED
    BY <2>3, <2>4
<1>5. QED
  BY <1>3, <1>4

LEMMA ReverseIs ==
  ASSUME NEW X, NEW s \in Seq(X)
  PROVE  /\ Reverse(s) \in Seq(X) /\ Len(Reverse(s)) = Len(s)
         /\ \A i \in 1 .. Len(s) : Reverse(s)[i] = s[(Len(s) - i) + 1]
<1>1. PICK z \in Nat : z = Len(s)
  OBVIOUS
<1>2. \A i \in 1 .. z : (z - i) + 1 \in 1 .. z
  OBVIOUS
<1>3. \A i \in 1 .. z : s[(z - i) + 1] \in X
  BY <1>1, <1>2
<1>4. PICK t : t = [i \in 1 .. z |-> s[(z - i) + 1]]
  OBVIOUS
<1>5. t \in Seq(X) /\ Len(t) = z /\ \A i \in 1 .. z : t[i] = s[(z - i) + 1]
  BY <1>3, <1>4
<1>6. Reverse(s) = t
  BY <1>1, <1>4 DEF Reverse
<1>7. QED
  BY <1>1, <1>5, <1>6

LEMMA WalkAllBack ==
  ASSUME NEW l, NEW s, Holds(l, s)
  PROVE  s = Reverse(WalkBack(l.ent, l.tail))
<1>0. PICK t, step : t = Reverse(s) /\ step = [n \in Entries |-> l.ent[n].prev]
  OBVIOUS
<1>1. s \in Seq(Entries) /\ Upwards(s) /\ Chain(l, s)
  BY DEF Holds
<1>2. PICK z \in Nat : z = Len(s)
  BY <1>1
<1>3. t \in Seq(Entries) /\ Len(t) = z /\ \A i \in 1 .. z : t[i] = s[(z - i) + 1]
  BY <1>0, <1>1, <1>2, ReverseIs
<1>4. \A i \in Nat \ {0} : At(t, i) = At(s, (z - i) + 1)
  <2> SUFFICES ASSUME NEW i \in Nat \ {0} PROVE At(t, i) = At(s, (z - i) + 1)
    OBVIOUS
  <2>1. i \in 1 .. z <=> (z - i) + 1 \in 1 .. z
    OBVIOUS
  <2>2. CASE i \in 1 .. z
    BY <1>2, <1>3, <2>1, <2>2 DEF At
  <2>3. CASE i \notin 1 .. z
    BY <1>2, <1>3, <2>1, <2>3 DEF At
  <2>4. QED
    BY <2>2, <2>3
<1>5. Follows(step, t)
  <2>1. Len(t) <= MaxPush
    BY <1>1, <1>2, <1>3, HoldsLen
  <2>2. ASSUME NEW i \in 1 .. z PROVE step[t[i]] = At(t, i + 1)
    <3>1. PICK k \in 1 .. z : k = (z - i) + 1 /\ t[i] = s[k]
      BY <1>3
    <3>2. s[k] \in Entries /\ l.ent[s[k]].prev = At(s, k - 1)
      BY <1>1, <1>2 DEF Chain
    <3>3. At(t, i + 1) = At(s, (z - (i + 1)) + 1) /\ (z - (i + 1)) + 1 = k - 1
      <4>1. i + 1 \in Nat \ {0} /\ (z - (i + 1)) + 1 = k - 1
        BY <3>1
      <4>2. QED
        BY <1>4, <4>1
    <3>4. QED
      BY <1>0, <3>1, <3>2, <3>3
  <2>3. QED
    BY <1>3, <2>1, <2>2 DEF Follows
<1>6. At(t, 1) = l.tail
  <2>1. 1 \in Nat \ {0} /\ (z - 1) + 1 = z
    OBVIOUS
  <2>2. At(t, 1) = At(s, z)
    BY <1>4, <2>1
  <2>3. QED
    BY <1>1, <1>2, <2>2 DEF Chain
<1>7. WalkBack(l.ent, l.tail) = t
  <2>1. Walk(step, At(t, 1)) = t
    BY <1>3, <1>5, WalkIs
  <2>2. QED
    BY <1>0, <1>6, <2>1 DEF WalkBack
<1>8. Reverse(t) = s
  <2>1. PICK u : u = Reverse(t)
    OBVIOUS
  <2>2. u \in Seq(Entries) /\ Len(u) = z /\ \A i \in 1 .. z : u[i] = t[(z - i) + 1]
    BY <1>3, <2>1, ReverseIs
  <2>3. \A i \in 1 .. z : u[i] = s[i]
    <3> SUFFICES ASSUME NEW i \in 1 .. z PROVE u[i] = s[i]
      OBVIOUS
    <3>1. (z - i) + 1 \in 1 .. z /\ (z - ((z - i) + 1)) + 1 = i
      OBVIOUS
    <3>2. QED
      BY <1>3, <2>2, <3>1
  <2>4. u = s
    BY <1>1, <1>2, <2>2, <2>3, SeqEqual
  <2>5. QED
    BY <2>1, <2>4
<1>9. QED
  BY <1>7, <1>8

-----------------------------------------------------------------------------
(* What removals do to the entries.                                        *)
Shrinks(l, m) ==
    \A x \in Entries : /\ m.ent[x].val = l.ent[x].val
                       /\ \/ m.ent[x].mem = l.ent[x].mem
                          \/ l.ent[x].mem = "live" /\ m.ent[x].mem = "freed"

LEMMA GoneShrinks ==
  ASSUME NEW l, NEW m, NEW e, Gone(l, m, e), l.ent[e].mem = "live"
  PROVE  Shrinks(l, m)
BY DEF Gone, Shrinks

LEMMA ShrinksOn ==
  ASSUME NEW l, NEW m, NEW n, Shrinks(l, m), Shrinks(m, n)
  PROVE  Shrinks(l, n)
<1> SUFFICES ASSUME NEW x \in Entries
             PROVE  /\ n.ent[x].val = l.ent[x].val
                    /\ \/ n.ent[x].mem = l.ent[x].mem
                       \/ l.ent[x].mem = "live" /\ n.ent[x].mem = "freed"
  BY DEF Shrinks
<1>1. /\ m.ent[x].val = l.ent[x].val
      /\ \/ m.ent[x].mem = l.ent[x].mem
         \/ l.ent[x].mem = "live" /\ m.ent[x].mem = "freed"
  BY DEF Shrinks
<1>2. /\ n.ent[x].val = m.ent[x].val
      /\ \/ n.ent[x].mem = m.ent[x].mem
         \/ m.ent[x].mem = "live" /\ n.ent[x].mem = "freed"
  BY DEF Shrinks
<1>3. QED
  BY <1>1, <1>2

(* A list with a head has entries.                                         *)
LEMMA HeadThere ==
  ASSUME NEW l, NEW s, Holds(l, s)
  PROVE  (l.head = NULL <=> s = <<>>) /\ (l.tail = NULL <=> s = <<>>)
<1>1. s \in Seq(Entries) /\ Len(s) \in Nat /\ l.head = At(s, 1) /\ l.tail = At(s, Len(s))
  BY DEF Holds, Chain
<1>2. l.head = NULL <=> 1 \notin 1 .. Len(s)
  BY <1>1, AtType
<1>3. l.tail = NULL <=> Len(s) \notin 1 .. Len(s)
  BY <1>1, AtType
<1>4. s = <<>> <=> Len(s) = 0
  BY <1>1, EmptySeq
<1>5. QED
  BY <1>1, <1>2, <1>3, <1>4

LEMMA LeftPoppedHolds ==
  ASSUME NEW l, NEW s, Holds(l, s), s # <<>>
  PROVE  /\ Holds(LeftPopped(l), RemoveAt(s, 1)) /\ Shrinks(l, LeftPopped(l))
         /\ Gone(l, LeftPopped(l), s[1])
<1>1. 1 \in 1 .. Len(s) /\ LeftPopped(l) = Unlinked(l, s[1])
  BY PoppedIsUnlinked
<1>2. Holds(LeftPopped(l), RemoveAt(s, 1)) /\ Gone(l, LeftPopped(l), s[1])
  BY <1>1, UnlinkedHolds
<1>3. l.ent[s[1]].mem = "live"
  BY <1>1 DEF Holds, Chain
<1>4. QED
  BY <1>2, <1>3, GoneShrinks

-----------------------------------------------------------------------------
(* The loop of atm_list_clear leaves nothing.                              *)
EmptyRun(m, l) ==
    m = [i \in 0 .. MaxPush |->
           IF i = 0 THEN l
           ELSE LET before == m[i - 1]
                IN IF before.head = NULL THEN before ELSE LeftPopped(before)]

LEMMA EmptyRuns ==
  ASSUME NEW l, \E m : EmptyRun(m, l)
  PROVE  \E m : EmptyRun(m, l) /\ Emptied(l) = m[MaxPush]
BY DEF Emptied, EmptyRun

Onward(x) == IF x.head = NULL THEN x ELSE LeftPopped(x)

LEMMA OnwardHolds ==
  ASSUME NEW x, NEW s, Holds(x, s)
  PROVE  /\ Shrinks(x, Onward(x))
         /\ Holds(Onward(x), IF s = <<>> THEN s ELSE RemoveAt(s, 1))
<1>1. CASE s = <<>>
  <2>1. Onward(x) = x
    BY <1>1, HeadThere DEF Onward
  <2>2. QED
    BY <1>1, <2>1 DEF Shrinks
<1>2. CASE s # <<>>
  <2>1. Onward(x) = LeftPopped(x)
    BY <1>2, HeadThere DEF Onward
  <2>2. QED
    BY <1>2, <2>1, LeftPoppedHolds
<1>3. QED
  BY <1>1, <1>2

LEMMA EmptiedHolds ==
  ASSUME NEW l, NEW s, Holds(l, s)
  PROVE  Holds(Emptied(l), <<>>) /\ Shrinks(l, Emptied(l))
<1> DEFINE X == {x \in ListType : Shrinks(l, x) /\ \E t : Holds(x, t)}
<1>0. MaxPush \in Nat /\ s \in Seq(Entries) /\ Len(s) \in Nat /\ Len(s) <= MaxPush
  BY ListAssumption, HoldsLen DEF Holds
<1>1. l \in X
  BY DEF Holds, Shrinks
<1>2. ASSUME NEW x \in X PROVE Onward(x) \in X
  <2>1. PICK t : Holds(x, t)
    BY <1>2
  <2>2. Shrinks(x, Onward(x)) /\ \E u : Holds(Onward(x), u)
    BY <2>1, OnwardHolds
  <2>3. Shrinks(l, Onward(x))
    BY <2>2, ShrinksOn
  <2>4. Onward(x) \in ListType
    BY <2>2 DEF Holds
  <2>5. QED
    BY <2>2, <2>3, <2>4
<1> HIDE DEF X
<1>3. PICK f : f = [p \in Nat \X X |-> Onward(p[2])]
  OBVIOUS
<1>4. \A i \in Nat : \A x \in X : f[<<i, x>>] = Onward(x)
  BY <1>3
<1>5. Steps(f, MaxPush, X)
  <2>1. \A i \in 1 .. MaxPush : i \in Nat
    OBVIOUS
  <2>2. QED
    BY <1>2, <1>4, <2>1 DEF Steps
<1>6. PICK g \in [0 .. MaxPush -> X] : Run(g, f, MaxPush, l)
  BY <1>0, <1>1, <1>5, Unfolds
<1>7. EmptyRun(g, l)
  <2>1. ASSUME NEW i \in 0 .. MaxPush
        PROVE  g[i] = IF i = 0 THEN l
                      ELSE LET before == g[i - 1]
                           IN IF before.head = NULL THEN before ELSE LeftPopped(before)
    <3>1. CASE i = 0
      BY <1>6, <3>1 DEF Run
    <3>2. CASE i # 0
      <4>1. i \in 1 .. MaxPush /\ i \in Nat /\ i - 1 \in 0 .. MaxPush
        BY <1>0, <3>2
      <4>2. g[i] = f[<<i, g[i - 1]>>] /\ g[i - 1] \in X
        BY <1>6, <4>1 DEF Run
      <4>3. g[i] = Onward(g[i - 1])
        BY <1>4, <4>1, <4>2
      <4>4. QED
        BY <3>2, <4>3 DEF Onward
    <3>3. QED
      BY <3>1, <3>2
  <2>2. g = [i \in 0 .. MaxPush |-> g[i]]
    BY <1>6
  <2>3. QED
    BY <2>1, <2>2 DEF EmptyRun
<1>8. PICK m : EmptyRun(m, l) /\ Emptied(l) = m[MaxPush]
  BY <1>7, EmptyRuns
<1>9. m[0] = l /\ \A i \in 1 .. MaxPush : m[i] = Onward(m[i - 1])
  <2>1. \A i \in 0 .. MaxPush : m[i] = IF i = 0 THEN l ELSE Onward(m[i - 1])
    BY <1>8 DEF EmptyRun, Onward
  <2>2. 0 \in 0 .. MaxPush /\ \A i \in 1 .. MaxPush : i \in 0 .. MaxPush /\ i # 0
    BY <1>0
  <2>3. QED
    BY <2>1, <2>2
<1> DEFINE Good(i) == \E t : Holds(m[i], t) /\ Len(t) + i <= MaxPush /\ Shrinks(l, m[i])
           B == {i \in 0 .. MaxPush : Good(i)}
<1>10. 0 \in B
  <2>1. Shrinks(l, l)
    BY DEF Shrinks
  <2>2. Holds(m[0], s) /\ Len(s) + 0 <= MaxPush /\ Shrinks(l, m[0])
    BY <1>0, <1>9, <2>1
  <2>3. QED
    BY <1>0, <2>2
<1>11. ASSUME NEW i \in 1 .. MaxPush, i - 1 \in B PROVE i \in B
  <2>1. PICK t : Holds(m[i - 1], t) /\ Len(t) + (i - 1) <= MaxPush /\ Shrinks(l, m[i - 1])
    BY <1>11
  <2>2. PICK u : u = IF t = <<>> THEN t ELSE RemoveAt(t, 1)
    OBVIOUS
  <2>3. Holds(m[i], u) /\ Shrinks(m[i - 1], m[i])
    BY <1>9, <2>1, <2>2, OnwardHolds
  <2>4. Shrinks(l, m[i])
    BY <2>1, <2>3, ShrinksOn
  <2>5. t \in Seq(Entries) /\ Len(t) \in Nat
    BY <2>1 DEF Holds
  <2>6. Len(u) + i <= MaxPush
    <3>1. CASE t = <<>>
      BY <1>0, <2>2, <3>1
    <3>2. CASE t # <<>>
      <4>1. Len(t) # 0
        BY <2>5, <3>2, EmptySeq
      <4>2. 1 \in 1 .. Len(t)
        BY <2>5, <4>1
      <4>3. Len(u) = Len(t) - 1
        BY <2>2, <2>5, <3>2, <4>2, RemoveAtProps
      <4>4. QED
        BY <1>0, <2>1, <2>5, <4>3
    <3>3. QED
      BY <3>1, <3>2
  <2>7. QED
    BY <2>3, <2>4, <2>6
<1> HIDE DEF Good, B
<1>12. \A i \in 0 .. MaxPush : i \in B
  BY <1>0, <1>10, <1>11, Upward
<1>13. Good(MaxPush)
  <2>1. MaxPush \in B
    BY <1>0, <1>12
  <2>2. QED
    BY <2>1 DEF B
<1>14. PICK t : Holds(m[MaxPush], t) /\ Len(t) + MaxPush <= MaxPush /\ Shrinks(l, m[MaxPush])
  BY <1>13 DEF Good
<1>15. t = <<>>
  <2>1. t \in Seq(Entries) /\ Len(t) \in Nat
    BY <1>14 DEF Holds
  <2>2. Len(t) = 0
    BY <1>0, <1>14, <2>1
  <2>3. QED
    BY <2>1, <2>2, EmptySeq
<1>16. QED
  BY <1>8, <1>14, <1>15

-----------------------------------------------------------------------------
(* The inductive invariant.  There are entries s that the list holds; an   *)
(* entry is named by the value in it; what was handed out or released was  *)
(* the value of an entry now freed, once, and in a deep list all of those; *)
(* the iterator has met what is before its entry.                          *)
Valued(ent) ==
    \A n \in Entries : ent[n].mem # "none" => \E k \in Key : ent[n].val = <<n, k>>

(* Values t that have left the list.                                       *)
Out(ent, t) ==
    /\ t \in Seq(Value)
    /\ \A i \in 1 .. Len(t) : \E n \in Entries : ent[n].mem = "freed" /\ t[i] = ent[n].val
    /\ \A i, j \in 1 .. Len(t) : t[i] = t[j] => i = j

Apart(t, u) == \A i \in 1 .. Len(t), j \in 1 .. Len(u) : t[i] # u[j]

Among(v, t) == \E i \in 1 .. Len(t) : t[i] = v

(* Every freed entry's value is one of them.                               *)
Accounted(ent, t, u) ==
    \A n \in Entries : ent[n].mem = "freed" => Among(ent[n].val, t) \/ Among(ent[n].val, u)

(* The iterator, its entry c, and what it has returned.                    *)
Met(ent, c, t) ==
    /\ c \in Entries => ent[c].mem # "none"
    /\ t \in Seq(Value)
    /\ \A i \in 1 .. Len(t) : \E n \in Entries : ent[n].mem # "none" /\ t[i] = ent[n].val

Passed(ent, c, t) ==
    /\ \A i \in 1 .. Len(t) : t[i][1] < c
    /\ \A i, j \in 1 .. Len(t) : i < j => t[i][1] < t[j][1]
    /\ \A n \in Entries : n < c /\ ent[n].mem = "live" =>
          \E i \in 1 .. Len(t) : t[i] = ent[n].val

EntriesInv == (\E s : Holds(list, s)) /\ InOrder(list.ent) /\ Valued(list.ent)

OutInv ==
    /\ Out(list.ent, taken) /\ Out(list.ent, released) /\ Apart(taken, released)
    /\ deep \in BOOLEAN /\ (~ deep => released = <<>>)
    /\ deep => Accounted(list.ent, taken, released)

IterInv ==
    /\ iter \in [on : BOOLEAN, curr : Ptr]
    /\ Met(list.ent, iter.curr, seen)
    /\ iter.on /\ Live(iter.curr) => Passed(list.ent, iter.curr, seen)

ListInv == EntriesInv /\ OutInv /\ IterInv

-----------------------------------------------------------------------------
(* An entry that is there keeps its value, and one that is freed stays so. *)
Later(e, f) ==
    \A x \in Entries : e[x].mem # "none" =>
        /\ f[x].val = e[x].val /\ f[x].mem # "none"
        /\ e[x].mem = "freed" => f[x].mem = "freed"

LEMMA ShrinksLater ==
  ASSUME NEW l, NEW m, Shrinks(l, m)
  PROVE  Later(l.ent, m.ent)
<1> SUFFICES ASSUME NEW x \in Entries, l.ent[x].mem # "none"
             PROVE  /\ m.ent[x].val = l.ent[x].val /\ m.ent[x].mem # "none"
                    /\ l.ent[x].mem = "freed" => m.ent[x].mem = "freed"
  BY DEF Later
<1>1. /\ m.ent[x].val = l.ent[x].val
      /\ \/ m.ent[x].mem = l.ent[x].mem
         \/ l.ent[x].mem = "live" /\ m.ent[x].mem = "freed"
  BY DEF Shrinks
<1>2. QED
  BY <1>1

LEMMA ShrinksEntries ==
  ASSUME NEW l, NEW m, Shrinks(l, m), InOrder(l.ent), Valued(l.ent)
  PROVE  InOrder(m.ent) /\ Valued(m.ent)
<1>1. \A x \in Entries : m.ent[x].val = l.ent[x].val
  BY DEF Shrinks
<1>2. \A x \in Entries : m.ent[x].mem = "none" <=> l.ent[x].mem = "none"
  BY DEF Shrinks
<1>3. QED
  BY <1>1, <1>2 DEF InOrder, Valued

LEMMA LaterOut ==
  ASSUME NEW e, NEW f, Later(e, f), NEW t, Out(e, t)
  PROVE  Out(f, t)
<1>1. ASSUME NEW i \in 1 .. Len(t)
      PROVE  \E n \in Entries : f[n].mem = "freed" /\ t[i] = f[n].val
  <2>1. PICK n \in Entries : e[n].mem = "freed" /\ t[i] = e[n].val
    BY DEF Out
  <2>2. QED
    BY <2>1 DEF Later
<1>2. QED
  BY <1>1 DEF Out

LEMMA LaterMet ==
  ASSUME NEW e, NEW f, Later(e, f), NEW c, NEW t, Met(e, c, t)
  PROVE  Met(f, c, t)
<1>1. ASSUME NEW i \in 1 .. Len(t)
      PROVE  \E n \in Entries : f[n].mem # "none" /\ t[i] = f[n].val
  <2>1. PICK n \in Entries : e[n].mem # "none" /\ t[i] = e[n].val
    BY DEF Met
  <2>2. QED
    BY <2>1 DEF Later
<1>2. QED
  BY <1>1 DEF Met, Later

(* The value of one entry is not that of another.                          *)
LEMMA ValueOnce ==
  ASSUME NEW ent, Valued(ent), NEW x \in Entries, NEW y \in Entries,
         ent[x].mem # "none", ent[y].mem # "none", ent[x].val = ent[y].val
  PROVE  x = y
<1>1. PICK k \in Key : ent[x].val = <<x, k>>
  BY DEF Valued
<1>2. PICK j \in Key : ent[y].val = <<y, j>>
  BY DEF Valued
<1>3. <<x, k>> = <<y, j>>
  BY <1>1, <1>2
<1>4. QED
  BY <1>3

LEMMA ValueIn ==
  ASSUME NEW ent, Valued(ent), NEW x \in Entries, ent[x].mem # "none"
  PROVE  ent[x].val \in Value /\ ent[x].val[1] = x
<1>1. PICK k \in Key : ent[x].val = <<x, k>>
  BY DEF Valued
<1>2. QED
  BY <1>1 DEF Value

(* The value of an entry still in the list is not out.                     *)
LEMMA LiveNotOut ==
  ASSUME NEW ent, Valued(ent), NEW t, Out(ent, t), NEW x \in Entries, ent[x].mem = "live"
  PROVE  \A i \in 1 .. Len(t) : t[i] # ent[x].val
<1> SUFFICES ASSUME NEW i \in 1 .. Len(t), t[i] = ent[x].val PROVE FALSE
  OBVIOUS
<1>1. PICK n \in Entries : ent[n].mem = "freed" /\ t[i] = ent[n].val
  BY DEF Out
<1>2. n = x
  BY <1>1, ValueOnce
<1>3. QED
  BY <1>1, <1>2

(* One more value out.                                                     *)
LEMMA OutMore ==
  ASSUME NEW e, Valued(e), NEW f, Later(e, f), NEW t, Out(e, t),
         NEW x \in Entries, e[x].mem = "live", f[x].mem = "freed"
  PROVE  Out(f, Append(t, e[x].val))
<1>0. PICK v, u : v = e[x].val /\ u = Append(t, v)
  OBVIOUS
<1>1. PICK z \in Nat : z = Len(t)
  BY DEF Out
<1>2. t \in Seq(Value) /\ v \in Value
  BY <1>0, ValueIn DEF Out
<1>3. u \in Seq(Value) /\ Len(u) = z + 1 /\ u[z + 1] = v /\ \A i \in 1 .. z : u[i] = t[i]
  BY <1>0, <1>1, <1>2, AppendIs
<1>4. Out(f, t)
  BY LaterOut
<1>5. v = f[x].val
  BY <1>0 DEF Later
<1>6. \A i \in 1 .. z : t[i] # v
  BY <1>0, <1>1, LiveNotOut
<1>7. \A i \in 1 .. z + 1 : i \in 1 .. z \/ i = z + 1
  BY <1>1
<1>8. \A i \in 1 .. z + 1 : \E n \in Entries : f[n].mem = "freed" /\ u[i] = f[n].val
  BY <1>1, <1>3, <1>4, <1>5, <1>7 DEF Out
<1>9. \A i, j \in 1 .. z + 1 : u[i] = u[j] => i = j
  <2>1. \A i, j \in 1 .. z : t[i] = t[j] => i = j
    BY <1>1 DEF Out
  <2>2. QED
    BY <1>3, <1>6, <1>7, <2>1
<1>10. QED
  BY <1>0, <1>3, <1>8, <1>9 DEF Out

(* A value out in one way is not out in the other.                         *)
LEMMA ApartMore ==
  ASSUME NEW t \in Seq(Value), NEW u \in Seq(Value), Apart(t, u), NEW v \in Value,
         \A i \in 1 .. Len(u) : u[i] # v
  PROVE  Apart(Append(t, v), u)
<1>1. PICK w : w = Append(t, v)
  OBVIOUS
<1>2. PICK z \in Nat : z = Len(t)
  OBVIOUS
<1>3. Len(w) = z + 1 /\ w[z + 1] = v /\ \A i \in 1 .. z : w[i] = t[i]
  BY <1>1, <1>2, AppendIs
<1>4. \A i \in 1 .. z + 1 : i \in 1 .. z \/ i = z + 1
  BY <1>2
<1>5. QED
  BY <1>1, <1>2, <1>3, <1>4 DEF Apart

LEMMA ApartBoth == ASSUME NEW t, NEW u PROVE Apart(t, u) <=> Apart(u, t)
BY DEF Apart

-----------------------------------------------------------------------------
(* What is in the list.                                                    *)
ItemsOf(l) == ValuesOf(l.ent, WalkFrom(l.ent, l.head))

LEMMA ItemsAre ==
  ASSUME NEW l, NEW s, Holds(l, s), Valued(l.ent)
  PROVE  /\ ItemsOf(l) \in Seq(Value) /\ Len(ItemsOf(l)) = Len(s)
         /\ DOMAIN ItemsOf(l) = 1 .. Len(s)
         /\ \A i \in 1 .. Len(s) : ItemsOf(l)[i] = l.ent[s[i]].val
         /\ \A i, j \in 1 .. Len(s) : ItemsOf(l)[i] = ItemsOf(l)[j] => i = j
<1>1. s \in Seq(Entries) /\ Upwards(s) /\ Chain(l, s)
  BY DEF Holds
<1>2. PICK z \in Nat : z = Len(s)
  BY <1>1
<1>3. DOMAIN s = 1 .. z
  BY <1>1, <1>2
<1>4. ItemsOf(l) = [i \in 1 .. z |-> l.ent[s[i]].val]
  BY <1>3, WalkAll DEF ItemsOf, ValuesOf
<1>5. \A i \in 1 .. z : s[i] \in Entries /\ l.ent[s[i]].mem # "none"
  BY <1>1, <1>2 DEF Chain
<1>6. \A i \in 1 .. z : l.ent[s[i]].val \in Value
  BY <1>5, ValueIn
<1>7. PICK q : q = [i \in 1 .. z |-> l.ent[s[i]].val]
  OBVIOUS
<1>8. q \in Seq(Value) /\ Len(q) = z /\ DOMAIN q = 1 .. z
      /\ \A i \in 1 .. z : q[i] = l.ent[s[i]].val
  BY <1>6, <1>7
<1>9. ASSUME NEW i \in 1 .. z, NEW j \in 1 .. z, q[i] = q[j] PROVE i = j
  <2>1. s[i] = s[j]
    BY <1>5, <1>8, <1>9, ValueOnce
  <2>2. QED
    BY <1>1, <1>2, <2>1, AtOnce
<1>10. QED
  BY <1>2, <1>4, <1>7, <1>8, <1>9

(* The items of the list without its i-th entry.                           *)
LEMMA ItemsWithout ==
  ASSUME NEW l, NEW m, NEW s, NEW i \in 1 .. Len(s), Holds(l, s), Valued(l.ent),
         Holds(m, RemoveAt(s, i)), Shrinks(l, m), Valued(m.ent)
  PROVE  ItemsOf(m) = RemoveAt(ItemsOf(l), i)
<1>1. PICK t, p, q : t = RemoveAt(s, i) /\ p = ItemsOf(l) /\ q = RemoveAt(p, i)
  OBVIOUS
<1>2. PICK z \in Nat : z = Len(s)
  BY DEF Holds
<1>3. s \in Seq(Entries) /\ i \in 1 .. z
  BY <1>2 DEF Holds
<1>4. Len(t) = z - 1 /\ \A j \in 1 .. z - 1 : t[j] = IF j < i THEN s[j] ELSE s[j + 1]
  BY <1>1, <1>2, <1>3, RemoveAtProps
<1>5. p \in Seq(Value) /\ Len(p) = z /\ \A j \in 1 .. z : p[j] = l.ent[s[j]].val
  BY <1>1, <1>2, ItemsAre
<1>6. /\ q \in Seq(Value) /\ Len(q) = z - 1
      /\ \A j \in 1 .. z - 1 : q[j] = IF j < i THEN p[j] ELSE p[j + 1]
  BY <1>1, <1>3, <1>5, RemoveAtProps
<1>7. PICK r : r = ItemsOf(m)
  OBVIOUS
<1>8. r \in Seq(Value) /\ Len(r) = z - 1 /\ \A j \in 1 .. z - 1 : r[j] = m.ent[t[j]].val
  BY <1>1, <1>4, <1>7, ItemsAre
<1>9. \A x \in Entries : m.ent[x].val = l.ent[x].val
  BY DEF Shrinks
<1>10. ASSUME NEW j \in 1 .. z - 1 PROVE r[j] = q[j]
  <2>1. j \in 1 .. z /\ j + 1 \in 1 .. z
    BY <1>2
  <2>2. s[j] \in Entries /\ s[j + 1] \in Entries
    BY <1>2, <1>3, <2>1
  <2>3. p[j] = m.ent[s[j]].val /\ p[j + 1] = m.ent[s[j + 1]].val
    BY <1>5, <1>9, <2>1, <2>2
  <2>4. QED
    BY <1>4, <1>6, <1>8, <2>3
<1>11. r = q
  BY <1>6, <1>8, <1>10, SeqEqual
<1>12. QED
  BY <1>1, <1>7, <1>11

-----------------------------------------------------------------------------
(* The iterator while entries go.                                          *)
LEMMA PassedShrinks ==
  ASSUME NEW l, NEW m, Shrinks(l, m), NEW c, NEW t, Passed(l.ent, c, t)
  PROVE  Passed(m.ent, c, t)
<1>1. ASSUME NEW n \in Entries, n < c, m.ent[n].mem = "live"
      PROVE  \E i \in 1 .. Len(t) : t[i] = m.ent[n].val
  <2>1. m.ent[n].val = l.ent[n].val /\ l.ent[n].mem = "live"
    BY <1>1 DEF Shrinks
  <2>2. QED
    BY <1>1, <2>1 DEF Passed
<1>2. QED
  BY <1>1 DEF Passed

LEMMA ShrinkKeeps ==
  ASSUME EntriesInv, IterInv, NEW m, m = list', NEW t, Holds(m, t), Shrinks(list, m),
         UNCHANGED <<iter, seen>>
  PROVE  EntriesInv' /\ IterInv' /\ Later(list.ent, m.ent)
<1>1. InOrder(m.ent) /\ Valued(m.ent) /\ Later(list.ent, m.ent)
  BY ShrinksEntries, ShrinksLater DEF EntriesInv
<1>2. EntriesInv'
  BY <1>1 DEF EntriesInv
<1>3. Met(m.ent, iter.curr, seen)
  BY <1>1, LaterMet DEF IterInv
<1>4. ASSUME iter.on, iter.curr # NULL, m.ent[iter.curr].mem = "live"
      PROVE  Passed(m.ent, iter.curr, seen)
  <2>1. iter.curr \in Entries
    BY <1>4 DEF IterInv, Ptr
  <2>2. list.ent[iter.curr].mem = "live"
    BY <1>4, <2>1 DEF Shrinks
  <2>3. Passed(list.ent, iter.curr, seen)
    BY <1>4, <2>2 DEF IterInv, Live
  <2>4. QED
    BY <2>3, PassedShrinks
<1>5. IterInv'
  BY <1>3, <1>4 DEF IterInv, Live
<1>6. QED
  BY <1>1, <1>2, <1>5

(* The removal of one entry.                                               *)
LEMMA RemovalKeeps ==
  ASSUME EntriesInv, IterInv, NEW s, Holds(list, s), NEW i \in 1 .. Len(s),
         list' = Unlinked(list, s[i]), UNCHANGED <<iter, seen>>
  PROVE  /\ EntriesInv' /\ IterInv'
         /\ Later(list.ent, list'.ent) /\ s[i] \in Entries /\ Gone(list, list', s[i])
         /\ list.ent[s[i]].mem = "live" /\ list'.ent[s[i]].mem = "freed"
         /\ items' = RemoveAt(items, i) /\ items[i] = list.ent[s[i]].val
<1>1. PICK m : m = Unlinked(list, s[i])
  OBVIOUS
<1>2. Holds(m, RemoveAt(s, i)) /\ Gone(list, m, s[i])
  BY <1>1, UnlinkedHolds
<1>3. s[i] \in Entries /\ list.ent[s[i]].mem = "live"
  BY DEF Holds, Chain
<1>4. Shrinks(list, m)
  BY <1>2, <1>3, GoneShrinks
<1>5. EntriesInv' /\ IterInv' /\ Later(list.ent, m.ent)
  BY <1>1, <1>2, <1>4, ShrinkKeeps
<1>6. m.ent[s[i]].mem = "freed"
  BY <1>2, <1>3 DEF Gone
<1>7. Valued(list.ent) /\ Valued(m.ent)
  BY <1>1, <1>5 DEF EntriesInv
<1>8. ItemsOf(m) = RemoveAt(ItemsOf(list), i)
  BY <1>2, <1>4, <1>7, ItemsWithout
<1>9. items = ItemsOf(list) /\ items' = ItemsOf(m)
  BY <1>1 DEF items, ItemsOf
<1>10. ItemsOf(list)[i] = list.ent[s[i]].val
  BY <1>7, ItemsAre
<1>11. QED
  BY <1>1, <1>2, <1>3, <1>5, <1>6, <1>8, <1>9, <1>10

(* What has left the list stays among what has left it.                    *)
LEMMA AmongMore ==
  ASSUME NEW t \in Seq(Value), NEW v \in Value
  PROVE  Among(v, Append(t, v)) /\ \A w : Among(w, t) => Among(w, Append(t, v))
<1>0. PICK u : u = Append(t, v)
  OBVIOUS
<1>1. PICK z \in Nat : z = Len(t)
  OBVIOUS
<1>2. Len(u) = z + 1 /\ u[z + 1] = v /\ \A i \in 1 .. z : u[i] = t[i]
  BY <1>0, <1>1, AppendIs
<1>3. z + 1 \in 1 .. z + 1 /\ \A i \in 1 .. z : i \in 1 .. z + 1
  BY <1>1
<1>4. QED
  BY <1>0, <1>1, <1>2, <1>3 DEF Among

LEMMA AccountedMore ==
  ASSUME NEW l, NEW m, NEW e \in Entries, Gone(l, m, e), NEW t, NEW u, NEW t2, NEW u2,
         Accounted(l.ent, t, u),
         Among(l.ent[e].val, t2) \/ Among(l.ent[e].val, u2),
         \A w : (Among(w, t) => Among(w, t2)) /\ (Among(w, u) => Among(w, u2))
  PROVE  Accounted(m.ent, t2, u2)
<1>1. SUFFICES ASSUME NEW n \in Entries, m.ent[n].mem = "freed"
               PROVE  Among(m.ent[n].val, t2) \/ Among(m.ent[n].val, u2)
  BY DEF Accounted
<1>2. m.ent[n].val = l.ent[n].val /\ (n = e \/ l.ent[n].mem = "freed")
  BY <1>1 DEF Gone
<1>3. CASE n = e
  BY <1>2, <1>3
<1>4. CASE l.ent[n].mem = "freed"
  BY <1>2, <1>4 DEF Accounted
<1>5. QED
  BY <1>2, <1>3, <1>4

(* What the removal hands out.                                             *)
LEMMA TakenMore ==
  ASSUME Valued(list.ent), OutInv, Later(list.ent, list'.ent), NEW e \in Entries,
         list.ent[e].mem = "live", list'.ent[e].mem = "freed", Gone(list, list', e),
         taken' = Append(taken, list.ent[e].val), UNCHANGED <<deep, released>>
  PROVE  OutInv'
<1>1. PICK v : v = list.ent[e].val
  OBVIOUS
<1>2. Out(list'.ent, taken') /\ Out(list'.ent, released)
  BY OutMore, LaterOut DEF OutInv
<1>3. v \in Value /\ \A i \in 1 .. Len(released) : released[i] # v
  BY <1>1, ValueIn, LiveNotOut DEF OutInv
<1>4. Apart(taken', released)
  <2>1. taken \in Seq(Value) /\ released \in Seq(Value)
    BY DEF OutInv, Out
  <2>2. QED
    BY <1>1, <1>3, <2>1, ApartMore DEF OutInv
<1>5. ASSUME deep PROVE Accounted(list'.ent, taken', released)
  <2>1. Accounted(list.ent, taken, released) /\ taken \in Seq(Value)
    BY <1>5 DEF OutInv, Out
  <2>2. taken' = Append(taken, v)
    BY <1>1
  <2>3. Among(v, taken') /\ \A w : Among(w, taken) => Among(w, taken')
    BY <1>3, <2>1, <2>2, AmongMore
  <2>4. QED
    BY <1>1, <2>1, <2>3, AccountedMore
<1>6. QED
  BY <1>2, <1>4, <1>5 DEF OutInv

LEMMA ReleasedMore ==
  ASSUME Valued(list.ent), OutInv, Later(list.ent, list'.ent), NEW e \in Entries,
         list.ent[e].mem = "live", list'.ent[e].mem = "freed", Gone(list, list', e),
         released' = IF deep THEN Append(released, list.ent[e].val) ELSE released,
         UNCHANGED <<deep, taken>>
  PROVE  OutInv'
<1>1. CASE ~ deep
  <2>1. Out(list'.ent, taken) /\ Out(list'.ent, released)
    BY LaterOut DEF OutInv
  <2>2. QED
    BY <1>1, <2>1 DEF OutInv
<1>2. CASE deep
  <2>1. PICK v : v = list.ent[e].val
    OBVIOUS
  <2>2. Out(list'.ent, released') /\ Out(list'.ent, taken)
    BY <1>2, OutMore, LaterOut DEF OutInv
  <2>3. v \in Value /\ \A i \in 1 .. Len(taken) : taken[i] # v
    BY <2>1, ValueIn, LiveNotOut DEF OutInv
  <2>4. Apart(released', taken)
    <3>1. taken \in Seq(Value) /\ released \in Seq(Value) /\ Apart(released, taken)
      BY ApartBoth DEF OutInv, Out
    <3>2. QED
      BY <1>2, <2>1, <2>3, <3>1, ApartMore
  <2>5. Apart(taken, released')
    BY <2>4, ApartBoth
  <2>6. Accounted(list.ent, taken, released) /\ released \in Seq(Value)
    BY <1>2 DEF OutInv, Out
  <2>7. released' = Append(released, v)
    BY <1>2, <2>1
  <2>8. Among(v, released') /\ \A w : Among(w, released) => Among(w, released')
    BY <2>3, <2>6, <2>7, AmongMore
  <2>9. Accounted(list'.ent, taken, released')
    <3>1. PICK l, m, u : l = list /\ m = list' /\ u = released'
      OBVIOUS
    <3>2. Among(l.ent[e].val, taken) \/ Among(l.ent[e].val, u)
      BY <2>1, <2>8, <3>1
    <3>3. \A w : (Among(w, taken) => Among(w, taken)) /\ (Among(w, released) => Among(w, u))
      BY <2>8, <3>1
    <3>4. Gone(l, m, e) /\ Accounted(l.ent, taken, released)
      BY <2>6, <3>1
    <3>5. Accounted(m.ent, taken, u)
      BY <3>2, <3>3, <3>4, AccountedMore
    <3>6. QED
      BY <3>1, <3>5
  <2>10. QED
    BY <1>2, <2>2, <2>5, <2>9 DEF OutInv
<1>3. QED
  BY <1>1, <1>2 DEF OutInv

-----------------------------------------------------------------------------
(* The calls.                                                              *)
LEMMA LPopKeeps ==
  ASSUME ListInv, LPop
  PROVE  ListInv' /\ items # <<>> /\ items' = RemoveAt(items, 1) /\ taken' = Append(taken, items[1])
<1>1. EntriesInv /\ OutInv /\ IterInv
  BY DEF ListInv
<1>2. PICK s : Holds(list, s)
  BY <1>1 DEF EntriesInv
<1>3. s # <<>>
  BY <1>2, HeadThere DEF LPop
<1>4. 1 \in 1 .. Len(s) /\ list.head = s[1] /\ LeftPopped(list) = Unlinked(list, s[1])
  BY <1>2, <1>3, PoppedIsUnlinked
<1>5. list' = Unlinked(list, s[1]) /\ UNCHANGED <<iter, seen>>
  BY <1>4 DEF LPop, IterUnchanged
<1>6. /\ EntriesInv' /\ IterInv'
      /\ Later(list.ent, list'.ent) /\ s[1] \in Entries /\ Gone(list, list', s[1])
      /\ list.ent[s[1]].mem = "live" /\ list'.ent[s[1]].mem = "freed"
      /\ items' = RemoveAt(items, 1) /\ items[1] = list.ent[s[1]].val
  BY <1>1, <1>2, <1>4, <1>5, RemovalKeeps
<1>7. taken' = Append(taken, list.ent[s[1]].val) /\ UNCHANGED <<deep, released>>
  BY <1>4 DEF LPop
<1>8. OutInv'
  BY <1>1, <1>6, <1>7, TakenMore DEF EntriesInv
<1>9. items # <<>>
  <2>1. Len(ItemsOf(list)) = Len(s) /\ Len(<<>>) = 0
    BY <1>1, <1>2, ItemsAre DEF EntriesInv
  <2>2. items = ItemsOf(list)
    BY DEF items, ItemsOf
  <2>3. QED
    BY <1>4, <2>1, <2>2
<1>10. QED
  BY <1>6, <1>7, <1>8, <1>9 DEF ListInv

LEMMA RPopKeeps ==
  ASSUME ListInv, RPop
  PROVE  /\ ListInv' /\ items # <<>> /\ items \in Seq(Value)
         /\ items' = RemoveAt(items, Len(items)) /\ taken' = Append(taken, items[Len(items)])
<1>1. EntriesInv /\ OutInv /\ IterInv
  BY DEF ListInv
<1>2. PICK s : Holds(list, s)
  BY <1>1 DEF EntriesInv
<1>3. s # <<>>
  BY <1>2, HeadThere DEF RPop
<1>4. PICK z : /\ z = Len(s) /\ z \in 1 .. Len(s) /\ list.tail = s[z]
               /\ RightPopped(list) = Unlinked(list, s[z])
  BY <1>2, <1>3, PoppedIsUnlinked
<1>5. list' = Unlinked(list, s[z]) /\ UNCHANGED <<iter, seen>>
  BY <1>4 DEF RPop, IterUnchanged
<1>6. /\ EntriesInv' /\ IterInv'
      /\ Later(list.ent, list'.ent) /\ s[z] \in Entries /\ Gone(list, list', s[z])
      /\ list.ent[s[z]].mem = "live" /\ list'.ent[s[z]].mem = "freed"
      /\ items' = RemoveAt(items, z) /\ items[z] = list.ent[s[z]].val
  BY <1>1, <1>2, <1>4, <1>5, RemovalKeeps
<1>7. taken' = Append(taken, list.ent[s[z]].val) /\ UNCHANGED <<deep, released>>
  BY <1>4 DEF RPop
<1>8. OutInv'
  BY <1>1, <1>6, <1>7, TakenMore DEF EntriesInv
<1>9. items \in Seq(Value) /\ Len(items) = z
  <2>1. Len(ItemsOf(list)) = z /\ ItemsOf(list) \in Seq(Value)
    BY <1>1, <1>2, <1>4, ItemsAre DEF EntriesInv
  <2>2. items = ItemsOf(list)
    BY DEF items, ItemsOf
  <2>3. QED
    BY <2>1, <2>2
<1>10. items # <<>>
  <2>1. Len(<<>>) = 0
    OBVIOUS
  <2>2. QED
    BY <1>4, <1>9, <2>1
<1>11. QED
  BY <1>6, <1>7, <1>8, <1>9, <1>10 DEF ListInv

(* atm_list_find_linear finds the first that matches.                      *)
LEMMA FindIs ==
  ASSUME NEW s, Holds(list, s), Valued(list.ent), NEW k, FindEntry(k) # NULL
  PROVE  \E i \in 1 .. Len(s) :
            /\ FindEntry(k) = s[i] /\ i \in DOMAIN items /\ Matches(items[i], k)
            /\ \A j \in 1 .. i - 1 : ~ Matches(items[j], k)
<1>1. DOMAIN items = 1 .. Len(s) /\ Len(s) \in Nat
  BY ItemsAre DEF items, ItemsOf, Holds
<1>2. PICK H : H = Hits(k)
  OBVIOUS
<1>3. H = {i \in 1 .. Len(s) : Matches(items[i], k)}
  BY <1>1, <1>2 DEF Hits
<1>4. H # {} /\ FindEntry(k) = s[Min(H)]
  BY <1>2, WalkAll DEF FindEntry
<1>5. H \in SUBSET Nat
  BY <1>1, <1>3
<1>6. \E m \in H : \A n \in H : m <= n
  BY <1>4, <1>5, LeastNat
<1>7. Min(H) \in H /\ \A n \in H : Min(H) <= n
  BY <1>6 DEF Min
<1>8. PICK i : i = Min(H)
  OBVIOUS
<1>9. i \in 1 .. Len(s) /\ Matches(items[i], k)
  BY <1>3, <1>7, <1>8
<1>10. ASSUME NEW j \in 1 .. i - 1 PROVE ~ Matches(items[j], k)
  <2>1. j \in 1 .. Len(s) /\ ~ (i <= j)
    BY <1>1, <1>9
  <2>2. j \notin H
    BY <1>7, <1>8, <2>1
  <2>3. QED
    BY <1>3, <2>1, <2>2
<1>11. QED
  BY <1>1, <1>4, <1>8, <1>9, <1>10

LEMMA DelKeepsList ==
  ASSUME ListInv, NEW k \in Key, Del(k)
  PROVE  /\ ListInv' /\ UNCHANGED taken
         /\ \E i \in DOMAIN items : /\ Matches(items[i], k)
                                    /\ \A j \in 1 .. i - 1 : ~ Matches(items[j], k)
                                    /\ items' = RemoveAt(items, i)
<1>1. EntriesInv /\ OutInv /\ IterInv
  BY DEF ListInv
<1>2. PICK s : Holds(list, s)
  BY <1>1 DEF EntriesInv
<1>3. PICK e : e = FindEntry(k)
  OBVIOUS
<1>4. /\ e # NULL /\ list' = Unlinked(list, e)
      /\ released' = IF deep THEN Append(released, list.ent[e].val) ELSE released
      /\ UNCHANGED <<deep, taken>> /\ UNCHANGED <<iter, seen>>
  BY <1>3 DEF Del, IterUnchanged
<1>5. PICK i \in 1 .. Len(s) :
        /\ e = s[i] /\ i \in DOMAIN items /\ Matches(items[i], k)
        /\ \A j \in 1 .. i - 1 : ~ Matches(items[j], k)
  BY <1>1, <1>2, <1>3, <1>4, FindIs DEF EntriesInv
<1>6. /\ EntriesInv' /\ IterInv'
      /\ Later(list.ent, list'.ent) /\ s[i] \in Entries /\ Gone(list, list', s[i])
      /\ list.ent[s[i]].mem = "live" /\ list'.ent[s[i]].mem = "freed"
      /\ items' = RemoveAt(items, i)
  BY <1>1, <1>2, <1>4, <1>5, RemovalKeeps
<1>7. OutInv'
  BY <1>1, <1>4, <1>5, <1>6, ReleasedMore DEF EntriesInv
<1>8. QED
  BY <1>4, <1>5, <1>6, <1>7 DEF ListInv

LEMMA PushKeeps ==
  ASSUME ListInv, NEW n \in Entries, NEW k \in Key, Push(n, k)
  PROVE  /\ ListInv' /\ UNCHANGED taken
         /\ <<n, k>> \in Value /\ items \in Seq(Value) /\ items' = Append(items, <<n, k>>)
<1>1. EntriesInv /\ OutInv /\ IterInv
  BY DEF ListInv
<1>2. PICK s : Holds(list, s)
  BY <1>1 DEF EntriesInv
<1>3. PICK m, t, v : m = Pushed(list, n, k) /\ t = Append(s, n) /\ v = <<n, k>>
  OBVIOUS
<1>4. /\ list.ent[n].mem = "none" /\ \A x \in 1 .. n - 1 : list.ent[x].mem # "none"
      /\ list' = m /\ UNCHANGED <<deep, taken, released, iter, seen>>
  BY <1>3 DEF Push, Pushed, IterUnchanged
<1>5. /\ Holds(m, t)
      /\ \A x \in Entries : /\ m.ent[x].mem = IF x = n THEN "live" ELSE list.ent[x].mem
                            /\ m.ent[x].val = IF x = n THEN v ELSE list.ent[x].val
  BY <1>1, <1>2, <1>3, <1>4, PushedHolds DEF EntriesInv
<1>6. Later(list.ent, m.ent)
  BY <1>4, <1>5 DEF Later
<1>7. InOrder(m.ent)
  <2>1. ASSUME NEW x \in Entries, NEW y \in Entries, x < y, m.ent[x].mem = "none"
        PROVE  m.ent[y].mem = "none"
    <3>1. x # n /\ list.ent[x].mem = "none"
      BY <1>5, <2>1
    <3>2. list.ent[y].mem = "none"
      BY <1>1, <2>1, <3>1 DEF EntriesInv, InOrder
    <3>3. y # n
      <4>1. SUFFICES ASSUME y = n PROVE FALSE
        OBVIOUS
      <4>2. x \in 1 .. n - 1
        BY <2>1, <4>1 DEF Entries
      <4>3. QED
        BY <1>4, <3>1, <4>2
    <3>4. QED
      BY <1>5, <3>2, <3>3
  <2>2. QED
    BY <2>1 DEF InOrder
<1>8. Valued(m.ent)
  <2>1. ASSUME NEW x \in Entries, m.ent[x].mem # "none"
        PROVE  \E j \in Key : m.ent[x].val = <<x, j>>
    <3>1. CASE x = n
      BY <1>3, <1>5, <3>1
    <3>2. CASE x # n
      BY <1>1, <1>5, <2>1, <3>2 DEF EntriesInv, Valued
    <3>3. QED
      BY <3>1, <3>2
  <2>2. QED
    BY <2>1 DEF Valued
<1>9. EntriesInv'
  BY <1>4, <1>5, <1>7, <1>8 DEF EntriesInv
<1>10. OutInv'
  <2>1. Out(m.ent, taken) /\ Out(m.ent, released)
    BY <1>1, <1>6, LaterOut DEF OutInv
  <2>2. \A x \in Entries : m.ent[x].mem = "freed" =>
           list.ent[x].mem = "freed" /\ m.ent[x].val = list.ent[x].val
    BY <1>5
  <2>3. deep => Accounted(m.ent, taken, released)
    BY <1>1, <2>2 DEF OutInv, Accounted
  <2>4. QED
    BY <1>1, <1>4, <2>1, <2>3 DEF OutInv
<1>11. Met(m.ent, iter.curr, seen)
  BY <1>1, <1>6, LaterMet DEF IterInv
<1>12. ASSUME iter.on, iter.curr # NULL, m.ent[iter.curr].mem = "live"
       PROVE  Passed(m.ent, iter.curr, seen)
  <2>1. PICK c : c = iter.curr
    OBVIOUS
  <2>2. c \in Entries /\ list.ent[c].mem # "none" /\ c # n
    BY <1>1, <1>4, <1>12, <2>1 DEF IterInv, Met, Ptr
  <2>3. list.ent[c].mem = "live"
    BY <1>5, <1>12, <2>1, <2>2
  <2>4. Passed(list.ent, c, seen)
    BY <1>1, <1>12, <2>1, <2>3 DEF IterInv, Live
  <2>5. ~ (n < c)
    BY <1>1, <1>4, <2>2 DEF EntriesInv, InOrder
  <2>6. ASSUME NEW x \in Entries, x < c, m.ent[x].mem = "live"
        PROVE  \E i \in 1 .. Len(seen) : seen[i] = m.ent[x].val
    <3>1. x # n
      BY <2>5, <2>6
    <3>2. list.ent[x].mem = "live" /\ list.ent[x].val = m.ent[x].val
      BY <1>5, <2>6, <3>1
    <3>3. QED
      BY <2>4, <2>6, <3>2 DEF Passed
  <2>7. QED
    BY <2>1, <2>4, <2>6 DEF Passed
<1>13. IterInv'
  BY <1>1, <1>4, <1>11, <1>12 DEF IterInv, Live
<1>14. items' = Append(items, v) /\ items \in Seq(Value) /\ v \in Value
  <2>1. PICK p, q, r : p = ItemsOf(list) /\ q = ItemsOf(m) /\ r = Append(p, v)
    OBVIOUS
  <2>2. PICK z \in Nat : z = Len(s)
    BY <1>2 DEF Holds
  <2>3. s \in Seq(Entries) /\ v \in Value
    BY <1>2, <1>3 DEF Holds, Value
  <2>4. Len(t) = z + 1 /\ t[z + 1] = n /\ \A i \in 1 .. z : t[i] = s[i]
    BY <1>3, <2>2, <2>3, AppendIs
  <2>5. p \in Seq(Value) /\ Len(p) = z /\ \A i \in 1 .. z : p[i] = list.ent[s[i]].val
    BY <1>1, <1>2, <2>1, <2>2, ItemsAre DEF EntriesInv
  <2>6. q \in Seq(Value) /\ Len(q) = z + 1 /\ \A i \in 1 .. z + 1 : q[i] = m.ent[t[i]].val
    BY <1>5, <1>8, <2>1, <2>4, ItemsAre
  <2>7. r \in Seq(Value) /\ Len(r) = z + 1 /\ r[z + 1] = v /\ \A i \in 1 .. z : r[i] = p[i]
    BY <2>1, <2>3, <2>5, AppendIs
  <2>8. \A i \in 1 .. z : s[i] \in Entries /\ s[i] # n
    BY <1>2, <1>4, <2>2 DEF Holds, Chain
  <2>9. \A i \in 1 .. z + 1 : i = z + 1 \/ i \in 1 .. z
    OBVIOUS
  <2>10. ASSUME NEW i \in 1 .. z + 1 PROVE q[i] = r[i]
    <3>1. CASE i = z + 1
      BY <1>5, <2>4, <2>6, <2>7, <3>1
    <3>2. CASE i \in 1 .. z
      BY <1>5, <2>4, <2>5, <2>6, <2>7, <2>8, <3>2
    <3>3. QED
      BY <2>9, <3>1, <3>2
  <2>11. q = r
    BY <2>6, <2>7, <2>10, SeqEqual
  <2>12. items = p /\ items' = q
    BY <1>4, <2>1 DEF items, ItemsOf
  <2>13. QED
    BY <2>1, <2>3, <2>5, <2>11, <2>12
<1>15. QED
  BY <1>3, <1>4, <1>9, <1>10, <1>13, <1>14 DEF ListInv

-----------------------------------------------------------------------------
(* Clearing: the values of all the entries go out together.                *)
LEMMA ConcatIs ==
  ASSUME NEW X, NEW s \in Seq(X), NEW t \in Seq(X)
  PROVE  /\ s \o t \in Seq(X) /\ Len(s \o t) = Len(s) + Len(t)
         /\ \A i \in 1 .. Len(s) : (s \o t)[i] = s[i]
         /\ \A i \in 1 .. Len(t) : (s \o t)[Len(s) + i] = t[i]
<1>1. PICK w : w = s \o t
  OBVIOUS
<1>2. PICK y, z \in Nat : y = Len(s) /\ z = Len(t)
  OBVIOUS
<1>3. /\ w \in Seq(X) /\ Len(w) = y + z
      /\ \A i \in 1 .. y + z : w[i] = IF i <= y THEN s[i] ELSE t[i - y]
  BY <1>1, <1>2, ConcatProperties
<1>4. \A i \in 1 .. y : i \in 1 .. y + z /\ i <= y
  OBVIOUS
<1>5. \A i \in 1 .. z : y + i \in 1 .. y + z /\ ~ (y + i <= y) /\ (y + i) - y = i
  OBVIOUS
<1>6. QED
  BY <1>1, <1>2, <1>3, <1>4, <1>5

LEMMA ConcatEach ==
  ASSUME NEW X, NEW s \in Seq(X), NEW t \in Seq(X), NEW i \in 1 .. Len(s \o t)
  PROVE  \/ i \in 1 .. Len(s) /\ (s \o t)[i] = s[i]
         \/ \E j \in 1 .. Len(t) : i = Len(s) + j /\ (s \o t)[i] = t[j]
<1>2. PICK y, z \in Nat : y = Len(s) /\ z = Len(t)
  OBVIOUS
<1>3. i \in 1 .. y + z
  BY <1>2, ConcatIs
<1>4. CASE i \in 1 .. y
  BY <1>2, <1>4, ConcatIs
<1>5. CASE i \notin 1 .. y
  <2>1. PICK j \in 1 .. z : i = y + j
    <3>1. i - y \in 1 .. z /\ i = y + (i - y)
      BY <1>3, <1>5
    <3>2. QED
      BY <3>1
  <2>2. QED
    BY <1>2, <2>1, ConcatIs
<1>6. QED
  BY <1>4, <1>5

(* No value twice in two sequences that each have none twice and share     *)
(* none.                                                                   *)
Once(s) == \A i, j \in 1 .. Len(s) : s[i] = s[j] => i = j

LEMMA ConcatOnce ==
  ASSUME NEW X, NEW s \in Seq(X), NEW t \in Seq(X), Once(s), Once(t), Apart(s, t)
  PROVE  Once(s \o t)
<1>1. PICK w : w = s \o t
  OBVIOUS
<1>2. PICK y \in Nat : y = Len(s)
  OBVIOUS
<1>3. ASSUME NEW i \in 1 .. Len(w)
      PROVE  \/ i \in 1 .. y /\ w[i] = s[i]
             \/ \E j \in 1 .. Len(t) : i = y + j /\ w[i] = t[j]
  BY <1>1, <1>2, ConcatEach
<1>4. SUFFICES ASSUME NEW i \in 1 .. Len(w), NEW j \in 1 .. Len(w), w[i] = w[j] PROVE i = j
  BY <1>1 DEF Once
<1>5. CASE i \in 1 .. y /\ w[i] = s[i]
  <2>1. CASE j \in 1 .. y /\ w[j] = s[j]
    BY <1>2, <1>4, <1>5, <2>1 DEF Once
  <2>2. CASE \E b \in 1 .. Len(t) : j = y + b /\ w[j] = t[b]
    BY <1>2, <1>4, <1>5, <2>2 DEF Apart
  <2>3. QED
    BY <1>3, <2>1, <2>2
<1>6. CASE \E b \in 1 .. Len(t) : i = y + b /\ w[i] = t[b]
  <2>1. CASE j \in 1 .. y /\ w[j] = s[j]
    BY <1>2, <1>4, <1>6, <2>1 DEF Apart
  <2>2. CASE \E b \in 1 .. Len(t) : j = y + b /\ w[j] = t[b]
    BY <1>4, <1>6, <2>2 DEF Once
  <2>3. QED
    BY <1>3, <2>1, <2>2
<1>7. QED
  BY <1>3, <1>5, <1>6

LEMMA LiveAt ==
  ASSUME NEW l, NEW s, Holds(l, s), NEW n \in Entries, l.ent[n].mem = "live"
  PROVE  \E j \in 1 .. Len(s) : s[j] = n
BY DEF Holds, Chain

LEMMA ConcatAmong ==
  ASSUME NEW X, NEW s \in Seq(X), NEW t \in Seq(X)
  PROVE  /\ \A a \in 1 .. Len(s) : Among(s[a], s \o t)
         /\ \A b \in 1 .. Len(t) : Among(t[b], s \o t)
<1>1. PICK w, y, z : w = s \o t /\ y = Len(s) /\ z = Len(t)
  OBVIOUS
<1>2. y \in Nat /\ z \in Nat
  BY <1>1
<1>3. Len(w) = y + z /\ (\A a \in 1 .. y : w[a] = s[a]) /\ \A b \in 1 .. z : w[y + b] = t[b]
  BY <1>1, ConcatIs
<1>4. (\A a \in 1 .. y : a \in 1 .. y + z) /\ \A b \in 1 .. z : y + b \in 1 .. y + z
  BY <1>2
<1>5. QED
  BY <1>1, <1>3, <1>4 DEF Among

LEMMA ClearKeeps ==
  ASSUME ListInv, Clear
  PROVE  ListInv' /\ UNCHANGED taken /\ items' = <<>>
<1>1. EntriesInv /\ OutInv /\ IterInv
  BY DEF ListInv
<1>2. PICK s : Holds(list, s)
  BY <1>1 DEF EntriesInv
<1>3. PICK m : m = Emptied(list)
  OBVIOUS
<1>4. list' = m /\ UNCHANGED <<deep, taken, iter, seen>>
      /\ released' = IF deep THEN released \o items ELSE released
  BY <1>3 DEF Clear, IterUnchanged
<1>5. Holds(m, <<>>) /\ Shrinks(list, m)
  BY <1>2, <1>3, EmptiedHolds
<1>6. EntriesInv' /\ IterInv' /\ Later(list.ent, m.ent)
  BY <1>1, <1>4, <1>5, ShrinkKeeps
<1>7. items' = <<>>
  <2>1. Valued(m.ent)
    BY <1>4, <1>6 DEF EntriesInv
  <2>2. ItemsOf(m) \in Seq(Value) /\ Len(ItemsOf(m)) = Len(<<>>)
    BY <1>5, <2>1, ItemsAre
  <2>3. Len(<<>>) = 0
    OBVIOUS
  <2>4. ItemsOf(m) = <<>>
    BY <2>2, <2>3, EmptySeq
  <2>5. QED
    BY <1>4, <2>4 DEF items, ItemsOf
<1>8. Out(m.ent, taken) /\ Out(m.ent, released)
  BY <1>1, <1>6, LaterOut DEF OutInv
<1>9. ASSUME deep
      PROVE  /\ Out(m.ent, released \o items) /\ Apart(taken, released \o items)
             /\ Accounted(m.ent, taken, released \o items)
  <2>1. PICK r, p, w : r = released /\ p = items /\ w = r \o p
    OBVIOUS
  <2>2. p = ItemsOf(list)
    BY <2>1 DEF items, ItemsOf
  <2>3. PICK z \in Nat : z = Len(s)
    BY <1>2 DEF Holds
  <2>4. p \in Seq(Value) /\ Len(p) = z /\ Once(p) /\ \A i \in 1 .. z : p[i] = list.ent[s[i]].val
    BY <1>1, <1>2, <2>2, <2>3, ItemsAre DEF EntriesInv, Once
  <2>5. r \in Seq(Value) /\ Once(r)
    BY <1>1, <2>1 DEF OutInv, Out, Once
  <2>6. \A i \in 1 .. z : s[i] \in Entries /\ list.ent[s[i]].mem = "live"
    BY <1>2, <2>3 DEF Holds, Chain
  <2>7. ASSUME NEW t, Out(list.ent, t) PROVE Apart(t, p)
    <3>1. SUFFICES ASSUME NEW i \in 1 .. Len(t), NEW j \in 1 .. z PROVE t[i] # p[j]
      BY <2>4 DEF Apart
    <3>2. t[i] # list.ent[s[j]].val
      BY <1>1, <2>6, <2>7, LiveNotOut DEF EntriesInv
    <3>3. QED
      BY <2>4, <3>2
  <2>8. Apart(r, p) /\ Apart(taken, p)
    BY <1>1, <2>1, <2>7 DEF OutInv
  <2>9. Once(w) /\ w \in Seq(Value)
    BY <2>1, <2>4, <2>5, <2>8, ConcatOnce, ConcatIs
  <2>10. ASSUME NEW i \in 1 .. Len(w)
         PROVE  \/ \E a \in 1 .. Len(r) : w[i] = r[a]
                \/ \E b \in 1 .. z : w[i] = p[b]
    BY <2>1, <2>4, <2>5, ConcatEach
  <2>11. ASSUME NEW i \in 1 .. Len(w)
         PROVE  \E n \in Entries : m.ent[n].mem = "freed" /\ w[i] = m.ent[n].val
    <3>1. CASE \E a \in 1 .. Len(r) : w[i] = r[a]
      BY <1>8, <2>1, <3>1 DEF Out
    <3>2. CASE \E b \in 1 .. z : w[i] = p[b]
      <4>1. PICK b \in 1 .. z : w[i] = p[b]
        BY <3>2
      <4>2. PICK n \in Entries : n = s[b] /\ w[i] = list.ent[n].val /\ list.ent[n].mem = "live"
        BY <2>4, <2>6, <4>1
      <4>3. m.ent[n].val = list.ent[n].val /\ m.ent[n].mem # "live"
        <5>1. Len(<<>>) = 0 /\ ~ \E j \in 1 .. Len(<<>>) : TRUE
          OBVIOUS
        <5>2. m.ent[n].mem # "live"
          BY <1>5, <5>1 DEF Holds, Chain
        <5>3. QED
          BY <1>5, <5>2 DEF Shrinks
      <4>4. m.ent[n].mem = "freed"
        BY <1>5, <4>2, <4>3 DEF Shrinks
      <4>5. QED
        BY <4>2, <4>3, <4>4
    <3>3. QED
      BY <2>10, <3>1, <3>2
  <2>12. Apart(taken, w)
    <3>1. SUFFICES ASSUME NEW i \in 1 .. Len(taken), NEW j \in 1 .. Len(w) PROVE taken[i] # w[j]
      BY DEF Apart
    <3>2. CASE \E a \in 1 .. Len(r) : w[j] = r[a]
      BY <1>1, <2>1, <3>2 DEF OutInv, Apart
    <3>3. CASE \E b \in 1 .. z : w[j] = p[b]
      BY <2>4, <2>8, <3>3 DEF Apart
    <3>4. QED
      BY <2>10, <3>2, <3>3
  <2>13. (\A a \in 1 .. Len(r) : Among(r[a], w)) /\ \A b \in 1 .. Len(p) : Among(p[b], w)
    BY <2>1, <2>4, <2>5, ConcatAmong
  <2>14. ASSUME NEW n \in Entries, m.ent[n].mem = "freed"
         PROVE  Among(m.ent[n].val, taken) \/ Among(m.ent[n].val, w)
    <3>1. m.ent[n].val = list.ent[n].val /\ list.ent[n].mem \in {"freed", "live"}
      BY <1>5, <2>14 DEF Shrinks
    <3>2. CASE list.ent[n].mem = "freed"
      <4>1. Among(list.ent[n].val, taken) \/ Among(list.ent[n].val, r)
        BY <1>1, <1>9, <2>1, <3>2 DEF OutInv, Accounted
      <4>2. Among(list.ent[n].val, r) => Among(list.ent[n].val, w)
        BY <2>13 DEF Among
      <4>3. QED
        BY <3>1, <4>1, <4>2
    <3>3. CASE list.ent[n].mem = "live"
      <4>1. PICK j \in 1 .. z : s[j] = n
        BY <1>2, <2>3, <3>3, LiveAt
      <4>2. Among(list.ent[n].val, w)
        BY <2>4, <2>13, <4>1
      <4>3. QED
        BY <3>1, <4>2
    <3>4. QED
      BY <3>1, <3>2, <3>3
  <2>15. QED
    BY <2>1, <2>9, <2>11, <2>12, <2>14 DEF Out, Once, Accounted
<1>10. OutInv'
  <2>1. CASE deep
    BY <1>1, <1>4, <1>8, <1>9, <2>1 DEF OutInv
  <2>2. CASE ~ deep
    BY <1>1, <1>4, <1>8, <2>2 DEF OutInv
  <2>3. QED
    BY <1>1, <2>1, <2>2 DEF OutInv
<1>11. QED
  BY <1>4, <1>6, <1>7, <1>10 DEF ListInv

-----------------------------------------------------------------------------
(* The iterator's own calls.                                               *)
LEMMA MetNothing ==
  ASSUME NEW l, NEW s, Holds(l, s)
  PROVE  /\ l.head \in Ptr /\ Met(l.ent, l.head, <<>>)
         /\ l.head # NULL => Passed(l.ent, l.head, <<>>)
<1>1. s \in Seq(Entries) /\ Upwards(s) /\ Chain(l, s) /\ l.head = At(s, 1) /\ Len(s) \in Nat
  BY DEF Holds, Chain
<1>2. <<>> \in Seq(Value) /\ Len(<<>>) = 0 /\ 1 .. Len(<<>>) = {}
  OBVIOUS
<1>3. l.head # NULL => 1 \in 1 .. Len(s) /\ l.head = s[1]
  BY <1>1 DEF At
<1>4. NULL \notin Entries
  BY DEF NULL, Entries
<1>5. l.head \in Entries => l.ent[l.head].mem # "none"
  BY <1>1, <1>3, <1>4 DEF Chain
<1>6. ASSUME l.head # NULL, NEW n \in Entries, n < l.head, l.ent[n].mem = "live" PROVE FALSE
  <2>1. PICK j \in 1 .. Len(s) : s[j] = n
    BY <1>6, LiveAt
  <2>2. s[1] \in Entries /\ n < s[1]
    BY <1>1, <1>3, <1>6
  <2>3. j = 1 \/ 1 < j
    OBVIOUS
  <2>4. j = 1 \/ s[1] < s[j]
    BY <1>1, <1>3, <1>6, <2>3 DEF Upwards
  <2>5. QED
    BY <2>1, <2>2, <2>4 DEF Entries
<1>7. l.head \in Ptr
  BY <1>1, AtType
<1>8. QED
  BY <1>2, <1>5, <1>6, <1>7 DEF Met, Passed

LEMMA IterKeeps ==
  ASSUME ListInv, IterNew \/ IterNext \/ IterReset \/ IterFree
  PROVE  ListInv' /\ UNCHANGED <<items, taken>>
<1>1. EntriesInv /\ OutInv /\ IterInv
  BY DEF ListInv
<1>2. PICK s : Holds(list, s)
  BY <1>1 DEF EntriesInv
<1>3. UNCHANGED <<list, deep, taken, released>>
  BY DEF IterNew, IterNext, IterReset, IterFree
<1>4. EntriesInv' /\ OutInv' /\ UNCHANGED items
  BY <1>1, <1>3 DEF EntriesInv, OutInv, items
<1>5. CASE IterNew \/ IterReset
  <2>1. iter' = [on |-> TRUE, curr |-> list.head] /\ seen' = <<>>
    <3>1. CASE IterNew
      BY <3>1 DEF IterNew
    <3>2. CASE IterReset
      BY <1>1, <3>2 DEF IterReset, IterInv
    <3>3. QED
      BY <1>5, <3>1, <3>2
  <2>2. iter'.curr = list.head /\ list.head \in Ptr /\ iter' \in [on : BOOLEAN, curr : Ptr]
    BY <1>2, <2>1, MetNothing
  <2>3. Met(list.ent, list.head, <<>>) /\ (list.head # NULL => Passed(list.ent, list.head, <<>>))
    BY <1>2, MetNothing
  <2>4. IterInv'
    BY <1>3, <2>1, <2>2, <2>3 DEF IterInv, Live
  <2>5. QED
    BY <1>3, <1>4, <2>4 DEF ListInv
<1>6. CASE IterFree
  <2>1. iter' = [on |-> FALSE, curr |-> NULL] /\ seen' = <<>>
    BY <1>6 DEF IterFree
  <2>2. iter' \in [on : BOOLEAN, curr : Ptr] /\ iter'.curr = NULL /\ iter'.on = FALSE
    BY <2>1 DEF Ptr
  <2>3. Met(list.ent, NULL, <<>>)
    BY DEF Met, NULL, Entries
  <2>4. IterInv'
    BY <1>3, <2>1, <2>2, <2>3 DEF IterInv
  <2>5. QED
    BY <1>3, <1>4, <2>4 DEF ListInv
<1>7. CASE IterNext
  <2>1. PICK c, v, d : c = iter.curr /\ v = list.ent[c].val /\ d = list.ent[c].next
    OBVIOUS
  <2>2. iter.on /\ c # NULL /\ list.ent[c].mem = "live" /\ seen' = Append(seen, v)
    BY <1>7, <2>1 DEF IterNext, Live
  <2>3. c \in Entries
    BY <1>1, <2>1, <2>2 DEF IterInv, Ptr
  <2>4. iter' = [iter EXCEPT !.curr = d]
    BY <1>7, <2>1 DEF IterNext
  <2>5. Met(list.ent, c, seen) /\ Passed(list.ent, c, seen)
    BY <1>1, <2>1, <2>2 DEF IterInv, Live
  <2>6. PICK j \in 1 .. Len(s) : s[j] = c
    BY <1>2, <2>2, <2>3, LiveAt
  <2>7. s \in Seq(Entries) /\ Upwards(s) /\ d = At(s, j + 1) /\ Len(s) \in Nat
    BY <1>2, <2>1, <2>6 DEF Holds, Chain
  <2>8. d \in Ptr /\ (d # NULL => j + 1 \in 1 .. Len(s) /\ d = s[j + 1] /\ list.ent[d].mem = "live")
    <3>1. d \in Ptr
      BY <2>7, AtType
    <3>2. d # NULL => j + 1 \in 1 .. Len(s) /\ d = s[j + 1]
      BY <2>7 DEF At
    <3>3. \A i \in 1 .. Len(s) : list.ent[s[i]].mem = "live"
      BY <1>2 DEF Holds, Chain
    <3>4. QED
      BY <3>1, <3>2, <3>3
  <2>9. v \in Value /\ v[1] = c
    BY <1>1, <2>1, <2>2, <2>3, ValueIn DEF EntriesInv
  <2>10. PICK u : u = Append(seen, v)
    OBVIOUS
  <2>11. PICK z \in Nat : z = Len(seen)
    BY <2>5 DEF Met
  <2>12. u \in Seq(Value) /\ Len(u) = z + 1 /\ u[z + 1] = v /\ \A i \in 1 .. z : u[i] = seen[i]
    BY <2>5, <2>9, <2>10, <2>11, AppendIs DEF Met
  <2>13. \A i \in 1 .. z + 1 : i \in 1 .. z \/ i = z + 1
    BY <2>11
  <2>14. Met(list.ent, d, u)
    <3>1. \A i \in 1 .. z + 1 : \E n \in Entries : list.ent[n].mem # "none" /\ u[i] = list.ent[n].val
      <4>1. \A i \in 1 .. z : \E n \in Entries : list.ent[n].mem # "none" /\ seen[i] = list.ent[n].val
        BY <2>5, <2>11 DEF Met
      <4>2. list.ent[c].mem # "none" /\ u[z + 1] = list.ent[c].val
        BY <2>1, <2>2, <2>12
      <4>3. QED
        BY <2>3, <2>12, <2>13, <4>1, <4>2
    <3>2. d \in Entries => list.ent[d].mem # "none"
      <4>1. NULL \notin Entries
        BY DEF NULL, Entries
      <4>2. QED
        BY <2>8, <4>1
    <3>3. QED
      BY <2>12, <3>1, <3>2 DEF Met
  <2>15. ASSUME d # NULL PROVE Passed(list.ent, d, u)
    <3>1. c \in Nat /\ d \in Nat /\ c < d
      <4>1. s[j] < s[j + 1] /\ s[j + 1] \in Entries
        BY <2>7, <2>8, <2>15 DEF Upwards
      <4>2. QED
        BY <2>3, <2>6, <2>8, <2>15, <4>1 DEF Entries
    <3>2. \A i \in 1 .. z : seen[i][1] \in Nat /\ seen[i][1] < c
      <4>1. \A i \in 1 .. z : seen[i] \in Value
        BY <2>5, <2>11 DEF Met
      <4>2. \A x \in Value : x[1] \in Nat
        BY DEF Value, Entries
      <4>3. QED
        BY <2>5, <2>11, <4>1, <4>2 DEF Passed
    <3>3. \A i \in 1 .. z + 1 : u[i][1] < d
      <4>1. \A i \in 1 .. z : seen[i][1] < d
        BY <3>1, <3>2
      <4>2. QED
        BY <2>9, <2>12, <2>13, <3>1, <4>1
    <3>4. ASSUME NEW a \in 1 .. z + 1, NEW b \in 1 .. z + 1, a < b PROVE u[a][1] < u[b][1]
      <4>1. a \in 1 .. z
        BY <3>4
      <4>2. CASE b = z + 1
        BY <2>9, <2>12, <3>2, <4>1, <4>2
      <4>3. CASE b \in 1 .. z
        BY <2>5, <2>11, <2>12, <3>4, <4>1, <4>3 DEF Passed
      <4>4. QED
        BY <2>13, <4>2, <4>3
    <3>5. ASSUME NEW n \in Entries, n < d, list.ent[n].mem = "live"
          PROVE  \E i \in 1 .. z + 1 : u[i] = list.ent[n].val
      <4>1. PICK i \in 1 .. Len(s) : s[i] = n
        BY <1>2, <3>5, LiveAt
      <4>2. i <= j
        <5>1. ~ (s[j + 1] < s[i]) /\ s[j + 1] # s[i]
          BY <2>8, <2>15, <3>1, <3>5, <4>1 DEF Entries
        <5>2. ~ (j + 1 < i) /\ j + 1 # i
          BY <2>7, <2>8, <2>15, <5>1 DEF Upwards
        <5>3. QED
          BY <2>7, <5>2
      <4>3. CASE i = j
        <5>1. n = c /\ z + 1 \in 1 .. z + 1
          BY <2>6, <2>11, <4>1, <4>3
        <5>2. QED
          BY <2>1, <2>12, <5>1
      <4>4. CASE i # j
        <5>1. i < j
          BY <2>7, <4>2, <4>4
        <5>2. n < c
          BY <2>6, <2>7, <4>1, <5>1 DEF Upwards
        <5>3. PICK a \in 1 .. z : seen[a] = list.ent[n].val
          BY <2>5, <2>11, <3>5, <5>2 DEF Passed
        <5>4. a \in 1 .. z + 1
          OBVIOUS
        <5>5. QED
          BY <2>12, <5>3, <5>4
      <4>5. QED
        BY <4>3, <4>4
    <3>6. QED
      BY <2>12, <3>3, <3>4, <3>5 DEF Passed
  <2>16. iter' \in [on : BOOLEAN, curr : Ptr] /\ iter'.curr = d /\ iter'.on
    BY <1>1, <2>2, <2>4, <2>8 DEF IterInv
  <2>17. seen' = u
    BY <2>2, <2>10
  <2>18. IterInv'
    BY <1>3, <2>14, <2>15, <2>16, <2>17 DEF IterInv, Live
  <2>19. QED
    BY <1>3, <1>4, <2>18 DEF ListInv
<1>8. QED
  BY <1>5, <1>6, <1>7

-----------------------------------------------------------------------------
(* The invariant.                                                          *)
LEMMA ListInvInit == Init => ListInv /\ items = <<>> /\ taken = <<>>
<1> SUFFICES ASSUME Init PROVE ListInv /\ items = <<>> /\ taken = <<>>
  OBVIOUS
<1>1. list = [ent |-> [n \in Entries |-> NoEntry], head |-> NULL, tail |-> NULL, size |-> 0]
      /\ deep \in BOOLEAN /\ taken = <<>> /\ released = <<>>
      /\ iter = [on |-> FALSE, curr |-> NULL] /\ seen = <<>>
  BY DEF Init
<1>2. NoEntry \in Entry /\ NoEntry.mem = "none" /\ NULL \in Ptr
  BY DEF NoEntry, Entry, Ptr
<1>3. \A n \in Entries : list.ent[n].mem = "none"
  BY <1>1, <1>2
<1>4. list \in ListType
  BY <1>1, <1>2 DEF ListType
<1>5. <<>> \in Seq(Entries) /\ <<>> \in Seq(Value) /\ Len(<<>>) = 0 /\ 1 .. Len(<<>>) = {}
  OBVIOUS
<1>6. Holds(list, <<>>)
  BY <1>1, <1>3, <1>4, <1>5 DEF Holds, Upwards, Chain, At
<1>7. EntriesInv
  BY <1>3, <1>6 DEF EntriesInv, InOrder, Valued
<1>8. OutInv
  BY <1>1, <1>3, <1>5 DEF OutInv, Out, Apart, Accounted
<1>9. IterInv
  <2>1. iter \in [on : BOOLEAN, curr : Ptr] /\ iter.on = FALSE /\ iter.curr = NULL
    BY <1>1, <1>2
  <2>2. Met(list.ent, NULL, <<>>)
    BY <1>5 DEF Met, NULL, Entries
  <2>3. QED
    BY <1>1, <2>1, <2>2 DEF IterInv
<1>10. items = <<>>
  <2>1. ItemsOf(list) \in Seq(Value) /\ Len(ItemsOf(list)) = 0
    BY <1>5, <1>6, <1>7, ItemsAre DEF EntriesInv
  <2>2. ItemsOf(list) = <<>>
    BY <2>1, EmptySeq
  <2>3. QED
    BY <2>2 DEF items, ItemsOf
<1>11. QED
  BY <1>1, <1>7, <1>8, <1>9, <1>10 DEF ListInv

LEMMA ListInvStep == ListInv /\ [Next]_vars => ListInv'
<1> SUFFICES ASSUME ListInv, [Next]_vars PROVE ListInv'
  OBVIOUS
<1>1. CASE \E n \in Entries, k \in Key : Push(n, k)
  BY <1>1, PushKeeps
<1>2. CASE LPop
  BY <1>2, LPopKeeps
<1>3. CASE RPop
  BY <1>3, RPopKeeps
<1>4. CASE \E k \in Key : Del(k)
  BY <1>4, DelKeepsList
<1>5. CASE Clear
  BY <1>5, ClearKeeps
<1>6. CASE IterNew \/ IterNext \/ IterReset \/ IterFree
  BY <1>6, IterKeeps
<1>7. CASE UNCHANGED vars
  BY <1>7 DEF vars, ListInv, EntriesInv, OutInv, IterInv, Live
<1>8. QED
  BY <1>1, <1>2, <1>3, <1>4, <1>5, <1>6, <1>7 DEF Next

LEMMA ListInvAlways == Spec => []ListInv
<1>1. QED
  BY ListInvInit, ListInvStep, PTL DEF Spec

-----------------------------------------------------------------------------
(* What the invariant says of the runs' properties.                        *)
LEMMA ListInvBothWays == ListInv => BothWays
<1> SUFFICES ASSUME ListInv PROVE BothWays
  OBVIOUS
<1>1. PICK s : Holds(list, s)
  BY DEF ListInv, EntriesInv
<1>2. s \in Seq(Entries) /\ Chain(list, s) /\ DOMAIN s = 1 .. Len(s)
  BY <1>1 DEF Holds
<1>3. WalkFrom(list.ent, list.head) = s /\ s = Reverse(WalkBack(list.ent, list.tail))
  BY <1>1, WalkAll, WalkAllBack
<1>4. Len(s) = list.size
  BY <1>2 DEF Chain
<1>5. ToSet(s) = {n \in Entries : list.ent[n].mem = "live"}
  <2>1. \A n \in ToSet(s) : n \in Entries /\ list.ent[n].mem = "live"
    BY <1>2 DEF ToSet, Chain
  <2>2. \A n \in Entries : list.ent[n].mem = "live" => n \in ToSet(s)
    BY <1>2 DEF ToSet, Chain
  <2>3. QED
    BY <2>1, <2>2
<1>6. QED
  BY <1>3, <1>4, <1>5 DEF BothWays

LEMMA ListInvOwned == ListInv => ValuesOwnedOnce
<1> SUFFICES ASSUME ListInv PROVE ValuesOwnedOnce
  OBVIOUS
<1>1. EntriesInv /\ OutInv
  BY DEF ListInv
<1>2. PICK s : Holds(list, s)
  BY <1>1 DEF EntriesInv
<1>3. items \in Seq(Value) /\ Once(items) /\ Len(items) = Len(s)
      /\ \A i \in 1 .. Len(s) : items[i] = list.ent[s[i]].val
  <2>1. items = ItemsOf(list)
    BY DEF items, ItemsOf
  <2>2. QED
    BY <1>1, <1>2, <2>1, ItemsAre DEF EntriesInv, Once
<1>4. ASSUME NEW t, Out(list.ent, t) PROVE t \in Seq(Value) /\ Once(t) /\ Apart(items, t)
  <2>1. t \in Seq(Value) /\ Once(t)
    BY <1>4 DEF Out, Once
  <2>2. \A i \in 1 .. Len(s) : s[i] \in Entries /\ list.ent[s[i]].mem = "live"
    BY <1>2 DEF Holds, Chain
  <2>3. \A i \in 1 .. Len(s) : \A j \in 1 .. Len(t) : t[j] # list.ent[s[i]].val
    BY <1>1, <1>4, <2>2, LiveNotOut DEF EntriesInv
  <2>4. Apart(items, t)
    BY <1>3, <2>3 DEF Apart
  <2>5. QED
    BY <2>1, <2>4
<1>5. PICK w : w = items \o taken
  OBVIOUS
<1>6. /\ taken \in Seq(Value) /\ Once(taken) /\ Apart(items, taken)
      /\ released \in Seq(Value) /\ Once(released) /\ Apart(items, released)
      /\ Apart(taken, released)
  BY <1>1, <1>4 DEF OutInv
<1>7. w \in Seq(Value) /\ Once(w)
  BY <1>3, <1>5, <1>6, ConcatOnce, ConcatIs
<1>8. Apart(w, released)
  <2>1. SUFFICES ASSUME NEW i \in 1 .. Len(w), NEW j \in 1 .. Len(released)
                 PROVE  w[i] # released[j]
    BY DEF Apart
  <2>2. (\E a \in 1 .. Len(items) : w[i] = items[a]) \/ (\E a \in 1 .. Len(taken) : w[i] = taken[a])
    BY <1>3, <1>5, <1>6, ConcatEach
  <2>3. QED
    BY <1>6, <2>2 DEF Apart
<1>9. PICK q : q = w \o released
  OBVIOUS
<1>10. q \in Seq(Value) /\ Once(q)
  BY <1>6, <1>7, <1>8, <1>9, ConcatOnce, ConcatIs
<1>11. DOMAIN q = 1 .. Len(q)
  BY <1>10
<1>12. IsInjective(q)
  BY <1>10, <1>11 DEF IsInjective, Once
<1>13. IsInjective(items \o taken \o released)
  BY <1>5, <1>9, <1>12
<1>14. ~ deep => released = <<>>
  BY <1>1 DEF OutInv
<1>15. ASSUME deep, NEW n \in Entries, list.ent[n].mem # "none"
       PROVE  list.ent[n].val \in ToSet(items \o taken \o released)
  <2>1. PICK v : v = list.ent[n].val
    OBVIOUS
  <2>2. /\ \A a \in 1 .. Len(items) : Among(items[a], w)
        /\ \A a \in 1 .. Len(taken) : Among(taken[a], w)
    BY <1>3, <1>5, <1>6, ConcatAmong
  <2>3. /\ \A a \in 1 .. Len(w) : Among(w[a], q)
        /\ \A a \in 1 .. Len(released) : Among(released[a], q)
    BY <1>6, <1>7, <1>9, ConcatAmong
  <2>4. list.ent[n].mem \in {"live", "freed"}
    BY <1>2, <1>15 DEF Holds, ListType, Entry
  <2>5. Among(v, w) \/ Among(v, released)
    <3>1. CASE list.ent[n].mem = "live"
      BY <1>2, <1>3, <2>1, <2>2, <3>1, LiveAt
    <3>2. CASE list.ent[n].mem = "freed"
      <4>1. Among(v, taken) \/ Among(v, released)
        BY <1>1, <1>15, <2>1, <3>2 DEF OutInv, Accounted
      <4>2. QED
        BY <2>2, <4>1 DEF Among
    <3>3. QED
      BY <2>4, <3>1, <3>2
  <2>6. Among(v, q)
    BY <2>3, <2>5 DEF Among
  <2>7. v \in ToSet(q)
    BY <1>11, <2>6 DEF Among, ToSet
  <2>8. QED
    BY <1>5, <1>9, <2>1, <2>7
<1>16. QED
  BY <1>13, <1>14, <1>15 DEF ValuesOwnedOnce

(* The property, of the values met and the rest.                           *)
Covers(met, rest) ==
    /\ items = met \o rest
    /\ ToSet(met) = {v \in ToSet(seen) : list.ent[v[1]].mem = "live"}
    /\ \A i, j \in DOMAIN seen : \A a, b \in DOMAIN met :
          seen[i] = met[a] /\ seen[j] = met[b] => (i < j <=> a < b)

Rest == ValuesOf(list.ent, WalkFrom(list.ent, iter.curr))

LEMMA CoversIs ==
  ASSUME iter.on /\ Live(iter.curr) => Covers(SubSeq(items, 1, Len(items) - Len(Rest)), Rest)
  PROVE  IterCoversRest
BY DEF IterCoversRest, Covers, Rest

LEMMA ListInvIter == ListInv => IterCoversRest
<1> SUFFICES ASSUME ListInv, iter.on, Live(iter.curr)
             PROVE  Covers(SubSeq(items, 1, Len(items) - Len(Rest)), Rest)
  BY CoversIs
<1>1. EntriesInv /\ IterInv
  BY DEF ListInv
<1>2. PICK s : Holds(list, s)
  BY <1>1 DEF EntriesInv
<1>3. PICK c : c = iter.curr
  OBVIOUS
<1>4. c \in Entries /\ list.ent[c].mem = "live" /\ Met(list.ent, c, seen) /\ Passed(list.ent, c, seen)
  BY <1>1, <1>3 DEF IterInv, Live, Ptr
<1>5. PICK j \in 1 .. Len(s) : s[j] = c
  BY <1>2, <1>4, LiveAt
<1>6. PICK z \in Nat : z = Len(s)
  BY <1>2 DEF Holds
<1>7. s \in Seq(Entries) /\ Upwards(s) /\ j \in 1 .. z /\ j \in 1 .. z + 1
  BY <1>2, <1>6 DEF Holds
<1>8. \A i \in 1 .. z : s[i] \in Entries /\ list.ent[s[i]].mem = "live"
  BY <1>2, <1>6 DEF Holds, Chain
<1>9. PICK t : t = From(s, j)
  OBVIOUS
<1>10. WalkFrom(list.ent, c) = t
  <2>1. At(s, j) = c
    BY <1>5, <1>6, <1>7 DEF At
  <2>2. QED
    BY <1>2, <1>6, <1>7, <1>9, <2>1, WalkOn
<1>11. PICK y \in Nat : y = z - j + 1
  BY <1>7
<1>12. /\ t \in Seq(Entries) /\ Len(t) = y /\ DOMAIN t = 1 .. y
       /\ \A i \in 1 .. y : t[i] = s[i + j - 1] /\ i + j - 1 \in 1 .. z
  <2>1. j \in 1 .. Len(s) + 1 /\ Len(s) - j + 1 = y
    BY <1>6, <1>7, <1>11
  <2>2. /\ t \in Seq(Entries) /\ Len(t) = y
        /\ \A i \in 1 .. y : t[i] = s[i + j - 1] /\ i + j - 1 \in 1 .. Len(s)
    BY <1>7, <1>9, <2>1, FromIs
  <2>3. DOMAIN t = 1 .. y
    BY <2>2
  <2>4. QED
    BY <1>6, <2>2, <2>3
<1>13. PICK p : p = items
  OBVIOUS
<1>14. p \in Seq(Value) /\ Len(p) = z /\ \A i \in 1 .. z : p[i] = list.ent[s[i]].val
  <2>1. p = ItemsOf(list)
    BY <1>13 DEF items, ItemsOf
  <2>2. QED
    BY <1>1, <1>2, <1>6, <2>1, ItemsAre DEF EntriesInv
<1>15. PICK rest : rest = ValuesOf(list.ent, t)
  OBVIOUS
<1>16. rest \in Seq(Value) /\ Len(rest) = y /\ \A i \in 1 .. y : rest[i] = p[i + j - 1]
  <2>1. rest = [i \in 1 .. y |-> list.ent[t[i]].val]
    BY <1>12, <1>15 DEF ValuesOf
  <2>2. \A i \in 1 .. y : list.ent[t[i]].val = p[i + j - 1] /\ p[i + j - 1] \in Value
    BY <1>12, <1>14
  <2>3. QED
    BY <2>1, <2>2
<1>17. PICK met : met = SubSeq(p, 1, Len(p) - Len(rest))
  OBVIOUS
<1>18. /\ met \in Seq(Value) /\ Len(met) = j - 1 /\ DOMAIN met = 1 .. j - 1
       /\ \A i \in 1 .. j - 1 : met[i] = p[i] /\ i \in 1 .. z
  <2>1. Len(p) - Len(rest) = j - 1 /\ j - 1 \in Int /\ j - 1 \in Nat
    BY <1>7, <1>11, <1>14, <1>16
  <2>2. \A i \in 1 .. j - 1 : i \in 1 .. z /\ i - 1 + 1 = i
    BY <1>7
  <2>3. \A i \in 1 .. j - 1 : p[i] \in Value
    BY <1>14, <2>2
  <2>4. met = SubSeq(p, 1, j - 1)
    BY <1>17, <2>1
  <2>5. /\ met \in Seq(Value) /\ Len(met) = IF 1 <= j - 1 THEN j - 1 - 1 + 1 ELSE 0
        /\ \A i \in 1 .. j - 1 - 1 + 1 : met[i] = p[1 + i - 1]
    BY <2>1, <2>3, <2>4, SubSeqProperties
  <2>6. Len(met) = j - 1
    BY <2>1, <2>5
  <2>7. \A i \in 1 .. j - 1 : met[i] = p[i]
    <3>1. \A i \in 1 .. j - 1 : i \in 1 .. j - 1 - 1 + 1 /\ 1 + i - 1 = i
      BY <1>7
    <3>2. QED
      BY <2>5, <3>1
  <2>8. QED
    BY <2>2, <2>5, <2>6, <2>7
<1>19. p = met \o rest
  <2>1. PICK q : q = met \o rest
    OBVIOUS
  <2>2. /\ q \in Seq(Value) /\ Len(q) = j - 1 + y
        /\ \A i \in 1 .. j - 1 : q[i] = met[i]
        /\ \A i \in 1 .. y : q[j - 1 + i] = rest[i]
    <3>1. PICK k : k = j - 1
      OBVIOUS
    <3>2. met \in Seq(Value) /\ rest \in Seq(Value) /\ Len(met) = k /\ Len(rest) = y
      BY <1>16, <1>18, <3>1
    <3>3. /\ q \in Seq(Value) /\ Len(q) = k + y
          /\ \A i \in 1 .. k : q[i] = met[i]
          /\ \A i \in 1 .. y : q[k + i] = rest[i]
      <4>1. /\ q \in Seq(Value) /\ Len(q) = Len(met) + Len(rest)
            /\ \A i \in 1 .. Len(met) : q[i] = met[i]
            /\ \A i \in 1 .. Len(rest) : q[Len(met) + i] = rest[i]
        <5>1. met \in Seq(Value) /\ rest \in Seq(Value)
          BY <3>2
        <5>2. /\ met \o rest \in Seq(Value) /\ Len(met \o rest) = Len(met) + Len(rest)
              /\ \A i \in 1 .. Len(met) : (met \o rest)[i] = met[i]
              /\ \A i \in 1 .. Len(rest) : (met \o rest)[Len(met) + i] = rest[i]
          BY <5>1, ConcatIs
        <5>3. QED
          BY <2>1, <5>2
      <4>2. QED
        BY <3>2, <4>1
    <3>4. QED
      BY <3>1, <3>3
  <2>3. j - 1 + y = z
    BY <1>7, <1>11
  <2>4. ASSUME NEW i \in 1 .. z PROVE p[i] = q[i]
    <3>1. CASE i \in 1 .. j - 1
      BY <1>18, <2>2, <3>1
    <3>2. CASE i \notin 1 .. j - 1
      <4>1. PICK a \in 1 .. y : i = j - 1 + a /\ i = a + j - 1
        <5>1. i - j + 1 \in 1 .. y /\ i = j - 1 + (i - j + 1) /\ i = (i - j + 1) + j - 1
          BY <1>7, <1>11, <3>2
        <5>2. QED
          BY <5>1
      <4>2. QED
        BY <1>16, <2>2, <4>1
    <3>3. QED
      BY <3>1, <3>2
  <2>5. p = q
    BY <1>14, <2>2, <2>3, <2>4, SeqEqual
  <2>6. QED
    BY <2>1, <2>5
<1>20. \A i \in 1 .. j - 1 : /\ met[i] = list.ent[s[i]].val /\ met[i][1] = s[i] /\ s[i] < c
                             /\ s[i] \in Entries /\ list.ent[s[i]].mem = "live"
  <2> SUFFICES ASSUME NEW i \in 1 .. j - 1
               PROVE  /\ met[i] = list.ent[s[i]].val /\ met[i][1] = s[i] /\ s[i] < c
                      /\ s[i] \in Entries /\ list.ent[s[i]].mem = "live"
    OBVIOUS
  <2>1. i \in 1 .. z /\ i < j
    BY <1>7, <1>18
  <2>2. met[i] = list.ent[s[i]].val /\ s[i] \in Entries /\ list.ent[s[i]].mem = "live"
    BY <1>8, <1>14, <1>18, <2>1
  <2>3. met[i][1] = s[i]
    BY <1>1, <2>2, ValueIn DEF EntriesInv
  <2>4. s[i] < c
    BY <1>5, <1>6, <1>7, <2>1 DEF Upwards
  <2>5. QED
    BY <2>2, <2>3, <2>4
<1>21. DOMAIN seen = 1 .. Len(seen) /\ Len(seen) \in Nat /\ seen \in Seq(Value)
  BY <1>4 DEF Met
<1>22. ToSet(met) = {v \in ToSet(seen) : list.ent[v[1]].mem = "live"}
  <2>1. ASSUME NEW v \in ToSet(met) PROVE v \in ToSet(seen) /\ list.ent[v[1]].mem = "live"
    <3>1. PICK i \in 1 .. j - 1 : v = met[i]
      BY <1>18, <2>1 DEF ToSet
    <3>2. PICK a \in 1 .. Len(seen) : seen[a] = list.ent[s[i]].val
      BY <1>4, <1>20 DEF Passed
    <3>3. QED
      BY <1>20, <1>21, <3>1, <3>2 DEF ToSet
  <2>2. ASSUME NEW v \in ToSet(seen), list.ent[v[1]].mem = "live" PROVE v \in ToSet(met)
    <3>1. PICK a \in 1 .. Len(seen) : v = seen[a]
      BY <1>21, <2>2 DEF ToSet
    <3>2. PICK n \in Entries : list.ent[n].mem # "none" /\ v = list.ent[n].val
      BY <1>4, <3>1 DEF Met
    <3>3. v[1] = n /\ list.ent[n].mem = "live" /\ n < c
      <4>1. v[1] = n
        BY <1>1, <3>2, ValueIn DEF EntriesInv
      <4>2. QED
        BY <1>4, <2>2, <3>1, <4>1 DEF Passed
    <3>4. PICK i \in 1 .. z : s[i] = n
      BY <1>2, <1>6, <3>3, LiveAt
    <3>5. i \in 1 .. j - 1
      <4>1. ~ (s[j] < s[i]) /\ s[j] # s[i]
        BY <1>4, <1>5, <3>3, <3>4 DEF Entries
      <4>2. ~ (j < i) /\ j # i
        BY <1>6, <1>7, <4>1 DEF Upwards
      <4>3. QED
        BY <1>7, <4>2
    <3>6. met[i] = v
      BY <1>20, <3>2, <3>4, <3>5
    <3>7. QED
      BY <1>18, <3>5, <3>6 DEF ToSet
  <2>3. QED
    BY <2>1, <2>2
<1>23. ASSUME NEW i \in 1 .. Len(seen), NEW k \in 1 .. Len(seen),
              NEW a \in 1 .. j - 1, NEW b \in 1 .. j - 1, seen[i] = met[a], seen[k] = met[b]
       PROVE  i < k <=> a < b
  <2>1. seen[i][1] = s[a] /\ seen[k][1] = s[b]
    BY <1>20, <1>23
  <2>2. s[a] \in Nat /\ s[b] \in Nat
    BY <1>20 DEF Entries
  <2>3. (i < k => s[a] < s[b]) /\ (k < i => s[b] < s[a])
    BY <1>4, <2>1 DEF Passed
  <2>4. (a < b => s[a] < s[b]) /\ (b < a => s[b] < s[a])
    <3>1. a \in 1 .. z /\ b \in 1 .. z
      BY <1>18
    <3>2. QED
      BY <1>6, <1>7, <3>1 DEF Upwards
  <2>5. i = k <=> a = b
    <3>1. i = k => s[a] = s[b]
      BY <2>1
    <3>2. a = b => s[a] = s[b]
      OBVIOUS
    <3>3. QED
      BY <1>21, <1>7, <2>2, <2>3, <2>4, <3>1, <3>2
  <2>6. QED
    BY <1>7, <1>21, <2>2, <2>3, <2>4, <2>5
<1>24. \A i, k \in DOMAIN seen : \A a, b \in DOMAIN met :
          seen[i] = met[a] /\ seen[k] = met[b] => (i < k <=> a < b)
  BY <1>18, <1>21, <1>23
<1>25. QED
  <2>1. Rest = rest
    BY <1>3, <1>10, <1>15 DEF Rest
  <2>2. Covers(met, rest)
    BY <1>13, <1>19, <1>22, <1>24 DEF Covers
  <2>3. SubSeq(items, 1, Len(items) - Len(rest)) = met
    BY <1>13, <1>17
  <2>4. QED
    BY <2>1, <2>2, <2>3

-----------------------------------------------------------------------------
(* From the list to the deque it stands for.                               *)
LEMMA EndsAre ==
  ASSUME NEW X, NEW s \in Seq(X), s # <<>>
  PROVE  /\ RemoveAt(s, 1) = Tail(s) /\ s[1] = Head(s)
         /\ RemoveAt(s, Len(s)) = Front(s) /\ s[Len(s)] = Last(s)
<1>1. PICK z \in Nat : z = Len(s)
  OBVIOUS
<1>2. z # 0
  BY <1>1, EmptySeq
<1>3. 1 \in 1 .. z /\ z \in 1 .. z /\ z - 1 \in Nat
  BY <1>2
<1>4. PICK a, b, t, f : a = RemoveAt(s, 1) /\ b = RemoveAt(s, z) /\ t = Tail(s) /\ f = Front(s)
  OBVIOUS
<1>5. a \in Seq(X) /\ Len(a) = z - 1 /\ \A i \in 1 .. z - 1 : a[i] = IF i < 1 THEN s[i] ELSE s[i + 1]
  BY <1>1, <1>3, <1>4, RemoveAtProps
<1>6. b \in Seq(X) /\ Len(b) = z - 1 /\ \A i \in 1 .. z - 1 : b[i] = IF i < z THEN s[i] ELSE s[i + 1]
  BY <1>1, <1>3, <1>4, RemoveAtProps
<1>7. t \in Seq(X) /\ Len(t) = z - 1 /\ \A i \in 1 .. z - 1 : t[i] = s[i + 1]
  BY <1>1, <1>4, HeadTailProperties
<1>8. f \in Seq(X) /\ Len(f) = z - 1 /\ \A i \in 1 .. z - 1 : f[i] = s[i]
  <2>1. \A i \in 1 .. z - 1 : i \in 1 .. z
    BY <1>3
  <2>2. \A i \in 1 .. z - 1 : s[i] \in X
    BY <1>1, <2>1
  <2>3. f = SubSeq(s, 1, z - 1)
    BY <1>1, <1>4 DEF Front
  <2>4. /\ f \in Seq(X) /\ Len(f) = IF 1 <= z - 1 THEN z - 1 - 1 + 1 ELSE 0
        /\ \A i \in 1 .. z - 1 - 1 + 1 : f[i] = s[1 + i - 1]
    BY <1>3, <2>2, <2>3, SubSeqProperties
  <2>5. \A i \in 1 .. z - 1 : i \in 1 .. z - 1 - 1 + 1 /\ 1 + i - 1 = i
    BY <1>3
  <2>6. Len(f) = z - 1
    BY <1>3, <2>4
  <2>7. QED
    BY <2>4, <2>5, <2>6
<1>9. \A i \in 1 .. z - 1 : ~ (i < 1) /\ i < z
  BY <1>3
<1>10. a = t
  BY <1>5, <1>7, <1>9, SeqEqual
<1>11. b = f
  BY <1>6, <1>8, <1>9, SeqEqual
<1>12. s[1] = Head(s) /\ s[z] = Last(s)
  BY <1>1 DEF Last
<1>13. QED
  BY <1>1, <1>4, <1>10, <1>11, <1>12

LEMMA DequeStep ==
  ListInv /\ [Next]_vars => [Deque!DequeNext]_<<items, taken>>
<1> SUFFICES ASSUME ListInv, [Next]_vars
             PROVE  Deque!DequeNext \/ UNCHANGED <<items, taken>>
  OBVIOUS
<1>1. ASSUME NEW n \in Entries, NEW k \in Key, Push(n, k) PROVE Deque!DequeNext
  <2>1. UNCHANGED taken /\ <<n, k>> \in Value /\ items' = Append(items, <<n, k>>)
    BY <1>1, PushKeeps
  <2>2. QED
    BY <2>1 DEF Deque!DequeNext, Deque!Push
<1>2. CASE LPop
  <2>1. PICK p : p = items
    OBVIOUS
  <2>2. p # <<>> /\ items' = RemoveAt(p, 1) /\ taken' = Append(taken, p[1])
    BY <1>2, <2>1, LPopKeeps
  <2>3. PICK s : Holds(list, s)
    BY DEF ListInv, EntriesInv
  <2>4. p \in Seq(Value)
    BY <2>1, <2>3, ItemsAre DEF ListInv, EntriesInv, items, ItemsOf
  <2>5. RemoveAt(p, 1) = Tail(p) /\ p[1] = Head(p)
    BY <2>2, <2>4, EndsAre
  <2>6. QED
    BY <2>1, <2>2, <2>5 DEF Deque!DequeNext, Deque!PopFirst
<1>3. CASE RPop
  <2>1. PICK p : p = items
    OBVIOUS
  <2>2. /\ p # <<>> /\ p \in Seq(Value) /\ items' = RemoveAt(p, Len(p))
        /\ taken' = Append(taken, p[Len(p)])
    BY <1>3, <2>1, RPopKeeps
  <2>3. RemoveAt(p, Len(p)) = Front(p) /\ p[Len(p)] = Last(p)
    BY <2>2, EndsAre
  <2>4. QED
    BY <2>1, <2>2, <2>3 DEF Deque!DequeNext, Deque!PopLast,
                                  Deque!Front, Deque!Last, Front, Last
<1>4. ASSUME NEW k \in Key, Del(k) PROVE Deque!DequeNext
  <2>1. UNCHANGED taken /\ \E i \in DOMAIN items :
          /\ Matches(items[i], k)
          /\ \A j \in 1 .. i - 1 : ~ Matches(items[j], k)
          /\ items' = RemoveAt(items, i)
    BY <1>4, DelKeepsList
  <2>2. Deque!DeleteFirst(k)
    BY <2>1 DEF Deque!DeleteFirst, Deque!RemoveAt, RemoveAt
  <2>3. QED
    BY <2>2 DEF Deque!DequeNext
<1>5. CASE Clear
  <2>1. UNCHANGED taken /\ items' = <<>>
    BY <1>5, ClearKeeps
  <2>2. QED
    BY <2>1 DEF Deque!DequeNext, Deque!Clear
<1>6. CASE IterNew \/ IterNext \/ IterReset \/ IterFree
  BY <1>6, IterKeeps
<1>7. CASE UNCHANGED vars
  BY <1>7 DEF vars, items
<1>8. QED
  BY <1>1, <1>2, <1>3, <1>4, <1>5, <1>6, <1>7 DEF Next

-----------------------------------------------------------------------------
(* The pointers of atm_list_push, the pops, atm_list_del and               *)
(* atm_list_clear agree in both directions after any sequence of calls:    *)
(* prev leads back through the entries next leads through, as many as size *)
(* says, and no other entry is allocated.                                  *)
THEOREM BothWaysAlways == Spec => []BothWays
<1>1. QED
  BY ListInvAlways, ListInvBothWays, PTL

(* A value pushed is in the list, handed out by a pop or passed to         *)
(* v_type->free, in one of these ways at most and once; in one of them at  *)
(* least when the list is deep; a list that is not deep frees no value.    *)
THEOREM ValuesOwnedAlways == Spec => []ValuesOwnedOnce
<1>1. QED
  BY ListInvAlways, ListInvOwned, PTL

(* An iterator whose entry is still there has returned, in order, whatever *)
(* is now before that entry, and has the rest before it, whatever was      *)
(* pushed, popped, deleted or cleared since atm_list_iter_new.             *)
THEOREM IterCoversAlways == Spec => []IterCoversRest
<1>1. QED
  BY ListInvAlways, ListInvIter, PTL

(* The list of pointers implements a deque: each call adds at the end,     *)
(* takes an end, deletes the first match or empties it, and an iterator's  *)
(* call leaves it as it is.                                                *)
THEOREM ListIsDeque == Spec => DequeSpec
<1>1. Init => Deque!DequeInit
  BY ListInvInit DEF Deque!DequeInit
<1>2. QED
  BY <1>1, ListInvAlways, DequeStep, PTL DEF Spec, DequeSpec, Deque!DequeSpec
=============================================================================
