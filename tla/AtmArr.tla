------------------------------- MODULE AtmArr -------------------------------
(***************************************************************************)
(* The growing array of core/atm_arr.c.  An array is a record of its slots *)
(* (numbered from 0, as in the code), its capacity and its length; a word  *)
(* is what a slot holds, and memory the allocator has just given is zero.  *)
(* The operators are the functions of the file.                            *)
(***************************************************************************)
EXTENDS Naturals

CONSTANTS
    InitialLen,   \* ATM_ARR_INITIAL_LEN (32)
    Word,         \* what a slot may hold
    Zero          \* memory that was never written

(* The code's 32 satisfies it; below 6 the array can be left with a single *)
(* free slot.                                                              *)
ASSUME ArrAssumption == InitialLen \in Nat /\ InitialLen >= 6 /\ Zero \in Word

Slots(n) == 0 .. n - 1

(* atm_arr_new *)
ArrNew == [vals |-> [i \in Slots(InitialLen) |-> Zero], capacity |-> InitialLen, length |-> 0]

(* atm_realloc to twice the size: the old slots are copied, the new ones   *)
(* are zero.                                                               *)
Doubled(a) ==
    [vals |-> [i \in Slots(2 * a.capacity) |-> IF i < a.capacity THEN a.vals[i] ELSE Zero],
     capacity |-> 2 * a.capacity,
     length |-> a.length]

(* Mutant: the array grows when it is full.                                *)
MustGrow_Full(a) == a.length + 1 > a.capacity

MustGrow(a) == (a.length * 3) \div 2 + 1 > a.capacity

(* atm_arr_add *)
ArrAdd(a, v) ==
    LET b == IF MustGrow(a) THEN Doubled(a) ELSE a IN
    [vals |-> [b.vals EXCEPT ![b.length] = v],
     capacity |-> b.capacity,
     length |-> b.length + 1]

(* atm_arr_get gives the address of slot i, or NULL past the length.       *)
HasSlot(a, i) == i < a.length

(* atm_arr_set *)
ArrSet(a, i, v) == IF HasSlot(a, i) THEN [a EXCEPT !.vals = [@ EXCEPT ![i] = v]] ELSE a

(* The capacity atm_arr_del leaves: halved when under a quarter is used.   *)
DelCapacity(a) ==
    IF a.length * 4 < a.capacity /\ 2 * InitialLen <= a.capacity
    THEN a.capacity \div 2 ELSE a.capacity

(* Mutant: the tail is copied from one slot too early.                     *)
ArrDel_OffByOne(a, i) ==
    IF ~ HasSlot(a, i) THEN a
    ELSE [vals |-> [j \in Slots(DelCapacity(a)) |->
                      IF j <= i THEN a.vals[j]
                      ELSE IF j < a.length - 1 THEN a.vals[j + 1] ELSE Zero],
          capacity |-> DelCapacity(a),
          length |-> a.length - 1]

(* atm_arr_del: the head and the tail are copied to fresh memory.          *)
ArrDel(a, i) ==
    IF ~ HasSlot(a, i) THEN a
    ELSE [vals |-> [j \in Slots(DelCapacity(a)) |->
                      IF j < i THEN a.vals[j]
                      ELSE IF j < a.length - 1 THEN a.vals[j + 1] ELSE Zero],
          capacity |-> DelCapacity(a),
          length |-> a.length - 1]
=============================================================================
