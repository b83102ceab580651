----------------------------- MODULE AtmArrCalls -----------------------------
(***************************************************************************)
(* The functions of core/atm_arr.c called in any order on one array, with  *)
(* beside it the sequence they should have made of it.                     *)
(***************************************************************************)
EXTENDS AtmArr, Sequences, SequencesExt

CONSTANT
    MaxLength     \* bound on the length, for model checking

ASSUME ArrCallsAssumption == MaxLength \in Nat

VARIABLES
    arr,             \* the array
    ref              \* the sequence it should hold (history)

ArrInit == arr = ArrNew /\ ref = <<>>

CallAdd(v) ==
    /\ arr.length < MaxLength
    /\ arr' = ArrAdd(arr, v)
    /\ ref' = Append(ref, v)

(* Calls past the length, which must change nothing, are included.         *)
CallSet(i, v) ==
    /\ arr' = ArrSet(arr, i, v)
    /\ ref' = IF i < Len(ref) THEN [ref EXCEPT ![i + 1] = v] ELSE ref

CallDel(i) ==
    /\ arr' = ArrDel(arr, i)
    /\ ref' = IF i < Len(ref) THEN RemoveAt(ref, i + 1) ELSE ref

ArrNext ==
    \/ \E v \in Word : CallAdd(v)
    \/ \E i \in 0 .. MaxLength, v \in Word : CallSet(i, v)
    \/ \E i \in 0 .. MaxLength : CallDel(i)

ArrSpec == ArrInit /\ [][ArrNext]_<<arr, ref>>

-----------------------------------------------------------------------------
(* Through growth, deletions and shrinking the array holds the sequence    *)
(* its calls describe, and nothing but zeros after it.                     *)
ArrHolds ==
    /\ DOMAIN arr.vals = Slots(arr.capacity)
    /\ arr.length = Len(ref)
    /\ \A i \in Slots(arr.capacity) :
         arr.vals[i] = IF i < Len(ref) THEN ref[i + 1] ELSE Zero

(* There are always two slots after the last one used: atm_arr_add grows   *)
(* at two thirds and atm_arr_del halves below a quarter.  The pool of      *)
(* workers reads, and writes, up to there (atm_task.c:78 and 137).         *)
RoomForTwo == arr.length + 2 <= arr.capacity
=============================================================================
