------------------------------ MODULE AtmStore ------------------------------
(* What the cache promises the two commands that use it (set and get in    *)
(* atm_cmd.c): a map whose reads may lag behind its writes.  A read gives  *)
(* the last value written to the key or one that was read before; when it  *)
(* changes, it has caught up with the last value written.  Writes are what *)
(* makes reads catch up, those of other keys too.                          *)
CONSTANTS Keys, Values, None

VARIABLES
    store,      \* the last value written to each key
    seen        \* what a read of the key gives

Init ==
    /\ store = [k \in Keys |-> None]
    /\ seen = [k \in Keys |-> None]

(* The keys in `caught` catch up; so does a key that had no value.         *)
Put(k, v) ==
    /\ store' = [store EXCEPT ![k] = v]
    /\ \E caught \in SUBSET Keys :
         seen' = [x \in Keys |-> IF x \in caught \/ seen[x] = None THEN store'[x] ELSE seen[x]]

Next == \E k \in Keys, v \in Values : Put(k, v)

Spec == Init /\ [][Next]_<<store, seen>>
=============================================================================
