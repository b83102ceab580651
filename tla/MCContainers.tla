---------------------------- MODULE MCContainers ----------------------------
(* The sequential containers, one or the other in a behaviour: they share  *)
(* nothing.                                                                *)
EXTENDS AtmList, AtmArrCalls

MCInit == Init /\ ArrInit

Untouched == list.ent = [n \in Entries |-> NoEntry]

MCNext ==
    \/ arr = ArrNew /\ ref = <<>> /\ Next /\ UNCHANGED <<arr, ref>>
    \/ Untouched /\ ~ iter.on /\ ArrNext /\ UNCHANGED vars

MCSpec == MCInit /\ [][MCNext]_<<vars, arr, ref>>
=============================================================================
