----------------------------- MODULE AtmMailbox -----------------------------
(***************************************************************************)
(* What a notify pipe of atm-cache promises to the threads that use it     *)
(* (atm_event_add_notify, atm_task_dispatch): a FIFO mailbox.  A message   *)
(* whose atm_pipe_notify has taken effect is handed to its call_back by    *)
(* the event loop exactly once, in the order of arrival, and always        *)
(* eventually.  No thread, byte or epoll edge appears here.                *)
(***************************************************************************)
EXTENDS Naturals, Sequences, FiniteSets

CONSTANT Messages        \* what may be sent, each at most once

VARIABLES
    box,                 \* messages sent and not yet handed over, oldest first
    handed               \* messages handed to their call_back, in that order

vars == <<box, handed>>

Sent == {box[i] : i \in DOMAIN box} \cup {handed[i] : i \in DOMAIN handed}

Init == box = <<>> /\ handed = <<>>

Send(m) ==
    /\ m \notin Sent
    /\ box' = Append(box, m)
    /\ UNCHANGED handed

Deliver ==
    /\ box # <<>>
    /\ handed' = Append(handed, Head(box))
    /\ box' = Tail(box)

Next == (\E m \in Messages : Send(m)) \/ Deliver

Spec == Init /\ [][Next]_vars

=============================================================================
