------------------------------ MODULE AtmDeque ------------------------------
(***************************************************************************)
(* What a list promises: values in order, added at the end, taken from     *)
(* either end, deleted by a hint that matches the first of them, or all    *)
(* cleared.                                                                *)
(***************************************************************************)
EXTENDS Naturals, Sequences, SequencesExt

CONSTANTS
    Value,           \* the values
    Hint,            \* what a deletion looks for
    Matches(_, _)    \* a value matches a hint

VARIABLES
    items,           \* the values held, first to last
    taken            \* the values handed out by pops, in order

DequeInit == items = <<>> /\ taken = <<>>

Push(v) == items' = Append(items, v) /\ UNCHANGED taken

PopFirst ==
    /\ items # <<>>
    /\ items' = Tail(items)
    /\ taken' = Append(taken, Head(items))

PopLast ==
    /\ items # <<>>
    /\ items' = Front(items)
    /\ taken' = Append(taken, Last(items))

DeleteFirst(h) ==
    \E i \in DOMAIN items :
        /\ Matches(items[i], h)
        /\ \A j \in 1 .. i - 1 : ~ Matches(items[j], h)
        /\ items' = RemoveAt(items, i)
        /\ UNCHANGED taken

Clear == items' = <<>> /\ UNCHANGED taken

DequeNext ==
    \/ \E v \in Value : Push(v)
    \/ PopFirst
    \/ PopLast
    \/ \E h \in Hint : DeleteFirst(h)
    \/ Clear

DequeSpec == DequeInit /\ [][DequeNext]_<<items, taken>>
=============================================================================
