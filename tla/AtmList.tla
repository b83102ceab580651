------------------------------- MODULE AtmList -------------------------------
(***************************************************************************)
(* The doubly linked list of core/atm_list.c, pointer by pointer, with one *)
(* iterator over it.  A list is used by one thread at a time here; what    *)
(* happens when the queue's pop does not lock is AtmQueue.                 *)
(*                                                                         *)
(* A call is one step.  Entries are numbered in the order they are         *)
(* allocated; the value pushed with entry n is <<n, k>>, of which match    *)
(* looks at k only.  An iterator whose entry was freed stops: what its     *)
(* next call does is undefined.                                            *)
(***************************************************************************)
EXTENDS Naturals, Sequences, SequencesExt

CONSTANTS
    MaxPush,   \* bound on the entries ever allocated
    Key        \* what values are matched by

ASSUME ListAssumption == MaxPush \in Nat

NULL == 0
Entries == 1 .. MaxPush
Value == Entries \X Key
Matches(v, k) == v[2] = k

VARIABLES
    list,       \* [ent, head, tail, size]: the list and every entry's memory
    deep,       \* free_type is ATM_FREE_DEEP
    taken,      \* values handed out by pops (history)
    released,   \* values passed to v_type->free (history)
    iter,       \* [on, curr]: the iterator
    seen        \* values the iterator has returned (history)

vars == <<list, deep, taken, released, iter, seen>>

NoEntry == [mem |-> "none", val |-> NULL, prev |-> NULL, next |-> NULL]

Init ==
    /\ list = [ent |-> [n \in Entries |-> NoEntry], head |-> NULL, tail |-> NULL, size |-> 0]
    /\ deep \in BOOLEAN
    /\ taken = <<>>
    /\ released = <<>>
    /\ iter = [on |-> FALSE, curr |-> NULL]
    /\ seen = <<>>

-----------------------------------------------------------------------------
(* Pointers.                                                               *)

Live(n) == n # NULL /\ list.ent[n].mem = "live"

SetPrev(ent, n, p) == IF n = NULL THEN ent ELSE [ent EXCEPT ![n].prev = p]
SetNext(ent, n, p) == IF n = NULL THEN ent ELSE [ent EXCEPT ![n].next = p]

(* atm_list_entry_isol and the end of the entry's memory.                  *)
Drop(ent, n) == [ent EXCEPT ![n].prev = NULL, ![n].next = NULL, ![n].mem = "freed"]

(* The entries met from one on, until NULL.                                *)
Walk(step, first) ==
    LET w[i \in Entries] ==
          IF i = 1 THEN first ELSE IF w[i - 1] = NULL THEN NULL ELSE step[w[i - 1]]
    IN [i \in {j \in Entries : w[j] # NULL} |-> w[i]]

(* From the head, following next; from the tail, following prev.           *)
WalkFrom(ent, first) == Walk([n \in Entries |-> ent[n].next], first)
WalkBack(ent, last) == Walk([n \in Entries |-> ent[n].prev], last)

ValuesOf(ent, ns) == [i \in DOMAIN ns |-> ent[ns[i]].val]

(* The values in the list, first to last.                                  *)
items == ValuesOf(list.ent, WalkFrom(list.ent, list.head))

(* The places in the list of the values that match.                        *)
Hits(k) == {i \in DOMAIN items : Matches(items[i], k)}

(* Mutant: the search goes on after a match.                               *)
FindEntry_Last(k) ==
    IF Hits(k) = {} THEN NULL ELSE WalkFrom(list.ent, list.head)[Max(Hits(k))]

(* atm_list_find_linear: the first entry whose value matches, or NULL.     *)
FindEntry(k) ==
    IF Hits(k) = {} THEN NULL ELSE WalkFrom(list.ent, list.head)[Min(Hits(k))]

(* Mutant: the new head keeps its prev.                                    *)
LeftPopped_StalePrev(l) ==
    LET e == l.head
        after == l.ent[e].next
    IN [ent |-> Drop(l.ent, e), head |-> after,
        tail |-> IF l.tail = e THEN NULL ELSE l.tail, size |-> l.size - 1]

(* atm_list_lpop_entry and the free that follows in each of its callers.   *)
LeftPopped(l) ==
    LET e == l.head
        after == l.ent[e].next
    IN [ent |-> Drop(SetPrev(l.ent, after, NULL), e),
        head |-> after,
        tail |-> IF l.tail = e THEN NULL ELSE l.tail,
        size |-> l.size - 1]

(* atm_list_rpop_entry and the free that follows.                          *)
RightPopped(l) ==
    LET e == l.tail
        before == l.ent[e].prev
    IN [ent |-> Drop(SetNext(l.ent, before, NULL), e),
        head |-> IF l.head = e THEN NULL ELSE l.head,
        tail |-> before,
        size |-> l.size - 1]

(* The four cases of atm_list_del: a neighbour that is not there is the    *)
(* head or the tail of the list.                                           *)
Unlinked(l, e) ==
    LET before == l.ent[e].prev
        after == l.ent[e].next
    IN [ent |-> Drop(SetPrev(SetNext(l.ent, before, after), after, before), e),
        head |-> IF before = NULL THEN after ELSE l.head,
        tail |-> IF after = NULL THEN before ELSE l.tail,
        size |-> l.size - 1]

(* The loop of atm_list_clear.                                             *)
Emptied(l) ==
    LET m[i \in 0 .. MaxPush] ==
          IF i = 0 THEN l
          ELSE LET before == m[i - 1] IN IF before.head = NULL THEN before ELSE LeftPopped(before)
    IN m[MaxPush]

-----------------------------------------------------------------------------
(* The calls.                                                              *)

IterUnchanged == UNCHANGED <<iter, seen>>

(* atm_list_push.  A list with a head and no tail makes it exit: that      *)
(* state stops here, and BothWays excludes it.                             *)
Push(n, k) ==
    /\ list.ent[n].mem = "none"
    /\ \A m \in 1 .. n - 1 : list.ent[m].mem # "none"
    /\ (list.tail = NULL) => (list.head = NULL)
    /\ list' = [ent |-> SetNext([list.ent EXCEPT ![n] = [mem |-> "live", val |-> <<n, k>>,
                                                          prev |-> list.tail, next |-> NULL]],
                                list.tail, n),
                head |-> IF list.tail = NULL THEN n ELSE list.head,
                tail |-> n,
                size |-> list.size + 1]
    /\ UNCHANGED <<deep, taken, released>>
    /\ IterUnchanged

(* Mutant: the entry goes through atm_list_entry_free, as in a deletion.   *)
LPop_FreesValue ==
    /\ list.head # NULL
    /\ list' = LeftPopped(list)
    /\ taken' = Append(taken, list.ent[list.head].val)
    /\ released' = IF deep THEN Append(released, list.ent[list.head].val) ELSE released
    /\ UNCHANGED deep
    /\ IterUnchanged

(* atm_list_lpop *)
LPop ==
    /\ list.head # NULL
    /\ list' = LeftPopped(list)
    /\ taken' = Append(taken, list.ent[list.head].val)
    /\ UNCHANGED <<deep, released>>
    /\ IterUnchanged

(* atm_list_rpop *)
RPop ==
    /\ list.tail # NULL
    /\ list' = RightPopped(list)
    /\ taken' = Append(taken, list.ent[list.tail].val)
    /\ UNCHANGED <<deep, released>>
    /\ IterUnchanged

(* atm_list_del, with what atm_list_entry_free does with the value.        *)
Del(k) ==
    LET e == FindEntry(k) IN
    /\ e # NULL
    /\ list' = Unlinked(list, e)
    /\ released' = IF deep THEN Append(released, list.ent[e].val) ELSE released
    /\ UNCHANGED <<deep, taken>>
    /\ IterUnchanged

(* atm_list_clear *)
Clear ==
    /\ list' = Emptied(list)
    /\ released' = IF deep THEN released \o items ELSE released
    /\ UNCHANGED <<deep, taken>>
    /\ IterUnchanged

(* atm_list_iter_new *)
IterNew ==
    /\ ~ iter.on
    /\ iter' = [on |-> TRUE, curr |-> list.head]
    /\ seen' = <<>>
    /\ UNCHANGED <<list, deep, taken, released>>

(* atm_list_next *)
IterNext ==
    /\ iter.on
    /\ Live(iter.curr)
    /\ seen' = Append(seen, list.ent[iter.curr].val)
    /\ iter' = [iter EXCEPT !.curr = list.ent[@].next]
    /\ UNCHANGED <<list, deep, taken, released>>

(* atm_list_iter_reset *)
IterReset ==
    /\ iter.on
    /\ iter' = [iter EXCEPT !.curr = list.head]
    /\ seen' = <<>>
    /\ UNCHANGED <<list, deep, taken, released>>

(* atm_list_iter_free *)
IterFree ==
    /\ iter.on
    /\ iter' = [on |-> FALSE, curr |-> NULL]
    /\ seen' = <<>>
    /\ UNCHANGED <<list, deep, taken, released>>

Next ==
    \/ \E n \in Entries, k \in Key : Push(n, k)
    \/ LPop
    \/ RPop
    \/ \E k \in Key : Del(k)
    \/ Clear
    \/ IterNew
    \/ IterNext
    \/ IterReset
    \/ IterFree

Spec == Init /\ [][Next]_vars

-----------------------------------------------------------------------------
(* The pointers agree in both directions: from the tail, prev leads        *)
(* through the same entries as next from the head, each of them still      *)
(* allocated, as many as size says, and no other entry is.                 *)
BothWays ==
    LET forward == WalkFrom(list.ent, list.head) IN
    /\ forward = Reverse(WalkBack(list.ent, list.tail))
    /\ Len(forward) = list.size
    /\ ToSet(forward) = {n \in Entries : list.ent[n].mem = "live"}

(* A value has one owner at most: the list, the caller it was handed to by *)
(* a pop, or nobody any more, because the list has released it; a list     *)
(* that is not deep releases nothing.  No value pushed to a deep list is   *)
(* lost: it has one of these owners.  (One that is deleted from a list     *)
(* that is not deep stays with whoever pushed it.)                         *)
ValuesOwnedOnce ==
    /\ IsInjective(items \o taken \o released)
    /\ ~ deep => released = <<>>
    /\ deep => \A n \in Entries :
          list.ent[n].mem # "none" => list.ent[n].val \in ToSet(items \o taken \o released)

(* An iterator in the middle of a list that is popped, deleted from and    *)
(* pushed to has returned, in order, everything now before its entry, and  *)
(* will return the rest: unless its own entry was removed under it.        *)
IterCoversRest ==
    (iter.on /\ Live(iter.curr)) =>
      LET rest == ValuesOf(list.ent, WalkFrom(list.ent, iter.curr))
          met == SubSeq(items, 1, Len(items) - Len(rest))
      IN  /\ items = met \o rest
          /\ ToSet(met) = {v \in ToSet(seen) : list.ent[v[1]].mem = "live"}
          /\ \A i, j \in DOMAIN seen : \A a, b \in DOMAIN met :
                seen[i] = met[a] /\ seen[j] = met[b] => (i < j <=> a < b)

(* The list is a deque: a pop takes an end, a deletion the first match.    *)
Deque == INSTANCE AtmDeque WITH Hint <- Key
DequeSpec == Deque!DequeSpec
=============================================================================
