------------------------------ MODULE AtmDict -------------------------------
(* The dictionary of atm_dict.c: a chained hash table that grows by        *)
(* rehashing into a second table, one bucket for every atm_dict_set or     *)
(* atm_dict_del.  Both run under the write side of dict->rwlk, readers     *)
(* under its read side, so an operation is one step.                       *)
(*                                                                         *)
(* The list of a bucket is only ever searched for its first entry with a   *)
(* key, so a table keeps, for each key, the values of its entries in list  *)
(* order (`copies`: a key can have several); the key's hash says in which  *)
(* bucket they are.  `made` holds the indices whose bucket pointer is not  *)
(* NULL: a bucket stays, even when its list is empty again.                *)
EXTENDS Integers, Sequences, FiniteSets

CONSTANTS
    Keys, Values,
    Hash,               \* what k_type->hash returns for each key
    None,               \* the NULL that atm_dict_get returns
    NoTable,            \* ht_backup == NULL
    InitBuckets,        \* ATM_DICT_INITIAL_BUCKET_SIZE
    BucketSizes,        \* the sizes atm_util_next_power doubles through
    ForceResizeRatio,   \* force_resize_ratio
    MaxEntries,         \* bound: entries, copies included
    AllowDel            \* whether atm_dict_del is called (the server never does)

(* Everything a table can be; NoTable is something else.                   *)
Tables == [nb : Nat \ {0}, used : Nat, size : Nat, made : SUBSET Nat,
           copies : [Keys -> Seq(Values)]]

ASSUME DictAssumption ==
    /\ IsFiniteSet(Keys)
    /\ Hash \in [Keys -> Nat]
    /\ None \notin Values
    /\ NoTable \notin Tables
    /\ InitBuckets \in Nat \ {0}
    /\ ForceResizeRatio \in Nat \ {0}
    /\ MaxEntries \in Nat
    /\ BucketSizes \subseteq Nat \ {0}
    /\ \A n \in 0..2 * MaxEntries : \E p \in BucketSizes : p >= n
    /\ AllowDel \in BOOLEAN

VARIABLES
    act,        \* dict->ht_active
    bak,        \* dict->ht_backup, or NoTable
    ridx,       \* dict->rehash_index
    resize,     \* dict->enable_resize
    fatal       \* one of the checks of atm_dict_rehash called exit

vars == <<act, bak, ridx, resize, fatal>>

-----------------------------------------------------------------------------
(* One table                                                               *)

NoEntries == [k \in Keys |-> << >>]

TableNew(nb) ==
    [nb |-> nb, used |-> 0, size |-> 0, made |-> {}, copies |-> NoEntries]

BucketOf(t, k) == Hash[k] % t.nb

(* The entries of bucket i                                                 *)
Bucket(t, i) == [k \in Keys |-> IF BucketOf(t, k) = i THEN t.copies[k] ELSE << >>]

Places(es) == UNION {{<<k, j>> : j \in 1..Len(es[k])} : k \in Keys}
Count(es)  == Cardinality(Places(es))

TableGet(t, k) ==
    IF t = NoTable \/ t.copies[k] = << >> THEN None ELSE Head(t.copies[k])

(* Mutant: the entries are pushed at the head of the list.                 *)
PushEntries_Head(t, es) ==
    LET touched == {BucketOf(t, k) : k \in {x \in Keys : es[x] # << >>}}
    IN  [t EXCEPT !.size   = @ + Count(es),
                  !.used   = @ + Cardinality(touched \ t.made),
                  !.made   = @ \cup touched,
                  !.copies = [k \in Keys |-> es[k] \o @[k]]]

(* atm_dict_table_push_entry for each of the entries                       *)
PushEntries(t, es) ==
    LET touched == {BucketOf(t, k) : k \in {x \in Keys : es[x] # << >>}}
    IN  [t EXCEPT !.size   = @ + Count(es),
                  !.used   = @ + Cardinality(touched \ t.made),
                  !.made   = @ \cup touched,
                  !.copies = [k \in Keys |-> @[k] \o es[k]]]

(* The first entry of the key is overwritten, or a new one pushed.         *)
TableSet(t, k, v) ==
    IF t.copies[k] # << >>
    THEN [t EXCEPT !.copies[k][1] = v]
    ELSE PushEntries(t, [NoEntries EXCEPT ![k] = <<v>>])

(* Mutant: the first entry of the list is taken, whatever its key.         *)
TableDel_Head(t, k) ==
    LET x == CHOOSE x \in Keys : Bucket(t, BucketOf(t, k))[x] # << >>
    IN  [t EXCEPT !.copies[x] = Tail(@), !.size = @ - 1]

(* Mutant: the size is left alone.                                         *)
TableDel_Size(t, k) == [t EXCEPT !.copies[k] = Tail(@)]

(* The first entry of the key goes.                                        *)
TableDel(t, k) == [t EXCEPT !.copies[k] = Tail(@), !.size = @ - 1]

-----------------------------------------------------------------------------
(* Rehashing                                                               *)

RehashNeeded(a, b) ==
    \/ b # NoTable
    \/ resize /\ a.size >= a.nb
    \/ ~ resize /\ a.size \div a.nb >= ForceResizeRatio

(* Mutant: the new table has room for what is there now, not for twice it. *)
NextPower_Tight(num) ==
    CHOOSE p \in BucketSizes :
        2 * p >= num /\ \A q \in BucketSizes : 2 * q >= num => p <= q

NextPower(num) ==
    CHOOSE p \in BucketSizes :
        p >= num /\ \A q \in BucketSizes : q >= num => p <= q

(* Take the entries of bucket i out of the table ...                       *)
TakeBucket(a, i) ==
    [a EXCEPT !.size   = @ - Count(Bucket(a, i)),
              !.used   = @ - 1,
              !.copies = [k \in Keys |-> IF BucketOf(a, k) = i THEN << >> ELSE @[k]]]

(* ... the swap of the two tables once the active one is empty.            *)

(* Mutant: one entry left counts as an empty table.                        *)
Finish_Early(a, b, i) ==
    IF a.size <= 1
    THEN act' = b /\ bak' = NoTable /\ ridx' = 0 /\ fatal' = FALSE
    ELSE act' = a /\ bak' = b /\ ridx' = i /\ fatal' = FALSE

(* Mutant: the index is not reset.                                         *)
Finish_Index(a, b, i) ==
    IF a.size = 0
    THEN act' = b /\ bak' = NoTable /\ ridx' = i /\ fatal' = FALSE
    ELSE act' = a /\ bak' = b /\ ridx' = i /\ fatal' = FALSE

Finish(a, b, i) ==
    \/ /\ a.size # 0
       /\ act' = a /\ bak' = b /\ ridx' = i /\ fatal' = FALSE
    \/ /\ a.size = 0 /\ i <= a.nb /\ a.used = 0
       /\ act' = b /\ bak' = NoTable /\ ridx' = 0 /\ fatal' = FALSE
    \/ /\ a.size = 0 /\ (i > a.nb \/ a.used # 0)
       /\ act' = a /\ bak' = b /\ ridx' = i /\ fatal' = TRUE

(* The consistency checks before a bucket is moved                         *)
Currapt(a, b) ==
    \/ b = NoTable /\ ridx # 0
    \/ ridx >= a.nb
    \/ (a.used = 0) # (a.size = 0)

(* Move one bucket: rehash_loop_time is 1.  The break for an active table  *)
(* with neither buckets nor entries leaves the index alone.                *)
Move(a, b) ==
    IF a.size = 0 THEN Finish(a, b, ridx)
    ELSE IF ridx \notin a.made THEN Finish(a, b, ridx + 1)
    ELSE Finish(TakeBucket(a, ridx), PushEntries(b, Bucket(a, ridx)), ridx + 1)

(* atm_dict_rehash, on the tables the operation has just written.          *)
Rehash(a, b) ==
    LET new == IF b = NoTable THEN TableNew(NextPower(2 * a.size)) ELSE b
    IN  \/ /\ ~ RehashNeeded(a, b)
           /\ act' = a /\ bak' = b /\ UNCHANGED <<ridx, fatal>>
        \/ /\ RehashNeeded(a, b) /\ Currapt(a, b)
           /\ act' = a /\ bak' = b /\ fatal' = TRUE /\ UNCHANGED ridx
        \/ /\ RehashNeeded(a, b) /\ ~ Currapt(a, b)
           /\ Move(a, new)

-----------------------------------------------------------------------------
(* The operations                                                          *)

Init ==
    /\ act = TableNew(InitBuckets)
    /\ bak = NoTable
    /\ ridx = 0
    /\ resize = TRUE
    /\ fatal = FALSE

Total == act.size + (IF bak = NoTable THEN 0 ELSE bak.size)

(* A write goes to the backup table while there is one.                    *)
Target == IF bak = NoTable THEN act ELSE bak

(* atm_dict_get: the active table first.                                   *)
Get(k) == IF TableGet(act, k) # None THEN TableGet(act, k) ELSE TableGet(bak, k)

Set(k, v) ==
    /\ ~ fatal
    /\ Total < MaxEntries \/ Target.copies[k] # << >>
    /\ IF bak = NoTable THEN Rehash(TableSet(act, k, v), bak)
                        ELSE Rehash(act, TableSet(bak, k, v))
    /\ UNCHANGED resize

Del(k) ==
    /\ AllowDel /\ ~ fatal
    /\ IF TableGet(act, k) # None THEN Rehash(TableDel(act, k), bak)
       ELSE IF TableGet(bak, k) # None THEN Rehash(act, TableDel(bak, k))
       ELSE Rehash(act, bak)
    /\ UNCHANGED resize

(* atm_dict_resize_enable and atm_dict_resize_disable                      *)
ResizeSwitch(on) ==
    /\ ~ fatal
    /\ resize' = on
    /\ UNCHANGED <<act, bak, ridx, fatal>>

Next ==
    \/ \E k \in Keys, v \in Values : Set(k, v)
    \/ \E k \in Keys : Del(k)
    \/ \E on \in BOOLEAN : ResizeSwitch(on)

Spec == Init /\ [][Next]_vars

-----------------------------------------------------------------------------
(* Properties                                                              *)

TableOK(t) == t \in Tables /\ t.made \subseteq 0..t.nb - 1

TypeOK ==
    /\ TableOK(act)
    /\ bak # NoTable => TableOK(bak)
    /\ ridx \in Nat /\ resize \in BOOLEAN /\ fatal \in BOOLEAN

(* The counters, the bucket array and the index of atm_dict.c agree: size  *)
(* counts the entries, bktab_used the buckets that were created and not    *)
(* yet moved, a key with entries has a bucket, and every bucket below      *)
(* rehash_index has been emptied.                                          *)
Consistent(t, from) ==
    /\ t.size = Count(t.copies)
    /\ t.used = Cardinality({i \in t.made : i >= from})
    /\ \A k \in Keys : t.copies[k] # << >> =>
          BucketOf(t, k) \in t.made /\ BucketOf(t, k) >= from

TablesConsistent ==
    ~ fatal => /\ TypeOK
               /\ Consistent(act, ridx)
               /\ bak = NoTable => ridx = 0
               /\ bak # NoTable => Consistent(bak, 0) /\ ridx < act.nb

(* However the writes fall, the backup table is never asked for more       *)
(* entries than it has buckets: the one bucket that atm_dict_rehash moves  *)
(* for every write is enough for the growth to keep up.                    *)
LoadBounded ==
    ~ fatal /\ bak # NoTable => act.size + bak.size + (act.nb - ridx) <= bak.nb

(* While nothing is deleted, no check of atm_dict_rehash calls exit.       *)
NoFatal == ~ fatal

(* The value last written to a key: a write during a rehash goes to the    *)
(* backup table, where it stands before the copies moved there later.      *)
Newest(k) == IF TableGet(bak, k) # None THEN TableGet(bak, k) ELSE TableGet(act, k)

(* The set command does what the cache promises, whatever the rehash does  *)
(* meanwhile: it changes the last value of its own key and of no other,    *)
(* and a get of any key gives what it gave or that key's last value; a get *)
(* of a key that had none gives it at once.                                *)
Store == INSTANCE AtmStore WITH store <- [k \in Keys |-> Newest(k)],
                                seen  <- [k \in Keys |-> Get(k)]

StoreSpec == Store!Spec

(* What an operation may do to the answer of a get.                        *)
GetsNewer ==
    \A k \in Keys : \/ Get(k)' \in {Get(k), Newest(k)}
                    \/ \E v \in Values : Set(k, v) /\ Get(k)' = v

(* A get may return a value older than the last one written, but an        *)
(* operation changes what it returns only to the last value written.  A    *)
(* read never goes back to an older copy that a rehash left behind.        *)
ReadsCatchUp == [][GetsNewer]_vars

(* The entries of a key.                                                   *)
Entries(k) == Len(act.copies[k]) + (IF bak = NoTable THEN 0 ELSE Len(bak.copies[k]))

(* What a delete may do to the entries and to the answer of a get.         *)
OneEntryLess ==
    \A k \in Keys : Del(k) =>
        /\ Entries(k)' = (IF Entries(k) = 0 THEN 0 ELSE Entries(k) - 1)
        /\ Get(k)' = None <=> Entries(k) <= 1
        /\ \A j \in Keys \ {k} : Entries(j)' = Entries(j) /\ Get(j)' \in {Get(j), Newest(j)}

(* atm_dict_del takes one entry of its key and none of another, in a       *)
(* rehash or not.  So a get finds the key again just when it had been      *)
(* written before and during a rehash, which left it two entries: then     *)
(* deleting it is not enough (atm_dict.c:739).                             *)
DeleteTakesOne == [][OneEntryLess]_vars
=============================================================================
