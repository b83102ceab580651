--------------------------- MODULE AtmDictProofs ----------------------------
(* Proofs about the dictionary of AtmDict.tla, for every set of keys and   *)
(* values, every hash function and every initial size: its counters and    *)
(* bucket arrays stay consistent, and one moved bucket for every write     *)
(* keeps the new table within its size.                                    *)
EXTENDS AtmDict, FiniteSetTheorems, SequenceTheorems, WellFoundedInduction, TLAPS

Copies == [Keys -> Seq(Values)]

-----------------------------------------------------------------------------
(* Counting entries                                                        *)

(* A table has finitely many entries.                                      *)
LEMMA PlacesFinite ==
    ASSUME NEW es \in Copies
    PROVE  IsFiniteSet(Places(es)) /\ Count(es) \in Nat
<1> DEFINE Of(k) == {<<k, j>> : j \in 1..Len(es[k])}
<1> DEFINE Sets == {Of(k) : k \in Keys}
<1>1. IsFiniteSet(Sets)
  <2> DEFINE f == [k \in Keys |-> Of(k)]
  <2>1. f \in Surjection(Keys, Sets)
    BY DEF Surjection
  <2>2. IsFiniteSet(Keys)
    BY DictAssumption
  <2> QED
    BY <2>1, <2>2, FS_Surjection
<1>2. ASSUME NEW k \in Keys PROVE IsFiniteSet(Of(k))
  <2> DEFINE n == Len(es[k])
             f == [j \in 1..n |-> <<k, j>>]
  <2>1. n \in Nat
    BY DEF Copies
  <2>2. IsFiniteSet(1..n)
    BY <2>1, FS_Interval
  <2>3. f \in Surjection(1..n, Of(k))
    BY DEF Surjection
  <2> QED
    BY <2>2, <2>3, FS_Surjection
<1>3. IsFiniteSet(UNION Sets)
  BY <1>1, <1>2, FS_UNION
<1>4. Places(es) = UNION Sets
  BY DEF Places
<1> QED
  BY <1>3, <1>4, FS_CardinalityType DEF Count

(* A place is a key and a position in that key's entries.                  *)
LEMMA PlaceOf ==
    ASSUME NEW es \in Copies
    PROVE  /\ \A p \in Places(es) : \E k \in Keys : \E j \in 1..Len(es[k]) : p = <<k, j>>
           /\ \A k \in Keys : \A j \in 1..Len(es[k]) : <<k, j>> \in Places(es)
BY DEF Places

LEMMA CountEmpty ==
    ASSUME NEW es \in Copies
    PROVE  Count(es) = 0 <=> \A k \in Keys : es[k] = << >>
<1>1. Count(es) = 0 <=> Places(es) = {}
  BY PlacesFinite, FS_EmptySet DEF Count
<1>2. ASSUME Places(es) = {}, NEW k \in Keys PROVE es[k] = << >>
  <2>1. es[k] \in Seq(Values)
    BY DEF Copies
  <2>2. 1 \notin 1..Len(es[k])
    BY <1>2, PlaceOf
  <2>3. Len(es[k]) \in Nat /\ (Len(es[k]) = 0 => es[k] = << >>)
    BY <2>1
  <2> QED
    BY <2>2, <2>3
<1>3. ASSUME \A k \in Keys : es[k] = << >> PROVE Places(es) = {}
  <2>1. \A k \in Keys : 1..Len(es[k]) = {}
    BY <1>3
  <2> QED
    BY <2>1, PlaceOf
<1> QED
  BY <1>1, <1>2, <1>3

LEMMA CountSame ==
    ASSUME NEW c \in Copies, NEW r \in Copies,
           \A k \in Keys : Len(c[k]) = Len(r[k])
    PROVE  Count(r) = Count(c)
<1>1. Places(r) = Places(c)
  BY DEF Places
<1> QED
  BY <1>1 DEF Count

(* The keys shared out between two tables                                  *)
LEMMA CountSplit ==
    ASSUME NEW c \in Copies, NEW e \in Copies, NEW r \in Copies,
           \A k \in Keys : \/ e[k] = c[k] /\ r[k] = << >>
                           \/ e[k] = << >> /\ r[k] = c[k]
    PROVE  Count(c) = Count(e) + Count(r)
<1>0. Len(<< >>) = 0 /\ 1..0 = {}
  OBVIOUS
<1>1. Places(c) \subseteq Places(e) \cup Places(r)
  BY PlaceOf
<1>2. Places(e) \subseteq Places(c) /\ Places(r) \subseteq Places(c)
  BY <1>0, PlaceOf
<1>3. Places(e) \cap Places(r) = {}
  <2> SUFFICES ASSUME NEW p \in Places(e), p \in Places(r) PROVE FALSE
    OBVIOUS
  <2>1. PICK k \in Keys : \E j \in 1..Len(e[k]) : p = <<k, j>>
    BY PlaceOf
  <2>2. PICK x \in Keys : \E j \in 1..Len(r[x]) : p = <<x, j>>
    BY PlaceOf
  <2>3. x = k
    BY <2>1, <2>2
  <2> QED
    BY <1>0, <2>1, <2>2, <2>3
<1>4. Places(c) = Places(e) \cup Places(r)
  BY <1>1, <1>2
<1>5. IsFiniteSet(Places(e)) /\ IsFiniteSet(Places(r))
  BY PlacesFinite
<1>6. Cardinality(Places(c))
        = Cardinality(Places(e)) + Cardinality(Places(r)) - Cardinality({})
  BY <1>3, <1>4, <1>5, FS_Union
<1> QED
  BY <1>6, FS_EmptySet, PlacesFinite DEF Count

(* Each key with the entries of two tables                                 *)
LEMMA CountSum ==
    ASSUME NEW c \in Copies, NEW e \in Copies, NEW r \in Copies,
           \A k \in Keys : Len(r[k]) = Len(c[k]) + Len(e[k])
    PROVE  Count(r) = Count(c) + Count(e)
<1> DEFINE New == Places(r) \ Places(c)
           f   == [p \in Places(e) |-> <<p[1], Len(c[p[1]]) + p[2]>>]
<1>1. \A k \in Keys : /\ Len(c[k]) \in Nat /\ Len(e[k]) \in Nat
                      /\ Len(r[k]) = Len(c[k]) + Len(e[k])
  BY DEF Copies
<1>a. ASSUME NEW k \in Keys
      PROVE  /\ \A j \in 1..Len(c[k]) : j \in 1..Len(r[k])
             /\ \A j \in 1..Len(e[k]) : /\ Len(c[k]) + j \in 1..Len(r[k])
                                        /\ Len(c[k]) + j \notin 1..Len(c[k])
             /\ \A i \in 1..Len(r[k]) : i \notin 1..Len(c[k]) =>
                   /\ i - Len(c[k]) \in 1..Len(e[k])
                   /\ Len(c[k]) + (i - Len(c[k])) = i
  <2>1. Len(c[k]) \in Nat /\ Len(e[k]) \in Nat /\ Len(r[k]) = Len(c[k]) + Len(e[k])
    BY <1>1
  <2> DEFINE m == Len(c[k])
             n == Len(e[k])
             l == Len(r[k])
  <2>2. m \in Nat /\ n \in Nat /\ l = m + n
    BY <2>1
  <2> HIDE DEF m, n, l
  <2>3. /\ \A j \in 1..m : j \in 1..l
        /\ \A j \in 1..n : m + j \in 1..l /\ m + j \notin 1..m
        /\ \A i \in 1..l : i \notin 1..m => i - m \in 1..n /\ m + (i - m) = i
    BY <2>2
  <2> QED
    BY <2>3 DEF m, n, l
<1>2. Places(c) \subseteq Places(r)
  <2> SUFFICES ASSUME NEW k \in Keys, NEW j \in 1..Len(c[k]) PROVE <<k, j>> \in Places(r)
    BY PlaceOf
  <2>1. j \in 1..Len(r[k])
    BY <1>a, Zenon
  <2> QED
    BY <2>1, PlaceOf
<1>3. ASSUME NEW k \in Keys, NEW i, <<k, i>> \in Places(c) PROVE i \in 1..Len(c[k])
  BY <1>3, PlaceOf
<1>4. ASSUME NEW k \in Keys, NEW j \in 1..Len(e[k])
      PROVE  <<k, Len(c[k]) + j>> \in New
  <2>1. Len(c[k]) + j \in 1..Len(r[k]) /\ Len(c[k]) + j \notin 1..Len(c[k])
    BY <1>a, Zenon
  <2> QED
    BY <2>1, <1>3, PlaceOf
<1>5. \A p \in Places(e) : f[p] \in New
  <2> SUFFICES ASSUME NEW k \in Keys, NEW j \in 1..Len(e[k]), <<k, j>> \in Places(e)
               PROVE  f[<<k, j>>] \in New
    BY PlaceOf
  <2> QED
    BY <1>4
<1>6. \A p, q \in Places(e) : f[p] = f[q] => p = q
  <2> SUFFICES ASSUME NEW k \in Keys, NEW j \in 1..Len(e[k]), <<k, j>> \in Places(e),
                      NEW x \in Keys, NEW i \in 1..Len(e[x]), <<x, i>> \in Places(e),
                      f[<<k, j>>] = f[<<x, i>>]
               PROVE  <<k, j>> = <<x, i>>
    BY PlaceOf
  <2>1. <<k, Len(c[k]) + j>> = <<x, Len(c[x]) + i>>
    OBVIOUS
  <2>2. k = x /\ Len(c[k]) + j = Len(c[k]) + i
    BY <2>1
  <2> QED
    BY <1>1, <2>2
<1>7. \A q \in New : \E p \in Places(e) : f[p] = q
  <2> SUFFICES ASSUME NEW q \in New PROVE \E p \in Places(e) : f[p] = q
    OBVIOUS
  <2>1. PICK k \in Keys : \E j \in 1..Len(r[k]) : q = <<k, j>>
    BY PlaceOf
  <2>2. PICK i \in 1..Len(r[k]) : q = <<k, i>>
    BY <2>1
  <2>3. i \notin 1..Len(c[k])
    BY <2>2, PlaceOf
  <2> DEFINE j == i - Len(c[k])
  <2>5. j \in 1..Len(e[k]) /\ Len(c[k]) + j = i
    BY <1>a, <2>3, Zenon
  <2> HIDE DEF j
  <2>6. <<k, j>> \in Places(e)
    BY <2>5, PlaceOf
  <2>7. f[<<k, j>>] = <<k, i>>
    BY <2>5, <2>6
  <2> QED
    BY <2>2, <2>6, <2>7
<1>8. f \in Bijection(Places(e), New)
  <2>1. f \in [Places(e) -> New]
    BY <1>5
  <2> HIDE DEF f, New
  <2>2. f \in Injection(Places(e), New)
    BY <2>1, <1>6 DEF Injection, IsInjective
  <2>3. f \in Surjection(Places(e), New)
    BY <2>1, <1>7 DEF Surjection
  <2> QED
    BY <2>2, <2>3 DEF Bijection
<1>9. Cardinality(New) = Cardinality(Places(e)) /\ IsFiniteSet(New)
  BY <1>8, PlacesFinite, FS_Bijection DEF ExistsBijection
<1>10. Places(r) = Places(c) \cup New /\ Places(c) \cap New = {}
  BY <1>2
<1>11. Cardinality(Places(r))
         = Cardinality(Places(c)) + Cardinality(New) - Cardinality({})
  BY <1>9, <1>10, PlacesFinite, FS_Union
<1> QED
  BY <1>9, <1>11, FS_EmptySet, PlacesFinite DEF Count

LEMMA CountConcat ==
    ASSUME NEW c \in Copies, NEW e \in Copies
    PROVE  /\ [k \in Keys |-> c[k] \o e[k]] \in Copies
           /\ Count([k \in Keys |-> c[k] \o e[k]]) = Count(c) + Count(e)
<1> DEFINE r == [k \in Keys |-> c[k] \o e[k]]
<1>1. \A k \in Keys : c[k] \in Seq(Values) /\ e[k] \in Seq(Values)
  BY DEF Copies
<1>2. r \in Copies /\ \A k \in Keys : Len(r[k]) = Len(c[k]) + Len(e[k])
  BY <1>1 DEF Copies
<1> HIDE DEF r
<1>3. Count(r) = Count(c) + Count(e)
  BY <1>2, CountSum
<1> QED
  BY <1>2, <1>3 DEF r

LEMMA CountOne ==
    ASSUME NEW k \in Keys, NEW v \in Values
    PROVE  /\ [NoEntries EXCEPT ![k] = <<v>>] \in Copies
           /\ Count([NoEntries EXCEPT ![k] = <<v>>]) = 1
<1> DEFINE e == [NoEntries EXCEPT ![k] = <<v>>]
<1>1. e \in Copies
  <2>1. NoEntries \in Copies
    BY DEF Copies, NoEntries
  <2>2. <<v>> \in Seq(Values)
    OBVIOUS
  <2> QED
    BY <2>1, <2>2 DEF Copies
<1>2. e[k] = <<v>> /\ \A x \in Keys \ {k} : e[x] = << >>
  BY DEF NoEntries
<1>3. 1..Len(e[k]) = {1} /\ \A x \in Keys \ {k} : 1..Len(e[x]) = {}
  <2> HIDE DEF e
  <2>1. Len(e[k]) = 1 /\ \A x \in Keys \ {k} : Len(e[x]) = 0
    BY <1>2
  <2> QED
    BY <2>1
<1>4. Places(e) = {<<k, 1>>}
  <2> HIDE DEF e
  <2> QED BY <1>1, <1>3, PlaceOf
<1> QED
  BY <1>1, <1>4, FS_Singleton DEF Count

LEMMA CountTail ==
    ASSUME NEW c \in Copies, NEW k \in Keys, c[k] # << >>
    PROVE  /\ [c EXCEPT ![k] = Tail(@)] \in Copies
           /\ Count([c EXCEPT ![k] = Tail(@)]) = Count(c) - 1
<1> DEFINE r == [c EXCEPT ![k] = Tail(@)]
<1>1. r \in Copies /\ Len(c[k]) \in Nat \ {0} /\ Len(r[k]) = Len(c[k]) - 1
      /\ \A x \in Keys \ {k} : r[x] = c[x]
  BY DEF Copies
<1>2. Places(r) = Places(c) \ {<<k, Len(c[k])>>}
  <2> HIDE DEF r
  <2>1. ASSUME NEW x \in Keys, NEW j \in 1..Len(r[x])
        PROVE  <<x, j>> \in Places(c) /\ <<x, j>> # <<k, Len(c[k])>>
    <3>1. j \in 1..Len(c[x])
      BY <1>1
    <3>2. x = k => j # Len(c[k])
      BY <1>1
    <3> QED
      BY <3>1, <3>2, PlaceOf
  <2>2. ASSUME NEW x \in Keys, NEW j \in 1..Len(c[x]), <<x, j>> # <<k, Len(c[k])>>
        PROVE  <<x, j>> \in Places(r)
    <3>1. j \in 1..Len(r[x])
      BY <1>1, <2>2
    <3> QED
      BY <1>1, <3>1, PlaceOf
  <2> QED
    BY <1>1, <2>1, <2>2, PlaceOf
<1>3. <<k, Len(c[k])>> \in Places(c)
  BY <1>1, PlaceOf
<1>4. Cardinality(Places(r)) = Cardinality(Places(c)) - 1
  BY <1>2, <1>3, PlacesFinite, FS_RemoveElement
<1> QED
  BY <1>1, <1>4 DEF Count

-----------------------------------------------------------------------------
(* One table                                                               *)

LEMMA BucketType ==
    ASSUME NEW t, TableOK(t), NEW k \in Keys
    PROVE  BucketOf(t, k) \in 0..t.nb - 1
<1>1. Hash[k] \in Nat /\ t.nb \in Nat \ {0}
  BY DictAssumption DEF TableOK, Tables
<1> QED
  BY <1>1 DEF BucketOf

LEMMA MadeFinite ==
    ASSUME NEW t, TableOK(t)
    PROVE  IsFiniteSet(t.made) /\ \A i \in t.made : i \in Nat
<1>1. t.made \subseteq 0..t.nb - 1 /\ t.nb - 1 \in Int
  BY DEF TableOK, Tables
<1>2. IsFiniteSet(0..t.nb - 1)
  BY <1>1, FS_Interval
<1>3. IsFiniteSet(t.made)
  BY <1>1, <1>2, FS_Subset
<1>4. \A i \in t.made : i \in Nat
  BY <1>1
<1> QED
  BY <1>3, <1>4

(* atm_util_next_power returns a size, and one that is large enough.       *)
LEMMA NextPowerBound ==
    ASSUME NEW n \in 0..2 * MaxEntries
    PROVE  NextPower(n) \in BucketSizes /\ NextPower(n) >= n
<1> DEFINE T == {p \in BucketSizes : p >= n}
<1>1. T \subseteq Nat /\ T # {}
  BY DictAssumption
<1>2. PICK p \in T : \A q \in T : ~ (<<q, p>> \in OpToRel(<, Nat))
  BY <1>1, NatLessThanWellFounded, WFMin
<1>3. \A q \in T : p <= q
  <2> SUFFICES ASSUME NEW q \in T, q < p PROVE FALSE
    BY <1>1
  <2>1. q \in Nat /\ p \in Nat
    BY <1>1
  <2>2. <<q, p>> \in OpToRel(<, Nat)
    BY <2>1 DEF OpToRel
  <2> QED
    BY <1>2, <2>2
<1>4. \E x \in BucketSizes : x >= n /\ \A q \in BucketSizes : q >= n => x <= q
  BY <1>3
<1> QED
  BY <1>4 DEF NextPower

LEMMA NewOK ==
    ASSUME NEW nb \in BucketSizes \cup {InitBuckets}
    PROVE  /\ TableOK(TableNew(nb)) /\ TableNew(nb) # NoTable
           /\ TableNew(nb).nb = nb /\ TableNew(nb).size = 0
           /\ \A i \in Nat : Consistent(TableNew(nb), i)
<1> DEFINE t == TableNew(nb)
<1>1. nb \in Nat \ {0}
  BY DictAssumption
<1>2. NoEntries \in Copies
  BY DEF NoEntries, Copies
<1>3. TableOK(t)
  BY <1>1, <1>2 DEF TableNew, TableOK, Tables, Copies
<1>4. t # NoTable
  BY <1>3, DictAssumption DEF TableOK
<1>5. t.nb = nb /\ t.size = 0 /\ t.used = 0 /\ t.made = {} /\ t.copies = NoEntries
  BY DEF TableNew
<1>6. Count(NoEntries) = 0
  BY <1>2, CountEmpty DEF NoEntries
<1>7. ASSUME NEW i \in Nat PROVE Consistent(t, i)
  <2>1. Cardinality({j \in t.made : j >= i}) = 0
    BY <1>5, FS_EmptySet
  <2>2. \A k \in Keys : t.copies[k] = << >>
    BY <1>5 DEF NoEntries
  <2> QED
    BY <1>5, <1>6, <2>1, <2>2 DEF Consistent
<1> QED
  BY <1>3, <1>4, <1>5, <1>7

(* Pushing entries keeps a table consistent.                               *)
LEMMA PushOK ==
    ASSUME NEW t, TableOK(t), Consistent(t, 0), NEW es \in Copies
    PROVE  /\ TableOK(PushEntries(t, es)) /\ Consistent(PushEntries(t, es), 0)
           /\ PushEntries(t, es).nb = t.nb
           /\ PushEntries(t, es).size = t.size + Count(es)
<1> DEFINE r       == PushEntries(t, es)
           touched == {BucketOf(t, k) : k \in {x \in Keys : es[x] # << >>}}
           copies  == [k \in Keys |-> t.copies[k] \o es[k]]
<1>1. t \in Tables /\ t.copies \in Copies
  BY DEF TableOK, Tables, Copies
<1>2. r = [t EXCEPT !.size   = t.size + Count(es),
                    !.used   = t.used + Cardinality(touched \ t.made),
                    !.made   = t.made \cup touched,
                    !.copies = copies]
  BY <1>1 DEF PushEntries, Tables
<1>3. /\ r.nb = t.nb /\ r.size = t.size + Count(es) /\ r.copies = copies
      /\ r.used = t.used + Cardinality(touched \ t.made)
      /\ r.made = t.made \cup touched
  BY <1>1, <1>2 DEF Tables
<1>4. copies \in Copies /\ Count(copies) = Count(t.copies) + Count(es)
  BY <1>1, CountConcat
<1>5. touched \subseteq 0..t.nb - 1
  BY BucketType
<1>6. IsFiniteSet(touched \ t.made) /\ Cardinality(touched \ t.made) \in Nat
  <2>1. t.nb - 1 \in Int
    BY <1>1 DEF Tables
  <2>2. IsFiniteSet(0..t.nb - 1)
    BY <2>1, FS_Interval
  <2> HIDE DEF touched
  <2>3. touched \ t.made \in SUBSET (0..t.nb - 1)
    BY <1>5
  <2> QED
    BY <2>2, <2>3, FS_Subset, FS_CardinalityType
<1>7. Cardinality(r.made) = Cardinality(t.made) + Cardinality(touched \ t.made)
  <2> HIDE DEF touched, r
  <2> DEFINE fresh == touched \ t.made
  <2>1. r.made = t.made \cup fresh /\ t.made \cap fresh = {}
    BY <1>3
  <2>2. IsFiniteSet(t.made) /\ IsFiniteSet(fresh)
    BY <1>6, MadeFinite
  <2>3. Cardinality(t.made \cup fresh)
          = Cardinality(t.made) + Cardinality(fresh) - Cardinality({})
    BY <2>1, <2>2, FS_Union
  <2>4. Cardinality(t.made) \in Nat
    BY <2>2, FS_CardinalityType
  <2> QED
    BY <2>1, <2>3, <2>4, <1>6, FS_EmptySet
<1>8. TableOK(r)
  <2>1. r.size \in Nat /\ r.used \in Nat
    BY <1>1, <1>3, <1>6, PlacesFinite DEF Tables
  <2>2. r.made \subseteq 0..r.nb - 1
    BY <1>3, <1>5 DEF TableOK
  <2>3. r.made \in SUBSET Nat
    BY <1>1, <1>3, <2>2 DEF Tables
  <2> HIDE DEF touched, copies
  <2>4. r \in Tables
    BY <1>1, <1>2, <1>3, <1>4, <2>1, <2>3 DEF Tables, Copies
  <2> QED
    BY <2>2, <2>4 DEF TableOK
<1>9. Consistent(r, 0)
  <2>1. r.size = Count(r.copies)
    BY <1>3, <1>4 DEF Consistent
  <2>2. t.used = Cardinality(t.made) /\ r.used = Cardinality({i \in r.made : i >= 0})
    <3>1. t.made = {i \in t.made : i >= 0}
      BY MadeFinite
    <3>2. r.made = {i \in r.made : i >= 0}
      BY <1>8, MadeFinite
    <3>3. t.used = Cardinality(t.made)
      BY <3>1 DEF Consistent
    <3> QED
      BY <1>3, <1>7, <3>2, <3>3
  <2>3. ASSUME NEW k \in Keys, r.copies[k] # << >>
        PROVE  BucketOf(r, k) \in r.made /\ BucketOf(r, k) >= 0
    <3>1. t.copies[k] # << >> \/ es[k] # << >>
      BY <1>1, <1>3, <2>3 DEF Copies
    <3>2. BucketOf(t, k) \in r.made
      BY <1>3, <3>1 DEF Consistent
    <3>3. BucketOf(r, k) = BucketOf(t, k)
      BY <1>3 DEF BucketOf
    <3> QED
      BY <3>2, <3>3, BucketType
  <2> QED
    BY <2>1, <2>2, <2>3 DEF Consistent
<1> QED
  BY <1>3, <1>8, <1>9

(* Overwriting the first entry of a key, or pushing one                    *)
LEMMA SetOK ==
    ASSUME NEW t, TableOK(t), Consistent(t, 0), NEW k \in Keys, NEW v \in Values
    PROVE  /\ TableOK(TableSet(t, k, v)) /\ Consistent(TableSet(t, k, v), 0)
           /\ TableSet(t, k, v).nb = t.nb
           /\ TableSet(t, k, v).size \in {t.size, t.size + 1}
           /\ t.copies[k] # << >> => TableSet(t, k, v).size = t.size
<1> DEFINE r == TableSet(t, k, v)
<1>1. t \in Tables /\ t.copies \in Copies
  BY DEF TableOK, Tables, Copies
<1>2. CASE t.copies[k] # << >>
  <2> DEFINE copies == [t.copies EXCEPT ![k] = [t.copies[k] EXCEPT ![1] = v]]
  <2>1. r = [t EXCEPT !.copies = copies]
    BY <1>1, <1>2 DEF TableSet, Tables
  <2>2. /\ r.nb = t.nb /\ r.size = t.size /\ r.used = t.used /\ r.made = t.made
        /\ r.copies = copies
    BY <1>1, <2>1 DEF Tables
  <2>3. [t.copies[k] EXCEPT ![1] = v] \in Seq(Values)
        /\ Len([t.copies[k] EXCEPT ![1] = v]) = Len(t.copies[k])
    <3>1. t.copies[k] \in Seq(Values)
      BY <1>1 DEF Copies
    <3>2. 1 \in 1..Len(t.copies[k])
      BY <1>2, <3>1
    <3> QED
      BY <3>1, <3>2, ExceptSeq
  <2>4. copies \in Copies /\ \A x \in Keys : Len(copies[x]) = Len(t.copies[x])
    BY <1>1, <2>3 DEF Copies
  <2> HIDE DEF copies
  <2>5. Count(copies) = Count(t.copies)
    BY <1>1, <2>4, CountSame
  <2>6. TableOK(r)
    BY <1>1, <2>1, <2>2, <2>4 DEF TableOK, Tables, Copies
  <2>7. \A x \in Keys : copies[x] # << >> => t.copies[x] # << >>
    <3>1. ASSUME NEW x \in Keys, copies[x] # << >> PROVE Len(t.copies[x]) # 0
      <4>1. copies[x] \in Seq(Values)
        BY <2>4 DEF Copies
      <4> QED
        BY <4>1, <3>1, <2>4
    <3> QED
      BY <3>1
  <2>8. Consistent(r, 0)
    BY <2>2, <2>5, <2>7 DEF Consistent, BucketOf
  <2> QED
    BY <2>2, <2>6, <2>8
<1>3. CASE t.copies[k] = << >>
  <2> DEFINE es == [NoEntries EXCEPT ![k] = <<v>>]
  <2>1. es \in Copies /\ Count(es) = 1
    BY CountOne
  <2>2. r = PushEntries(t, es)
    BY <1>3 DEF TableSet
  <2> HIDE DEF es, r
  <2>3. TableOK(r) /\ Consistent(r, 0) /\ r.nb = t.nb /\ r.size = t.size + 1
    BY <2>1, <2>2, PushOK
  <2> QED
    BY <1>3, <2>3 DEF r
<1> QED
  BY <1>2, <1>3

(* Deleting the first entry of a key                                       *)
LEMMA DelOK ==
    ASSUME NEW t, TableOK(t), NEW i \in Nat, Consistent(t, i),
           NEW k \in Keys, t.copies[k] # << >>
    PROVE  /\ TableOK(TableDel(t, k)) /\ Consistent(TableDel(t, k), i)
           /\ TableDel(t, k).nb = t.nb /\ TableDel(t, k).size = t.size - 1
<1> DEFINE r == TableDel(t, k)
           copies == [t.copies EXCEPT ![k] = Tail(@)]
<1>1. t \in Tables /\ t.copies \in Copies
  BY DEF TableOK, Tables, Copies
<1>2. r = [t EXCEPT !.copies = copies, !.size = t.size - 1]
  BY <1>1 DEF TableDel, Tables
<1>3. /\ r.nb = t.nb /\ r.size = t.size - 1 /\ r.used = t.used /\ r.made = t.made
      /\ r.copies = copies
  BY <1>1, <1>2 DEF Tables
<1>4. copies \in Copies /\ Count(copies) = Count(t.copies) - 1
  BY <1>1, CountTail
<1>5. Count(copies) \in Nat /\ t.size = Count(t.copies)
  BY <1>4, PlacesFinite DEF Consistent
<1>6. \A x \in Keys : copies[x] # << >> => t.copies[x] # << >>
  BY <1>1 DEF Copies
<1> HIDE DEF copies
<1>7. TableOK(r)
  BY <1>1, <1>2, <1>3, <1>4, <1>5 DEF TableOK, Tables, Copies
<1>8. Consistent(r, i)
  BY <1>3, <1>4, <1>5, <1>6 DEF Consistent, BucketOf
<1> QED
  BY <1>3, <1>7, <1>8

LEMMA BucketCopies ==
    ASSUME NEW t, TableOK(t), NEW i
    PROVE  Bucket(t, i) \in Copies
BY DEF Bucket, TableOK, Tables, Copies

(* Taking out the bucket at the index                                      *)
LEMMA TakeOK ==
    ASSUME NEW t, TableOK(t), NEW i \in Nat, Consistent(t, i), i \in t.made
    PROVE  /\ TableOK(TakeBucket(t, i)) /\ Consistent(TakeBucket(t, i), i + 1)
           /\ TakeBucket(t, i).nb = t.nb
           /\ TakeBucket(t, i).size = t.size - Count(Bucket(t, i))
           /\ t.used # 0
<1> DEFINE r == TakeBucket(t, i)
           copies == [k \in Keys |-> IF BucketOf(t, k) = i THEN << >> ELSE t.copies[k]]
<1>1. t \in Tables /\ t.copies \in Copies
  BY DEF TableOK, Tables, Copies
<1>2. r = [t EXCEPT !.size = t.size - Count(Bucket(t, i)), !.used = t.used - 1,
                    !.copies = copies]
  BY <1>1 DEF TakeBucket, Tables
<1>3. /\ r.nb = t.nb /\ r.size = t.size - Count(Bucket(t, i)) /\ r.used = t.used - 1
      /\ r.made = t.made /\ r.copies = copies
  BY <1>1, <1>2 DEF Tables
<1>4. copies \in Copies
  BY <1>1 DEF Copies
<1>5. \A k \in Keys : \/ Bucket(t, i)[k] = t.copies[k] /\ copies[k] = << >>
                      \/ Bucket(t, i)[k] = << >> /\ copies[k] = t.copies[k]
  BY DEF Bucket
<1>6. \A k \in Keys : copies[k] # << >> => t.copies[k] # << >> /\ BucketOf(t, k) # i
  OBVIOUS
<1> HIDE DEF copies
<1>7. Count(t.copies) = Count(Bucket(t, i)) + Count(copies)
  BY <1>1, <1>4, <1>5, BucketCopies, CountSplit
<1>8. Count(copies) \in Nat /\ Count(Bucket(t, i)) \in Nat /\ t.size = Count(t.copies)
  BY <1>4, BucketCopies, PlacesFinite DEF Consistent
<1>9. /\ Cardinality({j \in t.made : j >= i + 1}) = t.used - 1
      /\ t.used \in Nat \ {0}
  <2> DEFINE S == {j \in t.made : j >= i}
  <2>1. {j \in t.made : j >= i + 1} = S \ {i}
    BY MadeFinite
  <2>2. S \in SUBSET t.made
    OBVIOUS
  <2>3. IsFiniteSet(S) /\ i \in S /\ t.used = Cardinality(S)
    BY <2>2, MadeFinite, FS_Subset DEF Consistent
  <2>4. Cardinality(S \ {i}) = Cardinality(S) - 1 /\ Cardinality(S \ {i}) \in Nat
        /\ Cardinality(S) \in Nat
    BY <2>3, FS_RemoveElement, FS_CardinalityType
  <2> QED
    BY <2>1, <2>3, <2>4
<1>10. TableOK(r)
  <2>1. r.size \in Nat /\ r.used \in Nat
    BY <1>3, <1>7, <1>8, <1>9
  <2> QED
    BY <1>1, <1>2, <1>3, <1>4, <2>1 DEF TableOK, Tables, Copies
<1>11. Consistent(r, i + 1)
  <2>1. r.size = Count(r.copies)
    BY <1>3, <1>7, <1>8
  <2>2. r.used = Cardinality({j \in r.made : j >= i + 1})
    BY <1>3, <1>9
  <2>3. ASSUME NEW k \in Keys, r.copies[k] # << >>
        PROVE  BucketOf(r, k) \in r.made /\ BucketOf(r, k) >= i + 1
    <3>1. BucketOf(t, k) \in t.made /\ BucketOf(t, k) >= i /\ BucketOf(t, k) # i
      BY <1>3, <1>6, <2>3 DEF Consistent
    <3>2. BucketOf(t, k) \in Nat
      BY <3>1, MadeFinite
    <3>3. BucketOf(r, k) = BucketOf(t, k)
      BY <1>3 DEF BucketOf
    <3> QED
      BY <1>3, <3>1, <3>2, <3>3
  <2> QED
    BY <2>1, <2>2, <2>3 DEF Consistent
<1> QED
  BY <1>3, <1>9, <1>10, <1>11

(* A NULL bucket at the index is passed over.                              *)
LEMMA SkipOK ==
    ASSUME NEW t, TableOK(t), NEW i \in Nat, Consistent(t, i), i \notin t.made
    PROVE  Consistent(t, i + 1)
<1>1. \A j \in t.made : j \in Nat /\ j # i
  BY MadeFinite
<1>2. {j \in t.made : j >= i} = {j \in t.made : j >= i + 1}
  BY <1>1
<1>3. \A k \in Keys : BucketOf(t, k) \in t.made /\ BucketOf(t, k) >= i =>
                          BucketOf(t, k) >= i + 1
  BY <1>1
<1> QED
  BY <1>2, <1>3 DEF Consistent

(* A table with an entry left has a bucket left.                           *)
LEMMA EntryLeft ==
    ASSUME NEW t, TableOK(t), NEW i \in Nat, Consistent(t, i), t.size # 0
    PROVE  i < t.nb /\ t.used # 0
<1>1. t.copies \in Copies
  BY DEF TableOK, Tables, Copies
<1>2. PICK k \in Keys : t.copies[k] # << >>
  BY <1>1, CountEmpty DEF Consistent
<1>3. BucketOf(t, k) \in t.made /\ BucketOf(t, k) >= i
  BY <1>2 DEF Consistent
<1>4. BucketOf(t, k) \in 0..t.nb - 1 /\ t.nb \in Nat
  BY BucketType DEF TableOK, Tables
<1> DEFINE S == {j \in t.made : j >= i}
<1>5. S \in SUBSET t.made /\ S # {}
  BY <1>3
<1>6. IsFiniteSet(S)
  BY <1>5, MadeFinite, FS_Subset
<1>7. Cardinality(S) # 0
  BY <1>5, <1>6, FS_EmptySet
<1> QED
  BY <1>3, <1>4, <1>7 DEF Consistent

-----------------------------------------------------------------------------
(* The dictionary                                                          *)

(* The tables with the index i between two operations ...                  *)
Good(a, b, i) ==
    /\ TableOK(a) /\ i \in Nat /\ Consistent(a, i)
    /\ b = NoTable => i = 0 /\ a.size <= MaxEntries
    /\ b # NoTable => /\ TableOK(b) /\ Consistent(b, 0) /\ i < a.nb
                      /\ a.size + b.size + (a.nb - i) <= b.nb
                      /\ a.size + b.size <= MaxEntries

(* ... and when an entry was just written or deleted: the rehash that      *)
(* follows has a bucket to move for it.                                    *)
Ready(a, b, i) ==
    /\ TableOK(a) /\ i \in Nat /\ Consistent(a, i)
    /\ b = NoTable => i = 0 /\ a.size <= MaxEntries
    /\ b # NoTable => /\ TableOK(b) /\ Consistent(b, 0) /\ i < a.nb
                      /\ a.size + b.size + (a.nb - i) <= b.nb + 1
                      /\ a.size + b.size <= MaxEntries

DictInv ==
    /\ fatal \in BOOLEAN /\ resize \in BOOLEAN
    /\ ~ fatal => Good(act, bak, ridx)

LEMMA SizeType ==
    ASSUME NEW t, TableOK(t)
    PROVE  t.size \in Nat /\ t.used \in Nat /\ t.nb \in Nat \ {0} /\ t # NoTable
BY DictAssumption DEF TableOK, Tables

LEMMA InitOK == Init => DictInv
<1> SUFFICES ASSUME Init PROVE DictInv
  OBVIOUS
<1>1. TableOK(act) /\ Consistent(act, 0) /\ act.size = 0
  BY NewOK DEF Init
<1>2. bak = NoTable /\ ridx = 0 /\ fatal = FALSE /\ resize = TRUE
  BY DEF Init
<1>3. act.size <= MaxEntries
  BY <1>1, DictAssumption
<1>4. Good(act, bak, ridx)
  BY <1>1, <1>2, <1>3 DEF Good
<1> QED
  BY <1>2, <1>4 DEF DictInv

LEMMA FinishOK ==
    ASSUME NEW a, NEW b, NEW i \in Nat,
           TableOK(a), TableOK(b), Consistent(a, i), Consistent(b, 0),
           a.size + b.size <= MaxEntries,
           a.size # 0 => a.size + b.size + (a.nb - i) <= b.nb,
           Finish(a, b, i), ~ fatal'
    PROVE  Good(act', bak', ridx')
<1>1. CASE a.size # 0 /\ act' = a /\ bak' = b /\ ridx' = i
  <2>1. i < a.nb
    BY <1>1, EntryLeft
  <2> QED
    BY <1>1, <2>1, SizeType DEF Good
<1>2. CASE a.size = 0 /\ act' = b /\ bak' = NoTable /\ ridx' = 0
  BY <1>2, SizeType DEF Good
<1> QED
  BY <1>1, <1>2 DEF Finish

LEMMA MoveOK ==
    ASSUME NEW a, NEW b, TableOK(a), TableOK(b), ridx \in Nat,
           Consistent(a, ridx), Consistent(b, 0), ~ Currapt(a, b),
           a.size + b.size <= MaxEntries,
           a.size # 0 => a.size + b.size + (a.nb - ridx) <= b.nb + 1,
           Move(a, b), ~ fatal'
    PROVE  Good(act', bak', ridx')
<1>1. a.size \in Nat /\ b.size \in Nat /\ a.nb \in Nat /\ b.nb \in Nat
  BY SizeType
<1>2. CASE a.size = 0
  BY <1>2, FinishOK DEF Move
<1>3. CASE a.size # 0 /\ ridx \notin a.made
  <2>1. Finish(a, b, ridx + 1)
    BY <1>3 DEF Move
  <2>2. Consistent(a, ridx + 1)
    BY <1>3, SkipOK
  <2>3. a.size + b.size + (a.nb - (ridx + 1)) <= b.nb
    BY <1>1, <1>3
  <2> QED
    BY <2>1, <2>2, <2>3, FinishOK
<1>4. CASE a.size # 0 /\ ridx \in a.made
  <2> DEFINE x == TakeBucket(a, ridx)
             y == PushEntries(b, Bucket(a, ridx))
             m == Count(Bucket(a, ridx))
  <2>1. Finish(x, y, ridx + 1)
    BY <1>4 DEF Move
  <2>2. TableOK(x) /\ Consistent(x, ridx + 1) /\ x.nb = a.nb /\ x.size = a.size - m
    BY <1>4, TakeOK
  <2>3. Bucket(a, ridx) \in Copies
    BY BucketCopies
  <2>4. TableOK(y) /\ Consistent(y, 0) /\ y.nb = b.nb /\ y.size = b.size + m
    BY <2>3, PushOK
  <2>5. m \in Nat
    BY <2>3, PlacesFinite
  <2> HIDE DEF x, y, m
  <2>6. x.size + y.size = a.size + b.size
    BY <1>1, <2>2, <2>4, <2>5
  <2>7. x.size + y.size + (x.nb - (ridx + 1)) <= y.nb
    BY <1>1, <1>4, <2>2, <2>4, <2>5
  <2>8. x.size + y.size <= MaxEntries
    BY <2>6
  <2>9. ridx + 1 \in Nat
    OBVIOUS
  <2> QED
    BY <2>1, <2>2, <2>4, <2>7, <2>8, <2>9, FinishOK
<1> QED
  BY <1>2, <1>3, <1>4

(* The rehash starts only when the active table has at least as many       *)
(* entries as buckets.                                                     *)
LEMMA NeededFull ==
    ASSUME NEW a, TableOK(a), resize \in BOOLEAN, RehashNeeded(a, NoTable)
    PROVE  a.size >= a.nb
<1>1. a.size \in Nat /\ a.nb \in Nat \ {0}
  BY SizeType
<1>2. CASE a.size \div a.nb >= ForceResizeRatio
  <2> DEFINE s == a.size
             n == a.nb
  <2>1. s \in Nat /\ n \in Nat \ {0} /\ s \div n >= ForceResizeRatio
    BY <1>1, <1>2
  <2>2. ForceResizeRatio \in Nat \ {0}
    BY DictAssumption
  <2> HIDE DEF s, n
  <2>3. s >= n
    BY <2>1, <2>2
  <2> QED
    BY <2>3 DEF s, n
<1> QED
  BY <1>1, <1>2 DEF RehashNeeded

LEMMA RehashOK ==
    ASSUME NEW a, NEW b, Ready(a, b, ridx), resize \in BOOLEAN,
           b # NoTable \/ Good(a, b, ridx),
           Rehash(a, b), fatal = FALSE, ~ fatal'
    PROVE  Good(act', bak', ridx')
<1> DEFINE new == IF b = NoTable THEN TableNew(NextPower(2 * a.size)) ELSE b
<1>1. a.size \in Nat /\ a.nb \in Nat \ {0} /\ MaxEntries \in Nat /\ ridx \in Nat
  BY SizeType, DictAssumption DEF Ready
<1>2. CASE ~ RehashNeeded(a, b) /\ act' = a /\ bak' = b /\ ridx' = ridx
  <2>1. b = NoTable
    BY <1>2 DEF RehashNeeded
  <2> QED
    BY <1>2, <2>1 DEF Good
<1>3. CASE RehashNeeded(a, b) /\ ~ Currapt(a, b) /\ Move(a, new)
  <2>1. CASE b # NoTable
    <3>1. TableOK(b) /\ Consistent(b, 0) /\ new = b /\ Consistent(a, ridx) /\ TableOK(a)
          /\ a.size + b.size + (a.nb - ridx) <= b.nb + 1
          /\ a.size + b.size <= MaxEntries
      BY <2>1 DEF Ready
    <3> QED
      BY <1>1, <1>3, <3>1, MoveOK
  <2>2. CASE b = NoTable
    <3>1. TableOK(a) /\ Consistent(a, 0) /\ ridx = 0 /\ a.size <= MaxEntries
      BY <2>2 DEF Ready
    <3>2. a.size >= a.nb
      BY <1>3, <2>2, <3>1, NeededFull
    <3>3. 2 * a.size \in 0..2 * MaxEntries
      BY <1>1, <3>1
    <3> DEFINE p == NextPower(2 * a.size)
    <3>4. p \in BucketSizes /\ p >= 2 * a.size
      BY <3>3, NextPowerBound
    <3>5. p \in Nat
      BY <3>4, DictAssumption
    <3>6. new = TableNew(p)
      BY <2>2
    <3> HIDE DEF p, new
    <3>7. /\ TableOK(new) /\ new # NoTable /\ new.nb = p /\ new.size = 0
          /\ Consistent(new, 0)
      BY <3>4, <3>6, NewOK
    <3>8. a.size + new.size + (a.nb - ridx) <= new.nb + 1
      BY <1>1, <3>1, <3>2, <3>4, <3>5, <3>7
    <3>9. a.size + new.size <= MaxEntries
      BY <1>1, <3>1, <3>7
    <3>10. ~ Currapt(a, new)
      BY <1>3, <3>7 DEF Currapt
    <3> QED
      BY <1>1, <1>3, <3>1, <3>7, <3>8, <3>9, <3>10, MoveOK
  <2> QED
    BY <2>1, <2>2
<1> QED
  BY <1>2, <1>3 DEF Rehash

(* The tables that atm_dict_set has written, before it calls               *)
(* atm_dict_rehash                                                         *)
Written(k, v, a, b) ==
    /\ bak = NoTable => a = TableSet(act, k, v) /\ b = bak
    /\ bak # NoTable => a = act /\ b = TableSet(bak, k, v)

LEMMA SetReady ==
    ASSUME DictInv, NEW k \in Keys, NEW v \in Values, Set(k, v)
    PROVE  \E a, b : /\ Written(k, v, a, b) /\ Rehash(a, b) /\ Ready(a, b, ridx)
                     /\ b # NoTable \/ Good(a, b, ridx)
<1>1. fatal = FALSE /\ Good(act, bak, ridx)
  BY DEF DictInv, Set
<1>2. TableOK(act) /\ ridx \in Nat /\ Consistent(act, ridx) /\ act.size \in Nat
      /\ MaxEntries \in Nat
  BY <1>1, SizeType, DictAssumption DEF Good
<1>3. CASE bak = NoTable
  <2> DEFINE a == TableSet(act, k, v)
  <2>1. Rehash(a, bak)
    BY <1>3 DEF Set
  <2>2. ridx = 0 /\ act.size <= MaxEntries
    BY <1>1, <1>3 DEF Good
  <2>3. TableOK(a) /\ Consistent(a, 0) /\ a.size \in {act.size, act.size + 1}
        /\ (act.copies[k] # << >> => a.size = act.size)
    BY <1>2, <2>2, SetOK
  <2>4. act.size < MaxEntries \/ act.copies[k] # << >>
    BY <1>2, <1>3 DEF Set, Total, Target
  <2> HIDE DEF a
  <2>5. a.size <= MaxEntries
    BY <1>2, <2>2, <2>3, <2>4
  <2>6. Good(a, bak, ridx) /\ Ready(a, bak, ridx)
    BY <1>2, <1>3, <2>2, <2>3, <2>5 DEF Good, Ready
  <2> QED
    BY <1>3, <2>1, <2>6 DEF a, Written
<1>4. CASE bak # NoTable
  <2> DEFINE b == TableSet(bak, k, v)
  <2>1. Rehash(act, b)
    BY <1>4 DEF Set
  <2>2. /\ TableOK(bak) /\ Consistent(bak, 0) /\ ridx < act.nb
        /\ act.size + bak.size + (act.nb - ridx) <= bak.nb
        /\ act.size + bak.size <= MaxEntries
    BY <1>1, <1>4 DEF Good
  <2>3. TableOK(b) /\ Consistent(b, 0) /\ b.nb = bak.nb
        /\ b.size \in {bak.size, bak.size + 1}
        /\ (bak.copies[k] # << >> => b.size = bak.size)
    BY <2>2, SetOK
  <2>4. act.size + bak.size < MaxEntries \/ bak.copies[k] # << >>
    BY <1>4 DEF Set, Total, Target
  <2> HIDE DEF b
  <2>5. bak.size \in Nat /\ bak.nb \in Nat /\ act.nb \in Nat /\ b # NoTable
    BY <1>2, <2>2, <2>3, SizeType
  <2>6. act.size + b.size <= MaxEntries
        /\ act.size + b.size + (act.nb - ridx) <= b.nb + 1
    <3>1. CASE b.size = bak.size
      BY <1>2, <2>2, <2>3, <2>5, <3>1
    <3>2. CASE b.size = bak.size + 1 /\ bak.copies[k] = << >>
      <4>1. act.size + bak.size < MaxEntries
        BY <2>4, <3>2
      <4>2. act.size + b.size <= MaxEntries
        BY <1>2, <2>5, <3>2, <4>1
      <4>3. act.size + b.size + (act.nb - ridx) <= b.nb + 1
        <5>1. b.nb = bak.nb /\ b.size = bak.size + 1
          BY <2>3, <3>2
        <5>2. act.size + bak.size + (act.nb - ridx) <= bak.nb
          BY <2>2
        <5> DEFINE x == act.size
                   y == bak.size
                   z == act.nb - ridx
                   n == bak.nb
        <5>3. x \in Int /\ y \in Int /\ z \in Int /\ n \in Int
          BY <1>2, <2>5
        <5>4. x + y + z <= n
          BY <5>2
        <5> HIDE DEF x, y, z, n
        <5>5. x + (y + 1) + z <= n + 1
          BY <5>3, <5>4
        <5> QED
          BY <5>1, <5>5 DEF x, y, z, n
      <4> QED
        BY <4>2, <4>3
    <3> QED
      BY <2>3, <3>1, <3>2
  <2>7. Ready(act, b, ridx)
    BY <1>2, <2>2, <2>3, <2>5, <2>6 DEF Ready
  <2> QED
    BY <1>4, <2>1, <2>5, <2>7 DEF b, Written
<1> QED
  BY <1>3, <1>4

LEMMA SetStep ==
    ASSUME DictInv, NEW k \in Keys, NEW v \in Values, Set(k, v)
    PROVE  DictInv'
<1>1. fatal = FALSE /\ resize \in BOOLEAN /\ resize' = resize
  BY DEF DictInv, Set
<1>2. PICK a, b : /\ Rehash(a, b) /\ Ready(a, b, ridx)
                  /\ b # NoTable \/ Good(a, b, ridx)
  BY SetReady
<1>3. fatal' \in BOOLEAN
  BY <1>1, <1>2 DEF Rehash, Move, Finish
<1> QED
  BY <1>1, <1>2, <1>3, RehashOK DEF DictInv

LEMMA GoodReady ==
    ASSUME NEW a, NEW b, NEW i, Good(a, b, i)
    PROVE  Ready(a, b, i)
<1>1. CASE b = NoTable
  BY <1>1 DEF Good, Ready
<1>2. CASE b # NoTable
  <2>1. TableOK(a) /\ TableOK(b) /\ i \in Nat
        /\ a.size + b.size + (a.nb - i) <= b.nb
    BY <1>2 DEF Good
  <2>2. a.size + b.size + (a.nb - i) <= b.nb + 1
    BY <2>1, SizeType
  <2> QED
    BY <1>2, <2>2 DEF Good, Ready
<1> QED
  BY <1>1, <1>2

(* A get that finds something found an entry.                              *)
LEMMA Found ==
    ASSUME NEW t, NEW k, TableGet(t, k) # None
    PROVE  t # NoTable /\ t.copies[k] # << >>
BY DEF TableGet

(* The tables when the entry is gone, before atm_dict_rehash.              *)
Deleted(k, a, b) ==
    \/ TableGet(act, k) # None /\ a = TableDel(act, k) /\ b = bak
    \/ TableGet(act, k) = None /\ TableGet(bak, k) # None /\ a = act /\ b = TableDel(bak, k)
    \/ TableGet(act, k) = None /\ TableGet(bak, k) = None /\ a = act /\ b = bak

LEMMA DelReady ==
    ASSUME DictInv, NEW k \in Keys, Del(k)
    PROVE  \E a, b : Deleted(k, a, b) /\ Rehash(a, b) /\ Good(a, b, ridx)
<1>1. Good(act, bak, ridx)
  BY DEF DictInv, Del
<1>2. TableOK(act) /\ ridx \in Nat /\ Consistent(act, ridx) /\ act.size \in Nat
      /\ MaxEntries \in Nat /\ act.nb \in Nat
  BY <1>1, SizeType, DictAssumption DEF Good
<1>3. CASE TableGet(act, k) # None
  <2> DEFINE a == TableDel(act, k)
  <2>1. act.copies[k] # << >>
    BY <1>3, Found
  <2>2. TableOK(a) /\ Consistent(a, ridx) /\ a.nb = act.nb /\ a.size = act.size - 1
    BY <1>2, <2>1, DelOK
  <2>3. Rehash(a, bak)
    BY <1>3 DEF Del
  <2> HIDE DEF a
  <2>4. Good(a, bak, ridx)
    <3>1. CASE bak = NoTable
      <4>1. ridx = 0 /\ act.size <= MaxEntries
        BY <1>1, <3>1 DEF Good
      <4>2. a.size <= MaxEntries
        BY <1>2, <2>2, <4>1
      <4> QED
        BY <1>2, <2>2, <3>1, <4>1, <4>2 DEF Good
    <3>2. CASE bak # NoTable
      <4>1. /\ TableOK(bak) /\ Consistent(bak, 0) /\ ridx < act.nb
            /\ act.size + bak.size + (act.nb - ridx) <= bak.nb
            /\ act.size + bak.size <= MaxEntries
        BY <1>1, <3>2 DEF Good
      <4>2. bak.size \in Nat /\ bak.nb \in Nat
        BY <4>1, SizeType
      <4>3. /\ a.size + bak.size + (a.nb - ridx) <= bak.nb
            /\ a.size + bak.size <= MaxEntries
        BY <1>2, <2>2, <4>1, <4>2
      <4> QED
        BY <1>2, <2>2, <3>2, <4>1, <4>3 DEF Good
    <3> QED
      BY <3>1, <3>2
  <2> QED
    BY <1>3, <2>3, <2>4 DEF Deleted, a
<1>4. CASE TableGet(act, k) = None /\ TableGet(bak, k) # None
  <2> DEFINE b == TableDel(bak, k)
  <2>1. bak # NoTable /\ bak.copies[k] # << >>
    BY <1>4, Found
  <2>2. /\ TableOK(bak) /\ Consistent(bak, 0) /\ ridx < act.nb
        /\ act.size + bak.size + (act.nb - ridx) <= bak.nb
        /\ act.size + bak.size <= MaxEntries
    BY <1>1, <2>1 DEF Good
  <2>3. TableOK(b) /\ Consistent(b, 0) /\ b.nb = bak.nb /\ b.size = bak.size - 1
    BY <2>1, <2>2, DelOK
  <2>4. Rehash(act, b)
    BY <1>4 DEF Del
  <2> HIDE DEF b
  <2>5. bak.size \in Nat /\ bak.nb \in Nat /\ b # NoTable
    BY <2>2, <2>3, SizeType
  <2>6. /\ act.size + b.size + (act.nb - ridx) <= b.nb
        /\ act.size + b.size <= MaxEntries
    BY <1>2, <2>2, <2>3, <2>5
  <2>7. Good(act, b, ridx)
    BY <1>2, <2>2, <2>3, <2>5, <2>6 DEF Good
  <2> QED
    BY <1>4, <2>4, <2>7 DEF Deleted, b
<1>5. CASE TableGet(act, k) = None /\ TableGet(bak, k) = None
  <2>1. Rehash(act, bak)
    BY <1>5 DEF Del
  <2> QED
    BY <1>1, <1>5, <2>1 DEF Deleted
<1> QED
  BY <1>3, <1>4, <1>5

LEMMA DelStep ==
    ASSUME DictInv, NEW k \in Keys, Del(k)
    PROVE  DictInv'
<1>1. fatal = FALSE /\ resize \in BOOLEAN /\ resize' = resize
  BY DEF DictInv, Del
<1>2. PICK a, b : Rehash(a, b) /\ Good(a, b, ridx)
  BY DelReady
<1>3. fatal' \in BOOLEAN
  BY <1>1, <1>2 DEF Rehash, Move, Finish
<1> QED
  BY <1>1, <1>2, <1>3, GoodReady, RehashOK DEF DictInv

LEMMA DictInductive == DictInv /\ [Next]_vars => DictInv'
<1> SUFFICES ASSUME DictInv, [Next]_vars PROVE DictInv'
  OBVIOUS
<1>1. ASSUME NEW k \in Keys, NEW v \in Values, Set(k, v) PROVE DictInv'
  BY <1>1, SetStep
<1>2. ASSUME NEW k \in Keys, Del(k) PROVE DictInv'
  BY <1>2, DelStep
<1>3. ASSUME NEW on \in BOOLEAN, ResizeSwitch(on) PROVE DictInv'
  BY <1>3 DEF DictInv, ResizeSwitch
<1>4. CASE UNCHANGED vars
  BY <1>4 DEF DictInv, vars
<1> QED
  BY <1>1, <1>2, <1>3, <1>4 DEF Next

LEMMA DictInvHolds == Spec => []DictInv
BY InitOK, DictInductive, PTL DEF Spec

(* While a rehash of atm_dict.c is under way the two tables together never *)
(* have more entries than the new one has buckets, with a bucket left in   *)
(* hand for every write still to come.                                     *)
THEOREM LoadStaysBounded == Spec => []LoadBounded
<1>1. DictInv => LoadBounded
  BY DEF DictInv, Good, LoadBounded
<1> QED
  BY <1>1, DictInvHolds, PTL

(* The counters, the bucket array and the rehash index of atm_dict.c stay  *)
(* consistent, under sets, deletes and switches of enable_resize.          *)
THEOREM TablesStayConsistent == Spec => []TablesConsistent
<1>1. DictInv => TablesConsistent
  BY DEF DictInv, Good, TablesConsistent, TypeOK
<1> QED
  BY <1>1, DictInvHolds, PTL

-----------------------------------------------------------------------------
(* Without deletes: no check fails, and a set changes its own key only     *)

(* Every bucket from i on that was created has an entry.                   *)
Full(t, i) ==
    \A j \in t.made : j >= i => \E k \in Keys : BucketOf(t, k) = j /\ t.copies[k] # << >>

LEMMA FullCount ==
    ASSUME NEW t, TableOK(t), NEW i \in Nat, Consistent(t, i), Full(t, i), t.size = 0
    PROVE  t.used = 0 /\ \A k \in Keys : t.copies[k] = << >>
<1>1. t.copies \in Copies
  BY DEF TableOK, Tables, Copies
<1>2. \A k \in Keys : t.copies[k] = << >>
  BY <1>1, CountEmpty DEF Consistent
<1>3. {j \in t.made : j >= i} = {}
  BY <1>2 DEF Full
<1> QED
  BY <1>2, <1>3, FS_EmptySet DEF Consistent

LEMMA PushFields ==
    ASSUME NEW t, TableOK(t), NEW es \in Copies
    PROVE  /\ PushEntries(t, es).nb = t.nb
           /\ PushEntries(t, es).copies = [k \in Keys |-> t.copies[k] \o es[k]]
           /\ PushEntries(t, es).made
                = t.made \cup {BucketOf(t, k) : k \in {x \in Keys : es[x] # << >>}}
BY DEF PushEntries, TableOK, Tables

LEMMA PushFull ==
    ASSUME NEW t, TableOK(t), Full(t, 0), NEW es \in Copies
    PROVE  Full(PushEntries(t, es), 0)
<1> DEFINE r == PushEntries(t, es)
<1>1. /\ r.nb = t.nb /\ r.copies = [k \in Keys |-> t.copies[k] \o es[k]]
      /\ r.made = t.made \cup {BucketOf(t, k) : k \in {x \in Keys : es[x] # << >>}}
  BY PushFields
<1> HIDE DEF r
<1>2. \A k \in Keys : BucketOf(r, k) = BucketOf(t, k)
  BY <1>1 DEF BucketOf
<1>3. ASSUME NEW k \in Keys, t.copies[k] # << >> \/ es[k] # << >>
      PROVE  r.copies[k] # << >>
  <2>1. t.copies[k] \in Seq(Values) /\ es[k] \in Seq(Values)
    BY DEF TableOK, Tables, Copies
  <2>2. Len(t.copies[k]) # 0 \/ Len(es[k]) # 0
    BY <1>3, <2>1, EmptySeq
  <2>3. Len(t.copies[k] \o es[k]) = Len(t.copies[k]) + Len(es[k])
    BY <2>1, ConcatProperties
  <2>4. Len(t.copies[k]) \in Nat /\ Len(es[k]) \in Nat
    BY <2>1, LenProperties
  <2>5. Len(t.copies[k] \o es[k]) # 0
    <3> DEFINE m == Len(t.copies[k])
               n == Len(es[k])
    <3>1. m \in Nat /\ n \in Nat /\ (m # 0 \/ n # 0)
      BY <2>2, <2>4
    <3>2. Len(t.copies[k] \o es[k]) = m + n
      BY <2>3
    <3> HIDE DEF m, n
    <3>3. m + n # 0
      BY <3>1
    <3> QED
      BY <3>2, <3>3
  <2>6. t.copies[k] \o es[k] \in Seq(Values)
    BY <2>1, ConcatProperties
  <2>7. t.copies[k] \o es[k] # << >>
    BY <2>5, <2>6, EmptySeq
  <2> QED
    BY <1>1, <2>7
<1>4. ASSUME NEW j \in r.made, j >= 0
      PROVE  \E k \in Keys : BucketOf(r, k) = j /\ r.copies[k] # << >>
  <2>1. CASE j \in t.made
    <3>1. PICK k \in Keys : BucketOf(t, k) = j /\ t.copies[k] # << >>
      BY <1>4, <2>1 DEF Full
    <3> QED
      BY <1>2, <1>3, <3>1
  <2>2. CASE j \notin t.made
    <3>1. PICK k \in Keys : BucketOf(t, k) = j /\ es[k] # << >>
      BY <1>1, <2>2
    <3> QED
      BY <1>2, <1>3, <3>1
  <2> QED
    BY <2>1, <2>2
<1> QED
  BY <1>4 DEF Full, r

(* What a write does to the entries of a table                             *)
LEMMA SetFields ==
    ASSUME NEW t, TableOK(t), NEW k \in Keys, NEW v \in Values
    PROVE  LET r == TableSet(t, k, v)
           IN  /\ r.copies[k] # << >> /\ Head(r.copies[k]) = v
               /\ \A x \in Keys \ {k} : r.copies[x] = t.copies[x]
               /\ Full(t, 0) => Full(r, 0)
<1> DEFINE r == TableSet(t, k, v)
<1>1. t \in Tables /\ t.copies \in Copies /\ t.copies[k] \in Seq(Values)
  BY DEF TableOK, Tables, Copies
<1>2. CASE t.copies[k] # << >>
  <2> DEFINE q == [t.copies[k] EXCEPT ![1] = v]
  <2>1. 1 \in 1..Len(t.copies[k])
    BY <1>1, <1>2
  <2>2. q \in Seq(Values) /\ Len(q) = Len(t.copies[k]) /\ q[1] = v
    BY <1>1, <2>1, ExceptSeq
  <2>3. r.nb = t.nb /\ r.made = t.made /\ r.copies = [t.copies EXCEPT ![k] = q]
    BY <1>1, <1>2 DEF TableSet, Tables
  <2> HIDE DEF q, r
  <2>4. q # << >> /\ Head(q) = v
    BY <2>1, <2>2
  <2>5. r.copies[k] = q /\ \A x \in Keys \ {k} : r.copies[x] = t.copies[x]
    BY <1>1, <2>3 DEF Copies
  <2>6. \A x \in Keys : BucketOf(r, x) = BucketOf(t, x)
    BY <2>3 DEF BucketOf
  <2>7. \A x \in Keys : t.copies[x] # << >> => r.copies[x] # << >>
    BY <2>4, <2>5
  <2>8. ASSUME Full(t, 0) PROVE Full(r, 0)
    BY <2>3, <2>6, <2>7, <2>8 DEF Full
  <2> QED
    BY <2>4, <2>5, <2>8 DEF r
<1>3. CASE t.copies[k] = << >>
  <2> DEFINE es == [NoEntries EXCEPT ![k] = <<v>>]
  <2>1. es \in Copies
    BY CountOne
  <2>2. es[k] = <<v>> /\ \A x \in Keys \ {k} : es[x] = << >>
    BY DEF NoEntries
  <2>3. r = PushEntries(t, es)
    BY <1>3 DEF TableSet
  <2> HIDE DEF es, r
  <2>4. r.copies = [x \in Keys |-> t.copies[x] \o es[x]]
    BY <2>1, <2>3, PushFields
  <2>9. << >> \o <<v>> = <<v>>
    <3>1. <<v>> \in Seq(Values)
      OBVIOUS
    <3> QED
      BY <3>1, ConcatEmptySeq
  <2>5. r.copies[k] = <<v>>
    BY <1>3, <2>2, <2>4, <2>9
  <2>6. ASSUME NEW x \in Keys \ {k} PROVE r.copies[x] = t.copies[x]
    <3>1. t.copies[x] \in Seq(Values)
      BY <1>1 DEF Copies
    <3>2. r.copies[x] = t.copies[x] \o << >>
      BY <2>2, <2>4
    <3> QED
      BY <3>1, <3>2
  <2>7. ASSUME Full(t, 0) PROVE Full(r, 0)
    BY <2>1, <2>3, <2>7, PushFull
  <2> QED
    BY <2>5, <2>6, <2>7 DEF r
<1> QED
  BY <1>2, <1>3

LEMMA TakeFields ==
    ASSUME NEW t, TableOK(t), NEW i
    PROVE  /\ TakeBucket(t, i).nb = t.nb /\ TakeBucket(t, i).made = t.made
           /\ TakeBucket(t, i).copies
                = [k \in Keys |-> IF BucketOf(t, k) = i THEN << >> ELSE t.copies[k]]
BY DEF TakeBucket, TableOK, Tables

LEMMA TakeFull ==
    ASSUME NEW t, TableOK(t), NEW i \in Nat, Full(t, i)
    PROVE  Full(TakeBucket(t, i), i + 1)
<1> DEFINE r == TakeBucket(t, i)
<1>1. /\ r.nb = t.nb /\ r.made = t.made
      /\ r.copies = [k \in Keys |-> IF BucketOf(t, k) = i THEN << >> ELSE t.copies[k]]
  BY TakeFields
<1> HIDE DEF r
<1>2. \A k \in Keys : BucketOf(r, k) = BucketOf(t, k)
  BY <1>1 DEF BucketOf
<1>3. ASSUME NEW j \in r.made, j >= i + 1
      PROVE  \E k \in Keys : BucketOf(r, k) = j /\ r.copies[k] # << >>
  <2>1. j \in Nat /\ j >= i /\ j # i
    BY <1>1, <1>3, MadeFinite
  <2>2. PICK k \in Keys : BucketOf(t, k) = j /\ t.copies[k] # << >>
    BY <1>1, <2>1 DEF Full
  <2> QED
    BY <1>1, <1>2, <2>1, <2>2
<1> QED
  BY <1>3 DEF Full, r

LEMMA SkipFull ==
    ASSUME NEW t, TableOK(t), NEW i \in Nat, Full(t, i)
    PROVE  Full(t, i + 1)
<1>1. \A j \in t.made : j >= i + 1 => j >= i
  BY MadeFinite
<1> QED
  BY <1>1 DEF Full

(* The value that a table has for a key                                    *)
LEMMA GetValue ==
    ASSUME NEW t, TableOK(t), NEW k \in Keys
    PROVE  /\ t.copies[k] = << >> => TableGet(t, k) = None
           /\ t.copies[k] # << >> => /\ TableGet(t, k) = Head(t.copies[k])
                                   /\ TableGet(t, k) # None
<1>1. t.copies[k] \in Seq(Values) /\ t # NoTable
  BY DictAssumption DEF TableOK, Tables
<1>2. CASE t.copies[k] # << >>
  <2>1. Head(t.copies[k]) \in Values
    BY <1>1, <1>2
  <2> QED
    BY <1>1, <1>2, <2>1, DictAssumption DEF TableGet
<1> QED
  BY <1>2 DEF TableGet

(* The value last written to a key, of two tables (Newest)                 *)
NewestIn(a, b, k) == IF TableGet(b, k) # None THEN TableGet(b, k) ELSE TableGet(a, k)

LEMMA GetNoTable ==
    ASSUME NEW k PROVE TableGet(NoTable, k) = None
BY DEF TableGet

(* What a rehash of two tables leaves behind                               *)
Whole(a, b, i) ==
    /\ Full(a, i)
    /\ b # NoTable => Full(b, 0) /\ a.size # 0

LEMMA FinishWhole ==
    ASSUME NEW a, NEW b, NEW i \in Nat, TableOK(a), TableOK(b),
           Consistent(a, i), Full(a, i), Full(b, 0), i <= a.nb, Finish(a, b, i)
    PROVE  /\ fatal' = FALSE /\ Whole(act', bak', ridx')
           /\ \A k \in Keys : NewestIn(act', bak', k) = NewestIn(a, b, k)
<1>1. b # NoTable
  BY SizeType
<1>2. CASE a.size # 0
  <2>1. act' = a /\ bak' = b /\ ridx' = i /\ fatal' = FALSE
    BY <1>2 DEF Finish
  <2> QED
    BY <1>2, <2>1 DEF Whole
<1>3. CASE a.size = 0
  <2>1. a.used = 0 /\ \A k \in Keys : a.copies[k] = << >>
    BY <1>3, FullCount
  <2>2. act' = b /\ bak' = NoTable /\ ridx' = 0 /\ fatal' = FALSE
    <3>1. ~ (i > a.nb)
      BY SizeType
    <3> QED
      BY <1>3, <2>1, <3>1 DEF Finish
  <2>3. \A k \in Keys : TableGet(a, k) = None
    BY <2>1, GetValue
  <2>4. \A k \in Keys : NewestIn(act', bak', k) = NewestIn(a, b, k)
    BY <2>2, <2>3, GetNoTable DEF NewestIn
  <2> QED
    BY <2>2, <2>4 DEF Whole
<1> QED
  BY <1>2, <1>3

LEMMA MoveNewest ==
    ASSUME NEW a, NEW b, TableOK(a), TableOK(b), NEW i \in Nat, NEW k \in Keys,
           TableOK(TakeBucket(a, i)), TableOK(PushEntries(b, Bucket(a, i)))
    PROVE  NewestIn(TakeBucket(a, i), PushEntries(b, Bucket(a, i)), k) = NewestIn(a, b, k)
<1> DEFINE x == TakeBucket(a, i)
           y == PushEntries(b, Bucket(a, i))
<1>1. a.copies[k] \in Seq(Values) /\ b.copies[k] \in Seq(Values)
  BY DEF TableOK, Tables
<1>2. x.copies[k] = IF BucketOf(a, k) = i THEN << >> ELSE a.copies[k]
  <2>1. x.copies = [j \in Keys |-> IF BucketOf(a, j) = i THEN << >> ELSE a.copies[j]]
    BY TakeFields
  <2> HIDE DEF x
  <2> QED
    BY <2>1
<1>3. y.copies[k] = b.copies[k] \o (IF BucketOf(a, k) = i THEN a.copies[k] ELSE << >>)
  <2>1. Bucket(a, i) \in Copies
    BY BucketCopies
  <2>2. y.copies = [j \in Keys |-> b.copies[j] \o Bucket(a, i)[j]]
    BY <2>1, PushFields
  <2>3. Bucket(a, i)[k] = IF BucketOf(a, k) = i THEN a.copies[k] ELSE << >>
    BY DEF Bucket
  <2> HIDE DEF y
  <2> QED
    BY <2>2, <2>3
<1> HIDE DEF x, y
<1>4. TableOK(x) /\ TableOK(y)
  BY DEF x, y
<1>5. CASE BucketOf(a, k) # i
  <2>1. x.copies[k] = a.copies[k] /\ y.copies[k] = b.copies[k]
    BY <1>1, <1>2, <1>3, <1>5, ConcatEmptySeq
  <2> QED
    BY <1>4, <2>1, GetValue DEF NewestIn, x, y
<1>6. CASE BucketOf(a, k) = i /\ b.copies[k] = << >>
  <2>1. x.copies[k] = << >> /\ y.copies[k] = a.copies[k]
    BY <1>1, <1>2, <1>3, <1>6, ConcatEmptySeq
  <2>2. TableGet(x, k) = None /\ TableGet(b, k) = None /\ TableGet(y, k) = TableGet(a, k)
    BY <1>4, <1>6, <2>1, GetValue
  <2> QED
    BY <2>2 DEF NewestIn, x, y
<1>7. CASE BucketOf(a, k) = i /\ b.copies[k] # << >>
  <2>1. y.copies[k] = b.copies[k] \o a.copies[k]
    BY <1>3, <1>7
  <2>2. y.copies[k] # << >> /\ Head(y.copies[k]) = Head(b.copies[k])
    <3>1. Len(b.copies[k]) \in Nat \ {0} /\ Len(a.copies[k]) \in Nat
      BY <1>1, <1>7, EmptySeq, LenProperties
    <3>2. Len(y.copies[k]) # 0 /\ y.copies[k][1] = b.copies[k][1]
      <4> DEFINE s == b.copies[k]
                 u == a.copies[k]
                 m == Len(s)
                 n == Len(u)
      <4>1. s \in Seq(Values) /\ u \in Seq(Values) /\ y.copies[k] = s \o u
        BY <1>1, <2>1
      <4>2. m \in Nat \ {0} /\ n \in Nat
        BY <3>1
      <4> HIDE DEF s, u
      <4>3. Len(s \o u) = m + n
            /\ \A j \in 1..m + n : (s \o u)[j] = IF j <= m THEN s[j] ELSE u[j - m]
        BY <4>1, ConcatProperties
      <4> HIDE DEF m, n
      <4>4. 1 \in 1..m + n /\ 1 <= m /\ m + n # 0
        BY <4>2
      <4> QED
        BY <4>1, <4>3, <4>4 DEF s
    <3>3. y.copies[k] \in Seq(Values)
      BY <1>1, <2>1, ConcatProperties
    <3>4. y.copies[k] # << >>
      BY <3>2, EmptySeq
    <3> QED
      BY <1>1, <1>7, <3>2, <3>3, <3>4
  <2>3. TableGet(b, k) # None /\ TableGet(y, k) = TableGet(b, k)
    BY <1>4, <1>7, <2>2, GetValue
  <2> QED
    BY <2>3 DEF NewestIn, x, y
<1> QED
  BY <1>5, <1>6, <1>7

LEMMA MoveWhole ==
    ASSUME NEW a, NEW b, TableOK(a), TableOK(b), ridx \in Nat, ridx < a.nb,
           Consistent(a, ridx), Consistent(b, 0), a.size # 0,
           Full(a, ridx), Full(b, 0), Move(a, b)
    PROVE  /\ fatal' = FALSE /\ Whole(act', bak', ridx')
           /\ \A k \in Keys : NewestIn(act', bak', k) = NewestIn(a, b, k)
<1>1. ridx + 1 \in Nat /\ ridx + 1 <= a.nb
  BY SizeType
<1>2. CASE ridx \notin a.made
  BY <1>1, <1>2, SkipOK, SkipFull, FinishWhole DEF Move
<1>3. CASE ridx \in a.made
  <2> DEFINE x == TakeBucket(a, ridx)
             y == PushEntries(b, Bucket(a, ridx))
  <2>1. Finish(x, y, ridx + 1)
    BY <1>3 DEF Move
  <2>2. TableOK(x) /\ Consistent(x, ridx + 1) /\ x.nb = a.nb /\ Full(x, ridx + 1)
    BY <1>3, TakeOK, TakeFull
  <2>3. Bucket(a, ridx) \in Copies
    BY BucketCopies
  <2>4. TableOK(y) /\ Full(y, 0)
    BY <2>3, PushOK, PushFull
  <2>5. \A k \in Keys : NewestIn(x, y, k) = NewestIn(a, b, k)
    BY <2>2, <2>4, MoveNewest
  <2> HIDE DEF x, y
  <2> QED
    BY <1>1, <2>1, <2>2, <2>4, <2>5, FinishWhole
<1> QED
  BY <1>2, <1>3

(* No check of atm_dict_rehash calls exit.                                 *)
LEMMA RehashWhole ==
    ASSUME NEW a, NEW b, Ready(a, b, ridx), resize \in BOOLEAN, fatal = FALSE,
           Whole(a, b, ridx), Rehash(a, b)
    PROVE  /\ fatal' = FALSE /\ Whole(act', bak', ridx')
           /\ \A k \in Keys : NewestIn(act', bak', k) = NewestIn(a, b, k)
<1> DEFINE new == IF b = NoTable THEN TableNew(NextPower(2 * a.size)) ELSE b
<1>1. /\ TableOK(a) /\ ridx \in Nat /\ Consistent(a, ridx)
      /\ a.size \in Nat /\ a.nb \in Nat \ {0} /\ MaxEntries \in Nat
  BY SizeType, DictAssumption DEF Ready
<1>2. CASE ~ RehashNeeded(a, b)
  BY <1>2 DEF Rehash
<1>3. CASE RehashNeeded(a, b)
  <2>1. a.size # 0 /\ ridx < a.nb
    <3>1. CASE b # NoTable
      BY <3>1 DEF Ready, Whole
    <3>2. CASE b = NoTable
      BY <1>1, <1>3, <3>2, NeededFull DEF Ready
    <3> QED
      BY <3>1, <3>2
  <2>2. a.used # 0
    BY <1>1, <2>1, EntryLeft
  <2>3. ~ Currapt(a, b)
    BY <1>1, <2>1, <2>2 DEF Currapt, Ready
  <2>4. Move(a, new)
    BY <1>3, <2>3 DEF Rehash
  <2>5. TableOK(new) /\ Consistent(new, 0) /\ Full(new, 0)
        /\ \A k \in Keys : TableGet(new, k) = TableGet(b, k)
    <3>1. CASE b # NoTable
      BY <3>1 DEF Ready, Whole
    <3>2. CASE b = NoTable
      <4> DEFINE p == NextPower(2 * a.size)
      <4>1. 2 * a.size \in 0..2 * MaxEntries
        BY <1>1, <3>2 DEF Ready
      <4>2. p \in BucketSizes
        BY <4>1, NextPowerBound
      <4> HIDE DEF p
      <4>3. TableOK(TableNew(p)) /\ Consistent(TableNew(p), 0)
        BY <4>2, NewOK
      <4>4. TableNew(p).made = {} /\ TableNew(p).copies = NoEntries
        BY DEF TableNew
      <4>5. Full(TableNew(p), 0)
        BY <4>4 DEF Full
      <4>6. \A k \in Keys : TableGet(TableNew(p), k) = None
        BY <4>3, <4>4, GetValue DEF NoEntries
      <4> QED
        BY <3>2, <4>3, <4>5, <4>6, GetNoTable DEF p
    <3> QED
      BY <3>1, <3>2
  <2> HIDE DEF new
  <2>6. Full(a, ridx)
    BY DEF Whole
  <2>7. /\ fatal' = FALSE /\ Whole(act', bak', ridx')
        /\ \A k \in Keys : NewestIn(act', bak', k) = NewestIn(a, new, k)
    BY <1>1, <2>1, <2>4, <2>5, <2>6, MoveWhole
  <2> QED
    BY <2>5, <2>7 DEF NewestIn
<1> QED
  BY <1>2, <1>3

(* The invariant of a dictionary that is never asked to delete             *)
SetInv == DictInv /\ fatal = FALSE /\ Whole(act, bak, ridx)

LEMMA SetWhole ==
    ASSUME SetInv, NEW k \in Keys, NEW v \in Values, Set(k, v)
    PROVE  /\ fatal' = FALSE /\ Whole(act', bak', ridx')
           /\ \A x \in Keys : NewestIn(act', bak', x)
                                  = IF x = k THEN v ELSE NewestIn(act, bak, x)
<1>1. DictInv /\ fatal = FALSE /\ Whole(act, bak, ridx) /\ resize \in BOOLEAN
      /\ Good(act, bak, ridx)
  BY DEF SetInv, DictInv
<1>2. PICK a, b : Written(k, v, a, b) /\ Rehash(a, b) /\ Ready(a, b, ridx)
  BY <1>1, SetReady
<1>3. Whole(a, b, ridx) /\ \A x \in Keys : NewestIn(a, b, x)
                                  = IF x = k THEN v ELSE NewestIn(act, bak, x)
  <2>1. CASE bak = NoTable
    <3>1. a = TableSet(act, k, v) /\ b = NoTable /\ ridx = 0
      BY <1>1, <1>2, <2>1 DEF Written, Good
    <3>2. TableOK(act) /\ TableOK(a) /\ Full(act, 0)
      BY <1>1, <1>2, <3>1 DEF Good, Ready, Whole
    <3>3. /\ a.copies[k] # << >> /\ Head(a.copies[k]) = v
          /\ \A x \in Keys \ {k} : a.copies[x] = act.copies[x]
          /\ Full(a, 0)
      BY <3>1, <3>2, SetFields
    <3>4. TableGet(a, k) = v
      BY <3>2, <3>3, GetValue
    <3>5. \A x \in Keys \ {k} : TableGet(a, x) = TableGet(act, x)
      BY <3>2, <3>3, GetValue
    <3> QED
      BY <2>1, <3>1, <3>3, <3>4, <3>5, GetNoTable DEF NewestIn, Whole
  <2>2. CASE bak # NoTable
    <3>1. a = act /\ b = TableSet(bak, k, v)
      BY <1>2, <2>2 DEF Written
    <3>2. TableOK(bak) /\ Full(bak, 0) /\ act.size # 0 /\ Full(act, ridx)
          /\ Consistent(bak, 0)
      BY <1>1, <2>2 DEF Good, Whole
    <3>3. /\ b.copies[k] # << >> /\ Head(b.copies[k]) = v
          /\ \A x \in Keys \ {k} : b.copies[x] = bak.copies[x]
          /\ Full(b, 0)
      BY <3>1, <3>2, SetFields
    <3>4. TableOK(b)
      BY <3>1, <3>2, SetOK
    <3>5. TableGet(b, k) = v /\ v # None
      BY <3>3, <3>4, GetValue, DictAssumption
    <3>6. \A x \in Keys \ {k} : TableGet(b, x) = TableGet(bak, x)
      BY <3>2, <3>3, <3>4, GetValue
    <3> QED
      BY <3>1, <3>2, <3>3, <3>5, <3>6 DEF NewestIn, Whole
  <2> QED
    BY <2>1, <2>2
<1> QED
  BY <1>1, <1>2, <1>3, RehashWhole

LEMMA InitWhole == Init => SetInv
<1> SUFFICES ASSUME Init PROVE SetInv
  OBVIOUS
<1>1. act.made = {} /\ bak = NoTable /\ fatal = FALSE
  BY DEF Init, TableNew
<1> QED
  BY <1>1, InitOK DEF SetInv, Whole, Full

LEMMA SetInvInductive ==
    ASSUME AllowDel = FALSE
    PROVE  SetInv /\ [Next]_vars => SetInv'
<1> SUFFICES ASSUME SetInv, [Next]_vars PROVE SetInv'
  OBVIOUS
<1>1. DictInv'
  BY DictInductive DEF SetInv
<1>2. ASSUME NEW k \in Keys, NEW v \in Values, Set(k, v) PROVE SetInv'
  BY <1>1, <1>2, SetWhole DEF SetInv
<1>3. ASSUME NEW on \in BOOLEAN, ResizeSwitch(on) PROVE SetInv'
  BY <1>1, <1>3 DEF SetInv, ResizeSwitch, Whole
<1>4. CASE UNCHANGED vars
  BY <1>1, <1>4 DEF SetInv, vars, Whole
<1> QED
  BY <1>2, <1>3, <1>4 DEF Next, Del

LEMMA SetInvHolds ==
    ASSUME AllowDel = FALSE
    PROVE  Spec => []SetInv
BY InitWhole, SetInvInductive, PTL DEF Spec

(* While nothing is deleted, no set brings atm_dict_rehash to one of its   *)
(* calls of exit.                                                          *)
THEOREM SetsNeverFatal ==
    ASSUME AllowDel = FALSE
    PROVE  Spec => []NoFatal
<1>1. SetInv => NoFatal
  BY DEF SetInv, NoFatal
<1> QED
  BY <1>1, SetInvHolds, PTL

-----------------------------------------------------------------------------
(* What a get returns, key by key                                          *)

(* The entries of a key in the backup table, if there is one.              *)
Copied(b, k) == IF b = NoTable THEN << >> ELSE b.copies[k]

(* The value that a get finds in the entries u of the active table and w   *)
(* of the backup table, and the one that was written last.                 *)
GetOf(u, w) == IF u # << >> THEN Head(u) ELSE IF w # << >> THEN Head(w) ELSE None
LastOf(u, w) == IF w # << >> THEN Head(w) ELSE IF u # << >> THEN Head(u) ELSE None

(* What atm_dict_rehash does with the entries of one key.                  *)
Shifted(u, w, u2, w2) ==
    \/ u2 = u /\ w2 = w
    \/ u2 = << >> /\ w2 = w \o u
    \/ u2 = w \o u /\ w2 = << >>

LEMMA HeadOfCat ==
    ASSUME NEW w \in Seq(Values), NEW u \in Seq(Values)
    PROVE  /\ w \o u \in Seq(Values) /\ Len(w \o u) = Len(w) + Len(u)
           /\ w = << >> => w \o u = u
           /\ w # << >> => w \o u # << >> /\ Head(w \o u) = Head(w)
<1> DEFINE m == Len(w)
           n == Len(u)
<1>1. /\ w \o u \in Seq(Values) /\ Len(w \o u) = m + n
      /\ \A j \in 1..m + n : (w \o u)[j] = IF j <= m THEN w[j] ELSE u[j - m]
  BY ConcatProperties
<1>2. m \in Nat /\ n \in Nat /\ (w # << >> => m # 0)
  BY EmptySeq, LenProperties
<1>3. w = << >> => w \o u = u
  BY ConcatEmptySeq
<1> HIDE DEF m, n
<1>4. ASSUME w # << >> PROVE w \o u # << >> /\ Head(w \o u) = Head(w)
  <2>1. 1 \in 1..m + n /\ 1 <= m /\ m + n # 0
    BY <1>2, <1>4
  <2>2. (w \o u)[1] = w[1]
    BY <1>1, <2>1
  <2>3. w \o u # << >>
    BY <1>1, <2>1, EmptySeq
  <2> QED
    BY <1>1, <1>4, <2>2, <2>3
<1> QED
  BY <1>1, <1>3, <1>4 DEF m, n

(* A rehash loses no entry of a key and makes none, and a get finds what   *)
(* it found or what was written last.                                      *)
LEMMA ShiftedGet ==
    ASSUME NEW u \in Seq(Values), NEW w \in Seq(Values), NEW u2, NEW w2,
           Shifted(u, w, u2, w2)
    PROVE  /\ GetOf(u2, w2) \in {GetOf(u, w), LastOf(u, w)}
           /\ GetOf(u2, w2) = None <=> u = << >> /\ w = << >>
           /\ Len(u2) + Len(w2) = Len(u) + Len(w)
<1>1. /\ w \o u \in Seq(Values) /\ Len(w \o u) = Len(w) + Len(u)
      /\ w = << >> => w \o u = u
      /\ w # << >> => w \o u # << >> /\ Head(w \o u) = Head(w)
  BY HeadOfCat
<1>2. /\ u # << >> => Head(u) # None
      /\ w # << >> => Head(w) # None
  <2>1. u # << >> => Head(u) \in Values
    BY HeadTailProperties
  <2>2. w # << >> => Head(w) \in Values
    BY HeadTailProperties
  <2> QED
    BY <2>1, <2>2, DictAssumption
<1>3. Len(u) \in Nat /\ Len(w) \in Nat
  BY LenProperties
<1>4. PICK c, m, n : c = w \o u /\ m = Len(u) /\ n = Len(w)
  OBVIOUS
<1>5. /\ Len(c) = n + m /\ m \in Nat /\ n \in Nat
      /\ w = << >> => c = u
      /\ w # << >> => c # << >> /\ Head(c) = Head(w)
  BY <1>1, <1>3, <1>4
<1>6. Len(<< >>) = 0
  BY EmptySeq
<1>7. CASE u2 = u /\ w2 = w
  BY <1>2, <1>4, <1>5, <1>7 DEF GetOf, LastOf
<1>8. CASE u2 = << >> /\ w2 = c
  <2>1. GetOf(u2, w2) = LastOf(u, w)
    BY <1>5, <1>8 DEF GetOf, LastOf
  <2>2. LastOf(u, w) = None <=> u = << >> /\ w = << >>
    BY <1>2 DEF LastOf
  <2>3. Len(u2) + Len(w2) = m + n
    BY <1>5, <1>6, <1>8
  <2> QED
    BY <1>4, <2>1, <2>2, <2>3
<1>9. CASE u2 = c /\ w2 = << >>
  <2>1. GetOf(u2, w2) = LastOf(u, w)
    BY <1>5, <1>9 DEF GetOf, LastOf
  <2>2. LastOf(u, w) = None <=> u = << >> /\ w = << >>
    BY <1>2 DEF LastOf
  <2>3. Len(u2) + Len(w2) = m + n
    BY <1>5, <1>6, <1>9
  <2> QED
    BY <1>4, <2>1, <2>2, <2>3
<1> QED
  BY <1>4, <1>7, <1>8, <1>9 DEF Shifted

(* The two tables of a dictionary.                                         *)
TwoTables(a, b) == TableOK(a) /\ (b # NoTable => TableOK(b))

LEMMA KeyEntries ==
    ASSUME NEW a, NEW b, TwoTables(a, b), NEW k \in Keys
    PROVE  /\ a.copies[k] \in Seq(Values) /\ Copied(b, k) \in Seq(Values)
           /\ (IF TableGet(a, k) # None THEN TableGet(a, k) ELSE TableGet(b, k))
                = GetOf(a.copies[k], Copied(b, k))
           /\ NewestIn(a, b, k) = LastOf(a.copies[k], Copied(b, k))
<1>1. a.copies[k] \in Seq(Values)
  BY DEF TwoTables, TableOK, Tables
<1>2. /\ a.copies[k] = << >> => TableGet(a, k) = None
      /\ a.copies[k] # << >> => TableGet(a, k) = Head(a.copies[k]) /\ TableGet(a, k) # None
  BY GetValue DEF TwoTables
<1>3. CASE b = NoTable
  <2>1. Copied(b, k) = << >> /\ TableGet(b, k) = None /\ << >> \in Seq(Values)
    BY <1>3, GetNoTable, EmptySeq DEF Copied
  <2> QED
    BY <1>1, <1>2, <2>1 DEF GetOf, LastOf, NewestIn
<1>4. CASE b # NoTable
  <2>1. Copied(b, k) = b.copies[k] /\ b.copies[k] \in Seq(Values)
    BY <1>4 DEF Copied, TwoTables, TableOK, Tables
  <2>2. /\ b.copies[k] = << >> => TableGet(b, k) = None
        /\ b.copies[k] # << >> => TableGet(b, k) = Head(b.copies[k]) /\ TableGet(b, k) # None
    BY <1>4, GetValue DEF TwoTables
  <2> QED
    BY <1>1, <1>2, <2>1, <2>2 DEF GetOf, LastOf, NewestIn
<1> QED
  BY <1>3, <1>4

(* The tables x and y have the entries of a and b.                         *)
Spread(a, b, x, y) ==
    \A k \in Keys : Shifted(a.copies[k], Copied(b, k), x.copies[k], Copied(y, k))

(* Moving one bucket takes all the entries of its keys to the other table. *)
LEMMA MoveShifts ==
    ASSUME NEW a, NEW b, TableOK(a), TableOK(b), NEW i, NEW k \in Keys
    PROVE  LET x == TakeBucket(a, i)
               y == PushEntries(b, Bucket(a, i))
           IN  \/ x.copies[k] = a.copies[k] /\ y.copies[k] = b.copies[k]
               \/ x.copies[k] = << >> /\ y.copies[k] = b.copies[k] \o a.copies[k]
<1> DEFINE x == TakeBucket(a, i)
           y == PushEntries(b, Bucket(a, i))
<1>1. a.copies[k] \in Seq(Values) /\ b.copies[k] \in Seq(Values)
  BY DEF TableOK, Tables
<1>2. x.copies[k] = IF BucketOf(a, k) = i THEN << >> ELSE a.copies[k]
  <2>1. x.copies = [j \in Keys |-> IF BucketOf(a, j) = i THEN << >> ELSE a.copies[j]]
    BY TakeFields
  <2> HIDE DEF x
  <2> QED
    BY <2>1
<1>3. y.copies[k] = b.copies[k] \o (IF BucketOf(a, k) = i THEN a.copies[k] ELSE << >>)
  <2>1. Bucket(a, i) \in Copies
    BY BucketCopies
  <2>2. y.copies = [j \in Keys |-> b.copies[j] \o Bucket(a, i)[j]]
    BY <2>1, PushFields
  <2>3. Bucket(a, i)[k] = IF BucketOf(a, k) = i THEN a.copies[k] ELSE << >>
    BY DEF Bucket
  <2> HIDE DEF y
  <2> QED
    BY <2>2, <2>3
<1> HIDE DEF x, y
<1>4. CASE BucketOf(a, k) = i
  BY <1>2, <1>3, <1>4 DEF x, y
<1>5. CASE BucketOf(a, k) # i
  <2>1. y.copies[k] = b.copies[k] \o << >>
    BY <1>3, <1>5
  <2>2. y.copies[k] = b.copies[k]
    BY <1>1, <2>1, ConcatEmptySeq
  <2> QED
    BY <1>2, <1>5, <2>2 DEF x, y
<1> QED
  BY <1>4, <1>5

LEMMA EmptyCopies ==
    ASSUME NEW t, TableOK(t), NEW i, Consistent(t, i), t.size = 0, NEW k \in Keys
    PROVE  t.copies[k] = << >>
<1>1. t.copies \in Copies
  BY DEF TableOK, Tables, Copies
<1> QED
  BY <1>1, CountEmpty DEF Consistent

(* The swap of the tables, or not.                                         *)
LEMMA FinishSpread ==
    ASSUME NEW a, NEW b, TableOK(a), TableOK(b), NEW x, NEW y, NEW i,
           TableOK(x), TableOK(y), Consistent(x, i), Finish(x, y, i),
           \A k \in Keys :
             \/ x.copies[k] = a.copies[k] /\ y.copies[k] = b.copies[k]
             \/ x.copies[k] = << >> /\ y.copies[k] = b.copies[k] \o a.copies[k]
    PROVE  Spread(a, b, act', bak') /\ TwoTables(act', bak')
<1>1. b # NoTable /\ y # NoTable
  BY SizeType
<1>2. \A k \in Keys : Copied(b, k) = b.copies[k] /\ Copied(y, k) = y.copies[k]
  BY <1>1 DEF Copied
<1>3. CASE act' = x /\ bak' = y
  <2>1. TwoTables(act', bak')
    BY <1>3 DEF TwoTables
  <2>2. ASSUME NEW k \in Keys
        PROVE  Shifted(a.copies[k], Copied(b, k), act'.copies[k], Copied(bak', k))
    BY <1>2, <1>3 DEF Shifted
  <2> QED
    BY <2>1, <2>2 DEF Spread
<1>4. CASE x.size = 0 /\ act' = y /\ bak' = NoTable
  <2>1. TwoTables(act', bak')
    BY <1>4 DEF TwoTables
  <2>2. ASSUME NEW k \in Keys
        PROVE  Shifted(a.copies[k], Copied(b, k), act'.copies[k], Copied(bak', k))
    <3>1. x.copies[k] = << >>
      BY <1>4, EmptyCopies
    <3>2. b.copies[k] \in Seq(Values)
      BY DEF TableOK, Tables
    <3>3. y.copies[k] = b.copies[k] \o a.copies[k]
      BY <3>1, <3>2, ConcatEmptySeq
    <3>4. Copied(bak', k) = << >> /\ act'.copies[k] = y.copies[k]
      BY <1>4 DEF Copied
    <3> QED
      BY <1>2, <3>3, <3>4 DEF Shifted
  <2> QED
    BY <2>1, <2>2 DEF Spread
<1> QED
  BY <1>3, <1>4 DEF Finish

LEMMA RehashSpread ==
    ASSUME NEW a, NEW b, Ready(a, b, ridx), Rehash(a, b)
    PROVE  Spread(a, b, act', bak') /\ TwoTables(act', bak')
<1> DEFINE new == IF b = NoTable THEN TableNew(NextPower(2 * a.size)) ELSE b
<1>1. /\ TableOK(a) /\ ridx \in Nat /\ Consistent(a, ridx)
      /\ a.size \in Nat /\ a.nb \in Nat \ {0} /\ MaxEntries \in Nat
      /\ b # NoTable => TableOK(b) /\ Consistent(b, 0)
  BY SizeType, DictAssumption DEF Ready
<1>2. CASE act' = a /\ bak' = b
  <2>1. Spread(a, b, act', bak')
    BY <1>2 DEF Spread, Shifted
  <2> QED
    BY <1>1, <1>2, <2>1 DEF TwoTables
<1>3. CASE Move(a, new)
  <2>1. /\ TableOK(new) /\ Consistent(new, 0)
        /\ \A k \in Keys : new.copies[k] = Copied(b, k)
    <3>1. CASE b # NoTable
      BY <1>1, <3>1 DEF Copied
    <3>2. CASE b = NoTable
      <4> DEFINE p == NextPower(2 * a.size)
      <4>1. 2 * a.size \in 0..2 * MaxEntries
        BY <1>1, <3>2 DEF Ready
      <4>2. p \in BucketSizes
        BY <4>1, NextPowerBound
      <4> HIDE DEF p
      <4>3. TableOK(TableNew(p)) /\ Consistent(TableNew(p), 0)
        BY <4>2, NewOK
      <4>4. \A k \in Keys : TableNew(p).copies[k] = << >>
        BY DEF TableNew, NoEntries
      <4> QED
        BY <3>2, <4>3, <4>4 DEF Copied, p
    <3> QED
      BY <3>1, <3>2
  <2> HIDE DEF new
  <2>2. new # NoTable
    BY <2>1, SizeType
  <2>3. Spread(a, new, act', bak') /\ TwoTables(act', bak')
    <3>1. CASE a.size = 0
      <4>1. Finish(a, new, ridx)
        BY <1>3, <3>1 DEF Move
      <4> QED
        BY <1>1, <2>1, <4>1, FinishSpread
    <3>2. CASE a.size # 0 /\ ridx \notin a.made
      <4>1. Finish(a, new, ridx + 1)
        BY <1>3, <3>2 DEF Move
      <4>2. Consistent(a, ridx + 1)
        BY <1>1, <3>2, SkipOK
      <4> QED
        BY <1>1, <2>1, <4>1, <4>2, FinishSpread
    <3>3. CASE a.size # 0 /\ ridx \in a.made
      <4> DEFINE x == TakeBucket(a, ridx)
                 y == PushEntries(new, Bucket(a, ridx))
      <4>1. Finish(x, y, ridx + 1)
        BY <1>3, <3>3 DEF Move
      <4>2. TableOK(x) /\ Consistent(x, ridx + 1)
        BY <1>1, <3>3, TakeOK
      <4>3. Bucket(a, ridx) \in Copies
        BY <1>1, BucketCopies
      <4>4. TableOK(y)
        BY <2>1, <4>3, PushOK
      <4>5. \A k \in Keys :
              \/ x.copies[k] = a.copies[k] /\ y.copies[k] = new.copies[k]
              \/ x.copies[k] = << >> /\ y.copies[k] = new.copies[k] \o a.copies[k]
        BY <1>1, <2>1, MoveShifts
      <4> HIDE DEF x, y, new
      <4>6. PICK i : i = ridx + 1
        OBVIOUS
      <4>7. Finish(x, y, i) /\ Consistent(x, i)
        BY <4>1, <4>2, <4>6
      <4> QED
        BY <1>1, <2>1, <4>2, <4>4, <4>5, <4>7, FinishSpread
    <3> QED
      BY <3>1, <3>2, <3>3
  <2>4. \A k \in Keys : Copied(new, k) = Copied(b, k)
    BY <2>1, <2>2 DEF Copied
  <2> QED
    BY <2>3, <2>4 DEF Spread
<1> QED
  BY <1>2, <1>3 DEF Rehash

(* The entries before an operation, and what a get returns of them.        *)
LEMMA GetIs ==
    ASSUME TwoTables(act, bak), NEW k \in Keys
    PROVE  /\ act.copies[k] \in Seq(Values) /\ Copied(bak, k) \in Seq(Values)
           /\ Get(k) = GetOf(act.copies[k], Copied(bak, k))
           /\ Newest(k) = LastOf(act.copies[k], Copied(bak, k))
           /\ Entries(k) = Len(act.copies[k]) + Len(Copied(bak, k))
<1>1. Entries(k) = Len(act.copies[k]) + Len(Copied(bak, k))
  <2>1. Len(<< >>) = 0
    BY EmptySeq
  <2> QED
    BY <2>1 DEF Entries, Copied
<1> QED
  BY <1>1, KeyEntries DEF Get, Newest, NewestIn

(* ... and after it.                                                       *)
LEMMA GetThen ==
    ASSUME NEW a, NEW b, TwoTables(a, b), Spread(a, b, act', bak'),
           TwoTables(act', bak'), NEW k \in Keys
    PROVE  /\ Get(k)' \in {GetOf(a.copies[k], Copied(b, k)), LastOf(a.copies[k], Copied(b, k))}
           /\ Get(k)' = None <=> a.copies[k] = << >> /\ Copied(b, k) = << >>
           /\ Entries(k)' = Len(a.copies[k]) + Len(Copied(b, k))
<1>1. a.copies[k] \in Seq(Values) /\ Copied(b, k) \in Seq(Values)
  BY KeyEntries
<1>2. Shifted(a.copies[k], Copied(b, k), act'.copies[k], Copied(bak', k))
  BY DEF Spread
<1>3. Get(k)' = GetOf(act'.copies[k], Copied(bak', k))
  BY KeyEntries DEF Get
<1>4. Entries(k)' = Len(act'.copies[k]) + Len(Copied(bak', k))
  <2>1. Len(<< >>) = 0
    BY EmptySeq
  <2> QED
    BY <2>1 DEF Entries, Copied
<1>5. PICK u, w, x, y : /\ u = a.copies[k] /\ w = Copied(b, k)
                        /\ x = act'.copies[k] /\ y = Copied(bak', k)
  OBVIOUS
<1>6. u \in Seq(Values) /\ w \in Seq(Values) /\ Shifted(u, w, x, y)
  BY <1>1, <1>2, <1>5
<1>7. /\ GetOf(x, y) \in {GetOf(u, w), LastOf(u, w)}
      /\ GetOf(x, y) = None <=> u = << >> /\ w = << >>
      /\ Len(x) + Len(y) = Len(u) + Len(w)
  BY <1>6, ShiftedGet
<1>8. Get(k)' = GetOf(x, y) /\ Entries(k)' = Len(x) + Len(y)
  BY <1>3, <1>4, <1>5
<1> QED
  BY <1>5, <1>7, <1>8

LEMMA ReadyTables ==
    ASSUME NEW a, NEW b, Ready(a, b, ridx)
    PROVE  TwoTables(a, b)
BY DEF Ready, TwoTables

(* A write is seen by the reads of its key at once, or when the rehash has *)
(* caught up; it leaves the entries of other keys alone.                   *)
LEMMA WrittenGet ==
    ASSUME Good(act, bak, ridx), NEW k \in Keys, NEW v \in Values,
           NEW a, NEW b, Written(k, v, a, b)
    PROVE  /\ GetOf(a.copies[k], Copied(b, k)) \in {GetOf(act.copies[k], Copied(bak, k)), v}
           /\ LastOf(a.copies[k], Copied(b, k)) = v
           /\ \A x \in Keys \ {k} : /\ a.copies[x] = act.copies[x]
                                    /\ Copied(b, x) = Copied(bak, x)
<1>1. TableOK(act) /\ (bak # NoTable => TableOK(bak) /\ Consistent(bak, 0))
  BY DEF Good
<1>2. CASE bak = NoTable
  <2>1. a = TableSet(act, k, v) /\ b = NoTable
    BY <1>2 DEF Written
  <2>2. /\ a.copies[k] # << >> /\ Head(a.copies[k]) = v
        /\ \A x \in Keys \ {k} : a.copies[x] = act.copies[x]
    BY <1>1, <2>1, SetFields
  <2>3. \A x \in Keys : Copied(b, x) = << >> /\ Copied(bak, x) = << >>
    BY <1>2, <2>1 DEF Copied
  <2> QED
    BY <2>2, <2>3 DEF GetOf, LastOf
<1>3. CASE bak # NoTable
  <2>1. a = act /\ b = TableSet(bak, k, v)
    BY <1>3 DEF Written
  <2>2. /\ b.copies[k] # << >> /\ Head(b.copies[k]) = v
        /\ \A x \in Keys \ {k} : b.copies[x] = bak.copies[x]
    BY <1>1, <1>3, <2>1, SetFields
  <2>3. b # NoTable
    BY <1>1, <1>3, <2>1, SetOK, SizeType
  <2>4. \A x \in Keys : Copied(b, x) = b.copies[x] /\ Copied(bak, x) = bak.copies[x]
    BY <1>3, <2>3 DEF Copied
  <2> QED
    BY <2>1, <2>2, <2>4 DEF GetOf, LastOf
<1> QED
  BY <1>2, <1>3

LEMMA CatchUpStep ==
    ASSUME AllowDel = FALSE, DictInv, Next, NEW k \in Keys
    PROVE  \/ Get(k)' \in {Get(k), Newest(k)}
           \/ \E v \in Values : Set(k, v) /\ Get(k)' = v
<1>1. ASSUME NEW x \in Keys, NEW v \in Values, Set(x, v)
      PROVE  \/ Get(k)' \in {Get(k), Newest(k)}
             \/ Set(k, v) /\ Get(k)' = v
  <2>1. Good(act, bak, ridx) /\ TwoTables(act, bak)
    BY <1>1 DEF Set, DictInv, Good, TwoTables
  <2>2. PICK a, b : Written(x, v, a, b) /\ Rehash(a, b) /\ Ready(a, b, ridx)
    BY <1>1, SetReady
  <2>3. TwoTables(a, b) /\ Spread(a, b, act', bak') /\ TwoTables(act', bak')
    BY <2>2, ReadyTables, RehashSpread
  <2>4. Get(k)' \in {GetOf(a.copies[k], Copied(b, k)), LastOf(a.copies[k], Copied(b, k))}
    BY <2>3, GetThen
  <2>5. /\ Get(k) = GetOf(act.copies[k], Copied(bak, k))
        /\ Newest(k) = LastOf(act.copies[k], Copied(bak, k))
    BY <2>1, GetIs
  <2>6. Written(x, v, a, b)
    BY <2>2
  <2>7. /\ GetOf(a.copies[x], Copied(b, x)) \in {GetOf(act.copies[x], Copied(bak, x)), v}
        /\ LastOf(a.copies[x], Copied(b, x)) = v
        /\ \A y \in Keys \ {x} : /\ a.copies[y] = act.copies[y]
                                 /\ Copied(b, y) = Copied(bak, y)
    BY <1>1, <2>1, <2>6, WrittenGet
  <2>8. CASE x = k
    <3>1. /\ GetOf(a.copies[k], Copied(b, k)) \in {GetOf(act.copies[k], Copied(bak, k)), v}
          /\ LastOf(a.copies[k], Copied(b, k)) = v
      BY <2>8, <2>7
    <3>2. Get(k)' \in {Get(k), v}
      BY <2>4, <2>5, <3>1
    <3> QED
      BY <1>1, <2>8, <3>2
  <2>9. CASE x # k
    <3>1. a.copies[k] = act.copies[k] /\ Copied(b, k) = Copied(bak, k)
      BY <2>9, <2>7
    <3> QED
      BY <2>4, <2>5, <3>1
  <2> QED
    BY <2>8, <2>9
<1>2. ASSUME NEW on \in BOOLEAN, ResizeSwitch(on) PROVE Get(k)' = Get(k)
  BY <1>2 DEF ResizeSwitch, Get
<1> QED
  BY <1>1, <1>2 DEF Next, Del

(* While nothing is deleted, a read never goes back to an older copy that  *)
(* a rehash left behind: an operation changes what atm_dict_get returns    *)
(* for a key only to the last value written to it, for any keys, hash and  *)
(* sizes.                                                                  *)
THEOREM ReadsAlwaysCatchUp ==
    ASSUME AllowDel = FALSE
    PROVE  Spec => ReadsCatchUp
<1>1. DictInv /\ [Next]_vars => [GetsNewer]_vars
  BY CatchUpStep DEF GetsNewer
<1> QED
  BY <1>1, DictInvHolds, PTL DEF Spec, ReadsCatchUp

(* A set makes each read stay or catch up, and one that gave nothing catch *)
(* up.                                                                     *)
LEMMA SeenStep ==
    ASSUME SetInv, NEW k \in Keys, NEW v \in Values, Set(k, v), NEW x \in Keys
    PROVE  /\ Newest(x)' = (IF x = k THEN v ELSE Newest(x))
           /\ Get(x)' \in {Get(x), Newest(x)'}
           /\ Get(x) = None => Get(x)' = Newest(x)'
<1>1. /\ Newest(x) = NewestIn(act, bak, x)
      /\ Newest(x)' = NewestIn(act', bak', x)
  BY DEF Newest, NewestIn
<1>2. Newest(x)' = (IF x = k THEN v ELSE Newest(x))
  BY <1>1, SetWhole
<1>3. Good(act, bak, ridx) /\ TwoTables(act, bak)
  BY DEF Set, SetInv, DictInv, Good, TwoTables
<1>4. PICK a, b : Written(k, v, a, b) /\ Rehash(a, b) /\ Ready(a, b, ridx)
  BY <1>3, SetReady DEF SetInv
<1>5. TwoTables(a, b) /\ Spread(a, b, act', bak') /\ TwoTables(act', bak')
  BY <1>4, ReadyTables, RehashSpread
<1>6. /\ Get(x)' \in {GetOf(a.copies[x], Copied(b, x)), LastOf(a.copies[x], Copied(b, x))}
      /\ Get(x)' = None <=> a.copies[x] = << >> /\ Copied(b, x) = << >>
  BY <1>5, GetThen
<1>7. /\ Get(x) = GetOf(act.copies[x], Copied(bak, x))
      /\ Newest(x) = LastOf(act.copies[x], Copied(bak, x))
  BY <1>3, GetIs
<1>8. /\ GetOf(a.copies[k], Copied(b, k)) \in {GetOf(act.copies[k], Copied(bak, k)), v}
      /\ LastOf(a.copies[k], Copied(b, k)) = v
      /\ \A y \in Keys \ {k} : /\ a.copies[y] = act.copies[y]
                               /\ Copied(b, y) = Copied(bak, y)
  BY <1>3, <1>4, WrittenGet
<1>9. CASE x = k
  <2>1. Get(k)' \in {Get(k), v}
    BY <1>6, <1>7, <1>8, <1>9
  <2>2. v # None
    BY DictAssumption
  <2>3. Get(k)' # None
    BY <1>6, <1>8, <1>9, <2>2 DEF LastOf
  <2> QED
    BY <1>2, <1>9, <2>1, <2>3
<1>10. CASE x # k
  <2>1. a.copies[x] = act.copies[x] /\ Copied(b, x) = Copied(bak, x)
    BY <1>8, <1>10
  <2>2. Get(x)' \in {Get(x), Newest(x)}
    BY <1>6, <1>7, <2>1
  <2>3. Get(x) = None => Newest(x) = None
    <3>1. PICK u, w : u = act.copies[x] /\ w = Copied(bak, x)
      OBVIOUS
    <3>2. u \in Seq(Values) /\ w \in Seq(Values) /\ Get(x) = GetOf(u, w) /\ Newest(x) = LastOf(u, w)
      BY <1>3, <1>7, <3>1, GetIs
    <3>3. /\ u # << >> => Head(u) \in Values
          /\ w # << >> => Head(w) \in Values
      BY <3>2
    <3>4. None \notin Values
      BY DictAssumption
    <3> QED
      BY <3>2, <3>3, <3>4 DEF GetOf, LastOf
  <2> QED
    BY <1>2, <1>10, <2>2, <2>3
<1> QED
  BY <1>2, <1>9, <1>10

(* While nothing is deleted, the dictionary is the store that its readers  *)
(* are promised, whatever the rehash moves meanwhile: atm_dict_set changes *)
(* the last value of its own key and of no other, and what atm_dict_get    *)
(* gives for a key stays or becomes the last value written to it.          *)
THEOREM DictImplementsStore ==
    ASSUME AllowDel = FALSE
    PROVE  Spec => StoreSpec
<1>1. Init => Store!Init
  <2> SUFFICES ASSUME Init PROVE \A k \in Keys : Newest(k) = None /\ Get(k) = None
    BY DEF Store!Init
  <2>1. act = TableNew(InitBuckets) /\ bak = NoTable
    BY DEF Init
  <2>2. TableOK(act) /\ act.copies = NoEntries
    BY <2>1, NewOK DEF TableNew
  <2> QED
    BY <2>1, <2>2, GetNoTable, GetValue DEF Newest, Get, NoEntries
<1>2. SetInv /\ [Next]_vars
        => [Store!Next]_<<[k \in Keys |-> Newest(k)], [k \in Keys |-> Get(k)]>>
  <2> SUFFICES ASSUME SetInv, [Next]_vars
      PROVE  [Store!Next]_<<[k \in Keys |-> Newest(k)], [k \in Keys |-> Get(k)]>>
    OBVIOUS
  <2>1. ASSUME NEW k \in Keys, NEW v \in Values, Set(k, v) PROVE Store!Put(k, v)
    <3> DEFINE caught == {x \in Keys : Get(x)' = Newest(x)'}
    <3>1. \A x \in Keys : /\ Newest(x)' = (IF x = k THEN v ELSE Newest(x))
                          /\ Get(x)' \in {Get(x), Newest(x)'}
                          /\ Get(x) = None => Get(x)' = Newest(x)'
      BY <2>1, SeenStep
    <3>2. [x \in Keys |-> Newest(x)]' = [[x \in Keys |-> Newest(x)] EXCEPT ![k] = v]
      BY <3>1
    <3>3. \A x \in Keys : Get(x)' = IF x \in caught \/ Get(x) = None THEN Newest(x)' ELSE Get(x)
      BY <3>1
    <3>4. caught \in SUBSET Keys
      OBVIOUS
    <3> HIDE DEF caught
    <3>5. [x \in Keys |-> Get(x)]'
            = [x \in Keys |-> IF x \in caught \/ [y \in Keys |-> Get(y)][x] = None
                              THEN [y \in Keys |-> Newest(y)]'[x] ELSE [y \in Keys |-> Get(y)][x]]
      BY <3>3
    <3> QED
      BY <3>2, <3>4, <3>5 DEF Store!Put
  <2>2. ASSUME NEW on \in BOOLEAN, ResizeSwitch(on)
        PROVE  UNCHANGED <<[k \in Keys |-> Newest(k)], [k \in Keys |-> Get(k)]>>
    BY <2>2 DEF ResizeSwitch, Newest, Get
  <2>3. CASE UNCHANGED vars
    BY <2>3 DEF vars, Newest, Get
  <2> QED
    BY <2>1, <2>2, <2>3 DEF Next, Del, Store!Next
<1> QED
  BY <1>1, <1>2, SetInvHolds, PTL DEF Spec, StoreSpec, Store!Spec

-----------------------------------------------------------------------------
(* What a deletion takes                                                   *)
LEMMA TableDelIs ==
    ASSUME NEW t, TableOK(t), NEW k \in Keys
    PROVE  /\ TableDel(t, k).copies[k] = Tail(t.copies[k])
           /\ \A x \in Keys \ {k} : TableDel(t, k).copies[x] = t.copies[x]
<1>1. t.copies \in Copies /\ t \in Tables
  BY DEF TableOK, Tables, Copies
<1>2. TableDel(t, k).copies = [t.copies EXCEPT ![k] = Tail(t.copies[k])]
  BY <1>1 DEF TableDel, Tables
<1>3. PICK c : c = TableDel(t, k).copies
  OBVIOUS
<1>4. c[k] = Tail(t.copies[k]) /\ \A x \in Keys \ {k} : c[x] = t.copies[x]
  BY <1>1, <1>2, <1>3 DEF Copies
<1> QED
  BY <1>3, <1>4

LEMMA TailLess ==
    ASSUME NEW u \in Seq(Values)
    PROVE  /\ Len(u) \in Nat /\ (u = << >> <=> Len(u) = 0)
           /\ u # << >> => Tail(u) \in Seq(Values) /\ Len(Tail(u)) = Len(u) - 1
BY EmptySeq, LenProperties, HeadTailProperties

(* One entry less of the key, and none of another.                         *)
LEMMA DeletedLess ==
    ASSUME Good(act, bak, ridx), NEW k \in Keys, NEW a, NEW b, Deleted(k, a, b)
    PROVE  /\ Len(a.copies[k]) + Len(Copied(b, k))
                = IF Entries(k) = 0 THEN 0 ELSE Entries(k) - 1
           /\ \A x \in Keys \ {k} : /\ a.copies[x] = act.copies[x]
                                    /\ Copied(b, x) = Copied(bak, x)
<1>0. TwoTables(act, bak) /\ (bak # NoTable => Consistent(bak, 0))
  BY DEF Good, TwoTables
<1>1. PICK u, w : u = act.copies[k] /\ w = Copied(bak, k)
  OBVIOUS
<1>2. u \in Seq(Values) /\ w \in Seq(Values) /\ Entries(k) = Len(u) + Len(w)
  BY <1>1, <1>0, GetIs
<1>3. PICK m \in Nat, n \in Nat : m = Len(u) /\ n = Len(w)
  BY <1>2, TailLess
<1>4. (u = << >> <=> m = 0) /\ (w = << >> <=> n = 0)
  BY <1>2, <1>3, TailLess
<1>5. /\ TableGet(act, k) = None <=> u = << >>
  BY <1>1, <1>0, GetValue DEF TwoTables
<1>6. CASE TableGet(act, k) # None /\ a = TableDel(act, k) /\ b = bak
  <2>1. /\ a.copies[k] = Tail(u)
        /\ \A x \in Keys \ {k} : a.copies[x] = act.copies[x]
    BY <1>1, <1>6, <1>0, TableDelIs DEF TwoTables
  <2>2. Len(a.copies[k]) = m - 1 /\ m # 0
    BY <1>2, <1>3, <1>4, <1>5, <1>6, <2>1, TailLess
  <2>3. Len(Copied(b, k)) = n
    BY <1>1, <1>3, <1>6
  <2>4. Entries(k) = m + n
    BY <1>2, <1>3
  <2>5. (m - 1) + n = IF m + n = 0 THEN 0 ELSE (m + n) - 1
    BY <2>2
  <2> QED
    BY <1>6, <2>1, <2>2, <2>3, <2>4, <2>5
<1>7. CASE TableGet(act, k) = None /\ TableGet(bak, k) # None /\ a = act /\ b = TableDel(bak, k)
  <2>1. bak # NoTable /\ bak.copies[k] # << >> /\ TableOK(bak)
    BY <1>7, <1>0, Found DEF TwoTables
  <2>2. \A x \in Keys : Copied(bak, x) = bak.copies[x]
    BY <2>1 DEF Copied
  <2>3. /\ b.copies[k] = Tail(w)
        /\ \A x \in Keys \ {k} : b.copies[x] = Copied(bak, x)
    BY <1>1, <1>7, <2>1, <2>2, TableDelIs
  <2>4. /\ b # NoTable => Copied(b, k) = b.copies[k]
        /\ b # NoTable => \A x \in Keys \ {k} : Copied(b, x) = b.copies[x]
    BY DEF Copied
  <2>5. b # NoTable
    BY <1>7, <1>0, <2>1, DelOK, SizeType
  <2>6. Len(Copied(b, k)) = n - 1 /\ n # 0
    BY <1>1, <1>2, <1>3, <1>4, <2>1, <2>2, <2>3, <2>4, <2>5, TailLess
  <2>7. Len(a.copies[k]) = m /\ m = 0
    BY <1>1, <1>3, <1>4, <1>5, <1>7
  <2>8. Entries(k) = m + n
    BY <1>2, <1>3
  <2>9. m + (n - 1) = IF m + n = 0 THEN 0 ELSE (m + n) - 1
    BY <2>6, <2>7
  <2> QED
    BY <1>7, <2>3, <2>4, <2>5, <2>6, <2>7, <2>8, <2>9
<1>8. CASE TableGet(act, k) = None /\ TableGet(bak, k) = None /\ a = act /\ b = bak
  <2>1. w = << >>
    <3>1. CASE bak = NoTable
      BY <1>1, <3>1 DEF Copied
    <3>2. CASE bak # NoTable
      BY <1>1, <1>8, <1>0, <3>2, GetValue DEF Copied, TwoTables
    <3> QED
      BY <3>1, <3>2
  <2>2. m = 0 /\ n = 0 /\ Entries(k) = m + n
    BY <1>2, <1>3, <1>4, <1>5, <1>8, <2>1
  <2>3. Len(a.copies[k]) = m /\ Len(Copied(b, k)) = n
    BY <1>1, <1>3, <1>8
  <2> QED
    BY <1>8, <2>2, <2>3
<1> QED
  BY <1>6, <1>7, <1>8 DEF Deleted

(* The rehash that goes with a deletion spreads the entries it left.       *)
LEMMA OneEntryLessStep ==
    ASSUME DictInv, NEW k \in Keys, Del(k)
    PROVE  /\ Entries(k)' = (IF Entries(k) = 0 THEN 0 ELSE Entries(k) - 1)
           /\ Get(k)' = None <=> Entries(k) <= 1
           /\ \A j \in Keys \ {k} : /\ Entries(j)' = Entries(j)
                                    /\ Get(j)' \in {Get(j), Newest(j)}
<1>1. Good(act, bak, ridx) /\ TwoTables(act, bak)
  BY DEF Del, DictInv, Good, TwoTables
<1>2. PICK a, b : Deleted(k, a, b) /\ Rehash(a, b) /\ Good(a, b, ridx)
  BY DelReady
<1>3. TwoTables(a, b) /\ Spread(a, b, act', bak') /\ TwoTables(act', bak')
  BY <1>2, GoodReady, ReadyTables, RehashSpread
<1>4. /\ Len(a.copies[k]) + Len(Copied(b, k))
           = IF Entries(k) = 0 THEN 0 ELSE Entries(k) - 1
      /\ \A x \in Keys \ {k} : /\ a.copies[x] = act.copies[x]
                               /\ Copied(b, x) = Copied(bak, x)
  BY <1>1, <1>2, DeletedLess
<1>5. /\ Get(k)' = None <=> a.copies[k] = << >> /\ Copied(b, k) = << >>
      /\ Entries(k)' = Len(a.copies[k]) + Len(Copied(b, k))
  BY <1>3, GetThen
<1>6. Get(k)' = None <=> Entries(k) <= 1
  <2>1. PICK u, w : u = a.copies[k] /\ w = Copied(b, k)
    OBVIOUS
  <2>2. u \in Seq(Values) /\ w \in Seq(Values)
    BY <1>3, <2>1, KeyEntries
  <2>3. Len(u) \in Nat /\ Len(w) \in Nat
        /\ (u = << >> <=> Len(u) = 0) /\ (w = << >> <=> Len(w) = 0)
    BY <2>2, TailLess
  <2>4. Entries(k) \in Nat
    <3>1. PICK x, y : x = act.copies[k] /\ y = Copied(bak, k)
      OBVIOUS
    <3>2. x \in Seq(Values) /\ y \in Seq(Values) /\ Entries(k) = Len(x) + Len(y)
      BY <1>1, <3>1, GetIs
    <3>3. Len(x) \in Nat /\ Len(y) \in Nat
      BY <3>2, TailLess
    <3> QED
      BY <3>2, <3>3
  <2>5. PICK e \in Nat, m \in Nat, n \in Nat : e = Entries(k) /\ m = Len(u) /\ n = Len(w)
    BY <2>3, <2>4
  <2>6. m + n = IF e = 0 THEN 0 ELSE e - 1
    BY <1>4, <2>1, <2>5
  <2>7. m = 0 /\ n = 0 <=> e <= 1
    BY <2>6
  <2> QED
    BY <1>5, <2>1, <2>3, <2>5, <2>7
<1>7. ASSUME NEW j \in Keys \ {k}
      PROVE  Entries(j)' = Entries(j) /\ Get(j)' \in {Get(j), Newest(j)}
  <2>1. /\ Get(j)' \in {GetOf(a.copies[j], Copied(b, j)), LastOf(a.copies[j], Copied(b, j))}
        /\ Entries(j)' = Len(a.copies[j]) + Len(Copied(b, j))
    BY <1>3, GetThen
  <2>2. a.copies[j] = act.copies[j] /\ Copied(b, j) = Copied(bak, j)
    BY <1>4
  <2>3. /\ Get(j) = GetOf(act.copies[j], Copied(bak, j))
        /\ Newest(j) = LastOf(act.copies[j], Copied(bak, j))
        /\ Entries(j) = Len(act.copies[j]) + Len(Copied(bak, j))
    BY <1>1, GetIs
  <2> QED
    BY <2>1, <2>2, <2>3
<1>8. Entries(k)' = (IF Entries(k) = 0 THEN 0 ELSE Entries(k) - 1)
  BY <1>4, <1>5
<1> QED
  BY <1>6, <1>7, <1>8

(* A deletion takes the first entry of its key and no entry of another, in *)
(* a rehash or not, for any keys, hash and sizes: the key is gone just     *)
(* when it had no second entry, and the value that a get finds for another *)
(* key is the one it found before or the one written last.                 *)
THEOREM DeletesTakeOne == Spec => DeleteTakesOne
<1>1. DictInv /\ [Next]_vars => [OneEntryLess]_vars
  BY OneEntryLessStep DEF OneEntryLess
<1> QED
  BY <1>1, DictInvHolds, PTL DEF Spec, DeleteTakesOne
=============================================================================
