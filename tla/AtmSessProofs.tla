---------------------------- MODULE AtmSessProofs ---------------------------
(***************************************************************************)
(* Proofs about the sessions, for any number of sessions, whatever their   *)
(* clients send and however the bytes arrive.                              *)
(***************************************************************************)
EXTENDS AtmSess, SequenceTheorems, FunctionTheorems, FiniteSetTheorems,
        WellFoundedInduction, TLAPS

(* A set of numbers has a least one.                                       *)
LEMMA LeastNat ==
  ASSUME NEW T \in SUBSET Nat, T # {}
  PROVE  \E m \in T : \A n \in T : m <= n
<1> DEFINE R == {p \in Nat \X Nat : p[1] < p[2]}
<1>1. IsWellFoundedOn(R, Nat)
  <2>1. OpToRel(<, Nat) = R
    BY DEF OpToRel
  <2>2. QED
    BY <2>1, NatLessThanWellFounded
<1>2. PICK m \in T : \A n \in T : ~ (<<n, m>> \in R)
  <2> HIDE DEF R
  <2>1. QED
    BY <1>1, WFMin
<1>3. \A n \in T : <<n, m>> \in R <=> n < m
  OBVIOUS
<1>4. \A n \in T : n \in Nat
  OBVIOUS
<1> HIDE DEF R
<1>5. \A n \in T : ~ (n < m)
  BY <1>2, <1>3, Zenon
<1>6. \A n \in T : m <= n
  BY <1>4, <1>5
<1>7. QED
  BY <1>6

-----------------------------------------------------------------------------
(* Lines: what the two choices of atm_buf_read_line are.                   *)
LEMMA LineLenIs ==
  ASSUME NEW b \in Seq(Byte), HasLine(b)
  PROVE  /\ LineLen(b) \in 0 .. Len(b) - 1
         /\ b[LineLen(b) + 1] \in NL
         /\ \A i \in 1 .. LineLen(b) : b[i] \notin NL
<1>1. Len(b) \in Nat /\ DOMAIN b = 1 .. Len(b)
  OBVIOUS
<1> DEFINE T == {i \in 1 .. Len(b) : b[i] \in NL}
<1>2. T \in SUBSET Nat /\ T # {}
  BY <1>1 DEF HasLine
<1>3. PICK m \in T : \A i \in T : m <= i
  BY <1>2, LeastNat
<1>4. m \in 1 .. Len(b) /\ b[m] \in NL /\ \A i \in 1 .. Len(b) : b[i] \in NL => m <= i
  BY <1>3
<1> HIDE DEF T
<1>5. \E n \in 0 .. Len(b) - 1 : b[n + 1] \in NL /\ \A i \in 1 .. n : b[i] \notin NL
  <2>1. m - 1 \in 0 .. Len(b) - 1 /\ (m - 1) + 1 = m
    BY <1>1, <1>4
  <2>2. \A i \in 1 .. m - 1 : b[i] \notin NL
    BY <1>1, <1>4
  <2>3. QED
    BY <1>4, <2>1, <2>2
<1>6. QED
  BY <1>5 DEF LineLen

LEMMA LineReadIs ==
  ASSUME NEW b \in Seq(Byte), HasLine(b)
  PROVE  /\ LineRead(b) \in LineLen(b) + 1 .. Len(b)
         /\ \A i \in LineLen(b) + 1 .. LineRead(b) : b[i] \in NL
         /\ LineRead(b) = Len(b) \/ b[LineRead(b) + 1] \notin NL
<1>1. Len(b) \in Nat /\ DOMAIN b = 1 .. Len(b)
  OBVIOUS
<1>2. PICK n : n = LineLen(b)
  OBVIOUS
<1>3. n \in 0 .. Len(b) - 1 /\ b[n + 1] \in NL
  BY <1>2, LineLenIs
<1> DEFINE T == {i \in n + 1 .. Len(b) : i = Len(b) \/ b[i + 1] \notin NL}
<1>4. T \in SUBSET Nat /\ T # {}
  <2>1. Len(b) \in T
    BY <1>1, <1>3
  <2>2. QED
    BY <1>1, <1>3, <2>1
<1>5. PICK m \in T : \A i \in T : m <= i
  BY <1>4, LeastNat
<1>6. /\ m \in n + 1 .. Len(b) /\ (m = Len(b) \/ b[m + 1] \notin NL)
      /\ \A i \in n + 1 .. Len(b) : i < m => b[i + 1] \in NL
  <2>1. \A i \in n + 1 .. Len(b) : i < m => i \notin T
    <3>1. T \subseteq n + 1 .. Len(b)
      OBVIOUS
    <3> HIDE DEF T
    <3>2. n \in Int /\ Len(b) \in Int
      BY <1>1, <1>3
    <3>3. m \in n + 1 .. Len(b)
      BY <3>1
    <3>4. m \in Int
      BY <3>2, <3>3
    <3>5. \A i \in n + 1 .. Len(b) : i < m => ~ (m <= i)
      BY <3>2, <3>4
    <3>6. QED
      BY <1>5, <3>5
  <2>2. QED
    BY <1>5, <2>1
<1> HIDE DEF T
<1>7. \A i \in n + 1 .. m : b[i] \in NL
  <2> SUFFICES ASSUME NEW i \in n + 1 .. m PROVE b[i] \in NL
    OBVIOUS
  <2>1. CASE i = n + 1
    BY <1>3, <2>1
  <2>2. CASE i # n + 1
    <3>1. i - 1 \in n + 1 .. Len(b) /\ i - 1 < m /\ (i - 1) + 1 = i
      <4>1. n \in Int /\ Len(b) \in Int
        BY <1>1, <1>3
      <4>2. m \in Int /\ m <= Len(b)
        <5>1. m \in n + 1 .. Len(b)
          BY <1>6
        <5>2. QED
          BY <4>1, <5>1
      <4>3. i \in Int /\ n + 1 <= i /\ i <= m
        BY <4>1, <4>2
      <4>4. QED
        BY <2>2, <4>1, <4>2, <4>3
    <3>2. b[(i - 1) + 1] \in NL
      BY <1>6, <3>1
    <3>3. QED
      BY <3>1, <3>2
  <2>3. QED
    BY <2>1, <2>2
<1>8. QED
  BY <1>2, <1>6, <1>7 DEF LineRead

-----------------------------------------------------------------------------
(* The bytes that a session has not read: a CR is followed by a LF, a LF   *)
(* by the next request or by nothing.                                      *)
Framed(p) ==
    \A i \in 1 .. Len(p) :
        /\ p[i] = CR => i < Len(p) /\ p[i + 1] = LF
        /\ p[i] = LF /\ i < Len(p) => p[i + 1] \notin NL
        /\ i = Len(p) => p[i] = LF

(* Each byte of p belongs to a request: the numbers never go down, they go *)
(* up from the end of a line to the next text, and r requests were taken.  *)
Numbered(p, own, r, m) ==
    /\ own \in [1 .. Len(p) -> Nat]
    /\ \A i \in 1 .. Len(p) : own[i] <= m
    /\ \A i, j \in 1 .. Len(p) :
          i < j => own[i] <= own[j] /\ (p[i] \in NL /\ p[j] \notin NL => own[i] < own[j])
    /\ Len(p) > 0 => r <= own[1] /\ (p[1] \notin NL => r < own[1])

LEMMA Ends == CR \in Byte /\ LF \in Byte /\ CR # LF /\ CR \in NL /\ LF \in NL
<1>1. CR # LF
  BY DEF CR, LF
<1>2. CR \in NL /\ LF \in NL
  BY DEF NL
<1>3. QED
  BY <1>1, <1>2 DEF Byte

(* What a client sends for a request.                                      *)
IsLine(t) ==
    /\ t \in Seq(Byte) /\ Len(t) > 0 /\ t[1] \notin NL /\ Framed(t)
    /\ \A i, j \in 1 .. Len(t) : i < j => ~ (t[i] \in NL /\ t[j] \notin NL)

LEMMA RequestIsLine ==
  ASSUME NEW text \in Seq(Byte), text # <<>>, Range(text) \cap NL = {},
         NEW eol \in {<<LF>>, <<CR, LF>>}
  PROVE  IsLine(text \o eol)
<1>1. /\ Len(text) \in Nat \ {0} /\ DOMAIN text = 1 .. Len(text)
      /\ eol \in Seq(Byte) /\ Len(eol) \in {1, 2}
  <2>1. Len(text) \in Nat \ {0} /\ DOMAIN text = 1 .. Len(text)
    OBVIOUS
  <2>2. CR \in Byte /\ LF \in Byte
    BY Ends
  <2>3. eol = <<LF>> \/ eol = <<CR, LF>>
    OBVIOUS
  <2>4. CASE eol = <<LF>>
    <3>1. eol \in Seq(Byte) /\ Len(eol) = 1
      BY <2>2, <2>4
    <3>2. QED
      BY <2>1, <3>1
  <2>5. CASE eol = <<CR, LF>>
    <3>1. eol \in Seq(Byte) /\ Len(eol) = 2
      BY <2>2, <2>5
    <3>2. QED
      BY <2>1, <3>1
  <2>6. QED
    BY <2>3, <2>4, <2>5
<1>2. \A i \in 1 .. Len(text) : text[i] \notin NL
  BY <1>1 DEF Range
<1>3. PICK n : n = Len(text)
  OBVIOUS
<1>4. PICK t : t = text \o eol
  OBVIOUS
<1>5. /\ t \in Seq(Byte) /\ Len(t) = n + Len(eol)
      /\ \A i \in 1 .. n + Len(eol) : t[i] = IF i <= n THEN text[i] ELSE eol[i - n]
  BY <1>1, <1>3, <1>4, ConcatProperties
<1>6. n \in Nat /\ n >= 1 /\ \A i \in 1 .. n : t[i] \notin NL
  BY <1>1, <1>2, <1>3, <1>5
<1>7. CASE eol = <<LF>>
  <2>1. Len(t) = n + 1 /\ t[n + 1] = LF
    <3>1. (n + 1) - n = 1 /\ Len(eol) = 1 /\ eol[1] = LF
      BY <1>6, <1>7
    <3>2. n + 1 \in 1 .. n + Len(eol) /\ ~ (n + 1 <= n)
      BY <1>6, <3>1
    <3>3. QED
      BY <1>5, <3>1, <3>2
  <2>2. \A i \in 1 .. n + 1 : i = n + 1 \/ i \in 1 .. n
    BY <1>6
  <2>3. \A i, j \in 1 .. n + 1 : i < j => i \in 1 .. n
    BY <1>6
  <2>4. Framed(t)
    <3> SUFFICES ASSUME NEW i \in 1 .. n + 1
        PROVE  /\ t[i] = CR => i < Len(t) /\ t[i + 1] = LF
               /\ t[i] = LF /\ i < Len(t) => t[i + 1] \notin NL
               /\ i = Len(t) => t[i] = LF
      BY <2>1 DEF Framed
    <3>1. CASE i \in 1 .. n
      <4>1. t[i] # CR /\ t[i] # LF
        BY <1>6, <3>1, Ends
      <4>2. i # n + 1
        BY <1>6, <3>1
      <4>3. QED
        BY <2>1, <4>1, <4>2
    <3>2. CASE i = n + 1
      <4>1. t[i] = LF /\ ~ (i < Len(t))
        BY <1>6, <2>1, <3>2
      <4>2. QED
        BY <4>1, Ends
    <3>3. QED
      BY <2>2, <3>1, <3>2
  <2>5. QED
    BY <1>4, <1>5, <1>6, <2>1, <2>3, <2>4 DEF IsLine
<1>8. CASE eol = <<CR, LF>>
  <2>1. Len(t) = n + 2 /\ t[n + 1] = CR /\ t[n + 2] = LF
    <3>1. (n + 1) - n = 1 /\ (n + 2) - n = 2 /\ Len(eol) = 2 /\ eol[1] = CR /\ eol[2] = LF
      BY <1>6, <1>8
    <3>2. n + 1 \in 1 .. n + Len(eol) /\ ~ (n + 1 <= n) /\ n + 2 \in 1 .. n + Len(eol) /\ ~ (n + 2 <= n)
      BY <1>6, <3>1
    <3>3. QED
      BY <1>5, <3>1, <3>2
  <2>2. \A i \in 1 .. n + 2 : i = n + 1 \/ i = n + 2 \/ i \in 1 .. n
    BY <1>6
  <2>3. \A i, j \in 1 .. n + 2 : i < j => i \in 1 .. n \/ j = n + 2
    BY <1>6
  <2>4. Framed(t)
    <3> SUFFICES ASSUME NEW i \in 1 .. n + 2
        PROVE  /\ t[i] = CR => i < Len(t) /\ t[i + 1] = LF
               /\ t[i] = LF /\ i < Len(t) => t[i + 1] \notin NL
               /\ i = Len(t) => t[i] = LF
      BY <2>1 DEF Framed
    <3>1. CASE i \in 1 .. n
      <4>1. t[i] # CR /\ t[i] # LF
        BY <1>6, <3>1, Ends
      <4>2. i # n + 2
        BY <1>6, <3>1
      <4>3. QED
        BY <2>1, <4>1, <4>2
    <3>2. CASE i = n + 1
      <4>1. i + 1 = n + 2 /\ i < n + 2 /\ i # n + 2
        BY <1>6, <3>2
      <4>2. t[i] = CR /\ t[i + 1] = LF /\ CR # LF
        BY <2>1, <3>2, <4>1, Ends
      <4>3. QED
        BY <2>1, <4>1, <4>2
    <3>3. CASE i = n + 2
      <4>1. t[i] = LF /\ ~ (i < Len(t))
        BY <1>6, <2>1, <3>3
      <4>2. QED
        BY <4>1, Ends
    <3>4. QED
      BY <2>2, <3>1, <3>2, <3>3
  <2>5. \A i, j \in 1 .. Len(t) : i < j => ~ (t[i] \in NL /\ t[j] \notin NL)
    <3> SUFFICES ASSUME NEW i \in 1 .. n + 2, NEW j \in 1 .. n + 2, i < j
        PROVE  t[i] \notin NL \/ t[j] \in NL
      BY <2>1
    <3>1. CASE i \in 1 .. n
      BY <1>6, <3>1
    <3>2. CASE j = n + 2
      BY <2>1, <3>2, Ends
    <3>3. QED
      BY <2>3, <3>1, <3>2
  <2>6. Len(t) > 0 /\ t[1] \notin NL
    BY <1>6, <2>1
  <2>7. QED
    BY <1>4, <1>5, <2>4, <2>5, <2>6 DEF IsLine
<1>9. QED
  BY <1>7, <1>8

(* One more request is sent.                                               *)
LEMMA LineSent ==
  ASSUME NEW p \in Seq(Byte), Framed(p), NEW t, IsLine(t),
         NEW own, NEW r \in Nat, NEW m \in Nat, r <= m, Numbered(p, own, r, m)
  PROVE  Framed(p \o t) /\ \E more : Numbered(p \o t, more, r, m + 1)
<1>1. PICK n, l : n = Len(p) /\ l = Len(t)
  OBVIOUS
<1>2. PICK q : q = p \o t
  OBVIOUS
<1>3. /\ n \in Nat /\ l \in Nat /\ l > 0 /\ q \in Seq(Byte) /\ Len(q) = n + l
      /\ \A i \in 1 .. n + l : q[i] = IF i <= n THEN p[i] ELSE t[i - n]
  BY <1>1, <1>2, ConcatProperties DEF IsLine
<1>4. /\ \A i \in 1 .. n : i \in 1 .. n + l /\ q[i] = p[i]
      /\ \A i \in 1 .. n + l : i > n => i - n \in 1 .. l /\ q[i] = t[i - n]
      /\ n + 1 \in 1 .. n + l /\ q[n + 1] \notin NL
  <2>1. \A i \in 1 .. n : i \in 1 .. n + l /\ q[i] = p[i]
    BY <1>3
  <2>2. \A i \in 1 .. n + l : i > n => i - n \in 1 .. l /\ q[i] = t[i - n]
    BY <1>3
  <2>3. n + 1 \in 1 .. n + l /\ n + 1 > n /\ (n + 1) - n = 1
    BY <1>3
  <2>4. q[n + 1] = t[1]
    BY <2>2, <2>3
  <2>5. QED
    BY <2>1, <2>2, <2>3, <2>4 DEF IsLine
<1>5. Framed(q)
  <2> SUFFICES ASSUME NEW i \in 1 .. n + l
      PROVE  /\ q[i] = CR => i < n + l /\ q[i + 1] = LF
             /\ q[i] = LF /\ i < n + l => q[i + 1] \notin NL
             /\ i = n + l => q[i] = LF
    BY <1>3 DEF Framed
  <2>1. CASE i < n
    <3>1. i \in 1 .. n /\ i + 1 \in 1 .. n /\ i < n + l /\ i # n + l
      BY <1>3, <2>1
    <3>2. q[i] = p[i] /\ q[i + 1] = p[i + 1]
      BY <1>4, <3>1
    <3>3. QED
      BY <1>1, <2>1, <3>1, <3>2 DEF Framed
  <2>2. CASE i = n
    <3>1. i \in 1 .. n /\ i + 1 = n + 1 /\ i # n + l
      BY <1>3, <2>2
    <3>2. q[i] = LF
      BY <1>1, <1>4, <2>2, <3>1 DEF Framed
    <3>3. QED
      BY <1>4, <3>1, <3>2, Ends
  <2>3. CASE i > n
    <3>1. PICK j : j = i - n
      OBVIOUS
    <3>2. j \in 1 .. l /\ q[i] = t[j] /\ (i = n + l <=> j = l) /\ (i < n + l <=> j < l)
      BY <1>3, <1>4, <2>3, <3>1
    <3>3. i < n + l => q[i + 1] = t[j + 1]
      <4>1. i < n + l => i + 1 \in 1 .. n + l /\ i + 1 > n /\ (i + 1) - n = j + 1
        BY <1>3, <2>3, <3>1
      <4>2. QED
        BY <1>4, <4>1
    <3>4. /\ t[j] = CR => j < l /\ t[j + 1] = LF
          /\ t[j] = LF /\ j < l => t[j + 1] \notin NL
          /\ j = l => t[j] = LF
      BY <1>1, <3>2 DEF IsLine, Framed
    <3>5. QED
      BY <3>2, <3>3, <3>4
  <2>4. QED
    BY <1>3, <2>1, <2>2, <2>3
<1> DEFINE more == [i \in 1 .. n + l |-> IF i <= n THEN own[i] ELSE m + 1]
<1>6. /\ more \in [1 .. n + l -> Nat]
      /\ \A i \in 1 .. n + l : i <= n => i \in 1 .. n /\ more[i] = own[i] /\ own[i] \in Nat /\ own[i] <= m
      /\ \A i \in 1 .. n + l : i > n => more[i] = m + 1
  <2>1. /\ own \in [1 .. n -> Nat] /\ \A i \in 1 .. n : own[i] <= m
    BY <1>1 DEF Numbered
  <2>2. \A i \in 1 .. n + l : i <= n => i \in 1 .. n
    BY <1>3
  <2>3. \A i \in 1 .. n + l : more[i] = IF i <= n THEN own[i] ELSE m + 1
    OBVIOUS
  <2>4. more \in [1 .. n + l -> Nat]
    BY <2>1, <2>2
  <2>5. \A i \in 1 .. n + l : i > n => ~ (i <= n)
    BY <1>3
  <2> HIDE DEF more
  <2>6. QED
    BY <2>1, <2>2, <2>3, <2>4, <2>5
<1> HIDE DEF more
<1>7. \A i \in 1 .. n + l : more[i] <= m + 1
  <2> TAKE i \in 1 .. n + l
  <2>1. CASE i <= n
    <3>1. PICK o \in Nat : o = own[i] /\ more[i] = o /\ o <= m
      BY <1>6, <2>1
    <3>2. QED
      BY <3>1
  <2>2. CASE i > n
    BY <1>6, <2>2
  <2>3. QED
    BY <1>3, <2>1, <2>2
<1>8. ASSUME NEW i \in 1 .. n + l, NEW j \in 1 .. n + l, i < j
      PROVE  more[i] <= more[j] /\ (q[i] \in NL /\ q[j] \notin NL => more[i] < more[j])
  <2>1. CASE j <= n
    <3>1. i <= n
      BY <1>3, <1>8, <2>1
    <3>2. /\ i \in 1 .. n /\ j \in 1 .. n /\ more[i] = own[i] /\ more[j] = own[j]
          /\ q[i] = p[i] /\ q[j] = p[j]
      BY <1>4, <1>6, <2>1, <3>1
    <3>3. QED
      BY <1>1, <1>8, <3>2 DEF Numbered
  <2>2. CASE j > n /\ i <= n
    <3>1. PICK o \in Nat : more[i] = o /\ o <= m
      BY <1>6, <2>2
    <3>2. more[j] = m + 1
      BY <1>6, <2>2
    <3>3. QED
      BY <3>1, <3>2
  <2>3. CASE i > n
    <3>1. j > n
      BY <1>3, <1>8, <2>3
    <3>2. more[i] = m + 1 /\ more[j] = m + 1
      BY <1>6, <2>3, <3>1
    <3>3. /\ i - n \in 1 .. l /\ j - n \in 1 .. l /\ i - n < j - n
          /\ q[i] = t[i - n] /\ q[j] = t[j - n]
      BY <1>3, <1>4, <1>8, <2>3, <3>1
    <3>4. ~ (q[i] \in NL /\ q[j] \notin NL)
      BY <1>1, <3>3 DEF IsLine
    <3>5. QED
      BY <3>2, <3>4
  <2>4. QED
    BY <1>3, <2>1, <2>2, <2>3
<1>9. r <= more[1] /\ (q[1] \notin NL => r < more[1])
  <2>1. CASE n = 0
    <3>1. more[1] = m + 1
      BY <1>3, <1>6, <2>1
    <3>2. QED
      BY <3>1
  <2>2. CASE n > 0
    <3>1. 1 \in 1 .. n /\ 1 \in 1 .. n + l /\ 1 <= n
      BY <1>3, <2>2
    <3>2. more[1] = own[1] /\ q[1] = p[1]
      BY <1>4, <1>6, <3>1
    <3>3. QED
      BY <1>1, <2>2, <3>2 DEF Numbered
  <2>3. QED
    BY <1>3, <2>1, <2>2
<1>10. Numbered(q, more, r, m + 1)
  BY <1>3, <1>6, <1>7, <1>8, <1>9 DEF Numbered
<1>11. QED
  BY <1>2, <1>5, <1>10

LEMMA SubSeqOf ==
  ASSUME NEW b \in Seq(Byte), NEW i \in 1 .. Len(b) + 1, NEW j \in 0 .. Len(b)
  PROVE  /\ SubSeq(b, i, j) \in Seq(Byte)
         /\ Len(SubSeq(b, i, j)) = IF i <= j THEN j - i + 1 ELSE 0
         /\ \A x \in 1 .. j - i + 1 : SubSeq(b, i, j)[x] = b[i + x - 1]
<1>1. PICK l \in Nat : l = Len(b)
  OBVIOUS
<1>2. i \in Int /\ j \in Int /\ 1 <= i /\ j <= l
  BY <1>1
<1>3. \A x \in i .. j : x \in 1 .. l
  BY <1>1, <1>2
<1>4. \A x \in i .. j : b[x] \in Byte
  BY <1>1, <1>3
<1>5. QED
  BY <1>2, <1>4, SubSeqProperties

(* What is left of p after its first k bytes.                              *)
LEMMA RestOf ==
  ASSUME NEW p \in Seq(Byte), NEW k \in 0 .. Len(p)
  PROVE  LET q == SubSeq(p, k + 1, Len(p))
             n == Len(p) - k
         IN  /\ q \in Seq(Byte) /\ Len(q) = n /\ n \in Nat
             /\ \A i \in 1 .. n : i + k \in 1 .. Len(p) /\ q[i] = p[i + k]
<1>1. PICK l \in Nat : l = Len(p)
  OBVIOUS
<1>2. PICK n \in Nat : n = l - k
  <2>1. k \in 0 .. l
    BY <1>1
  <2>2. l - k \in Nat
    BY <2>1
  <2>3. QED
    BY <2>2
<1>3. PICK q : q = SubSeq(p, k + 1, l)
  OBVIOUS
<1>4. k \in Nat /\ l = n + k
  BY <1>1, <1>2
<1>5. k + 1 \in 1 .. l + 1 /\ l \in 0 .. l
  BY <1>4
<1>6. /\ q \in Seq(Byte)
      /\ Len(q) = IF k + 1 <= l THEN l - (k + 1) + 1 ELSE 0
      /\ \A i \in 1 .. l - (k + 1) + 1 : q[i] = p[(k + 1) + i - 1]
  BY <1>1, <1>3, <1>5, SubSeqOf
<1>7. l - (k + 1) + 1 = n /\ (k + 1 <= l \/ n = 0)
  BY <1>4
<1>8. \A i \in 1 .. n : i + k \in 1 .. l /\ (k + 1) + i - 1 = i + k
  BY <1>4
<1>9. q \in Seq(Byte) /\ Len(q) = n /\ \A i \in 1 .. n : q[i] = p[i + k]
  BY <1>6, <1>7, <1>8
<1>10. QED
  BY <1>1, <1>2, <1>3, <1>8, <1>9

(* A line and the run that ends it are taken, as a command or as nothing.  *)
LEMMA LineTaken ==
  ASSUME NEW p \in Seq(Byte), Framed(p),
         NEW own, NEW r \in Nat, NEW m \in Nat, r <= m, Numbered(p, own, r, m),
         NEW k \in 1 .. Len(p), p[k] \in NL, NEW u,
         u = r \/ (u = r + 1 /\ p[1] \notin NL)
  PROVE  LET q == SubSeq(p, k + 1, Len(p))
         IN  Framed(q) /\ u \in Nat /\ u <= m /\ \E left : Numbered(q, left, u, m)
<1>1. PICK l : l = Len(p)
  OBVIOUS
<1>2. PICK q : q = SubSeq(p, k + 1, l)
  OBVIOUS
<1>3. l \in Nat /\ k \in Nat /\ 1 <= k /\ k <= l /\ 1 \in 1 .. l /\ k \in 1 .. l
  <2>1. l \in Nat
    BY <1>1
  <2>2. k \in 1 .. l
    BY <1>1
  <2>3. QED
    BY <2>1, <2>2
<1>4. PICK n \in Nat : n = l - k
  BY <1>3
<1>5. /\ q \in Seq(Byte) /\ Len(q) = n
      /\ \A i \in 1 .. n : i + k \in 1 .. l /\ q[i] = p[i + k]
  <2>1. k \in 0 .. l
    BY <1>3
  <2>2. QED
    BY <1>1, <1>2, <1>4, <2>1, RestOf
<1>6. Framed(q)
  <2> SUFFICES ASSUME NEW i \in 1 .. n
      PROVE  /\ q[i] = CR => i < n /\ q[i + 1] = LF
             /\ q[i] = LF /\ i < n => q[i + 1] \notin NL
             /\ i = n => q[i] = LF
    BY <1>5 DEF Framed
  <2>1. PICK j : j = i + k
    OBVIOUS
  <2>2. j \in 1 .. l /\ q[i] = p[j] /\ (i < n <=> j < l) /\ (i = n <=> j = l)
    <3>1. j \in 1 .. l /\ q[i] = p[j]
      BY <1>5, <2>1
    <3>2. i \in Nat /\ l = n + k
      BY <1>3, <1>4
    <3>3. (i < n <=> j < l) /\ (i = n <=> j = l)
      BY <1>3, <1>4, <2>1, <3>2
    <3>4. QED
      BY <3>1, <3>3
  <2>3. i < n => q[i + 1] = p[j + 1]
    <3>1. i < n => i + 1 \in 1 .. n /\ (i + 1) + k = j + 1
      BY <1>3, <2>1
    <3>2. QED
      BY <1>5, <3>1
  <2>4. /\ p[j] = CR => j < l /\ p[j + 1] = LF
        /\ p[j] = LF /\ j < l => p[j + 1] \notin NL
        /\ j = l => p[j] = LF
    BY <1>1, <2>2 DEF Framed
  <2>5. QED
    BY <2>2, <2>3, <2>4
<1>7. /\ own \in [1 .. l -> Nat] /\ \A i \in 1 .. l : own[i] <= m
      /\ \A i, j \in 1 .. l :
            i < j => own[i] <= own[j] /\ (p[i] \in NL /\ p[j] \notin NL => own[i] < own[j])
      /\ r <= own[1] /\ (p[1] \notin NL => r < own[1])
  BY <1>1, <1>3 DEF Numbered
<1>8. PICK a \in Nat, b \in Nat : a = own[1] /\ b = own[k]
  BY <1>3, <1>7
<1>9. a <= b /\ b <= m /\ r <= a /\ (p[1] \notin NL => r < a)
  <2>1. 1 < k => a <= b
    BY <1>3, <1>7, <1>8
  <2>2. 1 = k => a = b
    BY <1>8
  <2>3. a <= b
    BY <1>3, <1>8, <2>1, <2>2
  <2>4. QED
    BY <1>3, <1>7, <1>8, <2>3
<1>10. u \in Nat /\ u <= m /\ u <= b
  BY <1>9
<1> DEFINE left == [i \in 1 .. n |-> own[i + k]]
<1>11. /\ left \in [1 .. n -> Nat]
       /\ \A i \in 1 .. n : left[i] = own[i + k]
  BY <1>5, <1>7
<1> HIDE DEF left
<1>12. \A i \in 1 .. n : left[i] <= m
  BY <1>5, <1>7, <1>11
<1>13. ASSUME NEW i \in 1 .. n, NEW j \in 1 .. n, i < j
       PROVE  left[i] <= left[j] /\ (q[i] \in NL /\ q[j] \notin NL => left[i] < left[j])
  <2>1. PICK x, y : x = i + k /\ y = j + k
    OBVIOUS
  <2>2. x \in 1 .. l /\ y \in 1 .. l /\ x < y
    BY <1>3, <1>5, <1>13, <2>1
  <2>3. left[i] = own[x] /\ left[j] = own[y] /\ q[i] = p[x] /\ q[j] = p[y]
    BY <1>5, <1>11, <2>1
  <2>4. QED
    BY <1>7, <2>2, <2>3
<1>14. n > 0 => u <= left[1] /\ (q[1] \notin NL => u < left[1])
  <2> SUFFICES ASSUME n > 0
      PROVE  u <= left[1] /\ (q[1] \notin NL => u < left[1])
    OBVIOUS
  <2>1. PICK x : x = 1 + k
    OBVIOUS
  <2>2. 1 \in 1 .. n /\ k < x
    BY <1>3, <2>1
  <2>3. x \in 1 .. l /\ left[1] = own[x] /\ q[1] = p[x]
    BY <1>5, <1>11, <2>1, <2>2
  <2>4. b <= own[x] /\ (p[x] \notin NL => b < own[x])
    BY <1>3, <1>7, <1>8, <2>2, <2>3
  <2>5. PICK c \in Nat : c = own[x]
    BY <1>7, <2>3
  <2>6. QED
    BY <1>10, <2>3, <2>4, <2>5
<1>15. Numbered(q, left, u, m)
  BY <1>5, <1>11, <1>12, <1>13, <1>14 DEF Numbered
<1>16. QED
  BY <1>1, <1>2, <1>6, <1>10, <1>15

-----------------------------------------------------------------------------
(* The bytes of a session that no command has taken.                       *)
Left(s) == rbuf[s] \o wire[s]

(* How many empty lines there may be without another cut: what is left     *)
(* begins with one, or r_buf ends in a CR.                                 *)
Loose(p, b) ==
    (IF Len(p) > 0 /\ p[1] \in NL THEN 1 ELSE 0)
        + (IF Len(b) > 0 /\ b[Len(b)] = CR THEN 1 ELSE 0)

TakenType == [requests : Nat, empties : Nat, last : Nat]

(* What was sent is what was taken and what is left.                       *)
Flow(p, b, snt, tk, ct) ==
    /\ Framed(p)
    /\ \E own : Numbered(p, own, tk.requests, snt)
    /\ tk.requests <= snt
    /\ tk.empties + Loose(p, b) <= ct

FlowTypes ==
    /\ DOMAIN script = Sess /\ \A s \in Sess : script[s] \in Scripts[s]
    /\ sent \in [Sess -> Nat]
    /\ wire \in [Sess -> Seq(Byte)]
    /\ rbuf \in [Sess -> Seq(Byte)]
    /\ taken \in [Sess -> TakenType]
    /\ cuts \in [Sess -> Nat]

FlowInv ==
    FlowTypes /\ \A s \in Sess : Flow(Left(s), rbuf[s], sent[s], taken[s], cuts[s])

LEMMA LooseIs == \A p, b : Loose(p, b) \in {0, 1, 2}
<1> SUFFICES ASSUME NEW p, NEW b PROVE Loose(p, b) \in {0, 1, 2}
  OBVIOUS
<1>1. PICK x \in {0, 1}, y \in {0, 1} :
        /\ x = (IF Len(p) > 0 /\ p[1] \in NL THEN 1 ELSE 0)
        /\ y = (IF Len(b) > 0 /\ b[Len(b)] = CR THEN 1 ELSE 0)
  OBVIOUS
<1>2. Loose(p, b) = x + y
  BY <1>1 DEF Loose
<1>3. QED
  BY <1>2

(* The two parts of Loose.                                                 *)
LEMMA LooseParts ==
  ASSUME NEW p, NEW b
  PROVE  \E x, y \in {0, 1} :
            /\ Loose(p, b) = x + y
            /\ x = 1 <=> Len(p) > 0 /\ p[1] \in NL
            /\ y = 1 <=> Len(b) > 0 /\ b[Len(b)] = CR
<1>1. PICK x \in {0, 1}, y \in {0, 1} :
        /\ x = (IF Len(p) > 0 /\ p[1] \in NL THEN 1 ELSE 0)
        /\ y = (IF Len(b) > 0 /\ b[Len(b)] = CR THEN 1 ELSE 0)
  OBVIOUS
<1>2. Loose(p, b) = x + y
  BY <1>1 DEF Loose
<1>3. (x = 1 <=> Len(p) > 0 /\ p[1] \in NL) /\ (y = 1 <=> Len(b) > 0 /\ b[Len(b)] = CR)
  BY <1>1
<1>4. QED
  BY <1>2, <1>3

THEOREM FlowInit == Init => FlowInv
<1> SUFFICES ASSUME Init PROVE FlowInv
  OBVIOUS
<1>1. FlowTypes
  <2>1. /\ sent \in [Sess -> Nat] /\ cuts \in [Sess -> Nat]
        /\ wire \in [Sess -> Seq(Byte)] /\ rbuf \in [Sess -> Seq(Byte)]
    BY DEF Init
  <2>2. taken \in [Sess -> TakenType]
    BY DEF Init, TakenType
  <2>3. DOMAIN script = Sess /\ \A s \in Sess : script[s] \in Scripts[s]
    BY DEF Init
  <2>4. QED
    BY <2>1, <2>2, <2>3 DEF FlowTypes
<1>2. ASSUME NEW s \in Sess PROVE Flow(Left(s), rbuf[s], sent[s], taken[s], cuts[s])
  <2>1. /\ sent[s] = 0 /\ wire[s] = <<>> /\ rbuf[s] = <<>> /\ cuts[s] = 0
        /\ taken[s].requests = 0 /\ taken[s].empties = 0
    BY DEF Init
  <2>2. PICK p : p = Left(s)
    OBVIOUS
  <2>3. p = <<>> /\ Len(p) = 0
    BY <2>1, <2>2 DEF Left
  <2>4. Framed(p)
    BY <2>3 DEF Framed
  <2>5. Numbered(p, [i \in 1 .. 0 |-> 0], 0, 0)
    BY <2>3 DEF Numbered
  <2>6. Loose(p, rbuf[s]) = 0
    <3>1. Len(rbuf[s]) = 0
      BY <2>1
    <3>2. PICK x \in {0, 1}, y \in {0, 1} :
            /\ Loose(p, rbuf[s]) = x + y
            /\ x = 1 <=> Len(p) > 0 /\ p[1] \in NL
            /\ y = 1 <=> Len(rbuf[s]) > 0 /\ rbuf[s][Len(rbuf[s])] = CR
      BY LooseParts
    <3>3. x # 1 /\ y # 1
      BY <2>3, <3>1, <3>2
    <3>4. QED
      BY <3>2, <3>3
  <2>7. QED
    BY <2>1, <2>2, <2>4, <2>5, <2>6 DEF Flow
<1>3. QED
  BY <1>1, <1>2 DEF FlowInv

(* What atm_buf_read_line leaves of r_buf.                                 *)
LEMMA LineCut ==
  ASSUME NEW b \in Seq(Byte), NEW w \in Seq(Byte), HasLine(b), Framed(b \o w)
  PROVE  LET k == LineRead(b)
             c == SubSeq(b, k + 1, Len(b))
             p == b \o w
         IN  /\ p \in Seq(Byte) /\ c \in Seq(Byte)
             /\ k \in 1 .. Len(p) /\ p[k] \in NL
             /\ c \o w = SubSeq(p, k + 1, Len(p))
             /\ LineLen(b) = 0 <=> p[1] \in NL
             /\ Loose(c \o w, c) + (IF LineLen(b) = 0 THEN 1 ELSE 0) <= Loose(p, b)
<1>1. PICK k, n : k = LineRead(b) /\ n = LineLen(b)
  OBVIOUS
<1>2. PICK c, p : c = SubSeq(b, k + 1, Len(b)) /\ p = b \o w
  OBVIOUS
<1>3. Framed(p)
  BY <1>2
<1>4. PICK l \in Nat, h \in Nat : l = Len(b) /\ h = Len(w)
  OBVIOUS
<1>5. n \in 0 .. l - 1 /\ b[n + 1] \in NL /\ \A i \in 1 .. n : b[i] \notin NL
  BY <1>1, <1>4, LineLenIs
<1>6. /\ k \in n + 1 .. l
      /\ \A i \in n + 1 .. k : b[i] \in NL
      /\ k = l \/ b[k + 1] \notin NL
  BY <1>4, <1>1, LineReadIs
<1>7. n \in Nat /\ k \in Nat /\ 1 <= k /\ k <= l /\ l >= 1 /\ n + 1 <= k /\ b[k] \in NL
  <2>1. n \in Nat /\ n + 1 <= l
    BY <1>4, <1>5
  <2>2. k \in Nat /\ n + 1 <= k /\ k <= l /\ k \in n + 1 .. k
    BY <1>4, <1>6, <2>1
  <2>3. QED
    BY <1>4, <1>6, <2>1, <2>2
<1>8. /\ p \in Seq(Byte) /\ Len(p) = l + h
      /\ \A i \in 1 .. l + h : p[i] = IF i <= l THEN b[i] ELSE w[i - l]
  BY <1>4, <1>2, ConcatProperties
<1>9. \A i \in 1 .. l : p[i] = b[i]
  BY <1>4, <1>8
<1>10. k \in 1 .. Len(p) /\ p[k] \in NL
  BY <1>4, <1>7, <1>8, <1>9
<1>11. n = 0 <=> p[1] \in NL
  <2>1. p[1] = b[1]
    <3>1. 1 \in 1 .. l
      BY <1>4, <1>7
    <3>2. QED
      BY <1>9, <3>1
  <2>2. CASE n = 0
    BY <1>5, <2>1, <2>2
  <2>3. CASE n # 0
    <3>1. 1 \in 1 .. n
      BY <1>7, <2>3
    <3>2. QED
      BY <1>5, <2>1, <2>3, <3>1
  <2>4. QED
    BY <2>2, <2>3
<1>12. PICK d \in Nat : d = l - k
  <2>1. l \in Nat /\ k \in Nat /\ k <= l
    BY <1>4, <1>7
  <2>2. l - k \in Nat
    BY <2>1
  <2>3. QED
    BY <2>2
<1>13. /\ l \in Nat /\ h \in Nat /\ d \in Nat /\ k \in Nat
       /\ l = d + k /\ 1 <= k
  <2>1. l \in Nat /\ h \in Nat
    BY <1>4
  <2>2. k \in Nat /\ 1 <= k
    BY <1>7
  <2>3. l = d + k
    BY <1>12, <2>1, <2>2
  <2>4. QED
    BY <2>1, <2>2, <2>3
<1>14. /\ c \in Seq(Byte) /\ Len(c) = d
       /\ \A i \in 1 .. d : c[i] = b[i + k]
  <2>1. k \in 0 .. Len(b)
    BY <1>4, <1>13
  <2>2. d = Len(b) - k
    BY <1>4, <1>12
  <2>3. QED
    BY <1>2, <2>1, <2>2, RestOf
<1>15. PICK q : q = c \o w
  OBVIOUS
<1>16. /\ q \in Seq(Byte) /\ Len(q) = d + h
       /\ \A i \in 1 .. d + h : q[i] = IF i <= d THEN c[i] ELSE w[i - d]
  <2>1. c \in Seq(Byte) /\ w \in Seq(Byte) /\ Len(c) = d /\ Len(w) = h
    BY <1>4, <1>14
  <2>2. /\ q \in Seq(Byte) /\ Len(q) = Len(c) + Len(w)
        /\ \A i \in 1 .. Len(c) + Len(w) : q[i] = IF i <= Len(c) THEN c[i] ELSE w[i - Len(c)]
    BY <1>15, <2>1, ConcatProperties
  <2> HIDE <1>4
  <2>3. QED
    BY <2>1, <2>2
<1>17. q = SubSeq(p, k + 1, Len(p))
  <2>1. PICK z : z = SubSeq(p, k + 1, Len(p))
    OBVIOUS
  <2>2. PICK e : e = Len(p) - k
    OBVIOUS
  <2>3. z \in Seq(Byte) /\ Len(z) = e /\ \A i \in 1 .. e : z[i] = p[i + k]
    <3>1. p \in Seq(Byte) /\ k \in 0 .. Len(p)
      BY <1>8, <1>13
    <3>2. QED
      BY <2>1, <2>2, <3>1, RestOf
  <2>4. e = d + h
    <3>1. Len(p) = l + h
      BY <1>8
    <3>2. PICK m \in Nat : m = l + h
      BY <1>13
    <3>3. e = m - k
      BY <2>2, <3>1, <3>2
    <3>4. QED
      BY <1>13, <3>2, <3>3
  <2>5. \A i \in 1 .. d + h : z[i] = p[i + k]
    BY <2>3, <2>4
  <2>6. Len(z) = Len(q)
    BY <1>16, <2>3, <2>4
  <2>7. ASSUME NEW i \in 1 .. d + h PROVE z[i] = q[i]
    <3>1. PICK x : x = i + k
      OBVIOUS
    <3>2. x \in 1 .. l + h
      <4>1. i \in Int /\ 1 <= i /\ i <= d + h
        BY <1>13
      <4>2. x \in Int /\ 1 <= x /\ x <= l + h
        BY <1>13, <3>1, <4>1
      <4>3. QED
        BY <1>13, <4>2
    <3>3. z[i] = p[x]
      BY <2>5, <3>1
    <3>4. CASE i <= d
      <4>1. x <= l /\ i \in 1 .. d /\ x = i + k
        BY <1>13, <3>1, <3>4
      <4>2. q[i] = b[x]
        BY <1>14, <1>16, <3>4, <4>1
      <4>3. QED
        BY <1>8, <3>2, <3>3, <4>1, <4>2
    <3>5. CASE i > d
      <4>1. i \in Int
        BY <1>13
      <4>2. ~ (i <= d) /\ ~ (x <= l) /\ x - l = i - d
        BY <1>13, <3>1, <3>5, <4>1
      <4>3. QED
        BY <1>8, <1>16, <3>2, <3>3, <4>2
    <3>6. QED
      BY <3>4, <3>5
  <2>8. z = q
    <3>1. \A i \in 1 .. Len(z) : z[i] = q[i]
      BY <1>16, <2>6, <2>7
    <3>2. QED
      BY <1>16, <2>3, <2>6, <3>1, SeqEqual
  <2>9. QED
    BY <2>1, <2>8
<1>18. Loose(q, c) + (IF n = 0 THEN 1 ELSE 0) <= Loose(p, b)
  <2>1. PICK x \in {0, 1}, y \in {0, 1} :
          /\ Loose(p, b) = x + y
          /\ x = 1 <=> Len(p) > 0 /\ p[1] \in NL
          /\ y = 1 <=> Len(b) > 0 /\ b[Len(b)] = CR
    BY LooseParts
  <2>2. PICK u \in {0, 1}, v \in {0, 1} :
          /\ Loose(q, c) = u + v
          /\ u = 1 <=> Len(q) > 0 /\ q[1] \in NL
          /\ v = 1 <=> Len(c) > 0 /\ c[Len(c)] = CR
    BY LooseParts
  <2>3. x = IF n = 0 THEN 1 ELSE 0
    <3>1. Len(p) > 0
      BY <1>7, <1>8
    <3>2. QED
      BY <1>11, <2>1, <3>1
  <2>4. CASE d = 0
    <3>1. v = 0
      BY <1>14, <2>2, <2>4
    <3>2. ASSUME u = 1 PROVE y = 1
      <4>1. h > 0 /\ q[1] \in NL
        BY <1>16, <2>2, <2>4, <3>2
      <4>2. k = l /\ 1 \in 1 .. d + h /\ ~ (1 <= d) /\ 1 - d = 1
        BY <1>7, <1>12, <2>4, <4>1
      <4>3. w[1] \in NL
        BY <1>16, <4>1, <4>2
      <4>4. l + 1 \in 1 .. l + h /\ ~ (l + 1 <= l) /\ (l + 1) - l = 1 /\ l < l + h
        BY <4>1
      <4>5. p[l + 1] \in NL
        BY <1>8, <4>3, <4>4
      <4>6. p[l] # LF
        BY <1>8, <1>10, <1>3, <4>2, <4>4, <4>5 DEF Framed
      <4>7. b[l] = CR
        <5>1. b[l] \in NL /\ b[l] # LF
          <6>1. l \in 1 .. l
            BY <1>13
          <6>2. QED
            BY <1>7, <1>9, <4>2, <4>6, <6>1
        <5>2. QED
          BY <5>1 DEF NL
      <4>8. QED
        BY <1>4, <1>7, <2>1, <4>7
    <3>3. u <= y
      BY <2>1, <2>2, <3>2
    <3>4. QED
      BY <2>1, <2>2, <2>3, <3>1, <3>3
  <2>5. CASE d > 0
    <3>1. 1 \in 1 .. d /\ 1 \in 1 .. d + h /\ 1 <= d /\ k # l
      BY <1>13, <2>5
    <3>2. q[1] = b[1 + k] /\ 1 + k = k + 1
      <4>1. 1 + k = k + 1
        BY <1>13
      <4>2. q[1] = c[1] /\ c[1] = b[1 + k]
        BY <1>14, <1>16, <3>1
      <4>3. QED
        BY <4>1, <4>2
    <3>3. u = 0
      BY <1>6, <2>2, <3>1, <3>2
    <3>4. d \in 1 .. d /\ d + k = l
      BY <1>13, <2>5
    <3>5. c[d] = b[l]
      BY <1>14, <3>4
    <3>6. v = 1 => y = 1
      <4>1. Len(b) = l /\ l > 0 /\ Len(c) = d
        BY <1>4, <1>14, <1>13
      <4>2. QED
        BY <2>1, <2>2, <3>5, <4>1
    <3>7. v <= y
      BY <2>1, <2>2, <3>6
    <3>8. QED
      BY <2>1, <2>2, <2>3, <3>3, <3>7
  <2>6. QED
    BY <2>4, <2>5
<1>19. QED
  BY <1>4, <1>1, <1>2, <1>8, <1>10, <1>11, <1>14, <1>15, <1>17, <1>18

LEMMA Regroup ==
  ASSUME NEW a \in Seq(Byte), NEW b \in Seq(Byte), NEW c \in Seq(Byte)
  PROVE  (a \o b) \o c = a \o (b \o c)
BY ConcatAssociative

(* The bytes that a read task moves to r_buf.                              *)
LEMMA WireCut ==
  ASSUME NEW b \in Seq(Byte), NEW w \in Seq(Byte), NEW n \in 1 .. Len(w)
  PROVE  LET c == b \o SubSeq(w, 1, n)
             v == SubSeq(w, n + 1, Len(w))
         IN  /\ c \in Seq(Byte) /\ v \in Seq(Byte) /\ c \o v = b \o w
             /\ Len(c) > 0 /\ c[Len(c)] = w[n]
<1>1. PICK x, v : x = SubSeq(w, 1, n) /\ v = SubSeq(w, n + 1, Len(w))
  OBVIOUS
<1>2. x \in Seq(Byte) /\ Len(x) = n /\ x[n] = w[n]
  <2>1. 1 \in 1 .. Len(w) + 1 /\ n \in 0 .. Len(w) /\ 1 <= n /\ n \in Nat
    OBVIOUS
  <2>2. /\ x \in Seq(Byte)
        /\ Len(x) = IF 1 <= n THEN n - 1 + 1 ELSE 0
        /\ \A i \in 1 .. n - 1 + 1 : x[i] = w[1 + i - 1]
    BY <1>1, <2>1, SubSeqOf
  <2>3. n - 1 + 1 = n /\ n \in 1 .. n /\ 1 + n - 1 = n
    BY <2>1
  <2>4. QED
    BY <2>1, <2>2, <2>3
<1>3. v \in Seq(Byte)
  <2>1. n \in 0 .. Len(w)
    OBVIOUS
  <2>2. QED
    BY <1>1, <2>1, RestOf
<1>4. x \o v = w
  <2>1. /\ 1 \in 1 .. Len(w) + 1 /\ n \in 1 - 1 .. Len(w) /\ Len(w) \in n .. Len(w)
    OBVIOUS
  <2>2. SubSeq(w, 1, n) \o SubSeq(w, n + 1, Len(w)) = SubSeq(w, 1, Len(w))
    BY <2>1, ConcatAdjacentSubSeq
  <2>3. QED
    BY <1>1, <2>2, SubSeqFull
<1>5. PICK c : c = b \o x
  OBVIOUS
<1>6. /\ c \in Seq(Byte) /\ Len(c) = Len(b) + n
      /\ \A i \in 1 .. Len(b) + n : c[i] = IF i <= Len(b) THEN b[i] ELSE x[i - Len(b)]
  BY <1>2, <1>5, ConcatProperties
<1>7. Len(c) > 0 /\ c[Len(c)] = w[n]
  <2>1. PICK l \in Nat : l = Len(b)
    OBVIOUS
  <2>2. n \in Nat /\ n >= 1
    OBVIOUS
  <2>3. l + n \in 1 .. l + n /\ ~ (l + n <= l) /\ (l + n) - l = n /\ l + n > 0
    BY <2>1, <2>2
  <2>4. QED
    BY <1>2, <1>6, <2>1, <2>3
<1>8. c \o v = b \o w
  <2>1. (b \o x) \o v = b \o (x \o v)
    BY <1>2, <1>3, Regroup
  <2>2. QED
    BY <1>4, <1>5, <2>1
<1>9. QED
  BY <1>1, <1>3, <1>5, <1>6, <1>7, <1>8

(* A step of one session.                                                  *)
LEMMA FlowAt ==
  ASSUME FlowInv, NEW s \in Sess, script' = script,
         sent' \in [Sess -> Nat], wire' \in [Sess -> Seq(Byte)],
         rbuf' \in [Sess -> Seq(Byte)], taken' \in [Sess -> TakenType],
         cuts' \in [Sess -> Nat],
         \A z \in Sess : z # s =>
            /\ sent'[z] = sent[z] /\ wire'[z] = wire[z] /\ rbuf'[z] = rbuf[z]
            /\ taken'[z] = taken[z] /\ cuts'[z] = cuts[z],
         Flow(rbuf'[s] \o wire'[s], rbuf'[s], sent'[s], taken'[s], cuts'[s])
  PROVE  FlowInv'
<1>1. FlowTypes'
  BY DEF FlowInv, FlowTypes
<1>2. ASSUME NEW z \in Sess
      PROVE  Flow(rbuf'[z] \o wire'[z], rbuf'[z], sent'[z], taken'[z], cuts'[z])
  <2>1. CASE z = s
    BY <2>1
  <2>2. CASE z # s
    <3>1. Flow(rbuf[z] \o wire[z], rbuf[z], sent[z], taken[z], cuts[z])
      BY DEF FlowInv, Left
    <3>2. QED
      BY <2>2, <3>1
  <2>3. QED
    BY <2>1, <2>2
<1>3. QED
  BY <1>1, <1>2 DEF FlowInv, Left

LEMMA FlowSend ==
  ASSUME FlowInv, NEW s \in Sess, Send(s)
  PROVE  FlowInv'
<1>1. PICK p, b, w, m, tk : p = Left(s) /\ b = rbuf[s] /\ w = wire[s] /\ m = sent[s] /\ tk = taken[s]
  OBVIOUS
<1>2. /\ b \in Seq(Byte) /\ w \in Seq(Byte) /\ p \in Seq(Byte) /\ p = b \o w /\ m \in Nat
      /\ tk \in TakenType /\ cuts[s] \in Nat
  <2>1. /\ b \in Seq(Byte) /\ w \in Seq(Byte) /\ m \in Nat /\ tk \in TakenType /\ cuts[s] \in Nat
    BY <1>1 DEF FlowInv, FlowTypes
  <2>2. p = b \o w
    BY <1>1 DEF Left
  <2>3. QED
    BY <2>1, <2>2, ConcatProperties
<1>3. Flow(p, b, m, tk, cuts[s])
  BY <1>1 DEF FlowInv
<1>4. PICK r : r = script[s][m + 1]
  OBVIOUS
<1>5. PICK t : t = r.text \o r.eol
  OBVIOUS
<1>6. IsLine(t) /\ r.text \in Seq(Byte) /\ r.eol \in Seq(Byte)
  <2>1. PICK sc : sc = script[s]
    OBVIOUS
  <2>2. sc \in Seq(Request) /\ sc \in Scripts[s]
    BY <2>1, SessAssumption DEF FlowInv, FlowTypes
  <2>3. m < Len(sc)
    BY <1>1, <2>1 DEF Send
  <2>4. m + 1 \in 1 .. Len(sc) /\ DOMAIN sc = 1 .. Len(sc)
    BY <1>2, <2>2, <2>3
  <2>5. r \in Request /\ r = sc[m + 1]
    BY <1>4, <2>1, <2>2, <2>4
  <2>6. r.text # <<>> /\ Range(r.text) \cap NL = {}
    BY <2>2, <2>4, <2>5, SessAssumption
  <2>7. r.text \in Seq(Byte) /\ r.eol \in {<<LF>>, <<CR, LF>>}
    BY <2>5 DEF Request
  <2>8. r.text \in Seq(Byte)
    BY <2>7
  <2>9. r.eol \in Seq(Byte)
    <3>1. CR \in Byte /\ LF \in Byte
      BY Ends
    <3>2. CASE r.eol = <<LF>>
      BY <3>1, <3>2
    <3>3. CASE r.eol = <<CR, LF>>
      BY <3>1, <3>3
    <3>4. QED
      BY <2>7, <3>2, <3>3
  <2>10. IsLine(t)
    BY <1>5, <2>6, <2>7, <2>8, RequestIsLine
  <2>11. QED
    BY <2>8, <2>9, <2>10
<1>7. PICK w2 : w2 = w \o t
  OBVIOUS
<1>8. t \in Seq(Byte) /\ w2 \in Seq(Byte) /\ b \o w2 = p \o t /\ w2 = w \o r.text \o r.eol
  <2>1. t \in Seq(Byte)
    BY <1>6 DEF IsLine
  <2>2. (b \o w) \o t = b \o (w \o t)
    BY <1>2, <2>1, Regroup
  <2>3. (w \o r.text) \o r.eol = w \o (r.text \o r.eol)
    BY <1>2, <1>6, Regroup
  <2>4. w2 \in Seq(Byte)
    BY <1>2, <1>7, <2>1, ConcatProperties
  <2>5. QED
    BY <1>2, <1>5, <1>7, <2>1, <2>2, <2>3, <2>4
<1>9. /\ sent' = [sent EXCEPT ![s] = m + 1] /\ wire' = [wire EXCEPT ![s] = w2]
      /\ script' = script /\ rbuf' = rbuf /\ taken' = taken /\ cuts' = cuts
  <2>1. sent' = [sent EXCEPT ![s] = @ + 1]
    BY DEF Send
  <2>2. wire' = [wire EXCEPT ![s] = wire[s] \o script[s][sent[s] + 1].text \o script[s][sent[s] + 1].eol]
    BY DEF Send
  <2>3. sent' = [sent EXCEPT ![s] = m + 1]
    BY <1>1, <2>1
  <2>4. wire' = [wire EXCEPT ![s] = w2]
    BY <1>1, <1>4, <1>8, <2>2
  <2>5. QED
    BY <2>3, <2>4 DEF Send
<1>10. /\ sent' \in [Sess -> Nat] /\ wire' \in [Sess -> Seq(Byte)] /\ rbuf' \in [Sess -> Seq(Byte)]
       /\ taken' \in [Sess -> TakenType] /\ cuts' \in [Sess -> Nat]
       /\ sent'[s] = m + 1 /\ wire'[s] = w2 /\ rbuf'[s] = b /\ taken'[s] = tk /\ cuts'[s] = cuts[s]
       /\ \A z \in Sess : z # s => sent'[z] = sent[z] /\ wire'[z] = wire[z]
  <2>1. /\ sent \in [Sess -> Nat] /\ wire \in [Sess -> Seq(Byte)] /\ rbuf \in [Sess -> Seq(Byte)]
        /\ taken \in [Sess -> TakenType] /\ cuts \in [Sess -> Nat]
    BY DEF FlowInv, FlowTypes
  <2>2. /\ sent' \in [Sess -> Nat] /\ sent'[s] = m + 1
        /\ \A z \in Sess : z # s => sent'[z] = sent[z]
    BY <1>2, <1>9, <2>1
  <2>3. /\ wire' \in [Sess -> Seq(Byte)] /\ wire'[s] = w2
        /\ \A z \in Sess : z # s => wire'[z] = wire[z]
    BY <1>8, <1>9, <2>1
  <2>4. QED
    BY <1>1, <1>9, <2>1, <2>2, <2>3
<1>11. PICK q : q = p \o t
  OBVIOUS
<1>12. PICK r0 \in Nat, e \in Nat, ct \in Nat : r0 = tk.requests /\ e = tk.empties /\ ct = cuts[s]
  BY <1>2 DEF TakenType
<1>13. PICK own : Framed(p) /\ Numbered(p, own, r0, m) /\ r0 <= m /\ e + Loose(p, b) <= ct
  BY <1>3, <1>12 DEF Flow
<1>14. Framed(q) /\ \E more : Numbered(q, more, r0, m + 1)
  BY <1>2, <1>6, <1>11, <1>12, <1>13, LineSent
<1>15. Loose(q, b) <= Loose(p, b)
  <2>1. PICK x \in {0, 1}, y \in {0, 1} :
          /\ Loose(p, b) = x + y
          /\ x = 1 <=> Len(p) > 0 /\ p[1] \in NL
          /\ y = 1 <=> Len(b) > 0 /\ b[Len(b)] = CR
    BY LooseParts
  <2>2. PICK u \in {0, 1}, v \in {0, 1} :
          /\ Loose(q, b) = u + v
          /\ u = 1 <=> Len(q) > 0 /\ q[1] \in NL
          /\ v = 1 <=> Len(b) > 0 /\ b[Len(b)] = CR
    BY LooseParts
  <2>3. u = 1 => x = 1
    <3>1. PICK l \in Nat, h \in Nat : l = Len(p) /\ h = Len(t)
      BY <1>2, <1>8
    <3>2. \A i \in 1 .. l + h : q[i] = IF i <= l THEN p[i] ELSE t[i - l]
      BY <1>2, <1>8, <1>11, <3>1, ConcatProperties
    <3>3. h > 0 /\ t[1] \notin NL
      BY <1>6, <3>1 DEF IsLine
    <3>4. 1 \in 1 .. l + h
      BY <3>3
    <3>5. CASE l = 0
      <4>1. ~ (1 <= l) /\ 1 - l = 1
        BY <3>5
      <4>2. q[1] = t[1]
        BY <3>2, <3>4, <4>1
      <4>3. QED
        BY <2>2, <3>3, <4>2
    <3>6. CASE l > 0
      <4>1. q[1] = p[1]
        BY <3>2, <3>4, <3>6
      <4>2. QED
        BY <2>1, <2>2, <3>1, <3>6, <4>1
    <3>7. QED
      BY <3>5, <3>6
  <2>4. QED
    BY <2>1, <2>2, <2>3
<1>16. e + Loose(q, b) <= ct
  <2>1. Loose(q, b) \in {0, 1, 2} /\ Loose(p, b) \in {0, 1, 2}
    BY LooseIs
  <2>2. QED
    BY <1>13, <1>15, <2>1
<1>17. r0 <= m + 1
  BY <1>2, <1>13
<1>18. Flow(b \o w2, b, m + 1, tk, cuts[s])
  BY <1>8, <1>11, <1>12, <1>14, <1>16, <1>17 DEF Flow
<1>19. QED
  BY <1>9, <1>10, <1>18, FlowAt

LEMMA FlowRead ==
  ASSUME FlowInv, NEW s \in Sess, TaskRead(s)
  PROVE  FlowInv'
<1>1. PICK b, w, p, tk : b = rbuf[s] /\ w = wire[s] /\ p = Left(s) /\ tk = taken[s]
  OBVIOUS
<1>2. PICK n \in 1 .. Len(w) :
         /\ rbuf' = [rbuf EXCEPT ![s] = @ \o SubSeq(wire[s], 1, n)]
         /\ wire' = [wire EXCEPT ![s] = SubSeq(@, n + 1, Len(@))]
         /\ cuts' = [cuts EXCEPT ![s] = IF wire[s][n] = CR THEN @ + 1 ELSE @]
  BY <1>1 DEF TaskRead
<1>3. /\ sent \in [Sess -> Nat] /\ wire \in [Sess -> Seq(Byte)] /\ rbuf \in [Sess -> Seq(Byte)]
      /\ taken \in [Sess -> TakenType] /\ cuts \in [Sess -> Nat]
  BY DEF FlowInv, FlowTypes
<1>4. PICK e, r0, ct, m \in Nat : e = tk.empties /\ r0 = tk.requests /\ ct = cuts[s] /\ m = sent[s]
  <2>1. tk \in TakenType /\ cuts[s] \in Nat /\ sent[s] \in Nat
    BY <1>1, <1>3
  <2>2. QED
    BY <2>1 DEF TakenType
<1>5. b \in Seq(Byte) /\ w \in Seq(Byte) /\ p = b \o w
  BY <1>1, <1>3 DEF Left
<1>6. PICK c, v : c = b \o SubSeq(w, 1, n) /\ v = SubSeq(w, n + 1, Len(w))
  OBVIOUS
<1>7. /\ c \in Seq(Byte) /\ v \in Seq(Byte) /\ c \o v = p
      /\ Len(c) > 0 /\ c[Len(c)] = w[n]
  BY <1>5, <1>6, WireCut
<1>8. PICK ct2 : ct2 = IF w[n] = CR THEN ct + 1 ELSE ct
  OBVIOUS
<1>9. /\ rbuf' = [rbuf EXCEPT ![s] = c] /\ wire' = [wire EXCEPT ![s] = v]
      /\ cuts' = [cuts EXCEPT ![s] = ct2]
  <2>1. rbuf' = [rbuf EXCEPT ![s] = c]
    BY <1>1, <1>2, <1>6
  <2>2. wire' = [wire EXCEPT ![s] = v]
    BY <1>1, <1>2, <1>6
  <2>3. cuts' = [cuts EXCEPT ![s] = ct2]
    BY <1>1, <1>2, <1>4, <1>8
  <2>4. QED
    BY <2>1, <2>2, <2>3
<1>10. script' = script /\ sent' = sent /\ taken' = taken
  BY DEF TaskRead
<1>11. ct2 \in Nat
  BY <1>8
<1>12. /\ rbuf' \in [Sess -> Seq(Byte)] /\ rbuf'[s] = c
       /\ \A z \in Sess : z # s => rbuf'[z] = rbuf[z]
  BY <1>3, <1>7, <1>9
<1>13. /\ wire' \in [Sess -> Seq(Byte)] /\ wire'[s] = v
       /\ \A z \in Sess : z # s => wire'[z] = wire[z]
  BY <1>3, <1>7, <1>9
<1>14. /\ cuts' \in [Sess -> Nat] /\ cuts'[s] = ct2
       /\ \A z \in Sess : z # s => cuts'[z] = cuts[z]
  BY <1>3, <1>9, <1>11
<1>15. sent'[s] = m /\ taken'[s] = tk
  BY <1>1, <1>4, <1>10
<1>16. PICK own : Framed(p) /\ Numbered(p, own, r0, m) /\ r0 <= m /\ e + Loose(p, b) <= ct
  <2>1. Flow(p, b, m, tk, ct)
    BY <1>1, <1>4 DEF FlowInv
  <2>2. QED
    BY <1>4, <2>1 DEF Flow
<1>17. e + Loose(p, c) <= ct2
  <2>1. PICK x \in {0, 1}, y \in {0, 1} :
          /\ Loose(p, b) = x + y
          /\ x = 1 <=> Len(p) > 0 /\ p[1] \in NL
          /\ y = 1 <=> Len(b) > 0 /\ b[Len(b)] = CR
    BY LooseParts
  <2>2. PICK u \in {0, 1}, z \in {0, 1} :
          /\ Loose(p, c) = u + z
          /\ u = 1 <=> Len(p) > 0 /\ p[1] \in NL
          /\ z = 1 <=> Len(c) > 0 /\ c[Len(c)] = CR
    BY LooseParts
  <2>3. u = x
    BY <2>1, <2>2
  <2>4. z = IF w[n] = CR THEN 1 ELSE 0
    BY <1>7, <2>2
  <2>5. ct2 = ct + z
    BY <1>8, <2>4
  <2>6. e + x <= ct
    BY <1>16, <2>1
  <2>7. QED
    BY <2>2, <2>3, <2>5, <2>6
<1>18. Flow(c \o v, c, m, tk, ct2)
  BY <1>4, <1>7, <1>16, <1>17 DEF Flow
<1>19. Flow(rbuf'[s] \o wire'[s], rbuf'[s], sent'[s], taken'[s], cuts'[s])
  BY <1>12, <1>13, <1>14, <1>15, <1>18
<1>20. QED
  BY <1>3, <1>10, <1>12, <1>13, <1>14, <1>19, FlowAt

LEMMA Counted ==
  ASSUME NEW t \in TakenType, NEW x \in Nat, NEW y \in Nat
  PROVE  /\ [t EXCEPT !.empties = x, !.last = y] \in TakenType
         /\ [t EXCEPT !.requests = x, !.last = y] \in TakenType
<1>1. PICK u : u = [t EXCEPT !.empties = x, !.last = y]
  OBVIOUS
<1>2. u \in TakenType
  BY <1>1 DEF TakenType
<1>3. PICK v : v = [t EXCEPT !.requests = x, !.last = y]
  OBVIOUS
<1>4. v \in TakenType
  BY <1>3 DEF TakenType
<1>5. QED
  BY <1>1, <1>2, <1>3, <1>4

LEMMA FlowParsing ==
  ASSUME FlowInv, NEW s \in Sess, Parsing(s)
  PROVE  FlowInv'
<1>1. PICK b, w, p, tk : b = rbuf[s] /\ w = wire[s] /\ p = Left(s) /\ tk = taken[s]
  OBVIOUS
<1>2. PICK n, k : n = LineLen(b) /\ k = LineRead(b)
  OBVIOUS
<1>3. /\ sent \in [Sess -> Nat] /\ wire \in [Sess -> Seq(Byte)] /\ rbuf \in [Sess -> Seq(Byte)]
      /\ taken \in [Sess -> TakenType] /\ cuts \in [Sess -> Nat]
  BY DEF FlowInv, FlowTypes
<1>4. PICK e, r0, ct, m \in Nat : e = tk.empties /\ r0 = tk.requests /\ ct = cuts[s] /\ m = sent[s]
  <2>1. tk \in TakenType /\ cuts[s] \in Nat /\ sent[s] \in Nat
    BY <1>1, <1>3
  <2>2. QED
    BY <2>1 DEF TakenType
<1>5. b \in Seq(Byte) /\ w \in Seq(Byte) /\ p = b \o w
  BY <1>1, <1>3 DEF Left
<1>6. PICK own : Framed(p) /\ Numbered(p, own, r0, m) /\ r0 <= m /\ e + Loose(p, b) <= ct
  <2>1. Flow(p, b, m, tk, ct)
    BY <1>1, <1>4 DEF FlowInv
  <2>2. QED
    BY <1>4, <2>1 DEF Flow
<1>7. HasLine(b)
  BY <1>1 DEF Parsing
<1>8. PICK c : c = SubSeq(b, k + 1, Len(b))
  OBVIOUS
<1>9. /\ p \in Seq(Byte) /\ c \in Seq(Byte)
      /\ k \in 1 .. Len(p) /\ p[k] \in NL
      /\ c \o w = SubSeq(p, k + 1, Len(p))
      /\ n = 0 <=> p[1] \in NL
      /\ Loose(c \o w, c) + (IF n = 0 THEN 1 ELSE 0) <= Loose(p, b)
  BY <1>2, <1>5, <1>6, <1>7, <1>8, LineCut
<1>10. PICK u, f : /\ u = (IF n = 0 THEN r0 ELSE r0 + 1)
                   /\ f = (IF n = 0 THEN e + 1 ELSE e)
  OBVIOUS
<1>11. u = r0 \/ (u = r0 + 1 /\ p[1] \notin NL)
  BY <1>9, <1>10
<1>12. PICK q : q = c \o w
  OBVIOUS
<1>13. Framed(q) /\ u \in Nat /\ u <= m /\ \E left : Numbered(q, left, u, m)
  <2>1. p \in Seq(Byte) /\ k \in 1 .. Len(p) /\ p[k] \in NL /\ q = SubSeq(p, k + 1, Len(p))
    BY <1>9, <1>12
  <2>2. Framed(p) /\ Numbered(p, own, r0, m) /\ r0 <= m
    BY <1>6
  <2>3. QED
    BY <1>11, <2>1, <2>2, LineTaken
<1>14. PICK tk2 : taken' = [taken EXCEPT ![s] = tk2] /\ tk2 \in TakenType
                  /\ tk2.requests = u /\ tk2.empties = f
  <2>1. tk \in TakenType
    BY <1>1, <1>3
  <2>2. PICK e1 \in Nat, r1 \in Nat, o \in Nat : e1 = e + 1 /\ r1 = r0 + 1 /\ o = 0
    OBVIOUS
  <2> DEFINE none == [tk EXCEPT !.empties = e1, !.last = o]
             some == [tk EXCEPT !.requests = r1, !.last = r1]
  <2>4. taken' = [taken EXCEPT ![s] = IF n = 0 THEN none ELSE some]
    BY <1>1, <1>2, <1>4, <2>2 DEF Parsing
  <2>5. none \in TakenType /\ none.requests = r0 /\ none.empties = e + 1
    <3>1. none \in TakenType
      BY <2>1, Counted
    <3>2. none.requests = r0 /\ none.empties = e + 1
      BY <1>4, <2>1, <2>2 DEF TakenType
    <3>3. QED
      BY <3>1, <3>2
  <2>6. some \in TakenType /\ some.requests = r0 + 1 /\ some.empties = e
    <3>1. some \in TakenType
      BY <2>1, Counted
    <3>2. some.requests = r0 + 1 /\ some.empties = e
      BY <1>4, <2>1, <2>2 DEF TakenType
    <3>3. QED
      BY <3>1, <3>2
  <2> HIDE DEF none, some
  <2>7. CASE n = 0
    <3>1. taken' = [taken EXCEPT ![s] = none]
      BY <2>4, <2>7
    <3>2. QED
      BY <1>10, <2>5, <2>7, <3>1
  <2>8. CASE n # 0
    <3>1. taken' = [taken EXCEPT ![s] = some]
      BY <2>4, <2>8
    <3>2. QED
      BY <1>10, <2>6, <2>8, <3>1
  <2>9. QED
    BY <2>7, <2>8
<1>15. rbuf' = [rbuf EXCEPT ![s] = c]
  BY <1>1, <1>2, <1>8 DEF Parsing
<1>16. script' = script /\ sent' = sent /\ wire' = wire /\ cuts' = cuts
  BY DEF Parsing
<1>17. /\ rbuf' \in [Sess -> Seq(Byte)] /\ rbuf'[s] = c
       /\ \A z \in Sess : z # s => rbuf'[z] = rbuf[z]
  BY <1>3, <1>9, <1>15
<1>18. /\ taken' \in [Sess -> TakenType] /\ taken'[s] = tk2
       /\ \A z \in Sess : z # s => taken'[z] = taken[z]
  BY <1>3, <1>14
<1>19. sent'[s] = m /\ cuts'[s] = ct /\ wire'[s] = w
  BY <1>1, <1>4, <1>16
<1>20. f + Loose(q, c) <= ct
  <2>1. PICK x, y \in {0, 1, 2} : x = Loose(q, c) /\ y = Loose(p, b)
    BY LooseIs
  <2>2. x + (IF n = 0 THEN 1 ELSE 0) <= y
    BY <1>9, <1>12, <2>1
  <2>3. e + y <= ct
    BY <1>6, <2>1
  <2>4. f + x <= ct
    BY <1>10, <2>2, <2>3
  <2>5. QED
    BY <2>1, <2>4
<1>21. Flow(q, c, m, tk2, ct)
  BY <1>13, <1>14, <1>20 DEF Flow
<1>22. Flow(rbuf'[s] \o wire'[s], rbuf'[s], sent'[s], taken'[s], cuts'[s])
  BY <1>12, <1>17, <1>18, <1>19, <1>21
<1>23. QED
  BY <1>3, <1>16, <1>17, <1>18, <1>22, FlowAt

(* The other turns of the loop have no part in it.                         *)
LEMMA FlowSame ==
  ASSUME FlowInv, UNCHANGED <<script, sent, wire, rbuf, taken, cuts>>
  PROVE  FlowInv'
<1>1. FlowTypes'
  BY DEF FlowInv, FlowTypes
<1>2. ASSUME NEW z \in Sess
      PROVE  Flow(rbuf'[z] \o wire'[z], rbuf'[z], sent'[z], taken'[z], cuts'[z])
  BY DEF FlowInv, Left
<1>3. QED
  BY <1>1, <1>2 DEF FlowInv, Left

(* The bytes of a session are the lines that were sent and not yet taken.  *)
THEOREM FlowAlways == Spec => []FlowInv
<1>1. ASSUME FlowInv, [Next]_vars PROVE FlowInv'
  <2>1. CASE UNCHANGED vars
    <3>1. UNCHANGED <<script, sent, wire, rbuf, taken, cuts>>
      BY <2>1 DEF vars
    <3>2. QED
      BY <1>1, <3>1, FlowSame
  <2>2. CASE Next
    <3>1. PICK s \in Sess : Send(s) \/ TaskRead(s) \/ ProcessSess(s)
      BY <2>2 DEF Next
    <3>2. CASE Send(s)
      BY <1>1, <3>2, FlowSend
    <3>3. CASE TaskRead(s)
      BY <1>1, <3>3, FlowRead
    <3>4. CASE Parsing(s)
      BY <1>1, <3>4, FlowParsing
    <3>5. CASE SessInit(s) \/ NoLine(s) \/ Finish(s)
      <4>1. UNCHANGED <<script, sent, wire, rbuf, taken, cuts>>
        BY <3>5 DEF SessInit, NoLine, Finish
      <4>2. QED
        BY <1>1, <4>1, FlowSame
    <3>6. CASE CmdGet(s) \/ CmdSet(s) \/ NoCmd(s)
      <4>1. UNCHANGED <<script, sent, wire, rbuf, taken, cuts>>
        BY <3>6 DEF CmdGet, CmdSet, NoCmd, Replied
      <4>2. QED
        BY <1>1, <4>1, FlowSame
    <3>7. QED
      BY <3>1, <3>2, <3>3, <3>4, <3>5, <3>6 DEF ProcessSess
  <2>3. QED
    BY <1>1, <2>1, <2>2
<1>2. QED
  BY <1>1, FlowInit, PTL DEF Spec

(* A client gets one reply more than it sent requests only where a CR had  *)
(* arrived without its LF, whatever it sends and however the network cuts  *)
(* it (atm_buf.c:178).                                                     *)
THEOREM OneReplyAlways == Spec => []OneReplyEach
<1>1. FlowInv => OneReplyEach
  <2> SUFFICES ASSUME FlowInv, NEW s \in Sess
      PROVE  taken[s].requests <= sent[s] /\ taken[s].empties <= cuts[s]
    BY DEF OneReplyEach
  <2>1. Flow(Left(s), rbuf[s], sent[s], taken[s], cuts[s])
    BY DEF FlowInv
  <2>2. taken[s].requests <= sent[s]
    BY <2>1 DEF Flow
  <2>3. PICK x \in {0, 1, 2} : x = Loose(Left(s), rbuf[s])
    BY LooseIs
  <2>4. PICK e \in Nat, ct \in Nat : e = taken[s].empties /\ ct = cuts[s]
    BY DEF FlowInv, FlowTypes, TakenType
  <2>5. e + x <= ct
    BY <2>1, <2>3, <2>4 DEF Flow
  <2>6. QED
    BY <2>2, <2>4, <2>5
<1>2. QED
  BY <1>1, FlowAlways, PTL

-----------------------------------------------------------------------------
(* A function that is defined step by step is there: f says what the i-th  *)
(* step makes of a value.                                                  *)
Steps(f, n, X) == \A i \in 1 .. n : \A x \in X : f[<<i, x>>] \in X
Run(m, f, n, start) == m[0] = start /\ \A i \in 1 .. n : m[i] = f[<<i, m[i - 1]>>]

LEMMA Unfolds ==
  ASSUME NEW n \in Nat, NEW X, NEW start \in X, NEW f, Steps(f, n, X)
  PROVE  \E m \in [0 .. n -> X] : Run(m, f, n, start)
<1> DEFINE Has(k) == \E m \in [0 .. k -> X] : Run(m, f, k, start)
           T == {k \in 0 .. n : ~ Has(k)}
<1>1. Has(0)
  <2> DEFINE m == [i \in 0 .. 0 |-> start]
  <2>1. m \in [0 .. 0 -> X] /\ m[0] = start
    OBVIOUS
  <2>2. \A i \in 1 .. 0 : m[i] = f[<<i, m[i - 1]>>]
    OBVIOUS
  <2> HIDE DEF m
  <2>3. QED
    BY <2>1, <2>2 DEF Run
<1>2. ASSUME NEW k \in 1 .. n, Has(k - 1) PROVE Has(k)
  <2>1. PICK m \in [0 .. k - 1 -> X] :
          m[0] = start /\ \A i \in 1 .. k - 1 : m[i] = f[<<i, m[i - 1]>>]
    BY <1>2 DEF Run
  <2> DEFINE y == f[<<k, m[k - 1]>>]
             g == [i \in 0 .. k |-> IF i = k THEN y ELSE m[i]]
  <2>2. m[k - 1] \in X
    BY <2>1
  <2>3. y \in X
    BY <2>2 DEF Steps
  <2> HIDE DEF y
  <2>4. g \in [0 .. k -> X]
    BY <2>1, <2>3
  <2>5. g[0] = start /\ g[k] = y /\ \A i \in 0 .. k - 1 : g[i] = m[i]
    BY <2>1
  <2> HIDE DEF g
  <2>6. \A i \in 1 .. k : g[i] = f[<<i, g[i - 1]>>]
    <3> SUFFICES ASSUME NEW i \in 1 .. k PROVE g[i] = f[<<i, g[i - 1]>>]
      OBVIOUS
    <3>1. i - 1 \in 0 .. k - 1 /\ (i # k => i \in 0 .. k - 1 /\ i \in 1 .. k - 1)
      OBVIOUS
    <3>2. g[i - 1] = m[i - 1]
      BY <2>5, <3>1
    <3>3. CASE i = k
      BY <2>5, <3>2, <3>3 DEF y
    <3>4. CASE i # k
      BY <2>1, <2>5, <3>1, <3>2, <3>4
    <3>5. QED
      BY <3>3, <3>4
  <2>7. QED
    BY <2>4, <2>5, <2>6 DEF Run
<1> HIDE DEF Has
<1>3. T = {}
  <2> SUFFICES ASSUME T # {} PROVE FALSE
    OBVIOUS
  <2>1. PICK k \in T : \A j \in T : k <= j
    <3>1. T \in SUBSET Nat
      OBVIOUS
    <3> HIDE DEF T
    <3>2. QED
      BY <3>1, LeastNat
  <2>2. k \in 0 .. n /\ ~ Has(k)
    BY <2>1
  <2>3. k # 0
    BY <1>1, <2>2
  <2>4. k \in 1 .. n /\ k - 1 \in 0 .. n /\ ~ (k <= k - 1)
    BY <2>2, <2>3
  <2>5. Has(k - 1)
    BY <2>1, <2>4
  <2>6. QED
    BY <1>2, <2>2, <2>4, <2>5
<1>4. Has(n)
  BY <1>3
<1>5. QED
  BY <1>4 DEF Has

-----------------------------------------------------------------------------
(* The split of a line, for any bytes.                                     *)
Bytes2(C, sep) == Quotes \subseteq C /\ sep \in C /\ sep \notin Quotes

Split1(C) == [argv : Seq(Seq(C)), arg : Seq(C), inq : Nat, qty : C]

LEMMA OtherIs ==
  ASSUME NEW q \in Quotes
  PROVE  S!Other(q) \in Quotes /\ S!Other(q) # q /\ \A o \in Quotes : o = q \/ o = S!Other(q)
<1>1. \E o \in Quotes : o # q
  BY DEF Quotes
<1>2. S!Other(q) \in Quotes /\ S!Other(q) # q
  BY <1>1 DEF S!Other
<1>3. QED
  BY <1>2 DEF Quotes

LEMMA SplitByteType ==
  ASSUME NEW C, NEW sep, Bytes2(C, sep), NEW p \in Split1(C), NEW c \in C
  PROVE  S!SplitByte(p, c, sep) \in Split1(C)
<1>1. PICK argv \in Seq(Seq(C)), arg \in Seq(C), inq \in Nat, qty \in C :
        p = [argv |-> argv, arg |-> arg, inq |-> inq, qty |-> qty]
  BY DEF Split1
<1>2. Append(arg, c) \in Seq(C) /\ Append(argv, arg) \in Seq(Seq(C)) /\ <<>> \in Seq(C)
  BY AppendProperties, EmptySeq
<1>3. CASE inq > 0
  <2>1. S!SplitByte(p, c, sep) =
          [argv |-> argv, arg |-> Append(arg, c),
           inq |-> IF c \notin Quotes THEN inq ELSE IF c = qty THEN inq - 1 ELSE inq + 1,
           qty |-> IF c \notin Quotes THEN qty ELSE IF c = qty THEN S!Other(c) ELSE c]
    BY <1>1, <1>3 DEF S!SplitByte, S!InQuote
  <2>2. c \in Quotes => S!Other(c) \in C
    BY OtherIs DEF Bytes2
  <2>3. QED
    BY <1>2, <1>3, <2>1, <2>2 DEF Split1
<1>4. CASE ~ (inq > 0)
  <2>1. S!SplitByte(p, c, sep) =
          IF c = sep
          THEN [argv |-> IF arg = <<>> THEN argv ELSE Append(argv, arg), arg |-> <<>>,
                inq |-> inq, qty |-> qty]
          ELSE [argv |-> argv, arg |-> Append(arg, c),
                inq |-> IF c \in Quotes THEN 1 ELSE 0, qty |-> c]
    <3>1. S!SplitByte(p, c, sep) = S!OutOfQuote(p, c, sep)
      BY <1>1, <1>4 DEF S!SplitByte
    <3>2. CASE c = sep
      BY <1>1, <3>1, <3>2 DEF S!OutOfQuote
    <3>3. CASE c # sep
      BY <1>1, <3>1, <3>3 DEF S!OutOfQuote
    <3>4. QED
      BY <3>2, <3>3
  <2>2. QED
    BY <1>2, <2>1 DEF Split1
<1>5. QED
  BY <1>3, <1>4

(* The loop is the function that its steps define.                         *)
SplitFrom(sep) == [argv |-> <<>>, arg |-> <<>>, inq |-> 0, qty |-> sep]

LEMMA SplittingIs ==
  ASSUME NEW C, NEW sep, Bytes2(C, sep), NEW text \in Seq(C)
  PROVE  /\ S!Splitting(text, sep) \in [0 .. Len(text) -> Split1(C)]
         /\ S!Splitting(text, sep)[0] = SplitFrom(sep)
         /\ \A n \in 1 .. Len(text) :
              S!Splitting(text, sep)[n] = S!SplitByte(S!Splitting(text, sep)[n - 1], text[n], sep)
<1>1. Len(text) \in Nat /\ \A n \in 1 .. Len(text) : text[n] \in C
  OBVIOUS
<1>2. SplitFrom(sep) \in Split1(C)
  BY EmptySeq DEF SplitFrom, Split1, Bytes2
<1> DEFINE f == [y \in (1 .. Len(text)) \X Split1(C) |-> S!SplitByte(y[2], text[y[1]], sep)]
<1>3. \A i \in 1 .. Len(text) : \A x \in Split1(C) :
        f[<<i, x>>] = S!SplitByte(x, text[i], sep) /\ f[<<i, x>>] \in Split1(C)
  <2> SUFFICES ASSUME NEW i \in 1 .. Len(text), NEW x \in Split1(C)
      PROVE  f[<<i, x>>] = S!SplitByte(x, text[i], sep) /\ f[<<i, x>>] \in Split1(C)
    OBVIOUS
  <2>1. f[<<i, x>>] = S!SplitByte(x, text[i], sep)
    OBVIOUS
  <2> HIDE DEF f
  <2>2. text[i] \in C
    BY <1>1
  <2>3. QED
    BY <2>1, <2>2, SplitByteType
<1> HIDE DEF f
<1>4. PICK m \in [0 .. Len(text) -> Split1(C)] :
        m[0] = SplitFrom(sep) /\ \A i \in 1 .. Len(text) : m[i] = f[<<i, m[i - 1]>>]
  <2>1. \A i \in 1 .. Len(text) : \A x \in Split1(C) : f[<<i, x>>] \in Split1(C)
    BY <1>3
  <2>2. PICK n \in Nat : n = Len(text)
    BY <1>1
  <2>3. PICK X, g, p : X = Split1(C) /\ g = f /\ p = SplitFrom(sep)
    OBVIOUS
  <2>4. p \in X /\ Steps(g, n, X)
    BY <1>2, <2>1, <2>2, <2>3 DEF Steps
  <2>5. \E m \in [0 .. n -> X] : Run(m, g, n, p)
    BY <2>4, Unfolds
  <2>6. QED
    BY <2>2, <2>3, <2>5 DEF Run
<1>5. m = [n \in 0 .. Len(text) |-> IF n = 0 THEN SplitFrom(sep)
                                    ELSE S!SplitByte(m[n - 1], text[n], sep)]
  <2>1. \A n \in 0 .. Len(text) : n # 0 => n \in 1 .. Len(text) /\ m[n - 1] \in Split1(C)
    BY <1>1, <1>4
  <2>2. QED
    BY <1>3, <1>4, <2>1
<1>6. \E p : p = [n \in 0 .. Len(text) |-> IF n = 0 THEN SplitFrom(sep)
                                           ELSE S!SplitByte(p[n - 1], text[n], sep)]
  BY <1>5
<1> DEFINE q == S!Splitting(text, sep)
<1>7. q = [n \in 0 .. Len(text) |-> IF n = 0 THEN SplitFrom(sep)
                                    ELSE S!SplitByte(q[n - 1], text[n], sep)]
  BY <1>6 DEF S!Splitting, SplitFrom
<1> HIDE DEF q
<1>8. q[0] = SplitFrom(sep) /\ \A n \in 1 .. Len(text) : q[n] = S!SplitByte(q[n - 1], text[n], sep)
  BY <1>1, <1>7
<1>9. q \in [0 .. Len(text) -> Split1(C)]
  <2>1. \A n \in 0 .. Len(text) : q[n] \in Split1(C)
    <3> SUFFICES ASSUME {n \in 0 .. Len(text) : q[n] \notin Split1(C)} # {} PROVE FALSE
      OBVIOUS
    <3> DEFINE B == {n \in 0 .. Len(text) : q[n] \notin Split1(C)}
    <3>1. B \in SUBSET Nat /\ B # {}
      OBVIOUS
    <3>2. PICK k \in B : \A n \in B : k <= n
      <4> HIDE DEF B
      <4>1. QED
        BY <3>1, LeastNat
    <3>3. k \in 0 .. Len(text) /\ q[k] \notin Split1(C)
      OBVIOUS
    <3>4. k # 0
      BY <1>2, <1>8, <3>3
    <3>5. k \in 1 .. Len(text) /\ k - 1 \in 0 .. Len(text) /\ ~ (k <= k - 1)
      BY <1>1, <3>3, <3>4
    <3>6. q[k - 1] \in Split1(C)
      BY <3>2, <3>5
    <3>7. q[k] = S!SplitByte(q[k - 1], text[k], sep) /\ text[k] \in C
      BY <1>1, <1>8, <3>5
    <3>8. QED
      BY <3>3, <3>6, <3>7, SplitByteType
  <2>2. QED
    BY <1>7, <2>1
<1>10. QED
  BY <1>8, <1>9 DEF q

(* What holds at the start and, where it holds, one further, holds         *)
(* everywhere.                                                             *)
LEMMA Upward ==
  ASSUME NEW n \in Nat, NEW B, 0 \in B, \A i \in 1 .. n : i - 1 \in B => i \in B
  PROVE  \A i \in 0 .. n : i \in B
<1> DEFINE T == {i \in 0 .. n : i \notin B}
<1>1. SUFFICES ASSUME T # {} PROVE FALSE
  OBVIOUS
<1>2. T \in SUBSET Nat
  OBVIOUS
<1>3. PICK k \in T : \A j \in T : k <= j
  <2> HIDE DEF T
  <2>1. QED
    BY <1>1, <1>2, LeastNat
<1>4. k \in 0 .. n /\ k \notin B
  OBVIOUS
<1>5. k \in 1 .. n /\ k - 1 \in 0 .. n /\ ~ (k <= k - 1)
  BY <1>4
<1>6. k - 1 \in B
  BY <1>3, <1>5
<1>7. QED
  BY <1>4, <1>5, <1>6

-----------------------------------------------------------------------------
(* A set of numbers listed in increasing order: the k-th of the list is    *)
(* the k-th of the set.                                                    *)
Increasing(fs) == \A k, l \in 1 .. Len(fs) : k < l => fs[k] < fs[l]

Lists(fs, places) == Increasing(fs) /\ \A i : i \in places <=> \E k \in 1 .. Len(fs) : fs[k] = i

LEMMA CountedList ==
  ASSUME NEW fs \in Seq(Nat), Increasing(fs), NEW k \in 0 .. Len(fs)
  PROVE  Cardinality({fs[l] : l \in 1 .. k}) = k
<1> DEFINE T == {fs[l] : l \in 1 .. k}
           f == [l \in 1 .. k |-> fs[l]]
<1>0. Len(fs) \in Nat /\ (\A l \in 1 .. Len(fs) : fs[l] \in Nat) /\ 1 .. k \subseteq 1 .. Len(fs)
  OBVIOUS
<1>1. f \in [1 .. k -> T] /\ \A t \in T : \E l \in 1 .. k : f[l] = t
  OBVIOUS
<1>2. \A l, m \in 1 .. k : f[l] = f[m] => l = m
  <2> SUFFICES ASSUME NEW l \in 1 .. k, NEW m \in 1 .. k, f[l] = f[m] PROVE l = m
    OBVIOUS
  <2>1. fs[l] = fs[m] /\ fs[l] \in Nat /\ fs[m] \in Nat
    BY <1>0
  <2>2. ~ (l < m) /\ ~ (m < l)
    BY <1>0, <2>1 DEF Increasing
  <2>3. QED
    BY <2>2
<1> HIDE DEF f, T
<1>3. f \in Bijection(1 .. k, T)
  BY <1>1, <1>2 DEF Bijection, Injection, Surjection, IsInjective
<1>4. ExistsBijection(1 .. k, T)
  BY <1>3 DEF ExistsBijection
<1>5. k \in Nat
  BY <1>0
<1>6. Cardinality(T) = k
  BY <1>4, <1>5, FS_CountingElements
<1>7. QED
  BY <1>6 DEF T

(* The instance counts as this module does.                                *)
LEMMA SameCount == \A X : S!Cardinality(X) = Cardinality(X)
BY DEF S!Cardinality, Cardinality

LEMMA NthOfList ==
  ASSUME NEW fs \in Seq(Nat), NEW places, Lists(fs, places)
  PROVE  /\ Cardinality(places) = Len(fs)
         /\ \A k \in 1 .. Len(fs) : S!Nth(places, k) = fs[k]
<1>0. Len(fs) \in Nat /\ \A l \in 1 .. Len(fs) : fs[l] \in Nat
  OBVIOUS
<1>1. places = {fs[l] : l \in 1 .. Len(fs)}
  BY DEF Lists
<1>2. Cardinality(places) = Len(fs)
  BY <1>0, <1>1, CountedList DEF Lists
<1>3. \A k \in 1 .. Len(fs) : Cardinality({j \in places : j <= fs[k]}) = k
  <2> SUFFICES ASSUME NEW k \in 1 .. Len(fs)
      PROVE  Cardinality({j \in places : j <= fs[k]}) = k
    OBVIOUS
  <2>1. \A l \in 1 .. Len(fs) : fs[l] <= fs[k] <=> l <= k
    <3> SUFFICES ASSUME NEW l \in 1 .. Len(fs) PROVE fs[l] <= fs[k] <=> l <= k
      OBVIOUS
    <3>1. (l < k => fs[l] < fs[k]) /\ (k < l => fs[k] < fs[l])
      BY DEF Lists, Increasing
    <3>2. l \in Nat /\ k \in Nat /\ fs[l] \in Nat /\ fs[k] \in Nat
      BY <1>0
    <3>3. QED
      BY <3>1, <3>2
  <2>2. {j \in places : j <= fs[k]} = {fs[l] : l \in 1 .. k}
    <3>1. ASSUME NEW j, j \in places, j <= fs[k] PROVE j \in {fs[l] : l \in 1 .. k}
      <4>1. PICK l \in 1 .. Len(fs) : j = fs[l]
        BY <1>1, <3>1
      <4>2. l \in 1 .. k
        BY <1>0, <2>1, <3>1, <4>1
      <4>3. QED
        BY <4>1, <4>2
    <3>2. ASSUME NEW l \in 1 .. k PROVE fs[l] \in places /\ fs[l] <= fs[k]
      <4>1. l \in 1 .. Len(fs) /\ l <= k
        BY <1>0
      <4>2. QED
        BY <1>1, <2>1, <4>1
    <3>3. QED
      BY <3>1, <3>2
  <2>3. k \in 0 .. Len(fs)
    BY <1>0
  <2>4. QED
    BY <2>2, <2>3, CountedList DEF Lists
<1>4. \A k \in 1 .. Len(fs) : S!Nth(places, k) = fs[k]
  <2> SUFFICES ASSUME NEW k \in 1 .. Len(fs) PROVE S!Nth(places, k) = fs[k]
    OBVIOUS
  <2>1. fs[k] \in places /\ Cardinality({j \in places : j <= fs[k]}) = k
    BY <1>1, <1>3
  <2>2. \A i \in places : Cardinality({j \in places : j <= i}) = k => i = fs[k]
    BY <1>1, <1>3
  <2>3. QED
    BY <2>1, <2>2, SameCount DEF S!Nth
<1>5. QED
  BY <1>2, <1>4

-----------------------------------------------------------------------------
(* The quotes that are open.                                               *)

LEMMA NestedIs ==
  ASSUME NEW open \in Seq(Quotes), NEW c
  PROVE  /\ c \notin Quotes => S!Nested(open, c) = open
         /\ c \in Quotes /\ open # <<>> /\ open[Len(open)] = c =>
              S!Nested(open, c) = SubSeq(open, 1, Len(open) - 1)
         /\ c \in Quotes /\ (open = <<>> \/ open[Len(open)] # c) =>
              S!Nested(open, c) = Append(open, c)
BY DEF S!Nested, S!Last, S!Front

LEMMA NestedType ==
  ASSUME NEW open \in Seq(Quotes), NEW c
  PROVE  S!Nested(open, c) \in Seq(Quotes)
<1>1. c \in Quotes => Append(open, c) \in Seq(Quotes)
  BY AppendProperties
<1>2. SubSeq(open, 1, Len(open) - 1) \in Seq(Quotes)
  <2>1. Len(open) \in Nat /\ \A i \in 1 .. Len(open) - 1 : open[i] \in Quotes
    OBVIOUS
  <2>2. QED
    BY <2>1, SubSeqProperties
<1>3. QED
  BY <1>1, <1>2, NestedIs

LEMMA OpenQuotesIs ==
  ASSUME NEW C, NEW text \in Seq(C)
  PROVE  /\ S!OpenQuotes(text) \in [0 .. Len(text) -> Seq(Quotes)]
         /\ S!OpenQuotes(text)[0] = <<>>
         /\ \A n \in 1 .. Len(text) :
              S!OpenQuotes(text)[n] = S!Nested(S!OpenQuotes(text)[n - 1], text[n])
<1> DEFINE X == Seq(Quotes)
<1>1. Len(text) \in Nat
  OBVIOUS
<1>2. <<>> \in X
  BY EmptySeq
<1> DEFINE f == [y \in (1 .. Len(text)) \X X |-> S!Nested(y[2], text[y[1]])]
<1>3. \A i \in 1 .. Len(text) : \A x \in X :
        f[<<i, x>>] = S!Nested(x, text[i]) /\ f[<<i, x>>] \in X
  <2> SUFFICES ASSUME NEW i \in 1 .. Len(text), NEW x \in X
      PROVE  f[<<i, x>>] = S!Nested(x, text[i]) /\ f[<<i, x>>] \in X
    OBVIOUS
  <2>1. f[<<i, x>>] = S!Nested(x, text[i])
    OBVIOUS
  <2> HIDE DEF f
  <2>2. QED
    BY <2>1, NestedType
<1> HIDE DEF f
<1>4. PICK m \in [0 .. Len(text) -> X] :
        m[0] = <<>> /\ \A i \in 1 .. Len(text) : m[i] = f[<<i, m[i - 1]>>]
  <2>1. \A i \in 1 .. Len(text) : \A x \in X : f[<<i, x>>] \in X
    BY <1>3
  <2>2. PICK n \in Nat : n = Len(text)
    BY <1>1
  <2>3. PICK Y, g, p : Y = X /\ g = f /\ p = <<>>
    OBVIOUS
  <2>4. p \in Y /\ Steps(g, n, Y)
    BY <1>2, <2>1, <2>2, <2>3 DEF Steps
  <2>5. \E m \in [0 .. n -> Y] : Run(m, g, n, p)
    BY <2>4, Unfolds
  <2>6. QED
    BY <2>2, <2>3, <2>5 DEF Run
<1> HIDE DEF X
<1>5. m = [n \in 0 .. Len(text) |-> IF n = 0 THEN <<>> ELSE S!Nested(m[n - 1], text[n])]
  <2>1. \A n \in 0 .. Len(text) : n # 0 => n \in 1 .. Len(text) /\ m[n - 1] \in X
    BY <1>1, <1>4
  <2>2. QED
    BY <1>3, <1>4, <2>1
<1>6. \E p : p = [n \in 0 .. Len(text) |-> IF n = 0 THEN <<>> ELSE S!Nested(p[n - 1], text[n])]
  BY <1>5
<1> DEFINE q == S!OpenQuotes(text)
<1>7. q = [n \in 0 .. Len(text) |-> IF n = 0 THEN <<>> ELSE S!Nested(q[n - 1], text[n])]
  BY <1>6 DEF S!OpenQuotes
<1> HIDE DEF q
<1>8. q[0] = <<>> /\ \A n \in 1 .. Len(text) : q[n] = S!Nested(q[n - 1], text[n])
  BY <1>1, <1>7
<1>9. \A n \in 0 .. Len(text) : q[n] \in X
  <2> DEFINE B == {n \in 0 .. Len(text) : q[n] \in X}
  <2>1. 0 \in B
    BY <1>1, <1>2, <1>8
  <2>2. \A i \in 1 .. Len(text) : i - 1 \in B => i \in B
    BY <1>1, <1>8, NestedType DEF X
  <2> HIDE DEF B
  <2>3. \A n \in 0 .. Len(text) : n \in B
    BY <1>1, <2>1, <2>2, Upward
  <2>4. QED
    BY <2>3 DEF B
<1>10. QED
  BY <1>7, <1>8, <1>9 DEF q, X

(* The loop counts the quotes that are open and knows the innermost; those *)
(* next to each other differ, so the one around it is the other.           *)
Counts(p, open) ==
    /\ p.inq = Len(open)
    /\ open # <<>> => p.qty = open[Len(open)]
    /\ \A k \in 1 .. Len(open) - 1 : open[k] # open[k + 1]

LEMMA CountsStep ==
  ASSUME NEW C, NEW sep, Bytes2(C, sep), NEW p \in Split1(C), NEW c \in C,
         NEW open \in Seq(Quotes), Counts(p, open)
  PROVE  Counts(S!SplitByte(p, c, sep), S!Nested(open, c))
<1> DEFINE q == S!SplitByte(p, c, sep)
<1>0. Len(open) \in Nat /\ (open = <<>> <=> Len(open) = 0) /\ \A k \in 1 .. Len(open) : open[k] \in Quotes
  OBVIOUS
<1>1. PICK argv \in Seq(Seq(C)), arg \in Seq(C), inq \in Nat, qty \in C :
        p = [argv |-> argv, arg |-> arg, inq |-> inq, qty |-> qty]
  BY DEF Split1
<1>2. inq = Len(open) /\ (open # <<>> => qty = open[Len(open)])
  BY <1>1 DEF Counts
<1>3. CASE c \notin Quotes
  <2>1. S!Nested(open, c) = open
    BY <1>3, NestedIs
  <2>2. q.inq = inq /\ (inq > 0 => q.qty = qty)
    <3>1. CASE inq > 0
      BY <1>1, <1>3, <3>1 DEF S!SplitByte, S!InQuote
    <3>2. CASE ~ (inq > 0)
      <4>1. inq = 0 /\ q = S!OutOfQuote(p, c, sep)
        BY <1>1, <3>2 DEF S!SplitByte
      <4>2. q.inq = inq
        BY <1>1, <1>3, <4>1 DEF S!OutOfQuote
      <4>3. QED
        BY <3>2, <4>2
    <3>3. QED
      BY <3>1, <3>2
  <2>3. QED
    BY <1>0, <1>2, <2>1, <2>2 DEF Counts
<1>4. CASE c \in Quotes /\ open = <<>>
  <2>1. S!Nested(open, c) = Append(open, c)
    BY <1>4, NestedIs
  <2>2. q.inq = 1 /\ q.qty = c
    <3>1. q = S!OutOfQuote(p, c, sep) /\ c # sep
      BY <1>0, <1>1, <1>2, <1>4 DEF S!SplitByte, Bytes2
    <3>2. QED
      BY <1>1, <1>4, <3>1 DEF S!OutOfQuote
  <2>3. Len(Append(open, c)) = 1 /\ Append(open, c)[1] = c
    BY <1>0, <1>4, AppendProperties
  <2>4. QED
    BY <2>1, <2>2, <2>3 DEF Counts
<1>5. CASE c \in Quotes /\ open # <<>> /\ c # qty
  <2>1. open[Len(open)] # c
    BY <1>2, <1>5
  <2>2. S!Nested(open, c) = Append(open, c)
    BY <1>5, <2>1, NestedIs
  <2>3. q.inq = inq + 1 /\ q.qty = c
    BY <1>0, <1>1, <1>2, <1>5 DEF S!SplitByte, S!InQuote
  <2>4. PICK o2 : o2 = Append(open, c)
    OBVIOUS
  <2>5. /\ Len(o2) = Len(open) + 1 /\ o2[Len(open) + 1] = c
        /\ \A k \in 1 .. Len(open) : o2[k] = open[k]
    BY <1>5, <2>4, AppendProperties
  <2>6. \A k \in 1 .. Len(o2) - 1 : o2[k] # o2[k + 1]
    <3> SUFFICES ASSUME NEW k \in 1 .. Len(o2) - 1 PROVE o2[k] # o2[k + 1]
      OBVIOUS
    <3>1. k \in 1 .. Len(open) /\ (k # Len(open) => k \in 1 .. Len(open) - 1 /\ k + 1 \in 1 .. Len(open))
      BY <1>0, <2>5
    <3>2. CASE k = Len(open)
      BY <1>0, <2>1, <2>5, <3>1, <3>2
    <3>3. CASE k # Len(open)
      BY <2>5, <3>1, <3>3 DEF Counts
    <3>4. QED
      BY <3>2, <3>3
  <2>7. QED
    BY <1>0, <1>2, <2>2, <2>3, <2>4, <2>5, <2>6 DEF Counts
<1>6. CASE c \in Quotes /\ open # <<>> /\ c = qty
  <2>1. open[Len(open)] = c
    BY <1>2, <1>6
  <2>2. PICK o2 : o2 = SubSeq(open, 1, Len(open) - 1)
    OBVIOUS
  <2>3. S!Nested(open, c) = o2
    BY <1>6, <2>1, <2>2, NestedIs
  <2>4. q.inq = inq - 1 /\ q.qty = S!Other(c)
    BY <1>0, <1>1, <1>2, <1>6 DEF S!SplitByte, S!InQuote
  <2>5. Len(o2) = Len(open) - 1 /\ \A k \in 1 .. Len(open) - 1 : o2[k] = open[k]
    <3>1. \A k \in 1 .. Len(open) - 1 : open[k] \in Quotes
      BY <1>0
    <3>2. Len(open) - 1 \in Int /\ Len(open) >= 1
      BY <1>0, <1>6
    <3>3. PICK n \in Int : n = Len(open) - 1
      BY <3>2
    <3>4. \A k \in 1 .. n : open[k] \in Quotes
      BY <3>1, <3>3
    <3>5. /\ Len(SubSeq(open, 1, n)) = IF 1 <= n THEN n - 1 + 1 ELSE 0
          /\ \A k \in 1 .. n - 1 + 1 : SubSeq(open, 1, n)[k] = open[1 + k - 1]
      BY <3>4, SubSeqProperties
    <3>6. Len(o2) = n
      BY <2>2, <3>2, <3>3, <3>5
    <3>7. \A k \in 1 .. n : o2[k] = open[k]
      BY <2>2, <3>3, <3>5
    <3>8. QED
      BY <3>3, <3>6, <3>7
  <2>6. o2 # <<>> => S!Other(c) = o2[Len(o2)]
    <3> SUFFICES ASSUME o2 # <<>> PROVE S!Other(c) = o2[Len(o2)]
      OBVIOUS
    <3>1. Len(open) # 1
      <4>1. Len(open) = 1 => SubSeq(open, 1, Len(open) - 1) = <<>>
        BY SubSeqEmpty
      <4>2. QED
        BY <2>2, <4>1
    <3>2. Len(open) - 1 \in 1 .. Len(open) - 1 /\ Len(open) - 1 \in 1 .. Len(open)
      <4>1. Len(open) \in Nat /\ Len(open) # 0 /\ Len(open) # 1
        BY <1>0, <1>6, <3>1
      <4>2. PICK n \in Nat : n = Len(open)
        BY <4>1
      <4>3. n - 1 \in 1 .. n - 1 /\ n - 1 \in 1 .. n
        <5>1. n # 0 /\ n # 1
          BY <4>1, <4>2
        <5>2. n >= 2
          BY <5>1
        <5>3. QED
          BY <5>2
      <4>4. QED
        BY <4>2, <4>3
    <3>3. open[Len(open) - 1] # open[(Len(open) - 1) + 1] /\ (Len(open) - 1) + 1 = Len(open)
      BY <1>0, <3>2 DEF Counts
    <3>4. open[Len(open) - 1] # c /\ open[Len(open) - 1] \in Quotes
      BY <1>0, <2>1, <3>2, <3>3
    <3>5. o2[Len(o2)] = open[Len(open) - 1]
      BY <2>5, <3>2
    <3>6. QED
      BY <1>6, <3>4, <3>5, OtherIs
  <2>7. \A k \in 1 .. Len(o2) - 1 : o2[k] # o2[k + 1]
    <3> SUFFICES ASSUME NEW k \in 1 .. Len(o2) - 1 PROVE o2[k] # o2[k + 1]
      OBVIOUS
    <3>1. k \in 1 .. Len(open) - 1 /\ k + 1 \in 1 .. Len(open) - 1
      BY <1>0, <2>5
    <3>2. QED
      BY <2>5, <3>1 DEF Counts
  <2>8. QED
    BY <1>0, <1>2, <2>3, <2>4, <2>5, <2>6, <2>7 DEF Counts
<1>7. QED
  BY <1>3, <1>4, <1>5, <1>6

(* What a byte does to the arguments.                                      *)
LEMMA SplitByteArgs ==
  ASSUME NEW C, NEW sep, Bytes2(C, sep), NEW p \in Split1(C), NEW c \in C,
         NEW open \in Seq(Quotes), Counts(p, open)
  PROVE  /\ c = sep /\ open = <<>> =>
              /\ S!SplitByte(p, c, sep).arg = <<>>
              /\ S!SplitByte(p, c, sep).argv = IF p.arg = <<>> THEN p.argv ELSE Append(p.argv, p.arg)
         /\ ~ (c = sep /\ open = <<>>) =>
              /\ S!SplitByte(p, c, sep).arg = Append(p.arg, c)
              /\ S!SplitByte(p, c, sep).argv = p.argv
<1>1. PICK argv \in Seq(Seq(C)), arg \in Seq(C), inq \in Nat, qty \in C :
        p = [argv |-> argv, arg |-> arg, inq |-> inq, qty |-> qty]
  BY DEF Split1
<1>2. Len(open) \in Nat /\ (open = <<>> <=> Len(open) = 0) /\ inq = Len(open)
  BY <1>1 DEF Counts
<1>3. CASE open # <<>>
  <2>1. inq > 0
    BY <1>2, <1>3
  <2>2. QED
    BY <1>1, <1>3, <2>1 DEF S!SplitByte, S!InQuote
<1>4. CASE open = <<>>
  <2>1. S!SplitByte(p, c, sep) = S!OutOfQuote(p, c, sep)
    BY <1>1, <1>2, <1>4 DEF S!SplitByte
  <2>2. CASE c = sep
    BY <1>1, <1>4, <2>1, <2>2 DEF S!OutOfQuote
  <2>3. CASE c # sep
    BY <1>1, <1>4, <2>1, <2>3 DEF S!OutOfQuote
  <2>4. QED
    BY <2>2, <2>3
<1>5. QED
  BY <1>3, <1>4

(* An argument ends where no cut was met and one follows.                  *)
LEMMA EndOfIs ==
  ASSUME NEW C, NEW text \in Seq(C), NEW cut, NEW i \in Nat, NEW j \in i .. Len(text),
         (i .. j) \cap cut = {}, j = Len(text) \/ j + 1 \in cut
  PROVE  S!EndOf(text, cut, i) = j
<1>1. Len(text) \in Nat /\ j \in Nat
  OBVIOUS
<1>2. ASSUME NEW h \in i .. Len(text), (i .. h) \cap cut = {}, h = Len(text) \/ h + 1 \in cut
      PROVE  h = j
  <2>1. ~ (h < j)
    <3> SUFFICES ASSUME h < j PROVE FALSE
      OBVIOUS
    <3>1. h + 1 \in i .. j /\ h # Len(text)
      BY <1>1
    <3>2. QED
      BY <1>2, <3>1
  <2>2. ~ (j < h)
    <3> SUFFICES ASSUME j < h PROVE FALSE
      OBVIOUS
    <3>1. j + 1 \in i .. h /\ j # Len(text)
      BY <1>1
    <3>2. QED
      BY <1>2, <3>1
  <2>3. QED
    BY <1>1, <2>1, <2>2
<1>3. QED
  BY <1>2 DEF S!EndOf

(* The arguments after n bytes: those that are over and the one, if any,   *)
(* that has begun; fs are the places where they begin.                     *)
Pieces(text, cut, argv, arg, fs, n) ==
    /\ Increasing(fs)
    /\ \A i : (i \in S!Begins(text, cut) /\ i <= n) <=> \E k \in 1 .. Len(fs) : fs[k] = i
    /\ Len(argv) <= Len(fs)
    /\ \A k \in 1 .. Len(argv) : argv[k] = SubSeq(text, fs[k], S!EndOf(text, cut, fs[k]))
    /\ n = 0 \/ n \in cut => Len(fs) = Len(argv) /\ arg = <<>>
    /\ ~ (n = 0 \/ n \in cut) =>
         /\ Len(fs) = Len(argv) + 1
         /\ fs[Len(fs)] <= n
         /\ (fs[Len(fs)] .. n) \cap cut = {}
         /\ arg = SubSeq(text, fs[Len(fs)], n)

LEMMA BeginsIs ==
  ASSUME NEW C, NEW text \in Seq(C), NEW cut
  PROVE  \A i : i \in S!Begins(text, cut) <=>
                  i \in 1 .. Len(text) /\ i \notin cut /\ (i = 1 \/ i - 1 \in cut)
BY DEF S!Begins

(* The byte is a cut: the argument that has begun, if any, is over.        *)
LEMMA PiecesCut ==
  ASSUME NEW C, NEW text \in Seq(C), NEW cut, NEW n \in 1 .. Len(text), n \in cut,
         NEW argv \in Seq(Seq(C)), NEW arg \in Seq(C), NEW fs \in Seq(Nat),
         Pieces(text, cut, argv, arg, fs, n - 1)
  PROVE  Pieces(text, cut, IF arg = <<>> THEN argv ELSE Append(argv, arg), <<>>, fs, n)
<1> DEFINE av == IF arg = <<>> THEN argv ELSE Append(argv, arg)
<1>0. /\ Len(fs) \in Nat /\ Len(argv) \in Nat /\ n - 1 \in Nat /\ n \in Nat /\ n # 0
      /\ Len(text) \in Nat /\ \A k \in 1 .. Len(fs) : fs[k] \in Nat
  OBVIOUS
<1>1. \A i : (i \in S!Begins(text, cut) /\ i <= n) <=> (i \in S!Begins(text, cut) /\ i <= n - 1)
  BY <1>0, BeginsIs
<1>2. CASE n - 1 = 0 \/ n - 1 \in cut
  <2>1. Len(fs) = Len(argv) /\ arg = <<>>
    BY <1>2 DEF Pieces
  <2>2. av = argv
    BY <2>1
  <2>3. QED
    BY <1>0, <1>1, <2>1, <2>2 DEF Pieces
<1>3. CASE ~ (n - 1 = 0 \/ n - 1 \in cut)
  <2>1. PICK f : f = fs[Len(fs)]
    OBVIOUS
  <2>2. Len(fs) = Len(argv) + 1 /\ f <= n - 1 /\ (f .. n - 1) \cap cut = {} /\ arg = SubSeq(text, f, n - 1)
    BY <1>3, <2>1 DEF Pieces
  <2>3. f \in Nat
    BY <1>0, <2>1, <2>2
  <2>4. f \in 1 .. Len(text)
    <3>1. \E k \in 1 .. Len(fs) : fs[k] = f
      BY <1>0, <2>1, <2>2
    <3>2. f \in S!Begins(text, cut)
      BY <3>1 DEF Pieces
    <3>3. QED
      BY <3>2, BeginsIs
  <2>5. S!EndOf(text, cut, f) = n - 1
    <3>1. PICK j : j = n - 1
      OBVIOUS
    <3>2. j \in f .. Len(text) /\ (f .. j) \cap cut = {} /\ j + 1 \in cut
      BY <1>0, <2>2, <2>3, <3>1
    <3>3. QED
      BY <2>3, <3>1, <3>2, EndOfIs
  <2>6. arg # <<>>
    <3>1. \A i \in f .. n - 1 : text[i] \in C
      BY <1>0, <2>4
    <3>2. f \in Int /\ n - 1 \in Int
      BY <1>0, <2>3
    <3>3. Len(arg) = IF f <= n - 1 THEN n - 1 - f + 1 ELSE 0
      BY <2>2, <3>1, <3>2, SubSeqProperties
    <3>4. Len(arg) # 0
      BY <2>2, <3>2, <3>3
    <3>5. QED
      BY <3>4
  <2>7. PICK a2 : a2 = Append(argv, arg)
    OBVIOUS
  <2>8. av = a2
    BY <2>6, <2>7
  <2>9. Len(a2) = Len(argv) + 1 /\ a2[Len(argv) + 1] = arg /\ \A k \in 1 .. Len(argv) : a2[k] = argv[k]
    BY <2>7, AppendProperties
  <2>10. \A k \in 1 .. Len(a2) : a2[k] = SubSeq(text, fs[k], S!EndOf(text, cut, fs[k]))
    <3> SUFFICES ASSUME NEW k \in 1 .. Len(a2)
        PROVE  a2[k] = SubSeq(text, fs[k], S!EndOf(text, cut, fs[k]))
      OBVIOUS
    <3>1. CASE k = Len(argv) + 1
      BY <2>1, <2>2, <2>5, <2>9, <3>1
    <3>2. CASE k # Len(argv) + 1
      <4>1. k \in 1 .. Len(argv)
        <5>1. PICK m \in Nat : m = Len(argv)
          BY <1>0
        <5>2. k \in 1 .. m + 1 /\ k # m + 1
          BY <2>9, <3>2, <5>1
        <5>3. k \in 1 .. m
          BY <5>2
        <5>4. QED
          BY <5>1, <5>3
      <4>2. QED
        BY <2>9, <4>1 DEF Pieces
    <3>3. QED
      BY <3>1, <3>2
  <2>11. Len(fs) = Len(a2)
    BY <2>2, <2>9
  <2>12. Increasing(fs)
    BY DEF Pieces
  <2>13. \A i : (i \in S!Begins(text, cut) /\ i <= n) <=> \E k \in 1 .. Len(fs) : fs[k] = i
    BY <1>1 DEF Pieces
  <2> HIDE DEF av
  <2>14. Pieces(text, cut, av, <<>>, fs, n)
    BY <1>0, <2>8, <2>10, <2>11, <2>12, <2>13 DEF Pieces
  <2>15. QED
    BY <2>14 DEF av
<1>4. QED
  BY <1>2, <1>3

(* The byte is none: it belongs to the argument that has begun, or begins  *)
(* one.                                                                    *)
LEMMA PiecesByte ==
  ASSUME NEW C, NEW text \in Seq(C), NEW cut, NEW n \in 1 .. Len(text), n \notin cut,
         NEW argv \in Seq(Seq(C)), NEW arg \in Seq(C), NEW fs \in Seq(Nat),
         Pieces(text, cut, argv, arg, fs, n - 1)
  PROVE  \E gs \in Seq(Nat) : Pieces(text, cut, argv, Append(arg, text[n]), gs, n)
<1>0. /\ Len(fs) \in Nat /\ Len(argv) \in Nat /\ n - 1 \in Nat /\ n \in Nat /\ n # 0
      /\ Len(text) \in Nat /\ \A k \in 1 .. Len(fs) : fs[k] \in Nat
  OBVIOUS
<1>1. \A i \in 1 .. Len(text) : text[i] \in C
  OBVIOUS
<1>2. CASE n - 1 = 0 \/ n - 1 \in cut
  <2>1. Len(fs) = Len(argv) /\ arg = <<>>
    BY <1>2 DEF Pieces
  <2>2. n \in S!Begins(text, cut)
    <3>1. n = 1 \/ n - 1 \in cut
      BY <1>0, <1>2
    <3>2. QED
      BY <3>1, BeginsIs
  <2>3. PICK gs : gs = Append(fs, n)
    OBVIOUS
  <2>4. /\ gs \in Seq(Nat) /\ Len(gs) = Len(fs) + 1 /\ gs[Len(fs) + 1] = n
        /\ \A k \in 1 .. Len(fs) : gs[k] = fs[k]
    BY <1>0, <2>3, AppendProperties
  <2>5. PICK m \in Nat : m = Len(fs)
    BY <1>0
  <2>6. /\ Len(gs) = m + 1 /\ gs[m + 1] = n
        /\ \A k \in 1 .. m : gs[k] = fs[k] /\ fs[k] \in Nat
    BY <1>0, <2>4, <2>5
  <2>7. \A k \in 1 .. m : fs[k] <= n - 1
    BY <2>5 DEF Pieces
  <2>8. \A k \in 1 .. m + 1 : k \in 1 .. m \/ k = m + 1
    OBVIOUS
  <2>9. Increasing(gs)
    <3>1. ASSUME NEW k \in 1 .. m + 1, NEW l \in 1 .. m + 1, k < l PROVE gs[k] < gs[l]
      <4>1. k \in 1 .. m
        BY <3>1
      <4>2. CASE l = m + 1
        <5>1. gs[l] = n /\ gs[k] = fs[k] /\ fs[k] \in Nat /\ fs[k] <= n - 1
          BY <2>6, <2>7, <4>1, <4>2
        <5>2. QED
          BY <1>0, <5>1
      <4>3. CASE l \in 1 .. m
        <5>1. fs[k] < fs[l]
          BY <2>5, <3>1, <4>1, <4>3 DEF Pieces, Increasing
        <5>2. QED
          BY <2>6, <4>1, <4>3, <5>1
      <4>4. QED
        BY <2>8, <4>2, <4>3
    <3>2. QED
      BY <2>6, <3>1 DEF Increasing
  <2>10. \A i : (i \in S!Begins(text, cut) /\ i <= n) <=> \E k \in 1 .. Len(gs) : gs[k] = i
    <3>1. ASSUME NEW i, i \in S!Begins(text, cut), i <= n PROVE \E k \in 1 .. Len(gs) : gs[k] = i
      <4>1. CASE i = n
        <5>1. m + 1 \in 1 .. Len(gs)
          BY <2>6
        <5>2. QED
          BY <2>6, <4>1, <5>1
      <4>2. CASE i # n
        <5>1. i <= n - 1
          BY <1>0, <3>1, <4>2, BeginsIs
        <5>2. PICK k \in 1 .. m : fs[k] = i
          BY <2>5, <3>1, <5>1 DEF Pieces
        <5>3. k \in 1 .. Len(gs)
          BY <2>6
        <5>4. QED
          BY <2>6, <5>2, <5>3
      <4>3. QED
        BY <4>1, <4>2
    <3>2. ASSUME NEW k \in 1 .. Len(gs) PROVE gs[k] \in S!Begins(text, cut) /\ gs[k] <= n
      <4>1. CASE k = m + 1
        BY <1>0, <2>2, <2>6, <4>1
      <4>2. CASE k \in 1 .. m
        <5>1. fs[k] \in S!Begins(text, cut) /\ fs[k] <= n - 1
          BY <2>5, <4>2 DEF Pieces
        <5>2. QED
          BY <1>0, <2>6, <4>2, <5>1
      <4>3. QED
        BY <2>6, <2>8, <4>1, <4>2
    <3>3. QED
      BY <3>1, <3>2
  <2>11. \A k \in 1 .. Len(argv) : argv[k] = SubSeq(text, gs[k], S!EndOf(text, cut, gs[k]))
    BY <2>1, <2>4 DEF Pieces
  <2>12. Append(arg, text[n]) = SubSeq(text, n, n)
    <3>1. n \in n .. Len(text) /\ n \in Int /\ n - 1 \in Int /\ n - 1 < n
      BY <1>0
    <3>2. SubSeq(text, n, n) = SubSeq(text, n, n - 1) \o <<text[n]>>
      BY <3>1, SubSeqRecursiveSecond
    <3>3. SubSeq(text, n, n - 1) = <<>>
      BY <3>1, SubSeqEmpty
    <3>4. Append(arg, text[n]) = arg \o <<text[n]>>
      BY <1>1, AppendIsConcat
    <3>5. QED
      BY <2>1, <3>2, <3>3, <3>4
  <2>13. gs[Len(gs)] = n
    BY <2>6
  <2>14. (n .. n) \cap cut = {}
    BY <1>0
  <2>15. Len(gs) = Len(argv) + 1 /\ Len(argv) <= Len(gs)
    BY <1>0, <2>1, <2>4
  <2>16. Pieces(text, cut, argv, Append(arg, text[n]), gs, n)
    BY <1>0, <2>9, <2>10, <2>11, <2>12, <2>13, <2>14, <2>15 DEF Pieces
  <2>17. QED
    BY <2>4, <2>16
<1>3. CASE ~ (n - 1 = 0 \/ n - 1 \in cut)
  <2>1. PICK f : f = fs[Len(fs)]
    OBVIOUS
  <2>2. Len(fs) = Len(argv) + 1 /\ f <= n - 1 /\ (f .. n - 1) \cap cut = {} /\ arg = SubSeq(text, f, n - 1)
    BY <1>3, <2>1 DEF Pieces
  <2>3. f \in Nat
    BY <1>0, <2>1, <2>2
  <2>4. f \in 1 .. Len(text)
    <3>1. \E k \in 1 .. Len(fs) : fs[k] = f
      BY <1>0, <2>1, <2>2
    <3>2. f \in S!Begins(text, cut)
      BY <3>1 DEF Pieces
    <3>3. QED
      BY <3>2, BeginsIs
  <2>5. n \notin S!Begins(text, cut)
    <3>1. n # 1 /\ n - 1 \notin cut
      BY <1>0, <1>3
    <3>2. QED
      BY <3>1, BeginsIs
  <2>6. \A i : (i \in S!Begins(text, cut) /\ i <= n) <=> (i \in S!Begins(text, cut) /\ i <= n - 1)
    BY <1>0, <2>5, BeginsIs
  <2>7. Append(arg, text[n]) = SubSeq(text, f, n)
    <3>1. n \in f .. Len(text)
      BY <1>0, <2>2, <2>3
    <3>2. SubSeq(text, f, n) = SubSeq(text, f, n - 1) \o <<text[n]>>
      BY <2>4, <3>1, SubSeqRecursiveSecond
    <3>3. Append(arg, text[n]) = arg \o <<text[n]>>
      BY <1>1, AppendIsConcat
    <3>4. QED
      BY <2>2, <3>2, <3>3
  <2>8. (f .. n) \cap cut = {} /\ f <= n
    <3>1. \A i \in f .. n : i = n \/ i \in f .. n - 1
      BY <1>0, <2>3
    <3>2. QED
      BY <1>0, <2>2, <2>3, <3>1
  <2>9. \A i : (i \in S!Begins(text, cut) /\ i <= n) <=> \E k \in 1 .. Len(fs) : fs[k] = i
    BY <2>6 DEF Pieces
  <2>10. Pieces(text, cut, argv, Append(arg, text[n]), fs, n)
    <3>1. Increasing(fs) /\ Len(argv) <= Len(fs)
          /\ \A k \in 1 .. Len(argv) : argv[k] = SubSeq(text, fs[k], S!EndOf(text, cut, fs[k]))
      BY DEF Pieces
    <3>2. QED
      BY <1>0, <2>1, <2>2, <2>7, <2>8, <2>9, <3>1 DEF Pieces
  <2>11. QED
    BY <2>10
<1>4. QED
  BY <1>2, <1>3

(* The loop, after each of the bytes.                                      *)
LoopAt(text, sep, n) ==
    /\ Counts(S!Splitting(text, sep)[n], S!OpenQuotes(text)[n])
    /\ \E fs \in Seq(Nat) :
          Pieces(text, S!Cuts(text, sep), S!Splitting(text, sep)[n].argv,
                 S!Splitting(text, sep)[n].arg, fs, n)

LEMMA LoopStarts ==
  ASSUME NEW C, NEW sep, Bytes2(C, sep), NEW text \in Seq(C)
  PROVE  LoopAt(text, sep, 0)
<1>1. S!Splitting(text, sep)[0] = SplitFrom(sep) /\ S!OpenQuotes(text)[0] = <<>>
  BY SplittingIs, OpenQuotesIs
<1>2. Counts(SplitFrom(sep), <<>>)
  BY DEF Counts, SplitFrom
<1>3. Pieces(text, S!Cuts(text, sep), <<>>, <<>>, <<>>, 0)
  <2>1. \A i : i \in S!Begins(text, S!Cuts(text, sep)) => i \in 1 .. Len(text)
    BY BeginsIs
  <2>2. \A i : ~ (i \in S!Begins(text, S!Cuts(text, sep)) /\ i <= 0)
    BY <2>1
  <2>3. QED
    BY <2>2 DEF Pieces, Increasing
<1>4. <<>> \in Seq(Nat)
  BY EmptySeq
<1>5. SplitFrom(sep).argv = <<>> /\ SplitFrom(sep).arg = <<>>
  BY DEF SplitFrom
<1>6. Pieces(text, S!Cuts(text, sep), SplitFrom(sep).argv, SplitFrom(sep).arg, <<>>, 0)
  BY <1>3, <1>5
<1>7. QED
  BY <1>1, <1>2, <1>4, <1>6 DEF LoopAt

LEMMA CutsAre ==
  ASSUME NEW C, NEW text \in Seq(C), NEW sep
  PROVE  \A i : i \in S!Cuts(text, sep) <=>
                  i \in 1 .. Len(text) /\ text[i] = sep /\ S!OpenQuotes(text)[i - 1] = <<>>
BY DEF S!Cuts

LEMMA LoopGoesOn ==
  ASSUME NEW C, NEW sep, Bytes2(C, sep), NEW text \in Seq(C),
         NEW n \in 1 .. Len(text), LoopAt(text, sep, n - 1)
  PROVE  LoopAt(text, sep, n)
<1>0. PICK p, q, o, cut :
        /\ p = S!Splitting(text, sep)[n - 1] /\ q = S!Splitting(text, sep)[n]
        /\ o = S!OpenQuotes(text)[n - 1] /\ cut = S!Cuts(text, sep)
  OBVIOUS
<1>1. Len(text) \in Nat /\ n - 1 \in 0 .. Len(text) /\ n \in 0 .. Len(text)
  OBVIOUS
<1>2. p \in Split1(C) /\ q \in Split1(C) /\ q = S!SplitByte(p, text[n], sep)
  <2>1. S!Splitting(text, sep) \in [0 .. Len(text) -> Split1(C)]
    BY SplittingIs
  <2>2. S!Splitting(text, sep)[n] = S!SplitByte(S!Splitting(text, sep)[n - 1], text[n], sep)
    BY SplittingIs
  <2>3. QED
    BY <1>0, <1>1, <2>1, <2>2
<1>3. o \in Seq(Quotes) /\ S!OpenQuotes(text)[n] = S!Nested(o, text[n])
  <2>1. S!OpenQuotes(text) \in [0 .. Len(text) -> Seq(Quotes)]
    BY OpenQuotesIs
  <2>2. S!OpenQuotes(text)[n] = S!Nested(S!OpenQuotes(text)[n - 1], text[n])
    BY OpenQuotesIs
  <2>3. QED
    BY <1>0, <1>1, <2>1, <2>2
<1>4. text[n] \in C
  OBVIOUS
<1>5. Counts(p, o)
  BY <1>0 DEF LoopAt
<1>6. Counts(q, S!OpenQuotes(text)[n])
  BY <1>2, <1>3, <1>4, <1>5, CountsStep
<1>7. PICK fs \in Seq(Nat) : Pieces(text, cut, p.argv, p.arg, fs, n - 1)
  BY <1>0 DEF LoopAt
<1>8. p.argv \in Seq(Seq(C)) /\ p.arg \in Seq(C)
  BY <1>2 DEF Split1
<1>9. n \in cut <=> text[n] = sep /\ o = <<>>
  BY <1>0, CutsAre
<1>10. \E gs \in Seq(Nat) : Pieces(text, cut, q.argv, q.arg, gs, n)
  <2>1. CASE n \in cut
    <3>1. q.arg = <<>> /\ q.argv = IF p.arg = <<>> THEN p.argv ELSE Append(p.argv, p.arg)
      BY <1>2, <1>3, <1>4, <1>5, <1>9, <2>1, SplitByteArgs
    <3>2. Pieces(text, cut, IF p.arg = <<>> THEN p.argv ELSE Append(p.argv, p.arg), <<>>, fs, n)
      BY <1>7, <1>8, <2>1, PiecesCut
    <3>3. QED
      BY <1>7, <3>1, <3>2
  <2>2. CASE n \notin cut
    <3>1. q.arg = Append(p.arg, text[n]) /\ q.argv = p.argv
      BY <1>2, <1>3, <1>4, <1>5, <1>9, <2>2, SplitByteArgs
    <3>2. \E gs \in Seq(Nat) : Pieces(text, cut, p.argv, Append(p.arg, text[n]), gs, n)
      BY <1>7, <1>8, <2>2, PiecesByte
    <3>3. QED
      BY <3>1, <3>2
  <2>3. QED
    BY <2>1, <2>2
<1>11. QED
  BY <1>0, <1>6, <1>10 DEF LoopAt

LEMMA LoopAlways ==
  ASSUME NEW C, NEW sep, Bytes2(C, sep), NEW text \in Seq(C)
  PROVE  LoopAt(text, sep, Len(text))
<1>1. Len(text) \in Nat
  OBVIOUS
<1> DEFINE B == {n \in 0 .. Len(text) : LoopAt(text, sep, n)}
<1>2. 0 \in B
  BY <1>1, LoopStarts
<1>3. \A i \in 1 .. Len(text) : i - 1 \in B => i \in B
  <2> SUFFICES ASSUME NEW i \in 1 .. Len(text), i - 1 \in B PROVE i \in B
    OBVIOUS
  <2>1. LoopAt(text, sep, i - 1)
    OBVIOUS
  <2>2. LoopAt(text, sep, i)
    BY <2>1, LoopGoesOn
  <2>3. QED
    BY <1>1, <2>2
<1> HIDE DEF B
<1>4. \A n \in 0 .. Len(text) : n \in B
  BY <1>1, <1>2, <1>3, Upward
<1>5. QED
  BY <1>1, <1>4 DEF B

(* The split is a sequence of texts over the bytes of its text.            *)
LEMMA SplitType ==
  ASSUME NEW C, NEW sep, Bytes2(C, sep), NEW text \in Seq(C)
  PROVE  S!Split(text, sep) \in Seq(Seq(C))
<1>1. PICK p : p = S!Splitting(text, sep)[Len(text)]
  OBVIOUS
<1>2. p \in Split1(C)
  <2>1. S!Splitting(text, sep) \in [0 .. Len(text) -> Split1(C)] /\ Len(text) \in Nat
    BY SplittingIs
  <2>2. QED
    BY <1>1, <2>1
<1>3. p.argv \in Seq(Seq(C)) /\ p.arg \in Seq(C)
  BY <1>2 DEF Split1
<1>4. Append(p.argv, p.arg) \in Seq(Seq(C))
  BY <1>3, AppendProperties
<1>5. QED
  BY <1>1, <1>3, <1>4 DEF S!Split

(* The split of any text is the one that a stack of open quotes gives.     *)
LEMMA SplitIsRef ==
  ASSUME NEW C, NEW sep, Bytes2(C, sep), NEW text \in Seq(C)
  PROVE  S!Split(text, sep) = S!SplitRef(text, sep)
<1>0. PICK p, cut, N, begins :
        /\ p = S!Splitting(text, sep)[Len(text)] /\ cut = S!Cuts(text, sep)
        /\ N = Len(text) /\ begins = S!Begins(text, cut)
  OBVIOUS
<1>1. N \in Nat
  BY <1>0
<1>2. p.argv \in Seq(Seq(C)) /\ p.arg \in Seq(C)
  <2>1. S!Splitting(text, sep) \in [0 .. Len(text) -> Split1(C)] /\ Len(text) \in Nat
    BY SplittingIs
  <2>2. p \in Split1(C)
    BY <1>0, <2>1
  <2>3. QED
    BY <2>2 DEF Split1
<1>3. PICK fs \in Seq(Nat) : Pieces(text, cut, p.argv, p.arg, fs, N)
  BY <1>0, LoopAlways DEF LoopAt
<1>4. \A i : i \in begins => i \in 1 .. N
  BY <1>0, BeginsIs
<1>5. Lists(fs, begins)
  <2>1. \A i : i \in begins <=> \E k \in 1 .. Len(fs) : fs[k] = i
    BY <1>0, <1>1, <1>3, <1>4 DEF Pieces
  <2>2. Increasing(fs)
    BY <1>3 DEF Pieces
  <2>3. QED
    BY <2>1, <2>2 DEF Lists
<1>6. Cardinality(begins) = Len(fs) /\ \A k \in 1 .. Len(fs) : S!Nth(begins, k) = fs[k]
  BY <1>5, NthOfList
<1> DEFINE piece == [k \in 1 .. Len(fs) |-> SubSeq(text, fs[k], S!EndOf(text, cut, fs[k]))]
<1>7. S!SplitRef(text, sep) = piece
  <2>1. S!Cardinality(begins) = Len(fs)
    BY <1>6, SameCount
  <2>2. QED
    BY <1>0, <1>6, <2>1 DEF S!SplitRef
<1>8. S!Split(text, sep) = IF p.arg = <<>> THEN p.argv ELSE Append(p.argv, p.arg)
  BY <1>0 DEF S!Split
<1>9. PICK r : r = S!Split(text, sep)
  OBVIOUS
<1>10. r \in Seq(Seq(C))
  BY <1>9, SplitType
<1>11. Len(r) = Len(fs) /\ \A k \in 1 .. Len(fs) : r[k] = SubSeq(text, fs[k], S!EndOf(text, cut, fs[k]))
  <2>0. Len(fs) \in Nat /\ Len(p.argv) \in Nat /\ \A k \in 1 .. Len(fs) : fs[k] \in Nat
    BY <1>2
  <2>1. CASE N = 0 \/ N \in cut
    <3>1. Len(fs) = Len(p.argv) /\ p.arg = <<>>
      BY <1>3, <2>1 DEF Pieces
    <3>2. r = p.argv
      BY <1>8, <1>9, <3>1
    <3>3. QED
      BY <1>3, <3>1, <3>2 DEF Pieces
  <2>2. CASE ~ (N = 0 \/ N \in cut)
    <3>1. PICK f, m : f = fs[Len(fs)] /\ m = Len(p.argv)
      OBVIOUS
    <3>2. Len(fs) = m + 1 /\ f <= N /\ (f .. N) \cap cut = {} /\ p.arg = SubSeq(text, f, N)
      BY <1>3, <2>2, <3>1 DEF Pieces
    <3>3. f \in Nat /\ m \in Nat
      BY <2>0, <3>1, <3>2
    <3>4. f \in 1 .. N
      <4>1. \E k \in 1 .. Len(fs) : fs[k] = f
        BY <2>0, <3>1, <3>2
      <4>2. f \in begins
        BY <1>5, <4>1 DEF Lists
      <4>3. QED
        BY <1>4, <4>2
    <3>5. S!EndOf(text, cut, f) = N
      <4>1. N \in f .. Len(text) /\ N = Len(text)
        BY <1>0, <1>1, <3>2, <3>3
      <4>2. QED
        BY <3>2, <3>3, <4>1, EndOfIs
    <3>6. p.arg # <<>>
      <4>1. \A i \in f .. N : text[i] \in C
        BY <1>0, <1>1, <3>4
      <4>2. f \in Int /\ N \in Int
        BY <1>1, <3>3
      <4>3. Len(p.arg) = IF f <= N THEN N - f + 1 ELSE 0
        BY <3>2, <4>1, <4>2, SubSeqProperties
      <4>4. Len(p.arg) # 0
        BY <3>2, <4>2, <4>3
      <4>5. QED
        BY <4>4
    <3>7. r = Append(p.argv, p.arg)
      BY <1>8, <1>9, <3>6
    <3>8. Len(r) = m + 1 /\ r[m + 1] = p.arg /\ \A k \in 1 .. m : r[k] = p.argv[k]
      BY <1>2, <3>1, <3>7, AppendProperties
    <3>9. \A k \in 1 .. m + 1 : k = m + 1 \/ k \in 1 .. m
      BY <3>3
    <3>10. \A k \in 1 .. m + 1 : r[k] = SubSeq(text, fs[k], S!EndOf(text, cut, fs[k]))
      <4> SUFFICES ASSUME NEW k \in 1 .. m + 1
          PROVE  r[k] = SubSeq(text, fs[k], S!EndOf(text, cut, fs[k]))
        OBVIOUS
      <4>1. CASE k = m + 1
        BY <3>1, <3>2, <3>5, <3>8, <4>1
      <4>2. CASE k \in 1 .. m
        BY <1>3, <3>1, <3>8, <4>2 DEF Pieces
      <4>3. QED
        BY <3>9, <4>1, <4>2
    <3>11. QED
      BY <3>2, <3>8, <3>10
  <2>3. QED
    BY <2>1, <2>2
<1>12. r = piece
  <2>1. r = [k \in 1 .. Len(r) |-> r[k]]
    BY <1>10
  <2>2. QED
    BY <1>11, <2>1
<1>13. QED
  BY <1>7, <1>9, <1>12

(* The split of a line is the one that a stack of open quotes gives: here  *)
(* for texts of any length over any bytes (atm_str.c:399).                 *)
THEOREM SplitIsByStack ==
  \A C : \A text \in Seq(C \cup Quotes \cup {SP}) : S!Split(text, SP) = S!SplitRef(text, SP)
<1> SUFFICES ASSUME NEW C, NEW text \in Seq(C \cup Quotes \cup {SP})
    PROVE  S!Split(text, SP) = S!SplitRef(text, SP)
  OBVIOUS
<1>1. Bytes2(C \cup Quotes \cup {SP}, SP)
  BY DEF Bytes2, Quotes, SP
<1>2. QED
  BY <1>1, SplitIsRef

(* The same as the run states it.                                          *)
THEOREM SplitAlwaysByStack == Spec => []SplitByStack
<1>1. SplitByStack
  <2>1. \A n \in 0 .. 5 : \A text \in [1 .. n -> {"w", SP} \cup Quotes] :
           S!Split(text, SP) = S!SplitRef(text, SP)
    <3> SUFFICES ASSUME NEW n \in 0 .. 5, NEW text \in [1 .. n -> {"w", SP} \cup Quotes]
        PROVE  S!Split(text, SP) = S!SplitRef(text, SP)
      OBVIOUS
    <3>1. text \in Seq({"w", SP} \cup Quotes) /\ {"w", SP} \cup Quotes = {"w"} \cup Quotes \cup {SP}
      OBVIOUS
    <3>2. QED
      BY <3>1, SplitIsByStack
  <2>2. QED
    BY <2>1 DEF SplitByStack
<1>2. QED
  BY <1>1, PTL

-----------------------------------------------------------------------------
(* What the lines that are left say.  The line of request k begins after   *)
(* the first st[k] bytes of p; before all of them there may be the LF of a *)
(* line that was taken at its CR.                                          *)
LineOf(req) == req.text \o req.eol

Lined(p, st, sc, r, m) ==
    /\ st \in [r + 1 .. m + 1 -> Nat]
    /\ st[r + 1] \in {0, 1}
    /\ st[r + 1] = 1 => p[1] = LF
    /\ st[m + 1] = Len(p)
    /\ \A x, y \in r + 1 .. m + 1 : x <= y => st[x] <= st[y]
    /\ \A x \in r + 1 .. m :
         /\ st[x + 1] = st[x] + Len(LineOf(sc[x]))
         /\ \A j \in 1 .. Len(LineOf(sc[x])) : p[st[x] + j] = LineOf(sc[x])[j]

GoodScript(sc) ==
    /\ sc \in Seq(Request)
    /\ \A i \in 1 .. Len(sc) :
         sc[i].text # <<>> /\ \A j \in 1 .. Len(sc[i].text) : sc[i].text[j] \notin NL

LEMMA LineParts ==
  ASSUME NEW sc, GoodScript(sc), NEW i \in 1 .. Len(sc)
  PROVE  /\ LineOf(sc[i]) \in Seq(Byte)
         /\ Len(sc[i].text) \in Nat /\ Len(sc[i].text) >= 1
         /\ Len(LineOf(sc[i])) \in {Len(sc[i].text) + 1, Len(sc[i].text) + 2}
         /\ \A j \in 1 .. Len(sc[i].text) :
               LineOf(sc[i])[j] = sc[i].text[j] /\ LineOf(sc[i])[j] \notin NL
         /\ LineOf(sc[i])[Len(sc[i].text) + 1] \in NL
         /\ Len(LineOf(sc[i])) = Len(sc[i].text) + 2 => LineOf(sc[i])[Len(sc[i].text) + 2] = LF
<1>1. PICK text \in Seq(Byte), eol \in {<<LF>>, <<CR, LF>>} : text = sc[i].text /\ eol = sc[i].eol
  <2>1. sc[i] \in Request
    BY DEF GoodScript
  <2>2. QED
    BY <2>1 DEF Request
<1>2. eol \in Seq(Byte) /\ Len(eol) \in {1, 2} /\ eol[1] \in NL /\ (Len(eol) = 2 => eol[2] = LF)
  <2>1. CASE eol = <<LF>>
    BY <2>1, Ends
  <2>2. CASE eol = <<CR, LF>>
    BY <2>2, Ends
  <2>3. QED
    BY <1>1, <2>1, <2>2
<1>3. PICK t, e \in Nat : t = Len(text) /\ e = Len(eol)
  BY <1>1, <1>2
<1>4. t # 0 /\ \A j \in 1 .. t : text[j] \notin NL
  <2>1. text # <<>> /\ \A j \in 1 .. Len(text) : text[j] \notin NL
    BY <1>1 DEF GoodScript
  <2>2. QED
    BY <1>1, <1>3, <2>1
<1>5. PICK l : l = LineOf(sc[i]) /\ l = text \o eol
  BY <1>1 DEF LineOf
<1>6. /\ l \in Seq(Byte) /\ Len(l) = t + e
      /\ \A j \in 1 .. t + e : l[j] = IF j <= t THEN text[j] ELSE eol[j - t]
  <2>1. /\ text \o eol \in Seq(Byte) /\ Len(text \o eol) = Len(text) + Len(eol)
        /\ \A j \in 1 .. Len(text) + Len(eol) : (text \o eol)[j] =
              IF j <= Len(text) THEN text[j] ELSE eol[j - Len(text)]
    <3>1. eol \in Seq(Byte)
      BY <1>2
    <3> HIDE <1>1
    <3>2. QED
      BY <3>1, ConcatProperties
  <2>2. QED
    BY <1>3, <1>5, <2>1
<1>7. \A j \in 1 .. t : l[j] = text[j] /\ l[j] \notin NL
  <2>1. \A j \in 1 .. t : j \in 1 .. t + e /\ j <= t
    OBVIOUS
  <2>2. QED
    BY <1>4, <1>6, <2>1
<1>8. l[t + 1] \in NL /\ (e = 2 => l[t + 2] = LF)
  <2>1. e \in {1, 2}
    BY <1>2, <1>3
  <2>2. t + 1 \in 1 .. t + e /\ ~ (t + 1 <= t) /\ (t + 1) - t = 1
    BY <2>1
  <2>3. l[t + 1] = eol[1]
    BY <1>6, <2>2
  <2>4. e = 2 => t + 2 \in 1 .. t + e /\ ~ (t + 2 <= t) /\ (t + 2) - t = 2
    OBVIOUS
  <2>5. e = 2 => l[t + 2] = eol[2]
    BY <1>6, <2>4
  <2>6. QED
    BY <1>2, <1>3, <2>3, <2>5
<1>9. Len(l) \in {t + 1, t + 2} /\ (Len(l) = t + 2 => e = 2) /\ t >= 1
  <2>1. e \in {1, 2} /\ t \in Nat /\ Len(l) = t + e
    BY <1>2, <1>3, <1>6
  <2>2. QED
    BY <1>4, <2>1
<1>10. QED
  BY <1>1, <1>3, <1>5, <1>6, <1>7, <1>8, <1>9

(* One more line was sent.                                                 *)
LEMMA LinedSent ==
  ASSUME NEW p \in Seq(Byte), NEW sc, GoodScript(sc), NEW r \in Nat, NEW m \in Nat, r <= m,
         m + 1 <= Len(sc), NEW st, Lined(p, st, sc, r, m)
  PROVE  \E more : Lined(p \o LineOf(sc[m + 1]), more, sc, r, m + 1)
<1>1. PICK t \in Seq(Byte), n \in Nat, l \in Nat :
        t = LineOf(sc[m + 1]) /\ n = Len(p) /\ l = Len(t)
  <2>1. Len(sc) \in Nat
    BY DEF GoodScript
  <2>2. m + 1 \in 1 .. Len(sc)
    BY <2>1
  <2>3. LineOf(sc[m + 1]) \in Seq(Byte)
    BY <2>2, LineParts
  <2>4. QED
    BY <2>3
<1>2. PICK q : q = p \o t
  OBVIOUS
<1>3. Len(q) = n + l /\ \A i \in 1 .. n + l : q[i] = IF i <= n THEN p[i] ELSE t[i - n]
  BY <1>1, <1>2, ConcatProperties
<1>4. /\ st \in [r + 1 .. m + 1 -> Nat] /\ st[r + 1] \in {0, 1} /\ (st[r + 1] = 1 => p[1] = LF)
      /\ st[m + 1] = n /\ \A x, y \in r + 1 .. m + 1 : x <= y => st[x] <= st[y]
  BY <1>1 DEF Lined
<1> DEFINE more == [x \in r + 1 .. m + 2 |-> IF x = m + 2 THEN n + l ELSE st[x]]
<1>5. \A x \in r + 1 .. m + 2 : x = m + 2 \/ x \in r + 1 .. m + 1
  OBVIOUS
<1>6. /\ more \in [r + 1 .. m + 2 -> Nat] /\ more[m + 2] = n + l
      /\ \A x \in r + 1 .. m + 1 : more[x] = st[x]
  BY <1>1, <1>4, <1>5
<1> HIDE DEF more
<1>7. r + 1 \in r + 1 .. m + 1 /\ m + 1 \in r + 1 .. m + 1 /\ (m + 1) + 1 = m + 2
  OBVIOUS
<1>8. more[r + 1] \in {0, 1} /\ (more[r + 1] = 1 => q[1] = LF)
  <2>1. more[r + 1] = st[r + 1]
    BY <1>6, <1>7
  <2>2. st[r + 1] <= n
    BY <1>4, <1>7
  <2>3. st[r + 1] = 1 => q[1] = LF
    <3> SUFFICES ASSUME st[r + 1] = 1 PROVE q[1] = LF
      OBVIOUS
    <3>1. 1 <= n /\ 1 \in 1 .. n + l
      BY <1>1, <2>2
    <3>2. QED
      BY <1>3, <1>4, <3>1
  <2>4. QED
    BY <1>4, <2>1, <2>3
<1>9. \A x, y \in r + 1 .. m + 2 : x <= y => more[x] <= more[y]
  <2> SUFFICES ASSUME NEW x \in r + 1 .. m + 2, NEW y \in r + 1 .. m + 2, x <= y
      PROVE  more[x] <= more[y]
    OBVIOUS
  <2>1. CASE y \in r + 1 .. m + 1
    <3>1. x \in r + 1 .. m + 1
      BY <2>1
    <3>2. QED
      BY <1>4, <1>6, <2>1, <3>1
  <2>2. CASE y = m + 2 /\ x = m + 2
    BY <1>6, <2>2
  <2>3. CASE y = m + 2 /\ x \in r + 1 .. m + 1
    <3>1. more[x] = st[x] /\ st[x] \in Nat /\ st[x] <= n
      BY <1>4, <1>6, <1>7, <2>3
    <3>2. QED
      BY <1>1, <1>6, <2>3, <3>1
  <2>4. QED
    BY <1>5, <2>1, <2>2, <2>3
<1>10. ASSUME NEW x \in r + 1 .. m + 1
       PROVE  /\ more[x + 1] = more[x] + Len(LineOf(sc[x]))
              /\ \A j \in 1 .. Len(LineOf(sc[x])) : q[more[x] + j] = LineOf(sc[x])[j]
  <2>1. CASE x = m + 1
    <3>1. more[x] = n /\ more[x + 1] = n + l
      BY <1>4, <1>6, <1>7, <2>1
    <3>2. \A j \in 1 .. l : n + j \in 1 .. n + l /\ ~ (n + j <= n) /\ (n + j) - n = j
      BY <1>1
    <3>3. \A j \in 1 .. l : q[n + j] = t[j]
      BY <1>3, <3>2
    <3>4. QED
      BY <1>1, <2>1, <3>1, <3>3
  <2>2. CASE x # m + 1
    <3>1. x \in r + 1 .. m /\ x + 1 \in r + 1 .. m + 1 /\ x \in r + 1 .. m + 1
      BY <2>2
    <3>2. PICK lx \in Seq(Byte), k \in Nat : lx = LineOf(sc[x]) /\ k = Len(lx)
      <4>1. x \in 1 .. Len(sc)
        <5>1. Len(sc) \in Nat
          BY DEF GoodScript
        <5>2. QED
          BY <3>1, <5>1
      <4>2. LineOf(sc[x]) \in Seq(Byte)
        BY <4>1, LineParts
      <4>3. QED
        BY <4>2
    <3>3. st[x + 1] = st[x] + k /\ \A j \in 1 .. k : p[st[x] + j] = lx[j]
      BY <3>1, <3>2 DEF Lined
    <3>4. more[x] = st[x] /\ more[x + 1] = st[x + 1]
      BY <1>6, <3>1
    <3>5. PICK a \in Nat : a = st[x]
      BY <1>4, <3>1
    <3>6. a + k <= n
      <4>1. st[x + 1] <= st[m + 1]
        BY <1>4, <1>7, <3>1
      <4>2. QED
        BY <1>4, <3>3, <3>5, <4>1
    <3>7. \A j \in 1 .. k : a + j \in 1 .. n + l /\ a + j <= n
      <4>1. a \in Nat /\ k \in Nat /\ n \in Nat /\ l \in Nat
        BY <1>1, <3>2, <3>5
      <4>2. QED
        BY <3>6, <4>1
    <3>8. \A j \in 1 .. k : q[a + j] = p[a + j]
      BY <1>3, <3>7
    <3>9. QED
      BY <3>2, <3>3, <3>4, <3>5, <3>8
  <2>3. QED
    BY <2>1, <2>2
<1>11. Lined(q, more, sc, r, m + 1)
  BY <1>1, <1>3, <1>6, <1>7, <1>8, <1>9, <1>10 DEF Lined
<1>12. QED
  BY <1>1, <1>2, <1>11

(* The first k bytes are gone, with the lines up to the u-th.              *)
LEMMA LinedRest ==
  ASSUME NEW p \in Seq(Byte), NEW sc, GoodScript(sc), NEW r \in Nat, NEW m \in Nat, m <= Len(sc),
         NEW st, Lined(p, st, sc, r, m),
         NEW k \in 1 .. Len(p), NEW u \in Nat, r <= u, u <= m,
         st[u + 1] = k \/ (st[u + 1] = k + 1 /\ p[k + 1] = LF)
  PROVE  \E rest : Lined(SubSeq(p, k + 1, Len(p)), rest, sc, u, m)
<1>0. PICK q : q = SubSeq(p, k + 1, Len(p))
  OBVIOUS
<1>1. PICK n \in Nat : n = Len(p) - k /\ q = SubSeq(p, k + 1, Len(p))
  <2>1. Len(p) - k \in Nat
    OBVIOUS
  <2>2. QED
    BY <1>0, <2>1
<1>2. Len(q) = n /\ \A i \in 1 .. n : q[i] = p[i + k]
  <2>1. k \in 0 .. Len(p)
    OBVIOUS
  <2>2. QED
    BY <1>1, <2>1, RestOf
<1>3. k \in Nat /\ Len(p) = n + k
  BY <1>1
<1>4. /\ st \in [r + 1 .. m + 1 -> Nat] /\ st[m + 1] = n + k
      /\ \A x, y \in r + 1 .. m + 1 : x <= y => st[x] <= st[y]
  BY <1>3 DEF Lined
<1>5. \A x \in u + 1 .. m + 1 : x \in r + 1 .. m + 1 /\ u + 1 <= x /\ x <= m + 1
  OBVIOUS
<1>6. u + 1 \in r + 1 .. m + 1 /\ m + 1 \in u + 1 .. m + 1 /\ u + 1 \in u + 1 .. m + 1
  OBVIOUS
<1>7. \A x \in u + 1 .. m + 1 : st[x] \in Nat /\ k <= st[x] /\ st[x] <= n + k
  <2> SUFFICES ASSUME NEW x \in u + 1 .. m + 1 PROVE st[x] \in Nat /\ k <= st[x] /\ st[x] <= n + k
    OBVIOUS
  <2>1. st[x] \in Nat /\ st[u + 1] <= st[x] /\ st[x] <= st[m + 1]
    BY <1>4, <1>5, <1>6
  <2>2. st[u + 1] \in Nat /\ k <= st[u + 1]
    BY <1>3, <1>4, <1>6
  <2>3. QED
    BY <1>3, <1>4, <2>1, <2>2
<1> DEFINE rest == [x \in u + 1 .. m + 1 |-> st[x] - k]
<1>8. rest \in [u + 1 .. m + 1 -> Nat] /\ \A x \in u + 1 .. m + 1 : rest[x] = st[x] - k
  <2>1. \A x \in u + 1 .. m + 1 : st[x] - k \in Nat
    BY <1>3, <1>7
  <2>2. QED
    BY <2>1
<1> HIDE DEF rest
<1>9. rest[u + 1] \in {0, 1} /\ (rest[u + 1] = 1 => q[1] = LF)
  <2>1. CASE st[u + 1] = k
    BY <1>3, <1>6, <1>8, <2>1
  <2>2. CASE st[u + 1] = k + 1 /\ p[k + 1] = LF
    <3>1. rest[u + 1] = 1
      BY <1>3, <1>6, <1>8, <2>2
    <3>2. 1 \in 1 .. n
      <4>1. k + 1 <= n + k
        BY <1>6, <1>7, <2>2
      <4>2. QED
        BY <1>3, <4>1
    <3>3. q[1] = p[1 + k] /\ 1 + k = k + 1
      BY <1>2, <1>3, <3>2
    <3>4. QED
      BY <2>2, <3>1, <3>3
  <2>3. QED
    BY <2>1, <2>2
<1>10. rest[m + 1] = Len(q)
  <2>1. rest[m + 1] = (n + k) - k
    BY <1>4, <1>6, <1>8
  <2>2. QED
    BY <1>2, <1>3, <2>1
<1>11. \A x, y \in u + 1 .. m + 1 : x <= y => rest[x] <= rest[y]
  <2> SUFFICES ASSUME NEW x \in u + 1 .. m + 1, NEW y \in u + 1 .. m + 1, x <= y
      PROVE  rest[x] <= rest[y]
    OBVIOUS
  <2>1. st[x] <= st[y] /\ st[x] \in Nat /\ st[y] \in Nat
    BY <1>4, <1>5
  <2>2. st[x] - k <= st[y] - k
    BY <1>3, <2>1
  <2>3. QED
    BY <1>8, <2>2
<1>12. ASSUME NEW x \in u + 1 .. m
       PROVE  /\ rest[x + 1] = rest[x] + Len(LineOf(sc[x]))
              /\ \A j \in 1 .. Len(LineOf(sc[x])) : q[rest[x] + j] = LineOf(sc[x])[j]
  <2>1. x \in r + 1 .. m /\ x \in u + 1 .. m + 1 /\ x + 1 \in u + 1 .. m + 1
    OBVIOUS
  <2>2. PICK lx \in Seq(Byte), l \in Nat : lx = LineOf(sc[x]) /\ l = Len(lx)
    <3>1. x \in 1 .. Len(sc)
      <4>1. Len(sc) \in Nat
        BY DEF GoodScript
      <4>2. QED
        BY <2>1, <4>1
    <3>2. LineOf(sc[x]) \in Seq(Byte)
      BY <3>1, LineParts
    <3>3. QED
      BY <3>2
  <2>3. st[x + 1] = st[x] + l /\ \A j \in 1 .. l : p[st[x] + j] = lx[j]
    BY <2>1, <2>2 DEF Lined
  <2>4. PICK a \in Nat : a = st[x]
    BY <1>7, <2>1
  <2>5. k <= a /\ a + l <= n + k
    BY <1>7, <2>1, <2>3, <2>4
  <2>6. rest[x] = a - k /\ rest[x + 1] = (a + l) - k
    BY <1>8, <2>1, <2>3, <2>4
  <2>7. rest[x + 1] = rest[x] + l
    <3>1. a \in Nat /\ l \in Nat /\ k \in Nat
      BY <1>3, <2>2, <2>4
    <3>2. (a + l) - k = (a - k) + l
      BY <3>1
    <3>3. QED
      BY <2>6, <3>2
  <2>8. ASSUME NEW j \in 1 .. l PROVE q[rest[x] + j] = lx[j]
    <3>1. (a - k) + j \in 1 .. n /\ ((a - k) + j) + k = a + j
      <4>1. a \in Nat /\ l \in Nat /\ k \in Nat /\ n \in Nat /\ j \in Nat /\ 1 <= j /\ j <= l
        BY <1>3, <2>2, <2>4
      <4>2. QED
        BY <2>5, <4>1
    <3>2. q[(a - k) + j] = p[a + j]
      BY <1>2, <3>1
    <3>3. QED
      BY <2>3, <2>4, <2>6, <3>2
  <2>9. QED
    BY <2>2, <2>7, <2>8
<1>13. Lined(q, rest, sc, u, m)
  BY <1>8, <1>9, <1>10, <1>11, <1>12 DEF Lined
<1>14. QED
  BY <1>1, <1>13

(* An empty line is the LF that was left.                                  *)
LEMMA LinedEmpty ==
  ASSUME NEW p \in Seq(Byte), NEW sc, GoodScript(sc), NEW r \in Nat, NEW m \in Nat, r <= m,
         m <= Len(sc), NEW st, Lined(p, st, sc, r, m),
         NEW k \in 1 .. Len(p), \A i \in 1 .. k : p[i] \in NL
  PROVE  \E rest : Lined(SubSeq(p, k + 1, Len(p)), rest, sc, r, m)
<1>1. st[r + 1] \in {0, 1} /\ st[m + 1] = Len(p) /\ Len(p) \in Nat
  BY DEF Lined
<1>2. PICK a \in {0, 1} : a = st[r + 1]
  BY <1>1
<1>3. r < m => p[a + 1] \notin NL
  <2> SUFFICES ASSUME r < m PROVE p[a + 1] \notin NL
    OBVIOUS
  <2>1. r + 1 \in r + 1 .. m /\ r + 1 \in 1 .. Len(sc)
    <3>1. Len(sc) \in Nat
      BY DEF GoodScript
    <3>2. QED
      BY <3>1
  <2>2. \A j \in 1 .. Len(LineOf(sc[r + 1])) : p[st[r + 1] + j] = LineOf(sc[r + 1])[j]
    BY <2>1 DEF Lined
  <2>3. 1 \in 1 .. Len(LineOf(sc[r + 1])) /\ LineOf(sc[r + 1])[1] \notin NL
    <3>1. PICK t \in Nat : t = Len(sc[r + 1].text) /\ t >= 1
      BY <2>1, LineParts
    <3>2. Len(LineOf(sc[r + 1])) \in {t + 1, t + 2}
      BY <2>1, <3>1, LineParts
    <3>3. 1 \in 1 .. t
      BY <3>1
    <3>4. LineOf(sc[r + 1])[1] \notin NL
      BY <2>1, <3>1, <3>3, LineParts
    <3>5. QED
      BY <3>2, <3>4
  <2>4. p[st[r + 1] + 1] = LineOf(sc[r + 1])[1]
    BY <2>2, <2>3
  <2>5. QED
    BY <1>2, <2>3, <2>4
<1>4. r = m => a = Len(p)
  BY <1>1, <1>2
<1>5. k \in Nat /\ 1 <= k /\ k <= Len(p)
  BY <1>1
<1>6. k = a
  <2>1. a + 1 \in 1 .. k => r = m
    BY <1>3
  <2>2. ~ (a + 1 <= k)
    <3> SUFFICES ASSUME a + 1 <= k PROVE FALSE
      OBVIOUS
    <3>1. a + 1 \in 1 .. k
      BY <1>5
    <3>2. a = Len(p)
      BY <1>4, <2>1, <3>1
    <3>3. QED
      BY <1>1, <1>5, <3>2
  <2>3. QED
    BY <1>5, <2>2
<1>7. st[r + 1] = k
  BY <1>2, <1>6
<1>8. QED
  BY <1>7, LinedRest

(* A line of n bytes and a run that ends it, up to byte k.                 *)
LineAt(p, n, k) == (\A i \in 1 .. n : p[i] \notin NL) /\ (\A i \in n + 1 .. k : p[i] \in NL)

(* A line that is not empty is the next request.                           *)
LEMMA LinedTaken ==
  ASSUME NEW p \in Seq(Byte), NEW sc, GoodScript(sc), NEW r \in Nat, NEW m \in Nat, r <= m,
         m <= Len(sc), NEW st, Lined(p, st, sc, r, m),
         NEW k \in 1 .. Len(p), NEW n \in Nat, 1 <= n, n < k, LineAt(p, n, k)
  PROVE  /\ r + 1 <= m
         /\ n = Len(sc[r + 1].text)
         /\ \A i \in 1 .. n : p[i] = sc[r + 1].text[i]
         /\ \E rest : Lined(SubSeq(p, k + 1, Len(p)), rest, sc, r + 1, m)
<1>1. /\ st \in [r + 1 .. m + 1 -> Nat] /\ st[r + 1] \in {0, 1} /\ st[m + 1] = Len(p)
      /\ (st[r + 1] = 1 => p[1] = LF) /\ Len(p) \in Nat
  BY DEF Lined
<1>0. (\A i \in 1 .. n : p[i] \notin NL) /\ (\A i \in n + 1 .. k : p[i] \in NL)
  BY DEF LineAt
<1>2. k \in Nat /\ k <= Len(p) /\ 1 \in 1 .. n
  BY <1>1
<1>3. st[r + 1] = 0
  <2>1. p[1] \notin NL
    BY <1>0, <1>2
  <2>2. QED
    BY <1>1, <2>1, Ends
<1>4. r + 1 <= m
  <2> SUFFICES ASSUME r = m PROVE FALSE
    OBVIOUS
  <2>1. Len(p) = 0
    BY <1>1, <1>3
  <2>2. QED
    BY <1>2, <2>1
<1>5. r + 1 \in r + 1 .. m /\ r + 1 \in 1 .. Len(sc)
  <2>1. Len(sc) \in Nat
    BY DEF GoodScript
  <2>2. QED
    BY <1>4, <2>1
<1> DEFINE text == sc[r + 1].text
<1>6. PICK lx \in Seq(Byte), t \in Nat, l \in Nat :
        lx = LineOf(sc[r + 1]) /\ l = Len(lx) /\ text = sc[r + 1].text /\ t = Len(text)
  <2>1. LineOf(sc[r + 1]) \in Seq(Byte) /\ Len(sc[r + 1].text) \in Nat
    BY <1>5, LineParts
  <2>2. QED
    BY <2>1
<1> HIDE DEF text
<1>7. /\ t >= 1 /\ l \in {t + 1, t + 2}
      /\ \A j \in 1 .. t : lx[j] = text[j] /\ lx[j] \notin NL
      /\ lx[t + 1] \in NL /\ (l = t + 2 => lx[t + 2] = LF)
  <2>1. PICK i : i = r + 1 /\ i \in 1 .. Len(sc)
    BY <1>5
  <2>2. lx = LineOf(sc[i]) /\ text = sc[i].text
    BY <1>6, <2>1
  <2>3. /\ t >= 1 /\ l \in {t + 1, t + 2}
        /\ \A j \in 1 .. t : lx[j] = text[j] /\ lx[j] \notin NL
    BY <1>6, <2>1, <2>2, LineParts
  <2>4. lx[t + 1] \in NL /\ (l = t + 2 => lx[t + 2] = LF)
    BY <1>6, <2>1, <2>2, LineParts
  <2>5. QED
    BY <2>3, <2>4
<1>8. st[(r + 1) + 1] = l /\ \A j \in 1 .. l : p[j] = lx[j]
  <2>1. /\ st[(r + 1) + 1] = st[r + 1] + Len(LineOf(sc[r + 1]))
        /\ \A j \in 1 .. Len(LineOf(sc[r + 1])) : p[st[r + 1] + j] = LineOf(sc[r + 1])[j]
    BY <1>5 DEF Lined
  <2>2. st[(r + 1) + 1] = 0 + l /\ \A j \in 1 .. l : p[0 + j] = lx[j]
    BY <1>3, <1>6, <2>1
  <2>3. 0 + l = l /\ \A j \in 1 .. l : 0 + j = j
    BY <1>6
  <2>4. QED
    BY <2>2, <2>3
<1>9. n = t
  <2>1. ~ (n < t)
    <3> SUFFICES ASSUME n < t PROVE FALSE
      OBVIOUS
    <3>1. n + 1 \in 1 .. t /\ n + 1 \in 1 .. l /\ n + 1 \in n + 1 .. k
      BY <1>2, <1>6, <1>7
    <3>2. QED
      BY <1>0, <1>7, <1>8, <3>1
  <2>2. ~ (t < n)
    <3> SUFFICES ASSUME t < n PROVE FALSE
      OBVIOUS
    <3>1. t + 1 \in 1 .. l /\ t + 1 \in 1 .. n
      <4>1. l \in {t + 1, t + 2} /\ t \in Nat
        BY <1>6, <1>7
      <4>2. QED
        BY <4>1
    <3>2. QED
      BY <1>0, <1>7, <1>8, <3>1
  <2>3. QED
    BY <1>6, <2>1, <2>2
<1>10. \A i \in 1 .. n : p[i] = text[i]
  <2>1. \A i \in 1 .. n : i \in 1 .. l /\ i \in 1 .. t
    BY <1>6, <1>7, <1>9
  <2>2. QED
    BY <1>7, <1>8, <2>1
<1>11. k <= l
  <2> SUFFICES ASSUME l < k PROVE FALSE
    BY <1>2, <1>6
  <2>1. l + 1 \in n + 1 .. k
    BY <1>2, <1>6, <1>7, <1>9
  <2>2. p[l + 1] \in NL
    BY <1>0, <2>1
  <2>3. CASE r + 1 = m
    <3>1. Len(p) = l
      BY <1>1, <1>8, <2>3
    <3>2. QED
      BY <1>2, <1>6, <3>1
  <2>4. CASE r + 1 # m
    <3>1. (r + 1) + 1 \in r + 1 .. m /\ (r + 1) + 1 \in 1 .. Len(sc)
      <4>1. Len(sc) \in Nat
        BY DEF GoodScript
      <4>2. QED
        BY <1>4, <2>4, <4>1
    <3>2. PICK z : z = (r + 1) + 1
      OBVIOUS
    <3>3. \A j \in 1 .. Len(LineOf(sc[z])) : p[st[z] + j] = LineOf(sc[z])[j]
      BY <3>1, <3>2 DEF Lined
    <3>4. PICK v \in Nat : v = Len(sc[z].text) /\ v >= 1
      BY <3>1, <3>2, LineParts
    <3>5. Len(LineOf(sc[z])) \in {v + 1, v + 2} /\ LineOf(sc[z])[1] \notin NL
      <4>1. 1 \in 1 .. v
        BY <3>4
      <4>2. QED
        BY <3>1, <3>2, <3>4, <4>1, LineParts
    <3>6. 1 \in 1 .. Len(LineOf(sc[z]))
      BY <3>4, <3>5
    <3>7. p[st[z] + 1] \notin NL
      BY <3>3, <3>5, <3>6
    <3>8. QED
      BY <1>8, <2>2, <3>2, <3>7
  <2>5. QED
    BY <2>3, <2>4
<1>12. st[(r + 1) + 1] = k \/ (st[(r + 1) + 1] = k + 1 /\ p[k + 1] = LF)
  <2>1. k = l \/ (l = k + 1 /\ l = t + 2)
    BY <1>2, <1>6, <1>7, <1>9, <1>11
  <2>2. CASE k = l
    BY <1>8, <2>2
  <2>3. CASE l = k + 1 /\ l = t + 2
    <3>1. k + 1 \in 1 .. l /\ k + 1 = t + 2
      BY <1>2, <1>6, <2>3
    <3>2. p[k + 1] = LF
      BY <1>7, <1>8, <2>3, <3>1
    <3>3. QED
      BY <1>8, <2>3, <3>2
  <2>4. QED
    BY <2>1, <2>2, <2>3
<1>13. \E rest : Lined(SubSeq(p, k + 1, Len(p)), rest, sc, r + 1, m)
  <2>1. PICK u \in Nat : u = r + 1
    OBVIOUS
  <2>2. r <= u /\ u <= m /\ (st[u + 1] = k \/ (st[u + 1] = k + 1 /\ p[k + 1] = LF))
    BY <1>4, <1>12, <2>1
  <2>3. \E rest : Lined(SubSeq(p, k + 1, Len(p)), rest, sc, u, m)
    BY <2>2, LinedRest
  <2>4. QED
    BY <2>1, <2>3
<1>14. QED
  BY <1>4, <1>6, <1>9, <1>10, <1>13

(* What a client means by its k-th request; 0 is a line without bytes.     *)
TextOf(sc, k) == IF k = 0 THEN <<>> ELSE sc[k].text

(* The line that atm_buf_read_line returns is what the client sent.        *)
LEMMA ParsedText ==
  ASSUME NEW b \in Seq(Byte), NEW w \in Seq(Byte), HasLine(b), Framed(b \o w),
         NEW sc, GoodScript(sc), NEW r \in Nat, NEW m \in Nat, r <= m, m <= Len(sc),
         NEW st, Lined(b \o w, st, sc, r, m)
  PROVE  LET n == LineLen(b)
             c == SubSeq(b, LineRead(b) + 1, Len(b))
             u == IF n = 0 THEN r ELSE r + 1
         IN  /\ u <= m
             /\ SubSeq(b, 1, n) = TextOf(sc, IF n = 0 THEN 0 ELSE r + 1)
             /\ \E rest : Lined(c \o w, rest, sc, u, m)
<1>1. PICK n, k, c, p : /\ n = LineLen(b) /\ k = LineRead(b)
                        /\ c = SubSeq(b, k + 1, Len(b)) /\ p = b \o w
  OBVIOUS
<1>2. n \in 0 .. Len(b) - 1 /\ Len(b) \in Nat /\ \A i \in 1 .. n : b[i] \notin NL
  BY <1>1, LineLenIs
<1>3. k \in n + 1 .. Len(b) /\ \A i \in n + 1 .. k : b[i] \in NL
  BY <1>1, LineReadIs
<1>4. p \in Seq(Byte) /\ k \in 1 .. Len(p) /\ c \o w = SubSeq(p, k + 1, Len(p))
  BY <1>1, LineCut
<1>5. \A i \in 1 .. Len(b) : p[i] = b[i]
  <2>1. PICK l \in Nat, h \in Nat : l = Len(b) /\ h = Len(w)
    OBVIOUS
  <2>2. \A i \in 1 .. l + h : p[i] = IF i <= l THEN b[i] ELSE w[i - l]
    BY <1>1, <2>1, ConcatProperties
  <2>3. \A i \in 1 .. l : i \in 1 .. l + h /\ i <= l
    BY <2>1
  <2>4. QED
    BY <2>1, <2>2, <2>3
<1>6. n \in Nat /\ n < k /\ k <= Len(b) /\ k \in Nat
  BY <1>2, <1>3
<1>7. (\A i \in 1 .. n : p[i] \notin NL) /\ (\A i \in n + 1 .. k : p[i] \in NL)
  <2>1. \A i \in 1 .. n : i \in 1 .. Len(b)
    BY <1>2, <1>6
  <2>2. \A i \in n + 1 .. k : i \in 1 .. Len(b)
    BY <1>2, <1>6
  <2>3. QED
    BY <1>2, <1>3, <1>5, <2>1, <2>2
<1>8. Lined(p, st, sc, r, m)
  BY <1>1
<1>9. CASE n = 0
  <2>1. \A i \in 1 .. k : p[i] \in NL
    BY <1>7, <1>9
  <2>2. \E rest : Lined(SubSeq(p, k + 1, Len(p)), rest, sc, r, m)
    BY <1>4, <1>8, <2>1, LinedEmpty
  <2>3. SubSeq(b, 1, n) = <<>>
    BY <1>9, SubSeqEmpty
  <2>4. QED
    BY <1>1, <1>4, <1>9, <2>2, <2>3 DEF TextOf
<1>10. CASE n # 0
  <2>1. 1 <= n
    BY <1>6, <1>10
  <2>2. /\ r + 1 <= m /\ n = Len(sc[r + 1].text)
        /\ \A i \in 1 .. n : p[i] = sc[r + 1].text[i]
        /\ \E rest : Lined(SubSeq(p, k + 1, Len(p)), rest, sc, r + 1, m)
    <3>1. LineAt(p, n, k)
      BY <1>7 DEF LineAt
    <3>2. QED
      BY <1>4, <1>6, <1>8, <2>1, <3>1, LinedTaken
  <2>3. PICK x : x = SubSeq(b, 1, n)
    OBVIOUS
  <2>4. x \in Seq(Byte) /\ Len(x) = n /\ \A i \in 1 .. n : x[i] = b[i]
    <3>1. 1 \in 1 .. Len(b) + 1 /\ n \in 0 .. Len(b)
      BY <1>2
    <3>2. /\ x \in Seq(Byte)
          /\ Len(x) = IF 1 <= n THEN n - 1 + 1 ELSE 0
          /\ \A i \in 1 .. n - 1 + 1 : x[i] = b[1 + i - 1]
      BY <2>3, <3>1, SubSeqOf
    <3>3. n - 1 + 1 = n /\ \A i \in 1 .. n : 1 + i - 1 = i
      BY <1>6
    <3>4. QED
      BY <2>1, <3>2, <3>3
  <2>5. PICK text \in Seq(Byte) : text = sc[r + 1].text
    <3>1. r + 1 \in 1 .. Len(sc)
      <4>1. Len(sc) \in Nat
        BY DEF GoodScript
      <4>2. QED
        BY <2>2, <4>1
    <3>2. sc[r + 1] \in Request
      BY <3>1 DEF GoodScript
    <3>3. QED
      BY <3>2 DEF Request
  <2>6. \A i \in 1 .. n : x[i] = text[i]
    <3>1. \A i \in 1 .. n : i \in 1 .. Len(b)
      BY <1>2, <1>6
    <3>2. QED
      BY <1>5, <2>2, <2>4, <2>5, <3>1
  <2>7. x = text
    BY <2>2, <2>4, <2>5, <2>6, SeqEqual
  <2>8. r + 1 # 0
    OBVIOUS
  <2>9. SubSeq(b, 1, n) = TextOf(sc, r + 1)
    BY <2>3, <2>5, <2>7, <2>8 DEF TextOf
  <2>10. \E rest : Lined(c \o w, rest, sc, r + 1, m)
    BY <1>4, <2>2
  <2>11. QED
    BY <1>1, <1>10, <2>2, <2>9, <2>10
<1>11. QED
  BY <1>9, <1>10

-----------------------------------------------------------------------------
(* The sessions: each line that a session has taken is what its client     *)
(* sent, and a command gets what the line means, whatever the commands     *)
(* before it have left.                                                    *)
Worded(p, sc, r, m) == m <= Len(sc) /\ \E st : Lined(p, st, sc, r, m)

Meant(x, text) ==
    /\ x.argv = S!Split(text, SP)
    /\ x.cmd = IF x.argv = <<>> THEN "none" ELSE GetCmd(x.argv[1])

SessType == [state : {"init", "parsing", "process_cmd", "finish"},
             argv : Seq(Seq(Byte)), cmd : {"none", "get", "set"}]

Honest(x, sc, last) ==
    /\ last \in 0 .. Len(sc)
    /\ x.state \in {"init", "parsing"} => x.argv = <<>> /\ x.cmd = "none"
    /\ x.state = "process_cmd" => Meant(x, TextOf(sc, last))

SessInv ==
    /\ se \in [Sess -> SessType]
    /\ \A s \in Sess : /\ Worded(Left(s), script[s], taken[s].requests, sent[s])
                       /\ Honest(se[s], script[s], taken[s].last)

LEMMA ScriptGood ==
  ASSUME FlowInv, NEW s \in Sess
  PROVE  GoodScript(script[s])
<1>1. PICK sc : sc = script[s]
  OBVIOUS
<1>2. sc \in Seq(Request) /\ sc \in Scripts[s]
  BY <1>1, SessAssumption DEF FlowInv, FlowTypes
<1>3. ASSUME NEW i \in 1 .. Len(sc)
      PROVE  sc[i].text # <<>> /\ \A j \in 1 .. Len(sc[i].text) : sc[i].text[j] \notin NL
  <2>1. i \in DOMAIN sc
    BY <1>2
  <2>2. sc[i].text # <<>> /\ Range(sc[i].text) \cap NL = {}
    BY <1>2, <2>1, SessAssumption
  <2>3. sc[i].text \in Seq(Byte)
    <3>1. sc[i] \in Request
      BY <1>2
    <3>2. QED
      BY <3>1 DEF Request
  <2>4. \A j \in 1 .. Len(sc[i].text) : sc[i].text[j] \in Range(sc[i].text)
    BY <2>3 DEF Range
  <2>5. QED
    BY <2>2, <2>4
<1>4. QED
  BY <1>1, <1>2, <1>3 DEF GoodScript

(* The bytes as the split takes them.                                      *)
LEMMA ByteIsBytes == Bytes2(Byte, SP)
<1>1. SP \notin Quotes
  BY DEF SP, Quotes
<1>2. Quotes \subseteq Byte /\ SP \in Byte
  BY DEF Byte
<1>3. QED
  BY <1>1, <1>2 DEF Bytes2

LEMMA TextType ==
  ASSUME NEW sc, GoodScript(sc), NEW k \in 0 .. Len(sc)
  PROVE  TextOf(sc, k) \in Seq(Byte)
<1>1. CASE k = 0
  BY <1>1, EmptySeq DEF TextOf
<1>2. CASE k # 0
  <2>1. k \in 1 .. Len(sc)
    BY <1>2 DEF GoodScript
  <2>2. sc[k].text \in Seq(Byte)
    <3>1. sc[k] \in Request
      BY <2>1 DEF GoodScript
    <3>2. QED
      BY <3>1 DEF Request
  <2>3. QED
    BY <1>2, <2>2 DEF TextOf
<1>3. QED
  BY <1>1, <1>2

LEMMA CmdType == \A name : GetCmd(name) \in {"none", "get", "set"}
BY DEF GetCmd

LEMMA SessInit0 == Init => SessInv
<1> SUFFICES ASSUME Init PROVE SessInv
  OBVIOUS
<1>1. FlowInv
  BY FlowInit
<1>2. se \in [Sess -> SessType]
  <2>1. FreshSess \in SessType
    BY EmptySeq DEF FreshSess, SessType
  <2>2. QED
    BY <2>1 DEF Init
<1>3. ASSUME NEW s \in Sess
      PROVE  /\ Worded(Left(s), script[s], taken[s].requests, sent[s])
             /\ Honest(se[s], script[s], taken[s].last)
  <2>1. /\ se[s] = FreshSess /\ Left(s) = <<>> /\ sent[s] = 0
        /\ taken[s].requests = 0 /\ taken[s].last = 0
    BY DEF Init, Left
  <2>2. GoodScript(script[s]) /\ Len(script[s]) \in Nat
    <3>1. GoodScript(script[s])
      BY <1>1, ScriptGood
    <3>2. QED
      BY <3>1 DEF GoodScript
  <2>3. Lined(<<>>, [x \in 1 .. 1 |-> 0], script[s], 0, 0)
    BY DEF Lined
  <2>4. Worded(<<>>, script[s], 0, 0)
    BY <2>2, <2>3 DEF Worded
  <2>5. Honest(FreshSess, script[s], 0)
    BY <2>2 DEF Honest, FreshSess
  <2>6. QED
    BY <2>1, <2>4, <2>5
<1>4. QED
  BY <1>2, <1>3 DEF SessInv

LEMMA SessAt ==
  ASSUME SessInv, NEW s \in Sess, script' = script, se' \in [Sess -> SessType],
         \A z \in Sess : z # s =>
            /\ sent'[z] = sent[z] /\ wire'[z] = wire[z] /\ rbuf'[z] = rbuf[z]
            /\ taken'[z] = taken[z] /\ se'[z] = se[z],
         Worded(rbuf'[s] \o wire'[s], script[s], taken'[s].requests, sent'[s]),
         Honest(se'[s], script[s], taken'[s].last)
  PROVE  SessInv'
<1>1. ASSUME NEW z \in Sess
      PROVE  /\ Worded(rbuf'[z] \o wire'[z], script'[z], taken'[z].requests, sent'[z])
             /\ Honest(se'[z], script'[z], taken'[z].last)
  <2>1. CASE z = s
    BY <2>1
  <2>2. CASE z # s
    <3>1. /\ Worded(rbuf[z] \o wire[z], script[z], taken[z].requests, sent[z])
          /\ Honest(se[z], script[z], taken[z].last)
      BY DEF SessInv, Left
    <3>2. QED
      BY <2>2, <3>1
  <2>3. QED
    BY <2>1, <2>2
<1>2. QED
  BY <1>1 DEF SessInv, Left

LEMMA SessSend ==
  ASSUME FlowInv, SessInv, NEW s \in Sess, Send(s)
  PROVE  SessInv'
<1>1. PICK b, w, sc, tk, x : b = rbuf[s] /\ w = wire[s] /\ sc = script[s] /\ tk = taken[s] /\ x = se[s]
  OBVIOUS
<1>2. PICK m \in Nat, r \in Nat : m = sent[s] /\ r = tk.requests
  <2>1. sent[s] \in Nat /\ taken[s] \in TakenType
    BY DEF FlowInv, FlowTypes
  <2>2. QED
    BY <1>1, <2>1 DEF TakenType
<1>3. b \in Seq(Byte) /\ w \in Seq(Byte) /\ GoodScript(sc) /\ r <= m
  <2>1. b \in Seq(Byte) /\ w \in Seq(Byte)
    BY <1>1 DEF FlowInv, FlowTypes
  <2>2. r <= m
    <3>1. Flow(Left(s), rbuf[s], sent[s], taken[s], cuts[s])
      BY DEF FlowInv
    <3>2. QED
      BY <1>1, <1>2, <3>1 DEF Flow
  <2>3. QED
    BY <1>1, <2>1, <2>2, ScriptGood
<1>4. m + 1 \in 1 .. Len(sc) /\ m + 1 <= Len(sc)
  <2>1. m < Len(sc)
    BY <1>1, <1>2 DEF Send
  <2>2. Len(sc) \in Nat
    BY <1>3 DEF GoodScript
  <2>3. QED
    BY <2>1, <2>2
<1>5. PICK text \in Seq(Byte), eol \in Seq(Byte) : text = sc[m + 1].text /\ eol = sc[m + 1].eol
  <2>1. sc[m + 1] \in Request
    BY <1>3, <1>4 DEF GoodScript
  <2>2. sc[m + 1].text \in Seq(Byte) /\ sc[m + 1].eol \in {<<LF>>, <<CR, LF>>}
    BY <2>1 DEF Request
  <2>3. <<LF>> \in Seq(Byte) /\ <<CR, LF>> \in Seq(Byte)
    BY Ends
  <2>4. QED
    BY <2>2, <2>3
<1>6. PICK p, t, w2 : p = b \o w /\ t = LineOf(sc[m + 1]) /\ w2 = (w \o text) \o eol
  OBVIOUS
<1>7. b \o w2 = p \o t /\ p \in Seq(Byte)
  <2>1. t = text \o eol /\ t \in Seq(Byte)
    BY <1>5, <1>6, ConcatProperties DEF LineOf
  <2>2. w2 = w \o t
    <3>1. (w \o text) \o eol = w \o (text \o eol)
      BY <1>3, <1>5, Regroup
    <3>2. QED
      BY <1>6, <2>1, <3>1
  <2>3. (b \o w) \o t = b \o (w \o t)
    BY <1>3, <2>1, Regroup
  <2>4. QED
    BY <1>3, <1>6, <2>2, <2>3, ConcatProperties
<1>8. /\ sent' = [sent EXCEPT ![s] = m + 1] /\ wire' = [wire EXCEPT ![s] = w2]
      /\ script' = script /\ rbuf' = rbuf /\ taken' = taken /\ se' = se
  <2>1. sent' = [sent EXCEPT ![s] = @ + 1]
    BY DEF Send
  <2>2. wire' = [wire EXCEPT ![s] = (wire[s] \o script[s][sent[s] + 1].text) \o script[s][sent[s] + 1].eol]
    BY DEF Send
  <2>3. sent' = [sent EXCEPT ![s] = m + 1]
    BY <1>2, <2>1
  <2>4. wire' = [wire EXCEPT ![s] = w2]
    BY <1>1, <1>2, <1>5, <1>6, <2>2
  <2>5. QED
    BY <2>3, <2>4 DEF Send
<1>9. /\ DOMAIN sent = Sess /\ DOMAIN wire = Sess
  BY DEF FlowInv, FlowTypes
<1>10. sent'[s] = m + 1 /\ wire'[s] = w2 /\ rbuf'[s] = b /\ taken'[s] = tk /\ se'[s] = x
  BY <1>1, <1>8, <1>9
<1>11. \A z \in Sess : z # s => sent'[z] = sent[z] /\ wire'[z] = wire[z]
  BY <1>8, <1>9
<1>12. Worded(b \o w2, sc, r, m + 1)
  <2>1. PICK st : Lined(p, st, sc, r, m)
    <3>1. Worded(Left(s), script[s], taken[s].requests, sent[s])
      BY DEF SessInv
    <3>2. Worded(p, sc, r, m)
      BY <1>1, <1>2, <1>6, <3>1 DEF Left
    <3>3. QED
      BY <3>2 DEF Worded
  <2>2. \E more : Lined(p \o LineOf(sc[m + 1]), more, sc, r, m + 1)
    BY <1>3, <1>4, <1>7, <2>1, LinedSent
  <2>3. QED
    BY <1>4, <1>6, <1>7, <2>2 DEF Worded
<1>13. Honest(x, sc, tk.last) /\ se \in [Sess -> SessType]
  BY <1>1 DEF SessInv
<1>14. QED
  BY <1>1, <1>2, <1>8, <1>10, <1>11, <1>12, <1>13, SessAt

LEMMA SessRead ==
  ASSUME FlowInv, SessInv, NEW s \in Sess, TaskRead(s)
  PROVE  SessInv'
<1>1. PICK b, w : b = rbuf[s] /\ w = wire[s]
  OBVIOUS
<1>2. PICK n \in 1 .. Len(w) :
         /\ rbuf' = [rbuf EXCEPT ![s] = @ \o SubSeq(wire[s], 1, n)]
         /\ wire' = [wire EXCEPT ![s] = SubSeq(@, n + 1, Len(@))]
  BY <1>1 DEF TaskRead
<1>3. /\ wire \in [Sess -> Seq(Byte)] /\ rbuf \in [Sess -> Seq(Byte)]
      /\ b \in Seq(Byte) /\ w \in Seq(Byte)
  BY <1>1 DEF FlowInv, FlowTypes
<1>4. PICK c, v : c = b \o SubSeq(w, 1, n) /\ v = SubSeq(w, n + 1, Len(w))
  OBVIOUS
<1>5. c \o v = b \o w
  BY <1>3, <1>4, WireCut
<1>6. rbuf' = [rbuf EXCEPT ![s] = c] /\ wire' = [wire EXCEPT ![s] = v]
  BY <1>1, <1>2, <1>4
<1>7. /\ rbuf'[s] = c /\ wire'[s] = v
      /\ \A z \in Sess : z # s => rbuf'[z] = rbuf[z] /\ wire'[z] = wire[z]
  BY <1>3, <1>6
<1>8. script' = script /\ sent' = sent /\ taken' = taken /\ se' = se
  BY DEF TaskRead
<1>9. /\ Worded(b \o w, script[s], taken[s].requests, sent[s])
      /\ Honest(se[s], script[s], taken[s].last) /\ se \in [Sess -> SessType]
  BY <1>1 DEF SessInv, Left
<1>10. QED
  BY <1>5, <1>7, <1>8, <1>9, SessAt

LEMMA SessParsing ==
  ASSUME FlowInv, SessInv, NEW s \in Sess, Parsing(s)
  PROVE  SessInv'
<1>1. PICK b, w, sc, tk, x : b = rbuf[s] /\ w = wire[s] /\ sc = script[s] /\ tk = taken[s] /\ x = se[s]
  OBVIOUS
<1>2. PICK m \in Nat, r \in Nat : m = sent[s] /\ r = tk.requests
  <2>1. sent[s] \in Nat /\ taken[s] \in TakenType
    BY DEF FlowInv, FlowTypes
  <2>2. QED
    BY <1>1, <2>1 DEF TakenType
<1>3. /\ b \in Seq(Byte) /\ w \in Seq(Byte) /\ GoodScript(sc) /\ r <= m /\ Framed(b \o w)
      /\ tk \in TakenType /\ taken \in [Sess -> TakenType] /\ rbuf \in [Sess -> Seq(Byte)]
  <2>1. /\ b \in Seq(Byte) /\ w \in Seq(Byte) /\ tk \in TakenType
        /\ taken \in [Sess -> TakenType] /\ rbuf \in [Sess -> Seq(Byte)]
    BY <1>1 DEF FlowInv, FlowTypes
  <2>2. r <= m /\ Framed(b \o w)
    <3>1. Flow(Left(s), rbuf[s], sent[s], taken[s], cuts[s])
      BY DEF FlowInv
    <3>2. QED
      BY <1>1, <1>2, <3>1 DEF Flow, Left
  <2>3. QED
    BY <1>1, <2>1, <2>2, ScriptGood
<1>4. PICK st : Lined(b \o w, st, sc, r, m) /\ m <= Len(sc)
  <2>1. Worded(Left(s), script[s], taken[s].requests, sent[s])
    BY DEF SessInv
  <2>2. Worded(b \o w, sc, r, m)
    BY <1>1, <1>2, <2>1 DEF Left
  <2>3. QED
    BY <2>2 DEF Worded
<1>5. PICK n, k : n = LineLen(b) /\ k = LineRead(b)
  OBVIOUS
<1>6. PICK u \in Nat, last \in Nat :
        u = (IF n = 0 THEN r ELSE r + 1) /\ last = (IF n = 0 THEN 0 ELSE r + 1)
  OBVIOUS
<1>7. PICK c : c = SubSeq(b, k + 1, Len(b))
  OBVIOUS
<1>8. HasLine(b)
  BY <1>1 DEF Parsing
<1>9. u <= m /\ SubSeq(b, 1, n) = TextOf(sc, last) /\ \E rest : Lined(c \o w, rest, sc, u, m)
  BY <1>3, <1>4, <1>5, <1>6, <1>7, <1>8, ParsedText
<1>10. last \in 0 .. Len(sc)
  <2>1. last <= u
    BY <1>6
  <2>2. Len(sc) \in Nat
    BY <1>3 DEF GoodScript
  <2>3. QED
    BY <1>4, <1>9, <2>1, <2>2
<1>11. PICK argv : argv = S!Split(TextOf(sc, last), SP)
  OBVIOUS
<1>12. argv \in Seq(Seq(Byte))
  BY <1>3, <1>10, <1>11, TextType, SplitType, ByteIsBytes
<1>13. PICK y : y = IF argv = <<>> THEN [x EXCEPT !.state = "process_cmd"]
                    ELSE [state |-> "process_cmd", argv |-> argv, cmd |-> GetCmd(argv[1])]
  OBVIOUS
<1>14. se' = [se EXCEPT ![s] = y]
  <2>1. se' = [se EXCEPT ![s] =
                 IF S!Split(SubSeq(b, 1, n), SP) = <<>> THEN [se[s] EXCEPT !.state = "process_cmd"]
                 ELSE [state |-> "process_cmd", argv |-> S!Split(SubSeq(b, 1, n), SP),
                       cmd |-> GetCmd(S!Split(SubSeq(b, 1, n), SP)[1])]]
    BY <1>1, <1>5 DEF Parsing
  <2>2. S!Split(SubSeq(b, 1, n), SP) = argv
    BY <1>9, <1>11
  <2>3. QED
    BY <1>1, <1>13, <2>1, <2>2
<1>15. x \in SessType /\ x.argv = <<>> /\ x.cmd = "none" /\ se \in [Sess -> SessType]
  <2>1. x \in SessType /\ se \in [Sess -> SessType] /\ Honest(x, sc, tk.last)
    BY <1>1 DEF SessInv
  <2>2. x.state = "parsing"
    BY <1>1 DEF Parsing, InState
  <2>3. QED
    BY <2>1, <2>2 DEF Honest
<1>16. y \in SessType /\ y.argv = argv /\ y.cmd = (IF argv = <<>> THEN "none" ELSE GetCmd(argv[1]))
  <2>1. CASE argv = <<>>
    <3>1. y = [x EXCEPT !.state = "process_cmd"]
      BY <1>13, <2>1
    <3>2. y \in SessType /\ y.argv = x.argv /\ y.cmd = x.cmd
      BY <1>15, <3>1 DEF SessType
    <3>3. QED
      BY <1>15, <2>1, <3>2
  <2>2. CASE argv # <<>>
    <3>1. PICK cmd : cmd = GetCmd(argv[1])
      OBVIOUS
    <3>2. cmd \in {"none", "get", "set"}
      BY <3>1, CmdType
    <3>3. y = [state |-> "process_cmd", argv |-> argv, cmd |-> cmd]
      BY <1>13, <2>2, <3>1
    <3>4. y \in SessType /\ y.argv = argv /\ y.cmd = cmd
      BY <1>12, <3>2, <3>3 DEF SessType
    <3>5. QED
      BY <2>2, <3>1, <3>4
  <2>3. QED
    BY <2>1, <2>2
<1>17. y.state = "process_cmd"
  <2>1. CASE argv = <<>>
    BY <1>13, <1>15, <2>1 DEF SessType
  <2>2. CASE argv # <<>>
    BY <1>13, <2>2
  <2>3. QED
    BY <2>1, <2>2
<1>18. Honest(y, sc, last)
  BY <1>10, <1>11, <1>16, <1>17 DEF Honest, Meant
<1>19. PICK tk2 : taken' = [taken EXCEPT ![s] = tk2] /\ tk2.requests = u /\ tk2.last = last
  <2>1. PICK e1 \in Nat, r1 \in Nat, o \in Nat : e1 = tk.empties + 1 /\ r1 = r + 1 /\ o = 0
    <3>1. tk.empties \in Nat
      BY <1>3 DEF TakenType
    <3>2. QED
      BY <3>1
  <2> DEFINE none == [tk EXCEPT !.empties = e1, !.last = o]
             some == [tk EXCEPT !.requests = r1, !.last = r1]
  <2>2. taken' = [taken EXCEPT ![s] = IF n = 0 THEN none ELSE some]
    BY <1>1, <1>2, <1>5, <2>1 DEF Parsing
  <2>3. none.requests = r /\ none.last = 0
    BY <1>2, <1>3, <2>1 DEF TakenType
  <2>4. some.requests = r + 1 /\ some.last = r + 1
    BY <1>2, <1>3, <2>1 DEF TakenType
  <2> HIDE DEF none, some
  <2>5. CASE n = 0
    <3>1. taken' = [taken EXCEPT ![s] = none]
      BY <2>2, <2>5
    <3>2. QED
      BY <1>6, <2>3, <2>5, <3>1
  <2>6. CASE n # 0
    <3>1. taken' = [taken EXCEPT ![s] = some]
      BY <2>2, <2>6
    <3>2. QED
      BY <1>6, <2>4, <2>6, <3>1
  <2>7. QED
    BY <2>5, <2>6
<1>20. rbuf' = [rbuf EXCEPT ![s] = c]
  BY <1>1, <1>5, <1>7 DEF Parsing
<1>21. script' = script /\ sent' = sent /\ wire' = wire
  BY DEF Parsing
<1>22. taken'[s] = tk2 /\ \A z \in Sess : z # s => taken'[z] = taken[z]
  BY <1>3, <1>19
<1>23. rbuf'[s] = c /\ \A z \in Sess : z # s => rbuf'[z] = rbuf[z]
  BY <1>3, <1>20
<1>24. se' \in [Sess -> SessType] /\ se'[s] = y /\ \A z \in Sess : z # s => se'[z] = se[z]
  BY <1>14, <1>15, <1>16
<1>25. Worded(c \o w, sc, u, m)
  BY <1>4, <1>9 DEF Worded
<1>26. /\ Worded(rbuf'[s] \o wire'[s], script[s], taken'[s].requests, sent'[s])
       /\ Honest(se'[s], script[s], taken'[s].last)
  BY <1>1, <1>2, <1>18, <1>19, <1>21, <1>22, <1>23, <1>24, <1>25
<1>27. QED
  BY <1>21, <1>22, <1>23, <1>24, <1>26, SessAt

(* The turns of the loop that touch no byte.                               *)
LEMMA SessTurn ==
  ASSUME SessInv, NEW s \in Sess, UNCHANGED <<script, sent, wire, rbuf, taken>>,
         NEW y \in SessType, se' = [se EXCEPT ![s] = y],
         y.state # "process_cmd",
         y.state \in {"init", "parsing"} => y.argv = <<>> /\ y.cmd = "none"
  PROVE  SessInv'
<1>1. /\ se \in [Sess -> SessType]
      /\ Worded(rbuf[s] \o wire[s], script[s], taken[s].requests, sent[s])
      /\ Honest(se[s], script[s], taken[s].last)
  BY DEF SessInv, Left
<1>2. se' \in [Sess -> SessType] /\ se'[s] = y /\ \A z \in Sess : z # s => se'[z] = se[z]
  BY <1>1
<1>3. Honest(y, script[s], taken[s].last)
  BY <1>1 DEF Honest
<1>4. QED
  BY <1>1, <1>2, <1>3, SessAt

LEMMA SessSame ==
  ASSUME SessInv, UNCHANGED <<script, sent, wire, rbuf, taken, se>>
  PROVE  SessInv'
BY DEF SessInv, Left

LEMMA SessNext ==
  ASSUME FlowInv, SessInv, [Next]_vars
  PROVE  SessInv'
<1>1. CASE UNCHANGED vars
  BY <1>1, SessSame DEF vars
<1>2. CASE Next
  <2>1. PICK s \in Sess : Send(s) \/ TaskRead(s) \/ ProcessSess(s)
    BY <1>2 DEF Next
  <2>2. PICK x : x = se[s]
    OBVIOUS
  <2>3. x \in SessType /\ Honest(x, script[s], taken[s].last)
    BY <2>2 DEF SessInv
  <2>4. CASE Send(s)
    BY <2>4, SessSend
  <2>5. CASE TaskRead(s)
    BY <2>5, SessRead
  <2>6. CASE Parsing(s)
    BY <2>6, SessParsing
  <2>7. CASE NoLine(s)
    <3>1. UNCHANGED <<script, sent, wire, rbuf, taken, se>>
      BY <2>7 DEF NoLine
    <3>2. QED
      BY <3>1, SessSame
  <2>8. CASE SessInit(s)
    <3>1. UNCHANGED <<script, sent, wire, rbuf, taken>> /\ x.state = "init"
      BY <2>2, <2>8 DEF SessInit, InState
    <3>2. PICK y : y = [x EXCEPT !.state = "parsing"]
      OBVIOUS
    <3>3. se' = [se EXCEPT ![s] = y]
      BY <2>2, <2>8, <3>2 DEF SessInit
    <3>4. y \in SessType /\ y.state = "parsing" /\ y.argv = x.argv /\ y.cmd = x.cmd
      BY <2>3, <3>2 DEF SessType
    <3>5. x.argv = <<>> /\ x.cmd = "none"
      BY <2>3, <3>1 DEF Honest
    <3>6. QED
      BY <3>1, <3>3, <3>4, <3>5, SessTurn
  <2>9. CASE Finish(s)
    <3>1. UNCHANGED <<script, sent, wire, rbuf, taken>> /\ se' = [se EXCEPT ![s] = FreshSess]
      BY <2>9 DEF Finish, Reset
    <3>2. /\ FreshSess \in SessType /\ FreshSess.state # "process_cmd"
          /\ FreshSess.argv = <<>> /\ FreshSess.cmd = "none"
      BY EmptySeq DEF FreshSess, SessType
    <3>3. QED
      BY <3>1, <3>2, SessTurn
  <2>10. CASE CmdGet(s) \/ CmdSet(s) \/ NoCmd(s)
    <3>1. UNCHANGED <<script, sent, wire, rbuf, taken>>
      BY <2>10 DEF CmdGet, CmdSet, NoCmd, Replied
    <3>2. PICK y : y = [x EXCEPT !.state = "finish"]
      OBVIOUS
    <3>3. se' = se \/ se' = [se EXCEPT ![s] = y]
      BY <2>2, <2>10, <3>2 DEF CmdGet, CmdSet, NoCmd, Replied
    <3>4. y \in SessType /\ y.state = "finish"
      BY <2>3, <3>2 DEF SessType
    <3>5. CASE se' = se
      BY <3>1, <3>5, SessSame
    <3>6. CASE se' = [se EXCEPT ![s] = y]
      BY <3>1, <3>4, <3>6, SessTurn
    <3>7. QED
      BY <3>3, <3>5, <3>6
  <2>11. QED
    BY <2>1, <2>4, <2>5, <2>6, <2>7, <2>8, <2>9, <2>10 DEF ProcessSess
<1>3. QED
  BY <1>1, <1>2

(* Each line that a session takes is the text its client sent, and what a  *)
(* command gets is what that text means (atm_sess.c:58).                   *)
THEOREM SessAlways == Spec => []SessInv
<1>1. SessInv /\ FlowInv /\ [Next]_vars => SessInv'
  BY SessNext
<1>2. QED
  BY <1>1, SessInit0, FlowAlways, PTL DEF Spec

-----------------------------------------------------------------------------
(* The arguments of a split are not empty.                                 *)
LEMMA ArgsNotEmpty ==
  ASSUME NEW C, NEW sep, Bytes2(C, sep), NEW text \in Seq(C)
  PROVE  \A i \in 1 .. Len(S!Split(text, sep)) : S!Split(text, sep)[i] # <<>>
<1> DEFINE p == S!Splitting(text, sep)
           Full(argv) == \A i \in 1 .. Len(argv) : argv[i] # <<>>
           B == {n \in 0 .. Len(text) : Full(p[n].argv)}
<1>1. Len(text) \in Nat /\ \A n \in 1 .. Len(text) : text[n] \in C
  OBVIOUS
<1>2. /\ p \in [0 .. Len(text) -> Split1(C)] /\ p[0] = SplitFrom(sep)
      /\ \A n \in 1 .. Len(text) : p[n] = S!SplitByte(p[n - 1], text[n], sep)
  BY SplittingIs
<1> HIDE DEF p
<1>3. ASSUME NEW argv \in Seq(Seq(C)), NEW arg \in Seq(C), Full(argv), arg # <<>>
      PROVE  Full(Append(argv, arg))
  <2>0. PICK a : a = Append(argv, arg)
    OBVIOUS
  <2>1. PICK m \in Nat : m = Len(argv) /\ a = Append(argv, arg)
    BY <2>0
  <2>2. Len(a) = m + 1 /\ a[m + 1] = arg /\ \A i \in 1 .. m : a[i] = argv[i]
    BY <2>1, AppendProperties
  <2>3. \A i \in 1 .. m + 1 : i = m + 1 \/ i \in 1 .. m
    OBVIOUS
  <2>4. QED
    BY <1>3, <2>1, <2>2, <2>3
<1>4. 0 \in B
  <2>1. p[0].argv = <<>>
    BY <1>2 DEF SplitFrom
  <2>2. QED
    BY <1>1, <2>1
<1>5. \A n \in 1 .. Len(text) : n - 1 \in B => n \in B
  <2> SUFFICES ASSUME NEW n \in 1 .. Len(text), n - 1 \in B PROVE n \in B
    OBVIOUS
  <2>1. PICK q, r : q = p[n - 1] /\ r = p[n]
    OBVIOUS
  <2>2. q \in Split1(C) /\ r = S!SplitByte(q, text[n], sep) /\ Full(q.argv) /\ n \in 0 .. Len(text)
    <3>1. n - 1 \in 0 .. Len(text) /\ n \in 0 .. Len(text)
      BY <1>1
    <3>2. QED
      BY <1>2, <2>1, <3>1
  <2>3. PICK argv \in Seq(Seq(C)), arg \in Seq(C), inq \in Nat, qty \in C :
          q = [argv |-> argv, arg |-> arg, inq |-> inq, qty |-> qty]
    BY <2>2 DEF Split1
  <2>4. r.argv = argv \/ (arg # <<>> /\ r.argv = Append(argv, arg))
    <3>1. CASE inq > 0
      BY <2>2, <2>3, <3>1 DEF S!SplitByte, S!InQuote
    <3>2. CASE ~ (inq > 0)
      <4>1. r = S!OutOfQuote(q, text[n], sep)
        BY <2>2, <2>3, <3>2 DEF S!SplitByte
      <4>2. CASE text[n] = sep
        BY <2>3, <4>1, <4>2 DEF S!OutOfQuote
      <4>3. CASE text[n] # sep
        BY <2>3, <4>1, <4>3 DEF S!OutOfQuote
      <4>4. QED
        BY <4>2, <4>3
    <3>3. QED
      BY <3>1, <3>2
  <2>5. Full(argv)
    BY <2>2, <2>3
  <2>6. Full(r.argv)
    <3>1. CASE r.argv = argv
      BY <2>5, <3>1
    <3>2. CASE arg # <<>> /\ r.argv = Append(argv, arg)
      BY <1>3, <2>5, <3>2
    <3>3. QED
      BY <2>4, <3>1, <3>2
  <2>7. QED
    BY <2>1, <2>2, <2>6
<1> HIDE DEF B
<1>6. Len(text) \in B
  <2>1. \A i \in 0 .. Len(text) : i \in B
    BY <1>1, <1>4, <1>5, Upward
  <2>2. QED
    BY <1>1, <2>1
<1>7. PICK last : last = p[Len(text)]
  OBVIOUS
<1>8. last.argv \in Seq(Seq(C)) /\ last.arg \in Seq(C) /\ Full(last.argv)
  <2>1. last \in Split1(C)
    BY <1>1, <1>2, <1>7
  <2>2. QED
    BY <1>6, <1>7, <2>1 DEF B, Split1
<1>9. Full(S!Split(text, sep))
  <2>1. S!Split(text, sep) = IF last.arg = <<>> THEN last.argv ELSE Append(last.argv, last.arg)
    BY <1>7 DEF S!Split, p
  <2> HIDE DEF Full
  <2>2. QED
    BY <1>3, <1>8, <2>1
<1>10. QED
  BY <1>9

-----------------------------------------------------------------------------
(* The replies that the order of the commands explains.                    *)
ServedNone == [kept |-> <<>>, seen |-> <<>>, out |-> [s \in Sess |-> <<>>]]

ServeStep(sc, acc, c) ==
    LET a == Answer(acc, IF c[2] = 0 THEN <<>> ELSE sc[c[1]][c[2]].text, c[3])
    IN  [kept |-> a.kept, seen |-> a.seen,
         out |-> [acc.out EXCEPT ![c[1]] = Append(@, a.reply)]]

ServedBy(sc, ord) ==
    LET run[n \in 0 .. Len(ord)] ==
          IF n = 0 THEN ServedNone ELSE ServeStep(sc, run[n - 1], ord[n])
    IN  run[Len(ord)]

ServeRun(m, sc, ord, k) ==
    m = [n \in 0 .. k |-> IF n = 0 THEN ServedNone ELSE ServeStep(sc, m[n - 1], ord[n])]

LEMMA ServedIsBy == \A ord : Served(ord) = ServedBy(script, ord)
BY DEF Served, ServedBy, ServedNone, ServeStep

LEMMA ServeRuns ==
  ASSUME NEW sc, NEW X, NEW ord \in Seq(X)
  PROVE  \E m : ServeRun(m, sc, ord, Len(ord)) /\ ServedBy(sc, ord) = m[Len(ord)]
<1>1. Len(ord) \in Nat
  OBVIOUS
<1> DEFINE B == {k \in 0 .. Len(ord) : \E m : ServeRun(m, sc, ord, k)}
<1>2. 0 \in B
  <2>1. PICK m : m = [n \in 0 .. 0 |-> ServedNone]
    OBVIOUS
  <2>2. \A n \in 0 .. 0 : n = 0
    OBVIOUS
  <2>3. m = [n \in 0 .. 0 |-> IF n = 0 THEN ServedNone ELSE ServeStep(sc, m[n - 1], ord[n])]
    BY <2>1, <2>2
  <2>4. ServeRun(m, sc, ord, 0)
    BY <2>3 DEF ServeRun
  <2>5. QED
    BY <1>1, <2>4
<1>3. \A k \in 1 .. Len(ord) : k - 1 \in B => k \in B
  <2> SUFFICES ASSUME NEW k \in 1 .. Len(ord), k - 1 \in B PROVE k \in B
    OBVIOUS
  <2>1. PICK m : m = [n \in 0 .. k - 1 |-> IF n = 0 THEN ServedNone ELSE ServeStep(sc, m[n - 1], ord[n])]
    BY DEF ServeRun
  <2>2. PICK g : g = [n \in 0 .. k |-> IF n = 0 THEN ServedNone ELSE ServeStep(sc, m[n - 1], ord[n])]
    OBVIOUS
  <2>3. \A n \in 0 .. k : n # 0 => n - 1 \in 0 .. k - 1 /\ n - 1 \in 0 .. k
    OBVIOUS
  <2>4. \A n \in 0 .. k - 1 : g[n] = m[n]
    <3>1. \A n \in 0 .. k - 1 : n \in 0 .. k
      OBVIOUS
    <3>2. \A n \in 0 .. k - 1 : m[n] = IF n = 0 THEN ServedNone ELSE ServeStep(sc, m[n - 1], ord[n])
      BY <2>1
    <3>3. \A n \in 0 .. k : g[n] = IF n = 0 THEN ServedNone ELSE ServeStep(sc, m[n - 1], ord[n])
      BY <2>2
    <3>4. QED
      BY <3>1, <3>2, <3>3
  <2>5. \A n \in 0 .. k : n # 0 => m[n - 1] = g[n - 1]
    BY <2>3, <2>4
  <2>6. g = [n \in 0 .. k |-> IF n = 0 THEN ServedNone ELSE ServeStep(sc, g[n - 1], ord[n])]
    BY <2>2, <2>5
  <2>7. ServeRun(g, sc, ord, k)
    BY <2>6 DEF ServeRun
  <2>8. QED
    BY <1>1, <2>7
<1> HIDE DEF B
<1>4. Len(ord) \in B
  <2>1. \A i \in 0 .. Len(ord) : i \in B
    BY <1>1, <1>2, <1>3, Upward
  <2>2. QED
    BY <1>1, <2>1
<1>5. \E m : m = [n \in 0 .. Len(ord) |-> IF n = 0 THEN ServedNone ELSE ServeStep(sc, m[n - 1], ord[n])]
  BY <1>4 DEF B, ServeRun
<1>6. QED
  BY <1>5 DEF ServedBy, ServeRun

(* One command more is one step more.                                      *)
LEMMA ServedAppend ==
  ASSUME NEW sc, NEW X, NEW ord \in Seq(X), NEW c \in X
  PROVE  ServedBy(sc, Append(ord, c)) = ServeStep(sc, ServedBy(sc, ord), c)
<1>0. PICK ord2 : ord2 = Append(ord, c)
  OBVIOUS
<1>1. PICK l \in Nat : l = Len(ord) /\ ord2 = Append(ord, c)
  BY <1>0
<1>2. ord2 \in Seq(X) /\ Len(ord2) = l + 1 /\ ord2[l + 1] = c /\ \A n \in 1 .. l : ord2[n] = ord[n]
  BY <1>1, AppendProperties
<1>3. PICK m1 : /\ m1 = [n \in 0 .. l |-> IF n = 0 THEN ServedNone ELSE ServeStep(sc, m1[n - 1], ord[n])]
                /\ ServedBy(sc, ord) = m1[l]
  BY <1>1, ServeRuns DEF ServeRun
<1>4. PICK m2 : /\ m2 = [n \in 0 .. l + 1 |-> IF n = 0 THEN ServedNone ELSE ServeStep(sc, m2[n - 1], ord2[n])]
                /\ ServedBy(sc, ord2) = m2[l + 1]
  <2>1. \E m : ServeRun(m, sc, ord2, Len(ord2)) /\ ServedBy(sc, ord2) = m[Len(ord2)]
    BY <1>2, ServeRuns
  <2>2. QED
    BY <1>2, <2>1 DEF ServeRun
<1>5. m1[0] = ServedNone /\ \A n \in 1 .. l : m1[n] = ServeStep(sc, m1[n - 1], ord[n])
  <2>1. 0 \in 0 .. l /\ \A n \in 1 .. l : n \in 0 .. l /\ n # 0
    BY <1>1
  <2>2. \A n \in 0 .. l : m1[n] = IF n = 0 THEN ServedNone ELSE ServeStep(sc, m1[n - 1], ord[n])
    BY <1>3
  <2>3. QED
    BY <2>1, <2>2
<1>6. m2[0] = ServedNone /\ \A n \in 1 .. l + 1 : m2[n] = ServeStep(sc, m2[n - 1], ord2[n])
  <2>1. 0 \in 0 .. l + 1 /\ \A n \in 1 .. l + 1 : n \in 0 .. l + 1 /\ n # 0
    BY <1>1
  <2>2. \A n \in 0 .. l + 1 : m2[n] = IF n = 0 THEN ServedNone ELSE ServeStep(sc, m2[n - 1], ord2[n])
    BY <1>4
  <2>3. QED
    BY <2>1, <2>2
<1> DEFINE B == {n \in 0 .. l : m2[n] = m1[n]}
<1>7. 0 \in B
  BY <1>1, <1>5, <1>6
<1>8. \A n \in 1 .. l : n - 1 \in B => n \in B
  <2> SUFFICES ASSUME NEW n \in 1 .. l, n - 1 \in B PROVE n \in B
    OBVIOUS
  <2>1. n \in 1 .. l + 1 /\ n \in 0 .. l
    BY <1>1
  <2>2. m2[n] = ServeStep(sc, m2[n - 1], ord2[n]) /\ m1[n] = ServeStep(sc, m1[n - 1], ord[n])
    BY <1>5, <1>6, <2>1
  <2>3. QED
    BY <1>2, <2>1, <2>2
<1> HIDE DEF B
<1>9. l \in B
  <2>1. \A i \in 0 .. l : i \in B
    BY <1>1, <1>7, <1>8, Upward
  <2>2. QED
    BY <1>1, <2>1
<1>10. m2[l + 1] = ServeStep(sc, m2[l], c)
  <2>1. l + 1 \in 1 .. l + 1 /\ (l + 1) - 1 = l
    BY <1>1
  <2>2. QED
    BY <1>2, <1>6, <2>1
<1>11. m2[l] = m1[l]
  BY <1>9 DEF B
<1>12. QED
  BY <1>1, <1>3, <1>4, <1>10, <1>11

LEMMA ServedNothing == \A sc : ServedBy(sc, <<>>) = ServedNone
<1> SUFFICES ASSUME NEW sc PROVE ServedBy(sc, <<>>) = ServedNone
  OBVIOUS
<1>1. <<>> \in Seq({0}) /\ Len(<<>>) = 0
  BY EmptySeq
<1>2. PICK m : ServeRun(m, sc, <<>>, 0) /\ ServedBy(sc, <<>>) = m[0]
  BY <1>1, ServeRuns
<1>3. m[0] = ServedNone
  <2>1. 0 \in 0 .. 0
    OBVIOUS
  <2>2. QED
    BY <1>2, <2>1 DEF ServeRun
<1>4. QED
  BY <1>2, <1>3

-----------------------------------------------------------------------------
(* The strings of the service are made from texts.                         *)
Str == [cap : Nat, len : Nat, text : Seq(Byte)]

Terminated(text) == S!StrCats(S!StrNew(text), <<LF>>)

LEMMA NewIs ==
  ASSUME NEW text \in Seq(Byte)
  PROVE  /\ S!StrNew(text) \in Str /\ S!StrNew(text) # NullStr
         /\ S!StrNew(text).text = text /\ S!StrNew(text).len = Len(text)
         /\ S!StrNew(text).cap >= Len(text) + 1
<1> DEFINE n == S!HdrLen + Len(text) + 1
<1>1. n \in Nat /\ n > 0 /\ Len(text) \in Nat /\ n = Len(text) + 9
  BY DEF S!HdrLen
<1> HIDE DEF n
<1>2. S!StrSize(n) \in Nat /\ S!StrSize(n) >= n + 1
  BY <1>1 DEF S!StrSize, S!WordLen
<1>3. S!StrNew(text) = [cap |-> S!StrSize(n) - 9, len |-> Len(text), text |-> text]
  BY <1>1, <1>2 DEF S!StrNew, S!HdrLen, n
<1>4. S!StrSize(n) - 9 \in Nat /\ S!StrSize(n) - 9 >= Len(text) + 1
  BY <1>1, <1>2
<1>5. S!StrNew(text) \in Str
  BY <1>1, <1>3, <1>4 DEF Str
<1>6. S!StrNew(text) # NullStr
  BY <1>5, SessAssumption DEF Str
<1>7. QED
  BY <1>3, <1>4, <1>5, <1>6

LEMMA TerminatedIs ==
  ASSUME NEW text \in Seq(Byte)
  PROVE  /\ Terminated(text) \in Str
         /\ Terminated(text).text = Append(text, LF)
         /\ S!Whole(Terminated(text))
<1>1. PICK s : s = S!StrNew(text)
  OBVIOUS
<1>2. s \in Str /\ s # NullStr /\ s.text = text /\ s.len = Len(text) /\ s.cap >= Len(text) + 1
  BY <1>1, NewIs
<1>3. PICK cap \in Nat, l \in Nat : s = [cap |-> cap, len |-> l, text |-> text] /\ l = Len(text)
  BY <1>2 DEF Str
<1>4. cap >= l + 1
  BY <1>2, <1>3
<1>5. S!StrGrow(s, 1) = s
  <2>1. cap - l >= 1
    BY <1>4
  <2>2. s.cap - s.len >= 1
    BY <1>3, <2>1
  <2>3. QED
    BY <1>2, <2>2 DEF S!StrGrow
<1>6. PICK longer : longer = text \o <<LF>>
  OBVIOUS
<1>7. longer = Append(text, LF) /\ longer \in Seq(Byte) /\ Len(longer) = l + 1
  <2>1. Append(text, LF) = text \o <<LF>>
    BY AppendIsConcat, Ends
  <2>2. Append(text, LF) \in Seq(Byte) /\ Len(Append(text, LF)) = Len(text) + 1
    BY AppendProperties, Ends
  <2>3. QED
    BY <1>3, <1>6, <2>1, <2>2
<1>8. Terminated(text) = [cap |-> cap, len |-> l + 1, text |-> longer]
  <2>1. Len(<<LF>>) = 1
    OBVIOUS
  <2>2. S!StrGrow(s, Len(<<LF>>)) = s
    BY <1>5, <2>1
  <2>3. Terminated(text) = [s EXCEPT !.len = @ + Len(<<LF>>), !.text = @ \o <<LF>>]
    BY <1>1, <2>2 DEF Terminated, S!StrCats
  <2>4. Terminated(text) = [s EXCEPT !.len = l + 1, !.text = longer]
    BY <1>3, <1>6, <2>1, <2>3
  <2>5. QED
    BY <1>3, <2>4
<1>9. l + 1 \in Nat /\ l + 1 <= cap
  BY <1>4
<1>10. QED
  BY <1>7, <1>8, <1>9 DEF Str, S!Whole

(* A missing argument is the NULL string; the empty text stands for it.    *)
StrOf(text) == IF text = <<>> THEN NullStr ELSE S!StrNew(text)

LEMMA StrOfInjective ==
  ASSUME NEW t \in Seq(Byte), NEW u \in Seq(Byte), StrOf(t) = StrOf(u)
  PROVE  t = u
BY NewIs DEF StrOf

LEMMA KeyTextIs ==
  ASSUME NEW t \in Seq(Byte)
  PROVE  KeyText(StrOf(t)) = t
BY NewIs DEF StrOf, KeyText

LEMMA StrOfWhole ==
  ASSUME NEW t \in Seq(Byte), StrOf(t) # NullStr
  PROVE  S!Whole(StrOf(t))
<1>1. StrOf(t) = S!StrNew(t)
  BY DEF StrOf
<1>2. PICK s : s = S!StrNew(t)
  OBVIOUS
<1>3. s.text = t /\ s.len = Len(t) /\ s.cap >= Len(t) + 1 /\ s.cap \in Nat /\ Len(t) \in Nat
  BY <1>2, NewIs DEF Str
<1>4. QED
  BY <1>1, <1>2, <1>3 DEF S!Whole

LEMMA CatsOf ==
  ASSUME NEW t \in Seq(Byte)
  PROVE  S!StrCatsDup(StrOf(t), <<LF>>) = Terminated(t)
<1>1. CASE t = <<>>
  <2>1. S!StrGrow(NullStr, Len(<<LF>>)) = S!StrGrow(S!StrNew(<<>>), Len(<<LF>>))
    BY DEF S!StrGrow
  <2>2. QED
    BY <1>1, <2>1 DEF StrOf, Terminated, S!StrCatsDup, S!StrDup, S!StrCats
<1>2. CASE t # <<>>
  BY <1>2 DEF StrOf, Terminated, S!StrCatsDup, S!StrDup
<1>3. QED
  BY <1>1, <1>2

LEMMA MessagesType ==
  Success \in Seq(Byte) /\ InvalidCmd \in Seq(Byte) /\ InvalidArgc \in Seq(Byte)
<1>1. "Success" \in Byte /\ "Invalid cmd" \in Byte /\ "Invalid argc" \in Byte
  BY DEF Byte
<1>2. \A c \in Byte : \A n \in Nat : Bytes(c, n) \in Seq(Byte)
  BY DEF Bytes
<1>3. 7 \in Nat /\ 11 \in Nat /\ 12 \in Nat
  OBVIOUS
<1>4. QED
  BY <1>1, <1>2, <1>3 DEF Success, InvalidCmd, InvalidArgc

-----------------------------------------------------------------------------
(* The cache and the values that are kept, key by key.                     *)
Mirrors(map, kept) ==
    /\ \A t \in DOMAIN kept : t \in Seq(Byte) /\ kept[t] \in Seq(Byte)
    /\ DOMAIN map = {StrOf(t) : t \in DOMAIN kept}
    /\ \A t \in DOMAIN kept : map[StrOf(t)] = StrOf(kept[t])

LEMMA MirrorsPut ==
  ASSUME NEW map, NEW kept, Mirrors(map, kept), NEW t \in Seq(Byte), NEW v \in Seq(Byte)
  PROVE  Mirrors(Put(map, StrOf(t), StrOf(v)), Put(kept, t, v))
<1>1. PICK map2, kept2 : map2 = Put(map, StrOf(t), StrOf(v)) /\ kept2 = Put(kept, t, v)
  OBVIOUS
<1>2. /\ \A u \in DOMAIN kept : u \in Seq(Byte) /\ kept[u] \in Seq(Byte)
      /\ DOMAIN map = {StrOf(u) : u \in DOMAIN kept}
      /\ \A u \in DOMAIN kept : map[StrOf(u)] = StrOf(kept[u])
  BY DEF Mirrors
<1>3. /\ DOMAIN kept2 = DOMAIN kept \cup {t}
      /\ \A u \in DOMAIN kept \cup {t} : kept2[u] = IF u = t THEN v ELSE kept[u]
  BY <1>1 DEF Put
<1>4. /\ DOMAIN map2 = DOMAIN map \cup {StrOf(t)}
      /\ \A x \in DOMAIN map \cup {StrOf(t)} : map2[x] = IF x = StrOf(t) THEN StrOf(v) ELSE map[x]
  BY <1>1 DEF Put
<1>5. \A u \in DOMAIN kept2 : u \in Seq(Byte) /\ kept2[u] \in Seq(Byte)
  BY <1>2, <1>3
<1>6. DOMAIN map2 = {StrOf(u) : u \in DOMAIN kept2}
  BY <1>2, <1>3, <1>4
<1>7. ASSUME NEW u \in DOMAIN kept2 PROVE map2[StrOf(u)] = StrOf(kept2[u])
  <2>1. CASE u = t
    BY <1>3, <1>4, <2>1
  <2>2. CASE u # t
    <3>1. u \in DOMAIN kept /\ u \in Seq(Byte)
      BY <1>2, <1>3, <2>2
    <3>2. StrOf(u) # StrOf(t)
      BY <2>2, <3>1, StrOfInjective
    <3>3. StrOf(u) \in DOMAIN map
      BY <1>2, <3>1
    <3>4. QED
      BY <1>2, <1>3, <1>4, <2>2, <3>1, <3>2, <3>3
  <2>3. QED
    BY <2>1, <2>2
<1>8. QED
  BY <1>1, <1>5, <1>6, <1>7 DEF Mirrors

(* The keys that reads are behind for are the same on both sides.          *)
LEMMA MirrorsLag ==
  ASSUME NEW map, NEW kept, Mirrors(map, kept), NEW old, NEW had, Mirrors(old, had),
         NEW late, late \subseteq DOMAIN old
  PROVE  Mirrors(Lag(map, old, late), Lag(kept, had, {KeyText(x) : x \in late}))
<1>1. PICK texts, map2, kept2 :
        /\ texts = {KeyText(x) : x \in late}
        /\ map2 = Lag(map, old, late) /\ kept2 = Lag(kept, had, texts)
  OBVIOUS
<1>2. /\ \A u \in DOMAIN kept : u \in Seq(Byte) /\ kept[u] \in Seq(Byte)
      /\ DOMAIN map = {StrOf(u) : u \in DOMAIN kept}
      /\ \A u \in DOMAIN kept : map[StrOf(u)] = StrOf(kept[u])
  BY DEF Mirrors
<1>3. /\ \A u \in DOMAIN had : u \in Seq(Byte) /\ had[u] \in Seq(Byte)
      /\ DOMAIN old = {StrOf(u) : u \in DOMAIN had}
      /\ \A u \in DOMAIN had : old[StrOf(u)] = StrOf(had[u])
  BY DEF Mirrors
<1>4. /\ DOMAIN map2 = DOMAIN map
      /\ \A x \in DOMAIN map : map2[x] = IF x \in late \cap DOMAIN old THEN old[x] ELSE map[x]
  BY <1>1 DEF Lag
<1>5. /\ DOMAIN kept2 = DOMAIN kept
      /\ \A u \in DOMAIN kept : kept2[u] = IF u \in texts \cap DOMAIN had THEN had[u] ELSE kept[u]
  BY <1>1 DEF Lag
<1>6. \A u \in DOMAIN kept2 : u \in Seq(Byte) /\ kept2[u] \in Seq(Byte)
  BY <1>2, <1>3, <1>5
<1>7. DOMAIN map2 = {StrOf(u) : u \in DOMAIN kept2}
  BY <1>2, <1>4, <1>5
<1>8. ASSUME NEW u \in Seq(Byte)
      PROVE  (StrOf(u) \in late \cap DOMAIN old) <=> (u \in texts \cap DOMAIN had)
  <2>1. ASSUME StrOf(u) \in late \cap DOMAIN old PROVE u \in texts \cap DOMAIN had
    <3>1. PICK w \in DOMAIN had : StrOf(w) = StrOf(u)
      BY <1>3, <2>1
    <3>2. w = u
      BY <1>3, <3>1, StrOfInjective
    <3>3. KeyText(StrOf(u)) = u
      BY KeyTextIs
    <3>4. QED
      BY <1>1, <2>1, <3>2, <3>3
  <2>2. ASSUME u \in texts \cap DOMAIN had PROVE StrOf(u) \in late \cap DOMAIN old
    <3>1. PICK x \in late : u = KeyText(x)
      BY <1>1, <2>2
    <3>2. PICK w \in DOMAIN had : x = StrOf(w)
      BY <1>3, <3>1
    <3>3. w = u
      BY <1>3, <3>1, <3>2, KeyTextIs
    <3>4. QED
      BY <3>1, <3>2, <3>3
  <2>3. QED
    BY <2>1, <2>2
<1>9. ASSUME NEW u \in DOMAIN kept2 PROVE map2[StrOf(u)] = StrOf(kept2[u])
  <2>1. u \in DOMAIN kept /\ u \in Seq(Byte) /\ StrOf(u) \in DOMAIN map
    BY <1>2, <1>5
  <2>2. CASE u \in texts \cap DOMAIN had
    <3>1. map2[StrOf(u)] = old[StrOf(u)] /\ kept2[u] = had[u]
      BY <1>4, <1>5, <1>8, <2>1, <2>2
    <3>2. QED
      BY <1>3, <2>2, <3>1
  <2>3. CASE u \notin texts \cap DOMAIN had
    <3>1. map2[StrOf(u)] = map[StrOf(u)] /\ kept2[u] = kept[u]
      BY <1>4, <1>5, <1>8, <2>1, <2>3
    <3>2. QED
      BY <1>2, <2>1, <3>1
  <2>4. QED
    BY <2>2, <2>3
<1>10. QED
  BY <1>1, <1>6, <1>7, <1>9 DEF Mirrors

(* A value that a read gives.                                              *)
LEMMA MirrorsGet ==
  ASSUME NEW had, Mirrors(seen, had), NEW t \in Seq(Byte)
  PROVE  LET v == IF t \in DOMAIN had THEN had[t] ELSE <<>>
         IN  v \in Seq(Byte) /\ Cached(StrOf(t)) = StrOf(v)
<1>1. /\ \A u \in DOMAIN had : u \in Seq(Byte) /\ had[u] \in Seq(Byte)
      /\ DOMAIN seen = {StrOf(u) : u \in DOMAIN had}
      /\ \A u \in DOMAIN had : seen[StrOf(u)] = StrOf(had[u])
  BY DEF Mirrors
<1>2. CASE t \in DOMAIN had
  BY <1>1, <1>2 DEF Cached
<1>3. CASE t \notin DOMAIN had
  <2>1. StrOf(t) \notin DOMAIN seen
    <3> SUFFICES ASSUME StrOf(t) \in DOMAIN seen PROVE FALSE
      OBVIOUS
    <3>1. PICK u \in DOMAIN had : StrOf(u) = StrOf(t)
      BY <1>1
    <3>2. u = t
      BY <1>1, <3>1, StrOfInjective
    <3>3. QED
      BY <1>3, <3>2
  <2>2. QED
    BY <1>3, <2>1, EmptySeq DEF Cached, StrOf
<1>4. QED
  BY <1>2, <1>3

-----------------------------------------------------------------------------
(* What a command does is what its text asks for.                          *)
ArgOf(argv, i) == IF i <= Len(argv) THEN argv[i] ELSE <<>>

LEMMA GetCmdIs ==
  ASSUME NEW name \in Seq(Byte)
  PROVE  GetCmd(name) = IF name = <<"get">> THEN "get"
                        ELSE IF name = <<"set">> THEN "set" ELSE "none"
<1>1. ASSUME NEW t PROVE S!StrEq(S!StrNew(name), S!StrNew(t)) <=> name = t
  <2>1. S!StrNew(name).text = name /\ S!StrNew(t).text = t
    BY DEF S!StrNew
  <2>2. S!StrEq(S!StrNew(name), S!StrNew(t)) => name = t
    BY <2>1 DEF S!StrEq
  <2>3. name = t => S!StrEq(S!StrNew(name), S!StrNew(t))
    BY DEF S!StrEq
  <2>4. QED
    BY <2>2, <2>3
<1>2. QED
  BY <1>1 DEF GetCmd

LEMMA ParaIs ==
  ASSUME NEW argv \in Seq(Seq(Byte)), \A i \in 1 .. Len(argv) : argv[i] # <<>>,
         NEW i \in {1, 2}
  PROVE  Para(argv, i) = StrOf(ArgOf(argv, i + 1)) /\ ArgOf(argv, i + 1) \in Seq(Byte)
<1>1. Len(argv) \in Nat /\ i + 1 \in Nat /\ i + 1 >= 1
  OBVIOUS
<1>2. CASE i + 1 <= Len(argv)
  <2>1. i + 1 \in 1 .. Len(argv)
    BY <1>1, <1>2
  <2>2. argv[i + 1] # <<>> /\ argv[i + 1] \in Seq(Byte)
    BY <2>1
  <2>3. QED
    BY <1>2, <2>2 DEF Para, StrOf, ArgOf
<1>3. CASE ~ (i + 1 <= Len(argv))
  BY <1>3, EmptySeq DEF Para, StrOf, ArgOf
<1>4. QED
  BY <1>2, <1>3

Same(acc, reply) == [kept |-> acc.kept, seen |-> acc.seen, reply |-> reply]

Stored(acc, late, key, val) ==
    [kept |-> Put(acc.kept, key, val), seen |-> Lag(Put(acc.kept, key, val), acc.seen, late),
     reply |-> Success]

LEMMA AnswerIs ==
  ASSUME NEW text \in Seq(Byte), NEW acc, NEW late, NEW x \in SessType, Meant(x, text)
  PROVE  Answer(acc, text, late) =
           IF x.cmd = "get"
           THEN Same(acc, IF Len(x.argv) # 2 THEN InvalidArgc
                          ELSE IF x.argv[2] \in DOMAIN acc.seen THEN acc.seen[x.argv[2]] ELSE <<>>)
           ELSE IF x.cmd = "set"
           THEN Stored(acc, late, ArgOf(x.argv, 2), ArgOf(x.argv, 3))
           ELSE Same(acc, InvalidCmd)
<1>1. PICK argv, first, cmd : /\ argv = x.argv /\ cmd = x.cmd
                              /\ first = IF 1 <= Len(argv) THEN argv[1] ELSE <<>>
  OBVIOUS
<1>2. argv = S!SplitRef(text, SP)
  BY <1>1, SplitIsRef, ByteIsBytes DEF Meant
<1>3. argv \in Seq(Seq(Byte)) /\ Len(argv) \in Nat
  BY <1>1 DEF SessType
<1>4. cmd = IF first = <<"get">> THEN "get" ELSE IF first = <<"set">> THEN "set" ELSE "none"
  <2>1. cmd = IF argv = <<>> THEN "none" ELSE GetCmd(argv[1])
    BY <1>1 DEF Meant
  <2>2. CASE argv = <<>>
    <3>1. first = <<>>
      BY <1>1, <2>2
    <3>2. <<>> # <<"get">> /\ <<>> # <<"set">>
      OBVIOUS
    <3>3. QED
      BY <2>1, <2>2, <3>1, <3>2
  <2>3. CASE argv # <<>>
    <3>1. 1 <= Len(argv) /\ argv[1] \in Seq(Byte)
      BY <1>3, <2>3
    <3>2. first = argv[1]
      BY <1>1, <3>1
    <3>3. QED
      BY <2>1, <2>3, <3>1, <3>2, GetCmdIs
  <2>4. QED
    BY <2>2, <2>3
<1>5. Answer(acc, text, late) =
        CASE first = <<"get">> ->
               Same(acc, IF Len(argv) # 2 THEN InvalidArgc
                         ELSE IF ArgOf(argv, 2) \in DOMAIN acc.seen THEN acc.seen[ArgOf(argv, 2)]
                         ELSE <<>>)
          [] first = <<"set">> -> Stored(acc, late, ArgOf(argv, 2), ArgOf(argv, 3))
          [] OTHER -> Same(acc, InvalidCmd)
  BY <1>1, <1>2 DEF Answer, ArgOf, Same, Stored
<1>6. <<"get">> # <<"set">> /\ "get" # "set" /\ "get" # "none" /\ "set" # "none"
  OBVIOUS
<1>7. CASE first = <<"get">>
  <2>1. cmd = "get"
    BY <1>4, <1>7
  <2>2. Len(argv) = 2 => ArgOf(argv, 2) = argv[2]
    BY DEF ArgOf
  <2>3. Answer(acc, text, late) =
          Same(acc, IF Len(argv) # 2 THEN InvalidArgc
                    ELSE IF ArgOf(argv, 2) \in DOMAIN acc.seen THEN acc.seen[ArgOf(argv, 2)]
                    ELSE <<>>)
    BY <1>5, <1>6, <1>7
  <2>4. QED
    BY <1>1, <2>1, <2>2, <2>3
<1>8. CASE first = <<"set">>
  <2>1. cmd = "set"
    BY <1>4, <1>6, <1>8
  <2>2. Answer(acc, text, late) = Stored(acc, late, ArgOf(argv, 2), ArgOf(argv, 3))
    BY <1>5, <1>6, <1>8
  <2>3. QED
    BY <1>1, <1>6, <2>1, <2>2
<1>9. CASE first # <<"get">> /\ first # <<"set">>
  <2>1. cmd = "none"
    BY <1>4, <1>9
  <2>2. Answer(acc, text, late) = Same(acc, InvalidCmd)
    BY <1>5, <1>9
  <2>3. QED
    BY <1>1, <1>6, <2>1, <2>2
<1>10. QED
  BY <1>7, <1>8, <1>9

-----------------------------------------------------------------------------
(* The replies, the cache and its reads are what the order of the commands *)
(* explains.                                                               *)
Matches(out, got) ==
    Len(got) = Len(out) /\ \A i \in 1 .. Len(out) : got[i] = Terminated(out[i])

Explains(acc, map, reads, got) ==
    /\ Mirrors(map, acc.kept) /\ Mirrors(reads, acc.seen) /\ DOMAIN acc.seen = DOMAIN acc.kept
    /\ acc.out \in [Sess -> Seq(Seq(Byte))]
    /\ got \in [Sess -> Seq(Str)]
    /\ \A s \in Sess : Matches(acc.out[s], got[s])

Commands == Sess \X Nat \X SUBSET Seq(Byte)

ExplainInv ==
    /\ order \in Seq(Commands)
    /\ Explains(ServedBy(script, order), cache, seen, replies)

LEMMA InSeq ==
  ASSUME NEW X, NEW q \in Seq(X)
  PROVE  DOMAIN q = 1 .. Len(q) /\ \A i \in 1 .. Len(q) : q[i] \in X
OBVIOUS

LEMMA MatchesMore ==
  ASSUME NEW out \in Seq(Seq(Byte)), NEW got \in Seq(Str), Matches(out, got),
         NEW reply \in Seq(Byte)
  PROVE  Matches(Append(out, reply), Append(got, Terminated(reply)))
<1>1. PICK t \in Str : t = Terminated(reply)
  BY TerminatedIs
<1>2. PICK out2, got2 : out2 = Append(out, reply) /\ got2 = Append(got, t)
  OBVIOUS
<1>3. PICK n \in Nat : n = Len(out) /\ n = Len(got) /\ \A i \in 1 .. n : got[i] = Terminated(out[i])
  BY DEF Matches
<1>4. Len(out2) = n + 1 /\ out2[n + 1] = reply /\ \A i \in 1 .. n : out2[i] = out[i]
  <2>1. PICK X : X = Seq(Byte)
    OBVIOUS
  <2>2. out \in Seq(X) /\ reply \in X
    BY <2>1
  <2>3. /\ Len(out2) = Len(out) + 1 /\ out2[Len(out) + 1] = reply
        /\ \A i \in 1 .. Len(out) : out2[i] = out[i]
    BY <1>2, <2>2, AppendProperties
  <2>4. QED
    BY <1>3, <2>3
<1>5. Len(got2) = n + 1 /\ got2[n + 1] = t /\ \A i \in 1 .. n : got2[i] = got[i]
  BY <1>1, <1>2, <1>3, AppendProperties
<1>6. \A i \in 1 .. n + 1 : i = n + 1 \/ i \in 1 .. n
  OBVIOUS
<1>7. \A i \in 1 .. n + 1 : got2[i] = Terminated(out2[i])
  BY <1>1, <1>3, <1>4, <1>5, <1>6
<1>8. QED
  BY <1>1, <1>2, <1>4, <1>5, <1>7 DEF Matches

LEMMA ExplainsMore ==
  ASSUME NEW acc, NEW map, NEW reads, NEW got, Explains(acc, map, reads, got),
         NEW map2, NEW kept2, Mirrors(map2, kept2), NEW reads2, NEW had2, Mirrors(reads2, had2),
         DOMAIN had2 = DOMAIN kept2, NEW s \in Sess, NEW reply \in Seq(Byte)
  PROVE  Explains([kept |-> kept2, seen |-> had2,
                   out |-> [acc.out EXCEPT ![s] = Append(@, reply)]], map2, reads2,
                  [got EXCEPT ![s] = Append(@, Terminated(reply))])
<1>1. PICK out : out = acc.out
  OBVIOUS
<1>2. /\ out \in [Sess -> Seq(Seq(Byte))] /\ got \in [Sess -> Seq(Str)]
      /\ \A z \in Sess : Matches(out[z], got[z])
  BY <1>1 DEF Explains
<1>3. PICK o, g : o = Append(out[s], reply) /\ g = Append(got[s], Terminated(reply))
  OBVIOUS
<1>4. o \in Seq(Seq(Byte)) /\ g \in Seq(Str) /\ Matches(o, g)
  <2>1. Terminated(reply) \in Str
    BY TerminatedIs
  <2>2. out[s] \in Seq(Seq(Byte)) /\ got[s] \in Seq(Str) /\ Matches(out[s], got[s])
    BY <1>2
  <2>3. o \in Seq(Seq(Byte)) /\ g \in Seq(Str)
    BY <1>3, <2>1, <2>2, AppendProperties
  <2>4. QED
    BY <1>3, <2>2, <2>3, MatchesMore
<1>5. PICK out2, got2 : out2 = [out EXCEPT ![s] = o] /\ got2 = [got EXCEPT ![s] = g]
  OBVIOUS
<1>6. out2 \in [Sess -> Seq(Seq(Byte))] /\ got2 \in [Sess -> Seq(Str)]
  BY <1>2, <1>4, <1>5
<1>7. \A z \in Sess : Matches(out2[z], got2[z])
  BY <1>2, <1>4, <1>5
<1>8. Explains([kept |-> kept2, seen |-> had2, out |-> out2], map2, reads2, got2)
  BY <1>6, <1>7 DEF Explains
<1>9. [acc.out EXCEPT ![s] = Append(@, reply)] = out2 /\ [got EXCEPT ![s] = Append(@, Terminated(reply))] = got2
  BY <1>1, <1>2, <1>3, <1>5
<1>10. QED
  BY <1>8, <1>9

(* What a session is about to run.                                         *)
LEMMA CmdText ==
  ASSUME FlowInv, SessInv, NEW s \in Sess, InState(s, "process_cmd")
  PROVE  LET x == se[s]
             text == TextOf(script[s], taken[s].last)
         IN  /\ x \in SessType /\ taken[s].last \in Nat
             /\ text \in Seq(Byte) /\ Meant(x, text)
             /\ \A i \in 1 .. Len(x.argv) : x.argv[i] # <<>>
<1>1. PICK x, text : x = se[s] /\ text = TextOf(script[s], taken[s].last)
  OBVIOUS
<1>2. x \in SessType /\ Honest(x, script[s], taken[s].last) /\ x.state = "process_cmd"
  BY <1>1 DEF SessInv, InState
<1>3. taken[s].last \in 0 .. Len(script[s]) /\ Meant(x, text)
  BY <1>1, <1>2 DEF Honest
<1>4. GoodScript(script[s]) /\ Len(script[s]) \in Nat
  <2>1. GoodScript(script[s])
    BY ScriptGood
  <2>2. QED
    BY <2>1 DEF GoodScript
<1>5. text \in Seq(Byte)
  BY <1>1, <1>3, <1>4, TextType
<1>6. x.argv = S!Split(text, SP)
  BY <1>3 DEF Meant
<1>7. \A i \in 1 .. Len(x.argv) : x.argv[i] # <<>>
  BY <1>5, <1>6, ArgsNotEmpty, ByteIsBytes
<1>8. taken[s].last \in Nat
  BY <1>3, <1>4
<1>9. QED
  BY <1>1, <1>2, <1>3, <1>5, <1>7, <1>8

LEMMA ExplainReplied ==
  ASSUME ExplainInv, NEW s \in Sess, taken[s].last \in Nat,
         NEW late, {KeyText(x) : x \in late} \in SUBSET Seq(Byte),
         NEW kept2, NEW had2, NEW reply \in Seq(Byte),
         Answer(ServedBy(script, order), TextOf(script[s], taken[s].last), {KeyText(x) : x \in late})
           = [kept |-> kept2, seen |-> had2, reply |-> reply],
         Mirrors(cache', kept2), Mirrors(seen', had2), DOMAIN had2 = DOMAIN kept2,
         Replied(s, Terminated(reply), late)
  PROVE  ExplainInv'
<1>1. PICK acc, sc, c, ord, k, text, texts :
        /\ acc = ServedBy(script, order) /\ sc = script /\ ord = order
        /\ k = taken[s].last /\ texts = {KeyText(x) : x \in late} /\ c = <<s, k, texts>>
        /\ text = TextOf(script[s], k)
  OBVIOUS
<1>2. ord \in Seq(Commands) /\ c \in Commands /\ Explains(acc, cache, seen, replies)
  BY <1>1 DEF ExplainInv, Commands
<1>3. order' = Append(ord, c) /\ script' = sc
  BY <1>1 DEF Replied
<1>4. replies' = [replies EXCEPT ![s] = Append(@, Terminated(reply))]
  BY DEF Replied
<1>5. PICK acc2 : acc2 = [kept |-> kept2, seen |-> had2,
                          out |-> [acc.out EXCEPT ![s] = Append(@, reply)]]
  OBVIOUS
<1>6. ServedBy(sc, Append(ord, c)) = acc2
  <2>1. ServedBy(sc, Append(ord, c)) = ServeStep(sc, acc, c)
    BY <1>1, <1>2, ServedAppend
  <2>2. c[1] = s /\ c[2] = k /\ c[3] = texts
    BY <1>1
  <2>3. (IF k = 0 THEN <<>> ELSE sc[s][k].text) = text
    BY <1>1 DEF TextOf
  <2>4. PICK a : a = Answer(acc, text, texts)
    OBVIOUS
  <2>5. a = [kept |-> kept2, seen |-> had2, reply |-> reply]
    BY <1>1, <2>4
  <2>6. a.kept = kept2 /\ a.seen = had2 /\ a.reply = reply
    BY <2>5
  <2>7. ServeStep(sc, acc, c) = [kept |-> a.kept, seen |-> a.seen,
                                 out |-> [acc.out EXCEPT ![s] = Append(@, a.reply)]]
    BY <2>2, <2>3, <2>4 DEF ServeStep
  <2>8. QED
    BY <1>5, <2>1, <2>6, <2>7
<1>7. Explains(acc2, cache', seen', replies')
  BY <1>2, <1>4, <1>5, ExplainsMore
<1>8. order' \in Seq(Commands)
  BY <1>2, <1>3, AppendProperties
<1>9. ServedBy(script', order') = acc2
  BY <1>3, <1>6
<1>10. QED
  BY <1>7, <1>8, <1>9 DEF ExplainInv

LEMMA ExplainGet ==
  ASSUME FlowInv, SessInv, ExplainInv, NEW s \in Sess, CmdGet(s)
  PROVE  ExplainInv'
<1>1. PICK x, text, acc : /\ x = se[s] /\ text = TextOf(script[s], taken[s].last)
                          /\ acc = ServedBy(script, order)
  OBVIOUS
<1>2. /\ x \in SessType /\ taken[s].last \in Nat /\ text \in Seq(Byte) /\ Meant(x, text)
      /\ \A i \in 1 .. Len(x.argv) : x.argv[i] # <<>>
  BY <1>1, CmdText DEF CmdGet
<1>3. /\ Mirrors(cache, acc.kept) /\ cache' = cache
      /\ Mirrors(seen, acc.seen) /\ seen' = seen /\ DOMAIN acc.seen = DOMAIN acc.kept
  BY <1>1 DEF ExplainInv, Explains, CmdGet
<1>4. PICK argv \in Seq(Seq(Byte)) : argv = x.argv
  BY <1>2 DEF SessType
<1>5. x.cmd = "get"
  BY <1>1 DEF CmdGet
<1>6. PICK two \in BOOLEAN : two <=> Len(argv) = 2
  OBVIOUS
<1>7. PICK reply \in Seq(Byte) :
        /\ reply = (IF Len(argv) # 2 THEN InvalidArgc
                    ELSE IF argv[2] \in DOMAIN acc.seen THEN acc.seen[argv[2]] ELSE <<>>)
        /\ Replied(s, Terminated(reply), {})
  <2>0. Replied(s, IF Len(argv) = 2 THEN S!StrCatsDup(Cached(Para(argv, 1)), <<LF>>)
                   ELSE Reply(InvalidArgc), {})
    BY <1>1, <1>4 DEF CmdGet
  <2>1. CASE Len(argv) = 2
    <3>1. argv[2] \in Seq(Byte) /\ ArgOf(argv, 2) = argv[2]
      BY <2>1 DEF ArgOf
    <3>2. Para(argv, 1) = StrOf(argv[2])
      <4>1. Para(argv, 1) = StrOf(ArgOf(argv, 1 + 1))
        BY <1>2, <1>4, ParaIs
      <4>2. QED
        BY <3>1, <4>1
    <3>3. PICK had, v : had = acc.seen /\ v = IF argv[2] \in DOMAIN had THEN had[argv[2]] ELSE <<>>
      OBVIOUS
    <3>4. v \in Seq(Byte) /\ Cached(StrOf(argv[2])) = StrOf(v)
      BY <1>3, <3>1, <3>3, MirrorsGet
    <3>5. S!StrCatsDup(Cached(Para(argv, 1)), <<LF>>) = Terminated(v)
      BY <3>2, <3>4, CatsOf
    <3>6. Replied(s, Terminated(v), {})
      BY <2>0, <2>1, <3>5
    <3>7. QED
      BY <2>1, <3>3, <3>4, <3>6
  <2>2. CASE Len(argv) # 2
    <3>1. Reply(InvalidArgc) = Terminated(InvalidArgc)
      BY DEF Reply, Terminated
    <3>2. Replied(s, Terminated(InvalidArgc), {})
      BY <2>0, <2>2, <3>1
    <3>3. QED
      BY <2>2, <3>2, MessagesType
  <2>3. QED
    BY <2>1, <2>2
<1>8. Answer(acc, text, {KeyText(z) : z \in {}}) = [kept |-> acc.kept, seen |-> acc.seen, reply |-> reply]
  <2>1. Answer(acc, text, {KeyText(z) : z \in {}}) =
          Same(acc, IF Len(argv) # 2 THEN InvalidArgc
                    ELSE IF argv[2] \in DOMAIN acc.seen THEN acc.seen[argv[2]] ELSE <<>>)
    BY <1>2, <1>4, <1>5, AnswerIs
  <2>2. QED
    BY <1>7, <2>1 DEF Same
<1>9. {KeyText(z) : z \in {}} \in SUBSET Seq(Byte)
  OBVIOUS
<1>10. QED
  BY <1>1, <1>2, <1>3, <1>7, <1>8, <1>9, ExplainReplied

LEMMA ExplainSet ==
  ASSUME FlowInv, SessInv, ExplainInv, NEW s \in Sess, InState(s, "process_cmd"),
         se[s].cmd = "set",
         cache' = Put(cache, Para(se[s].argv, 1), Para(se[s].argv, 2)),
         NEW late, late \subseteq DOMAIN seen, seen' = Lag(cache', seen, late),
         Replied(s, Reply(Success), late)
  PROVE  ExplainInv'
<1>1. PICK x, text, acc : /\ x = se[s] /\ text = TextOf(script[s], taken[s].last)
                          /\ acc = ServedBy(script, order)
  OBVIOUS
<1>2. /\ x \in SessType /\ taken[s].last \in Nat /\ text \in Seq(Byte) /\ Meant(x, text)
      /\ \A i \in 1 .. Len(x.argv) : x.argv[i] # <<>>
  BY <1>1, CmdText
<1>3. Mirrors(cache, acc.kept) /\ Mirrors(seen, acc.seen)
  BY <1>1 DEF ExplainInv, Explains
<1>4. PICK argv \in Seq(Seq(Byte)) : argv = x.argv
  BY <1>2 DEF SessType
<1>5. x.cmd = "set" /\ "set" # "get"
  BY <1>1
<1>6. PICK key, val : key = ArgOf(argv, 2) /\ val = ArgOf(argv, 3)
  OBVIOUS
<1>7. Para(argv, 1) = StrOf(key) /\ key \in Seq(Byte)
  <2>1. Para(argv, 1) = StrOf(ArgOf(argv, 1 + 1)) /\ ArgOf(argv, 1 + 1) \in Seq(Byte)
    BY <1>2, <1>4, ParaIs
  <2>2. QED
    BY <1>6, <2>1
<1>8. Para(argv, 2) = StrOf(val) /\ val \in Seq(Byte)
  <2>1. Para(argv, 2) = StrOf(ArgOf(argv, 2 + 1)) /\ ArgOf(argv, 2 + 1) \in Seq(Byte)
    BY <1>2, <1>4, ParaIs
  <2>2. QED
    BY <1>6, <2>1
<1>9. Mirrors(cache', Put(acc.kept, key, val))
  <2>1. cache' = Put(cache, StrOf(key), StrOf(val))
    BY <1>1, <1>4, <1>7, <1>8
  <2>2. QED
    BY <1>3, <1>7, <1>8, <2>1, MirrorsPut
<1>10. PICK texts : texts = {KeyText(z) : z \in late}
  OBVIOUS
<1>11. Mirrors(seen', Lag(Put(acc.kept, key, val), acc.seen, texts))
  <2>1. Mirrors(Lag(cache', seen, late),
                Lag(Put(acc.kept, key, val), acc.seen, {KeyText(z) : z \in late}))
    BY <1>3, <1>9, MirrorsLag
  <2>2. QED
    BY <1>10, <2>1
<1>12. texts \in SUBSET Seq(Byte)
  <2>1. ASSUME NEW z \in late PROVE KeyText(z) \in Seq(Byte)
    <3>1. PICK had : had = acc.seen /\ Mirrors(seen, had)
      BY <1>3
    <3>2. PICK u \in DOMAIN had : z = StrOf(u) /\ u \in Seq(Byte)
      BY <3>1 DEF Mirrors
    <3>3. QED
      BY <3>2, KeyTextIs
  <2>2. QED
    BY <1>10, <2>1
<1>13. Answer(acc, text, texts) =
         [kept |-> Put(acc.kept, key, val), seen |-> Lag(Put(acc.kept, key, val), acc.seen, texts),
          reply |-> Success]
  <2>1. Answer(acc, text, texts) = Stored(acc, texts, ArgOf(x.argv, 2), ArgOf(x.argv, 3))
    BY <1>2, <1>5, AnswerIs
  <2>2. QED
    BY <1>4, <1>6, <2>1 DEF Stored
<1>14. Replied(s, Terminated(Success), late)
  BY DEF Reply, Terminated
<1>15. DOMAIN Lag(Put(acc.kept, key, val), acc.seen, texts) = DOMAIN Put(acc.kept, key, val)
  BY DEF Lag
<1>16. QED
  BY <1>1, <1>2, <1>9, <1>10, <1>11, <1>12, <1>13, <1>14, <1>15, MessagesType, ExplainReplied

LEMMA ExplainNone ==
  ASSUME FlowInv, SessInv, ExplainInv, NEW s \in Sess, NoCmd(s)
  PROVE  ExplainInv'
<1>1. PICK x, text, acc : /\ x = se[s] /\ text = TextOf(script[s], taken[s].last)
                          /\ acc = ServedBy(script, order)
  OBVIOUS
<1>2. /\ x \in SessType /\ taken[s].last \in Nat /\ text \in Seq(Byte) /\ Meant(x, text)
  BY <1>1, CmdText DEF NoCmd
<1>3. /\ Mirrors(cache, acc.kept) /\ cache' = cache
      /\ Mirrors(seen, acc.seen) /\ seen' = seen /\ DOMAIN acc.seen = DOMAIN acc.kept
  BY <1>1 DEF ExplainInv, Explains, NoCmd
<1>4. x.cmd = "none" /\ "none" # "get" /\ "none" # "set"
  BY <1>1 DEF NoCmd
<1>5. Answer(acc, text, {KeyText(z) : z \in {}})
        = [kept |-> acc.kept, seen |-> acc.seen, reply |-> InvalidCmd]
  BY <1>2, <1>4, AnswerIs DEF Same
<1>6. Replied(s, Terminated(InvalidCmd), {})
  BY DEF NoCmd, Reply, Terminated
<1>7. {KeyText(z) : z \in {}} \in SUBSET Seq(Byte)
  OBVIOUS
<1>8. QED
  BY <1>1, <1>2, <1>3, <1>5, <1>6, <1>7, MessagesType, ExplainReplied

LEMMA ExplainInit == Init => ExplainInv
<1> SUFFICES ASSUME Init PROVE ExplainInv
  OBVIOUS
<1>1. order = <<>> /\ cache = <<>> /\ seen = <<>> /\ replies = [s \in Sess |-> <<>>]
  BY DEF Init
<1>2. ServedBy(script, order) = ServedNone
  BY <1>1, ServedNothing
<1>3. Mirrors(<<>>, <<>>)
  BY DEF Mirrors
<1>4. Matches(<<>>, <<>>)
  BY DEF Matches
<1>5. order \in Seq(Commands)
  BY <1>1, EmptySeq
<1>6. Explains(ServedNone, cache, seen, replies)
  <2>1. PICK none : none = [s \in Sess |-> <<>>]
    OBVIOUS
  <2>2. none \in [Sess -> Seq(Seq(Byte))] /\ none \in [Sess -> Seq(Str)]
    BY <2>1, EmptySeq
  <2>3. ServedNone.kept = <<>> /\ ServedNone.seen = <<>> /\ ServedNone.out = none
    BY <2>1 DEF ServedNone
  <2>4. \A s \in Sess : none[s] = <<>>
    BY <2>1
  <2>5. replies = none
    BY <1>1, <2>1
  <2>6. QED
    BY <1>1, <1>3, <1>4, <2>2, <2>3, <2>4, <2>5 DEF Explains
<1>7. QED
  BY <1>2, <1>5, <1>6 DEF ExplainInv

LEMMA ExplainSame ==
  ASSUME ExplainInv, UNCHANGED <<script, order, cache, seen, replies>>
  PROVE  ExplainInv'
BY DEF ExplainInv

LEMMA ExplainNext ==
  ASSUME FlowInv, SessInv, ExplainInv, [Next]_vars
  PROVE  ExplainInv'
<1>1. CASE UNCHANGED vars
  BY <1>1, ExplainSame DEF vars
<1>2. CASE Next
  <2>1. PICK s \in Sess : Send(s) \/ TaskRead(s) \/ ProcessSess(s)
    BY <1>2 DEF Next
  <2>2. CASE Send(s) \/ TaskRead(s) \/ SessInit(s) \/ NoLine(s) \/ Parsing(s) \/ Finish(s)
    <3>1. UNCHANGED <<script, order, cache, seen, replies>>
      BY <2>2 DEF Send, TaskRead, SessInit, NoLine, Parsing, Finish
    <3>2. QED
      BY <3>1, ExplainSame
  <2>3. CASE CmdGet(s)
    BY <2>3, ExplainGet
  <2>4. CASE CmdSet(s)
    <3>1. InState(s, "process_cmd") /\ se[s].cmd = "set"
      BY <2>4 DEF CmdSet
    <3>2. \/ /\ cache' = Put(cache, Para(se[s].argv, 1), Para(se[s].argv, 2))
             /\ \E late \in SUBSET {k \in DOMAIN seen : seen[k] # cache'[k]} :
                  seen' = Lag(cache', seen, late) /\ Replied(s, Reply(Success), late)
          \/ UNCHANGED <<script, order, cache, seen, replies>>
      BY <2>4 DEF CmdSet
    <3>3. CASE UNCHANGED <<script, order, cache, seen, replies>>
      BY <3>3, ExplainSame
    <3>4. CASE \E late \in SUBSET {k \in DOMAIN seen : seen[k] # cache'[k]} :
                 /\ cache' = Put(cache, Para(se[s].argv, 1), Para(se[s].argv, 2))
                 /\ seen' = Lag(cache', seen, late) /\ Replied(s, Reply(Success), late)
      <4>1. PICK late \in SUBSET {k \in DOMAIN seen : seen[k] # cache'[k]} :
                 /\ cache' = Put(cache, Para(se[s].argv, 1), Para(se[s].argv, 2))
                 /\ seen' = Lag(cache', seen, late) /\ Replied(s, Reply(Success), late)
        BY <3>4
      <4>2. late \subseteq DOMAIN seen
        OBVIOUS
      <4>3. QED
        BY <3>1, <4>1, <4>2, ExplainSet
    <3>5. QED
      BY <3>2, <3>3, <3>4
  <2>5. CASE NoCmd(s)
    BY <2>5, ExplainNone
  <2>6. QED
    BY <2>1, <2>2, <2>3, <2>4, <2>5 DEF ProcessSess
<1>3. QED
  BY <1>1, <1>2

(* The replies of every session are, in order, those that the commands run *)
(* one at a time give on a store whose reads may lag behind, the cache     *)
(* holds what they keep and its reads give what theirs do, whatever pieces *)
(* the bytes arrived in (atm_sess.c:58, atm_cmd.c, atm_dict.c:694).        *)
THEOREM ExplainAlways == Spec => []ExplainInv
<1>1. FlowInv /\ SessInv /\ ExplainInv /\ [Next]_vars => ExplainInv'
  BY ExplainNext
<1>2. QED
  BY <1>1, ExplainInit, FlowAlways, SessAlways, PTL DEF Spec

(* The text of each reply is the answer to the line that its client sent,  *)
(* on a store whose reads may lag behind its writes, for any clients,      *)
(* requests and arrivals (atm_sess.c:58, atm_cmd.c, atm_dict.c:694).       *)
THEOREM RepliesAlwaysExplained == Spec => []RepliesExplained
<1>1. ExplainInv => RepliesExplained
  <2> SUFFICES ASSUME ExplainInv, NEW s \in Sess
      PROVE  [i \in DOMAIN replies[s] |-> replies[s][i].text]
               = [i \in DOMAIN Served(order).out[s] |-> Append(Served(order).out[s][i], LF)]
    BY DEF RepliesExplained
  <2>1. PICK out, got : out = Served(order).out[s] /\ got = replies[s]
    OBVIOUS
  <2>2. Explains(Served(order), cache, seen, replies)
    BY ServedIsBy DEF ExplainInv
  <2>3. out \in Seq(Seq(Byte)) /\ got \in Seq(Str) /\ Matches(out, got)
    BY <2>1, <2>2 DEF Explains
  <2>4. PICK n \in Nat : n = Len(out) /\ n = Len(got) /\ \A i \in 1 .. n : got[i] = Terminated(out[i])
    BY <2>3 DEF Matches
  <2>5. DOMAIN out = 1 .. n /\ DOMAIN got = 1 .. n
    <3>1. DOMAIN out = 1 .. Len(out) /\ DOMAIN got = 1 .. Len(got)
      BY <2>3, InSeq
    <3>2. QED
      BY <2>4, <3>1
  <2>6. ASSUME NEW i \in 1 .. n PROVE got[i].text = Append(out[i], LF)
    <3>1. out[i] \in Seq(Byte)
      BY <2>3, <2>4, InSeq
    <3>2. QED
      BY <2>4, <3>1, TerminatedIs
  <2>7. [i \in DOMAIN got |-> got[i].text] = [i \in DOMAIN out |-> Append(out[i], LF)]
    BY <2>5, <2>6
  <2>8. QED
    BY <2>1, <2>7
<1>2. QED
  BY <1>1, ExplainAlways, PTL

(* Every string that a command replies or keeps has its length and its end *)
(* inside of its memory (atm_str.c:333).                                   *)
THEOREM StringsAlwaysWhole == Spec => []StringsWhole
<1>1. ExplainInv => StringsWhole
  <2> SUFFICES ASSUME ExplainInv PROVE StringsWhole
    OBVIOUS
  <2>1. PICK acc : acc = ServedBy(script, order) /\ Explains(acc, cache, seen, replies)
    BY DEF ExplainInv
  <2>2. ASSUME NEW s \in Sess, NEW i \in DOMAIN replies[s] PROVE S!Whole(replies[s][i])
    <3>1. PICK out, got : out = acc.out[s] /\ got = replies[s]
      OBVIOUS
    <3>2. out \in Seq(Seq(Byte)) /\ got \in Seq(Str) /\ Matches(out, got)
      BY <2>1, <3>1 DEF Explains
    <3>3. i \in 1 .. Len(out) /\ got[i] = Terminated(out[i])
      BY <2>2, <3>1, <3>2 DEF Matches
    <3>4. out[i] \in Seq(Byte)
      BY <3>2, <3>3
    <3>5. QED
      BY <3>1, <3>3, <3>4, TerminatedIs
  <2>3. ASSUME NEW k \in DOMAIN cache, NEW x \in {k, cache[k], seen[k]} \ {NullStr} PROVE S!Whole(x)
    <3>1. PICK kept, had : /\ kept = acc.kept /\ Mirrors(cache, kept)
                           /\ had = acc.seen /\ Mirrors(seen, had)
      BY <2>1 DEF Explains
    <3>2. PICK t \in DOMAIN kept : k = StrOf(t) /\ cache[k] = StrOf(kept[t])
      BY <3>1 DEF Mirrors
    <3>3. t \in Seq(Byte) /\ kept[t] \in Seq(Byte)
      BY <3>1 DEF Mirrors
    <3>4. t \in DOMAIN had
      BY <2>1, <3>1 DEF Explains
    <3>5. seen[k] = StrOf(had[t]) /\ had[t] \in Seq(Byte)
      BY <3>1, <3>2, <3>4 DEF Mirrors
    <3>6. x # NullStr /\ (x = StrOf(t) \/ x = StrOf(kept[t]) \/ x = StrOf(had[t]))
      BY <2>3, <3>2, <3>5
    <3>7. QED
      BY <3>3, <3>5, <3>6, StrOfWhole
  <2>4. QED
    BY <2>2, <2>3 DEF StringsWhole
<1>2. QED
  BY <1>1, ExplainAlways, PTL
=============================================================================
