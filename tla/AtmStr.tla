------------------------------- MODULE AtmStr -------------------------------
(* The strings of core/atm_str.c.  A string is its text with a header in   *)
(* front of it, where cap says how many bytes fit besides the terminator   *)
(* and len how many are thought to be there; memory is zero when it is     *)
(* allocated.  A text is a sequence of bytes.                              *)
EXTENDS Naturals, Sequences, FiniteSets, SequencesExt

CONSTANTS
    NullStr,    \* the NULL pointer
    Quotes      \* the two quote characters

HdrLen == 8     \* sizeof(atm_str_hdr_t): two 32 bit counters
WordLen == 8    \* ATM_WORDLEN

-----------------------------------------------------------------------------
(* Memory.                                                                 *)

(* Mutant: rounded up only where it has to be.                             *)
StrSize_Exact(n) == IF n % WordLen = 0 THEN n ELSE (n - (n % WordLen)) + WordLen

(* atm_str_size                                                            *)
StrSize(n) == IF n > 0 THEN (n - (n % WordLen)) + WordLen ELSE 0

(* atm_str_new of a C string.                                              *)
StrNew(text) ==
    [cap |-> StrSize(HdrLen + Len(text) + 1) - HdrLen - 1, len |-> Len(text), text |-> text]

(* atm_str_grow.  cap - len is an unsigned number: a len above cap is room *)
(* without end.  The larger copy is given the length it is to have.        *)
StrGrow(str, need) ==
    LET s == IF str = NullStr THEN StrNew(<<>>) ELSE str
        newlen == s.len + need
    IN  IF s.len > s.cap \/ s.cap - s.len >= need THEN s
        ELSE [s EXCEPT !.cap = StrSize(HdrLen + newlen + 1) - HdrLen - 1, !.len = newlen]

(* atm_str_cats, and atm_str_cat of a src whose length is right.           *)
StrCats(dest, src) ==
    LET g == StrGrow(dest, Len(src))
    IN  [g EXCEPT !.len = @ + Len(src), !.text = @ \o src]

(* atm_str_dup copies header and memory; atm_str_cats_dup appends to the   *)
(* copy, which is NULL when dest is.                                       *)
StrDup(str) == str

StrCatsDup(dest, src) == StrCats(StrDup(dest), src)

(* atm_str_cmp looks at the lengths first.                                 *)
StrEq(s, t) ==
    \/ s = t
    \/ /\ NullStr \notin {s, t}
       /\ s.len = t.len
       /\ s.text = t.text

(* The text is in the memory of the string, and len is its length.         *)
Whole(s) == s.len = Len(s.text) /\ s.len <= s.cap

-----------------------------------------------------------------------------
(* atm_str_split.                                                          *)

Other(q) == CHOOSE o \in Quotes : o # q

(* A byte inside of quotes: the quote that is open closes, the other opens *)
(* one more.                                                               *)

(* Mutant: when a quote closes, what is open around it is forgotten.       *)
InQuote_Flat(p, c) ==
    [p EXCEPT !.arg = Append(@, c),
              !.inq = IF c \notin Quotes THEN @ ELSE IF c = p.qty THEN 0 ELSE @ + 1,
              !.qty = IF c \notin Quotes \/ c = p.qty THEN @ ELSE c]

InQuote(p, c) ==
    [p EXCEPT !.arg = Append(@, c),
              !.inq = IF c \notin Quotes THEN @ ELSE IF c = p.qty THEN @ - 1 ELSE @ + 1,
              !.qty = IF c \notin Quotes THEN @ ELSE IF c = p.qty THEN Other(c) ELSE c]

(* One outside: the separator ends an argument that has begun.             *)
OutOfQuote(p, c, sep) ==
    IF c = sep
    THEN [p EXCEPT !.argv = IF p.arg = <<>> THEN @ ELSE Append(@, p.arg), !.arg = <<>>]
    ELSE [p EXCEPT !.arg = Append(@, c),
                   !.inq = IF c \in Quotes THEN 1 ELSE 0,
                   !.qty = c]

SplitByte(p, c, sep) == IF p.inq > 0 THEN InQuote(p, c) ELSE OutOfQuote(p, c, sep)

(* The loop, after each of the bytes.                                      *)
Splitting(text, sep) ==
    LET p[n \in 0 .. Len(text)] ==
          IF n = 0 THEN [argv |-> <<>>, arg |-> <<>>, inq |-> 0, qty |-> sep]
          ELSE LET q == p[n - 1] IN SplitByte(q, text[n], sep)
    IN  p

(* The arguments; NULL, for none, is the empty sequence.                   *)
Split(text, sep) ==
    LET last == Splitting(text, sep)[Len(text)]
    IN  IF last.arg = <<>> THEN last.argv ELSE Append(last.argv, last.arg)

(* What a split is meant to be: the quotes that are open are a stack, the  *)
(* separators met while it is empty cut the text, and the arguments are    *)
(* what is left between the cuts.                                          *)
Nested(open, c) ==
    IF c \notin Quotes THEN open
    ELSE IF open # <<>> /\ Last(open) = c THEN Front(open)
    ELSE Append(open, c)

OpenQuotes(text) ==
    LET open[n \in 0 .. Len(text)] ==
          IF n = 0 THEN <<>> ELSE LET o == open[n - 1] IN Nested(o, text[n])
    IN  open

Cuts(text, sep) ==
    {i \in DOMAIN text : text[i] = sep /\ OpenQuotes(text)[i - 1] = <<>>}

(* Where the arguments begin, the k-th of these places, and where the      *)
(* argument that begins at place i ends.                                   *)
Begins(text, cut) == {i \in DOMAIN text \ cut : i = 1 \/ i - 1 \in cut}

Nth(places, k) == CHOOSE i \in places : Cardinality({j \in places : j <= i}) = k

EndOf(text, cut, i) ==
    CHOOSE j \in i .. Len(text) :
        (i .. j) \cap cut = {} /\ (j = Len(text) \/ j + 1 \in cut)

SplitRef(text, sep) ==
    LET cut == Cuts(text, sep)
        begins == Begins(text, cut)
    IN  [k \in 1 .. Cardinality(begins) |->
           LET i == Nth(begins, k) IN SubSeq(text, i, EndOf(text, cut, i))]
=============================================================================
