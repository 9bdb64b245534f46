------------------------- MODULE FormatAndRunProofs -------------------------
(***************************************************************************)
(* Proofs about format_and_run, for every text, command and file name: the *)
(* command given to system() is the whole pattern with the name for every  *)
(* '%', or nothing is run.  What expansion does to the two parts of a      *)
(* split is proved first, from the equation that defines it.               *)
(***************************************************************************)
EXTENDS FormatAndRun, KrsStrProofs

\* Texts are put together in any order.
\* (A predicate, for the provers to match.)
Associates(x, y, z) == (x \o y) \o z = x \o (y \o z)

LEMMA Associative == \A x, y, z \in Seq(STRING) : Associates(x, y, z)
BY ConcatAssociative DEF Associates

\* What a byte stands for is a sequence of bytes.
LEMMA MeaningIsText ==
  ASSUME NEW x \in STRING, NEW f \in Seq(STRING)
  PROVE  Meaning(x, f) \in Seq(STRING)
<1>1. <<x>> \in Seq(STRING)
  BY OneElement, Zenon
<1>. QED
  BY <1>1, Zenon DEF Meaning

\* g[n] is what the first n bytes of the command stand for, for n up to m.
Serves(g, c, f, m) ==
  g[0] = << >> /\ \A n \in 1 .. m : g[n] = g[n - 1] \o Meaning(c[n], f)

\* The equation that Expand is defined by has a solution, for every length.
LEMMA ServingExists ==
  ASSUME NEW c, NEW f, NEW m \in Nat
  PROVE  \E g : Serves(g, c, f, m)
<1>. DEFINE S == {k \in Nat : \E g : Serves(g, c, f, k)}
<1>1. 0 \in S
  <2>. DEFINE g == [n \in {0} |-> << >>]
  <2>1. g[0] = << >> /\ \A n \in 1 .. 0 : FALSE
    BY SMT
  <2>. QED
    BY <2>1, Zenon DEF Serves
<1>2. ASSUME NEW k \in Nat, k \in S
      PROVE  k + 1 \in S
  <2>1. PICK g : Serves(g, c, f, k)
    BY <1>2, Zenon
  <2>. DEFINE last == g[k] \o Meaning(c[k + 1], f)
              h == [n \in 0 .. k + 1 |-> IF n = k + 1 THEN last ELSE g[n]]
  <2>2. k + 1 \in Nat /\ k + 1 \in 0 .. k + 1 /\ (k + 1) - 1 = k
    BY SMT
  <2>3. h[k + 1] = last
    BY <2>2, Zenon
  <2>4. \A n \in 0 .. k : h[n] = g[n]
    <3>1. \A n \in 0 .. k : n \in 0 .. k + 1 /\ n # k + 1
      BY SMT
    <3>. QED
      BY <3>1, Zenon
  <2>. HIDE DEF h
  <2>5. 0 \in 0 .. k /\ k \in 0 .. k
    BY SMT
  <2>6. ASSUME NEW n \in 1 .. k + 1
        PROVE  h[n] = h[n - 1] \o Meaning(c[n], f)
    <3>1. n = k + 1 \/ (n \in 1 .. k /\ n \in 0 .. k /\ n - 1 \in 0 .. k)
      BY SMT
    <3>2. CASE n = k + 1
      BY <2>2, <2>3, <2>4, <2>5, <3>2, Zenon
    <3>3. CASE n \in 1 .. k /\ n \in 0 .. k /\ n - 1 \in 0 .. k
      BY <2>1, <2>4, <3>3, Zenon DEF Serves
    <3>. QED
      BY <3>1, <3>2, <3>3, Zenon
  <2>7. h[0] = << >>
    BY <2>1, <2>4, <2>5, Zenon DEF Serves
  <2>. QED
    BY <2>2, <2>6, <2>7, Zenon DEF Serves
<1>3. m \in S
  BY <1>1, <1>2, EveryNatural, Zenon
<1>. QED
  BY <1>3, Zenon

\* And it has one only: whatever solves it yields the expansion.
LEMMA ExpandIs ==
  ASSUME NEW c \in Seq(STRING), NEW f \in Seq(STRING), NEW g, Serves(g, c, f, Len(c))
  PROVE  /\ Expand(c, f) = g[Len(c)]
         /\ \A n \in 0 .. Len(c) : g[n] \in Seq(STRING)
<1>. DEFINE Step(h, n) == IF n = 0 THEN << >> ELSE h[n - 1] \o Meaning(c[n], f)
            first == CHOOSE h : h = [n \in 0 .. Len(c) |-> Step(h, n)]
            S == {n \in Nat : n <= Len(c) => first[n] = g[n] /\ g[n] \in Seq(STRING)}
<1>1. Len(c) \in Nat /\ \A n \in 1 .. Len(c) : c[n] \in STRING
  BY SMT
<1>2. Expand(c, f) = first[Len(c)]
  BY Zenon DEF Expand
<1>3. \E h : h = [n \in 0 .. Len(c) |-> Step(h, n)]
  <2>. DEFINE h == [n \in 0 .. Len(c) |-> g[n]]
  <2>1. ASSUME NEW n \in 0 .. Len(c)
        PROVE  h[n] = Step(h, n)
    <3>1. n = 0 \/ (n # 0 /\ n \in 1 .. Len(c) /\ n - 1 \in 0 .. Len(c))
      BY <1>1, SMT
    <3>. QED
      BY <3>1, Zenon DEF Serves
  <2>2. h = [n \in 0 .. Len(c) |-> h[n]]
    BY Zenon
  <2>. HIDE DEF h
  <2>3. h = [n \in 0 .. Len(c) |-> Step(h, n)]
    BY <2>1, <2>2, Zenon
  <2>. QED
    BY <2>3, Zenon
<1>4. first = [n \in 0 .. Len(c) |-> Step(first, n)]
  BY <1>3, Zenon
<1>. HIDE DEF first
<1>5. \A n \in 0 .. Len(c) : first[n] = Step(first, n)
  BY <1>4, Zenon
<1>6. 0 \in S
  <2>1. 0 \in 0 .. Len(c) /\ << >> \in Seq(STRING)
    BY <1>1, SMT
  <2>. QED
    BY <1>5, <2>1, Zenon DEF Serves
<1>7. ASSUME NEW n \in Nat, n \in S
      PROVE  n + 1 \in S
  <2>. SUFFICES ASSUME n + 1 <= Len(c)
                PROVE  first[n + 1] = g[n + 1] /\ g[n + 1] \in Seq(STRING)
    BY SMT
  <2>1. /\ n <= Len(c) /\ n + 1 \in 1 .. Len(c) /\ n + 1 \in 0 .. Len(c)
        /\ (n + 1) - 1 = n /\ n + 1 # 0
    BY <1>1, SMT
  <2>2. first[n] = g[n] /\ g[n] \in Seq(STRING)
    BY <1>7, <2>1, Zenon
  <2>3. g[n + 1] = g[n] \o Meaning(c[n + 1], f)
    <3>1. g[n + 1] = g[(n + 1) - 1] \o Meaning(c[n + 1], f)
      BY <2>1, Zenon DEF Serves
    <3>. QED
      BY <2>1, <3>1, Zenon
  <2>4. first[n + 1] = first[n] \o Meaning(c[n + 1], f)
    <3>1. first[n + 1] = Step(first, n + 1)
      BY <1>5, <2>1, Zenon
    <3>. QED
      BY <2>1, <3>1, Zenon
  <2>5. g[n] \o Meaning(c[n + 1], f) \in Seq(STRING)
    <3>1. Meaning(c[n + 1], f) \in Seq(STRING)
      BY <1>1, <2>1, MeaningIsText, Zenon
    <3>. QED
      BY <2>2, <3>1, ConcatProperties, Zenon
  <2>. QED
    BY <2>2, <2>3, <2>4, <2>5, Zenon
<1>8. \A n \in 0 .. Len(c) : first[n] = g[n] /\ g[n] \in Seq(STRING)
  <2>1. \A n \in 0 .. Len(c) : n \in Nat /\ n <= Len(c)
    BY <1>1, SMT
  <2>. QED
    BY <1>6, <1>7, <2>1, EveryNatural, Zenon
<1>9. Len(c) \in 0 .. Len(c)
  BY <1>1, SMT
<1>. QED
  BY <1>2, <1>8, <1>9, Zenon

-----------------------------------------------------------------------------
(* Expanding a command.                                                    *)

LEMMA ExpansionIsText ==
  ASSUME NEW c \in Seq(STRING), NEW f \in Seq(STRING)
  PROVE  Expand(c, f) \in Seq(STRING)
<1>1. Len(c) \in Nat /\ Len(c) \in 0 .. Len(c)
  BY SMT
<1>2. PICK g : Serves(g, c, f, Len(c))
  BY <1>1, ServingExists, Zenon
<1>. QED
  BY <1>1, <1>2, ExpandIs, Zenon

\* Two parts of a command can be expanded one after the other.
LEMMA ExpandConcat ==
  ASSUME NEW c \in Seq(STRING), NEW d \in Seq(STRING), NEW f \in Seq(STRING)
  PROVE  Expand(c \o d, f) = Expand(c, f) \o Expand(d, f)
<1>. DEFINE e == c \o d
            a == Len(c)
            b == Len(d)
<1>1. /\ e \in Seq(STRING) /\ Len(e) = a + b /\ a \in Nat /\ b \in Nat
      /\ \A n \in 1 .. a : e[n] = c[n]
      /\ \A n \in 1 .. b : e[a + n] = d[n] /\ d[n] \in STRING
  BY ConcatProperties, SMT
<1>2. PICK g : Serves(g, c, f, a)
  BY <1>1, ServingExists, Zenon
<1>3. PICK h : Serves(h, d, f, b)
  BY <1>1, ServingExists, Zenon
<1>4. /\ Expand(c, f) = g[a] /\ (\A n \in 0 .. a : g[n] \in Seq(STRING))
      /\ Expand(d, f) = h[b] /\ (\A n \in 0 .. b : h[n] \in Seq(STRING))
  BY <1>2, <1>3, ExpandIs, Zenon
<1>. DEFINE k == [n \in 0 .. a + b |-> IF n <= a THEN g[n] ELSE g[a] \o h[n - a]]
<1>. HIDE DEF e, a, b
<1>5. /\ \A n \in 0 .. a : k[n] = g[n]
      /\ \A n \in 0 .. b : k[a + n] = g[a] \o h[n]
  <2>1. \A n \in 0 .. a : n \in 0 .. a + b /\ n <= a
    BY <1>1, SMT
  <2>2. ASSUME NEW n \in 0 .. b
        PROVE  k[a + n] = g[a] \o h[n]
    <3>1. a + n \in 0 .. a + b /\ (a + n) - a = n /\ (a + n <= a => n = 0 /\ a + n = a)
      BY <1>1, SMT
    <3>2. CASE a + n <= a
      <4>1. g[a] \o << >> = g[a]
        <5>1. a \in 0 .. a
          BY <1>1, SMT
        <5>2. g[a] \in Seq(STRING)
          BY <1>4, <5>1, Zenon
        <5>. QED
          BY <5>2, ConcatEmptySeq
      <4>. QED
        BY <1>3, <3>1, <3>2, <4>1, Zenon DEF Serves
    <3>3. CASE ~(a + n <= a)
      BY <3>1, <3>3, Zenon
    <3>. QED
      BY <3>2, <3>3, Zenon
  <2>. QED
    BY <2>1, <2>2, Zenon
<1>. HIDE DEF k
<1>6. ASSUME NEW n \in 1 .. a + b
      PROVE  k[n] = k[n - 1] \o Meaning(e[n], f)
  <2>1. CASE n <= a
    <3>1. n \in 1 .. a /\ n \in 0 .. a /\ n - 1 \in 0 .. a
      BY <1>1, <2>1, SMT
    <3>. QED
      BY <1>1, <1>2, <1>5, <3>1, Zenon DEF Serves
  <2>2. CASE ~(n <= a)
    <3>. DEFINE m == n - a
    <3>1. /\ m \in 1 .. b /\ m \in 0 .. b /\ m - 1 \in 0 .. b
          /\ a + m = n /\ a + (m - 1) = n - 1 /\ a \in 0 .. a
      BY <1>1, <2>2, SMT
    <3>. HIDE DEF m
    <3>2. k[n] = g[a] \o h[m] /\ k[n - 1] = g[a] \o h[m - 1] /\ e[n] = d[m]
      <4>1. /\ k[a + m] = g[a] \o h[m] /\ k[a + (m - 1)] = g[a] \o h[m - 1]
            /\ e[a + m] = d[m]
        BY <1>1, <1>5, <3>1, Zenon
      <4>. QED
        BY <3>1, <4>1, Zenon
    <3>3. h[m] = h[m - 1] \o Meaning(d[m], f)
      BY <1>3, <3>1, Zenon DEF Serves
    <3>4. g[a] \in Seq(STRING) /\ h[m - 1] \in Seq(STRING) /\ Meaning(d[m], f) \in Seq(STRING)
      BY <1>1, <1>4, <3>1, MeaningIsText, Zenon
    <3>5. Associates(g[a], h[m - 1], Meaning(d[m], f))
      BY <3>4, Associative, Zenon
    <3>. QED
      BY <3>2, <3>3, <3>5, Zenon DEF Associates
  <2>. QED
    BY <2>1, <2>2, Zenon
<1>7. k[0] = << >>
  <2>1. 0 \in 0 .. a
    BY <1>1, SMT
  <2>. QED
    BY <1>2, <1>5, <2>1, Zenon DEF Serves
<1>8. Expand(e, f) = k[a + b]
  <2>1. Serves(k, e, f, Len(e))
    BY <1>1, <1>6, <1>7, Zenon DEF Serves
  <2>. QED
    BY <1>1, <2>1, ExpandIs, ZenonT(60)
<1>9. k[a + b] = g[a] \o h[b]
  <2>1. b \in 0 .. b
    BY <1>1, SMT
  <2>. QED
    BY <1>5, <2>1, Zenon
<1>. QED
  BY <1>4, <1>8, <1>9, Zenon DEF e

\* A part without a '%' stands for itself.
LEMMA ExpandPlain ==
  ASSUME NEW c \in Seq(STRING), NEW f \in Seq(STRING), \A i \in 1 .. Len(c) : c[i] # "%"
  PROVE  Expand(c, f) = c
<1>. DEFINE g == [n \in 0 .. Len(c) |-> SubSeq(c, 1, n)]
<1>1. Len(c) \in Nat /\ 0 \in 0 .. Len(c) /\ Len(c) \in 0 .. Len(c)
  BY SMT
<1>2. SubSeq(c, 1, 0) = << >> /\ SubSeq(c, 1, Len(c)) = c
  <2>1. SubSeq(c, 1, 0) = << >>
    BY SMT
  <2>. QED
    BY <2>1, SubSeqFull, Zenon
<1>3. ASSUME NEW n \in 1 .. Len(c)
      PROVE  g[n] = g[n - 1] \o Meaning(c[n], f)
  <2>1. n \in 0 .. Len(c) /\ n - 1 \in 0 .. Len(c) /\ 1 \in 1 .. Len(c) + 1
    BY <1>1, SMT
  <2>2. SubSeq(c, 1, n) = SubSeq(c, 1, n - 1) \o <<c[n]>>
    <3>1. 1 \in 1 .. Len(c)
      BY <1>1, SMT
    <3>. QED
      BY <3>1, SubSeqRecursiveSecond, Zenon
  <2>3. Meaning(c[n], f) = <<c[n]>>
    BY Zenon DEF Meaning
  <2>. QED
    BY <2>1, <2>2, <2>3, Zenon
<1>4. Serves(g, c, f, Len(c)) /\ g[Len(c)] = c
  BY <1>1, <1>2, <1>3, Zenon DEF Serves
<1>. QED
  BY <1>4, ExpandIs, Zenon

\* A '%' stands for the file name.
LEMMA ExpandPercent ==
  ASSUME NEW x \in STRING, x = "%", NEW f \in Seq(STRING)
  PROVE  Expand(<<x>>, f) = f
<1>. DEFINE c == <<x>>
            g == [n \in 0 .. 1 |-> IF n = 0 THEN << >> ELSE f]
<1>1. c \in Seq(STRING) /\ Len(c) = 1 /\ c[1] = x
  BY SMT
<1>. HIDE DEF c
<1>2. g[0] = << >> /\ g[1] = f /\ 1 - 1 = 0 /\ \A n \in 1 .. 1 : n = 1
  BY SMT
<1>. HIDE DEF g
<1>3. << >> \o f = f
  BY ConcatEmptySeq
<1>4. Meaning(c[1], f) = f
  BY <1>1, Zenon DEF Meaning
<1>5. Serves(g, c, f, 1)
  BY <1>2, <1>3, <1>4, Zenon DEF Serves
<1>. QED
  BY <1>1, <1>2, <1>5, ExpandIs, Zenon DEF c

-----------------------------------------------------------------------------
(* The split at a '%', and what it means for the expansion.                *)

\* The bytes of a view, and those it is taken from.
InText(b, s) == s \in View /\ s.ptr >= 0 /\ End(s) <= Len(b)
NulFree(b, s) == \A p \in s.ptr .. End(s) - 1 : b[p + 1] # NUL

\* Before the first '%' there is none; after it, the rest is left.
LEMMA PercentContract ==
  ASSUME NEW b \in Seq(STRING), NEW s, InText(b, s), NulFree(b, s)
  PROVE  LET r == sv_split_delims(b, s, {"%"})
         IN  /\ r.found \in BOOLEAN
             /\ r.head \in View /\ r.head.ptr = s.ptr /\ r.head.len <= s.len
             /\ \A p \in s.ptr .. End(r.head) - 1 : b[p + 1] # "%"
             /\ r.found => /\ r.head.len < s.len /\ b[End(r.head) + 1] = "%"
                           /\ r.tail \in View /\ r.tail.ptr = End(r.head) + 1
                           /\ End(r.tail) = End(s)
             /\ ~r.found => r.head = s /\ r.tail = str_empty
<1>. DEFINE i == FirstIn(b, s, {"%"} \cup {NUL})
            r == sv_split_delims(b, s, {"%"})
<1>1. s.ptr \in Int /\ s.len \in Nat /\ s = [ptr |-> s.ptr, len |-> s.len]
  BY SMT DEF InText, View
<1>2. /\ i \in 0 .. s.len
      /\ i < s.len => Byte(b, s, i) \in {"%"} \cup {NUL}
      /\ \A j \in 0 .. i - 1 : Byte(b, s, j) \notin {"%"} \cup {NUL}
  BY <1>1, FirstInFound, Zenon
<1>3. /\ r.found = (i < s.len)
      /\ r.head = [ptr |-> s.ptr, len |-> i]
      /\ i < s.len => r.tail = Drop(Drop(s, i), 1)
      /\ ~(i < s.len) => r.tail = str_empty
  BY Zenon DEF sv_split_delims, sv_split_at_delims, Take
<1>. HIDE DEF i, r
<1>4. ASSUME NEW p \in s.ptr .. (s.ptr + i) - 1
      PROVE  b[p + 1] # "%"
  <2>1. p - s.ptr \in 0 .. i - 1 /\ s.ptr + (p - s.ptr) + 1 = p + 1
    BY <1>1, <1>2, SMT
  <2>2. Byte(b, s, p - s.ptr) # "%"
    BY <1>2, <2>1, Zenon
  <2>. QED
    BY <2>1, <2>2, Zenon DEF Byte
<1>5. r.head \in View /\ r.head.ptr = s.ptr /\ r.head.len = i /\ End(r.head) = s.ptr + i
  BY <1>1, <1>2, <1>3, SMT DEF View, End
<1>6. ASSUME i < s.len
      PROVE  /\ b[(s.ptr + i) + 1] = "%"
             /\ r.tail \in View /\ r.tail.ptr = s.ptr + i + 1 /\ End(r.tail) = End(s)
  <2>1. s.ptr + i \in s.ptr .. End(s) - 1
    BY <1>1, <1>2, <1>6, SMT DEF End
  <2>2. b[(s.ptr + i) + 1] # NUL
    BY <2>1, Zenon DEF NulFree
  <2>3. b[(s.ptr + i) + 1] \in {"%"} \cup {NUL}
    BY <1>2, <1>6, Zenon DEF Byte
  <2>4. r.tail = [ptr |-> s.ptr + i + 1, len |-> s.len - i - 1]
    BY <1>3, <1>6, Zenon DEF Drop
  <2>5. r.tail \in View /\ r.tail.ptr = s.ptr + i + 1 /\ End(r.tail) = End(s)
    BY <1>1, <1>2, <1>6, <2>4, SMT DEF View, End
  <2>. QED
    BY <2>2, <2>3, <2>5, Zenon
<1>7. ~(i < s.len) => r.head = s
  <2>1. ~(i < s.len) => i = s.len
    BY <1>1, <1>2, SMT
  <2>. QED
    BY <1>1, <1>3, <2>1, Zenon
<1>8. i <= s.len /\ (r.found \in BOOLEAN)
  BY <1>1, <1>2, <1>3, SMT
<1>. QED
  BY <1>3, <1>4, <1>5, <1>6, <1>7, <1>8, Zenon DEF r

\* What a view of the text holds.
LEMMA ContentOf ==
  ASSUME NEW b \in Seq(STRING), NEW s, InText(b, s)
  PROVE  /\ Content(b, s) \in Seq(STRING) /\ Len(Content(b, s)) = s.len
         /\ \A i \in 1 .. s.len : Content(b, s)[i] = b[s.ptr + i]
<1>1. /\ s.ptr \in Nat /\ s.len \in Nat /\ Len(b) \in Nat /\ s.ptr + s.len <= Len(b)
      /\ s.ptr + 1 \in Int /\ s.ptr + s.len \in Int
  BY SMT DEF InText, View, End
<1>2. \A i \in s.ptr + 1 .. s.ptr + s.len : b[i] \in STRING
  BY <1>1, SMT
<1>. DEFINE m == s.ptr + 1
            n == s.ptr + s.len
            c == SubSeq(b, m, n)
<1>. HIDE DEF m, n
<1>3. /\ c \in Seq(STRING)
      /\ Len(c) = IF m <= n THEN n - m + 1 ELSE 0
      /\ \A i \in 1 .. n - m + 1 : c[i] = b[m + i - 1]
  <2>1. m \in Int /\ n \in Int /\ \A i \in m .. n : b[i] \in STRING
    BY <1>1, <1>2, Zenon DEF m, n
  <2>. QED
    BY <2>1, SMT
<1>. HIDE DEF c
<1>4. Len(c) = s.len
  BY <1>1, <1>3, SMT DEF m, n
<1>5. ASSUME NEW i \in 1 .. s.len
      PROVE  c[i] = b[s.ptr + i]
  <2>1. i \in 1 .. n - m + 1 /\ m + i - 1 = s.ptr + i
    BY <1>1, SMTT(30) DEF m, n
  <2>. QED
    BY <1>3, <2>1, Zenon
<1>. QED
  BY <1>3, <1>4, <1>5, Zenon DEF c, m, n, Content

\* A split expands to its head, the file name, and what its tail expands to.
LEMMA ExpandSplit ==
  ASSUME NEW b \in Seq(STRING), NEW s, InText(b, s), NulFree(b, s), NEW f \in Seq(STRING)
  PROVE  LET r == sv_split_delims(b, s, {"%"})
         IN  /\ Content(b, r.head) \in Seq(STRING)
             /\ r.found => /\ Expand(Content(b, r.tail), f) \in Seq(STRING)
                           /\ Expand(Content(b, s), f)
                                = Content(b, r.head) \o (f \o Expand(Content(b, r.tail), f))
             /\ ~r.found => Expand(Content(b, s), f) = Content(b, r.head)
<1>. DEFINE r == sv_split_delims(b, s, {"%"})
            head == Content(b, r.head)
            rest == Content(b, r.tail)
            x == b[End(r.head) + 1]
<1>1. /\ r.found \in BOOLEAN
      /\ r.head \in View /\ r.head.ptr = s.ptr /\ r.head.len <= s.len
      /\ \A p \in s.ptr .. End(r.head) - 1 : b[p + 1] # "%"
      /\ r.found => /\ r.head.len < s.len /\ x = "%"
                    /\ r.tail \in View /\ r.tail.ptr = End(r.head) + 1
                    /\ End(r.tail) = End(s)
      /\ ~r.found => r.head = s /\ r.tail = str_empty
  BY PercentContract, Zenon
<1>. HIDE DEF r
<1>2. s.ptr \in Nat /\ s.len \in Nat /\ Len(b) \in Nat /\ End(s) = s.ptr + s.len /\ End(s) <= Len(b)
  BY SMT DEF InText, View, End
<1>3. /\ r.head.ptr = s.ptr /\ r.head.len \in Nat /\ End(r.head) = s.ptr + r.head.len
      /\ InText(b, r.head)
  BY <1>1, <1>2, SMT DEF InText, View, End
<1>4. head \in Seq(STRING) /\ Len(head) = r.head.len
      /\ \A i \in 1 .. r.head.len : head[i] = b[s.ptr + i]
  <2>1. /\ head \in Seq(STRING) /\ Len(head) = r.head.len
        /\ \A i \in 1 .. r.head.len : head[i] = b[r.head.ptr + i]
    BY <1>3, ContentOf, Zenon
  <2>. HIDE DEF head
  <2>. QED
    BY <1>3, <2>1, Zenon
<1>. HIDE DEF head
<1>5. ASSUME NEW i \in 1 .. Len(head)
      PROVE  head[i] # "%"
  <2>1. (s.ptr + i) - 1 \in s.ptr .. End(r.head) - 1 /\ ((s.ptr + i) - 1) + 1 = s.ptr + i
    BY <1>2, <1>3, <1>4, SMTT(30)
  <2>2. b[s.ptr + i] # "%"
    BY <1>1, <2>1, Zenon
  <2>. QED
    BY <1>4, <2>2, Zenon
<1>6. Expand(head, f) = head
  BY <1>4, <1>5, ExpandPlain, Zenon
<1>7. CASE ~r.found
  BY <1>1, <1>4, <1>6, <1>7, Zenon DEF head, r
<1>8. CASE r.found
  <2>. DEFINE m == s.ptr + 1
              k == End(r.head)
              n == End(s)
  <2>1. /\ r.tail \in View /\ r.tail.ptr = k + 1 /\ End(r.tail) = n /\ x = "%"
        /\ r.head.len < s.len
    BY <1>1, <1>8, Zenon
  <2>2. /\ m \in 1 .. Len(b) + 1 /\ k \in m - 1 .. Len(b) /\ n \in k .. Len(b)
        /\ k + 1 \in 1 .. Len(b) /\ n \in k + 1 .. Len(b)
        /\ r.tail.ptr + 1 = (k + 1) + 1 /\ r.tail.ptr + r.tail.len = n
        /\ r.head.ptr + 1 = m /\ r.head.ptr + r.head.len = k
        /\ s.ptr + s.len = n
        /\ InText(b, r.tail)
    <3>1. r.tail.ptr \in Int /\ r.tail.len \in Nat /\ k = s.ptr + r.head.len
          /\ n = s.ptr + s.len /\ r.tail.ptr + r.tail.len = n
      BY <1>2, <1>3, <2>1, SMT DEF View, End
    <3>. HIDE DEF k, n, x
    <3>2. InText(b, r.tail)
      BY <1>2, <1>3, <2>1, <3>1, SMT DEF InText, End, n
    <3>3. /\ m \in 1 .. Len(b) + 1 /\ k \in m - 1 .. Len(b) /\ n \in k .. Len(b)
          /\ k + 1 \in 1 .. Len(b) /\ n \in k + 1 .. Len(b)
          /\ r.tail.ptr + 1 = (k + 1) + 1 /\ r.head.ptr + 1 = m
      BY <1>2, <1>3, <2>1, <3>1, SMTT(30) DEF n
    <3>. QED
      BY <1>3, <3>1, <3>2, <3>3, Zenon DEF k
  <2>3. /\ head = SubSeq(b, m, k) /\ rest = SubSeq(b, (k + 1) + 1, n)
        /\ Content(b, s) = SubSeq(b, m, n)
    BY <2>2, Zenon DEF Content, head
  <2>4. SubSeq(b, m, n) = SubSeq(b, m, k) \o SubSeq(b, k + 1, n)
    BY <2>2, ConcatAdjacentSubSeq, Zenon
  <2>5. SubSeq(b, k + 1, n) = <<x>> \o SubSeq(b, (k + 1) + 1, n)
    BY <2>2, SubSeqRecursiveFirst, Zenon
  <2>6. rest \in Seq(STRING)
    BY <2>2, ContentOf, Zenon
  <2>7. x \in STRING
    BY <2>2, SMT
  <2>. HIDE DEF rest, x, m, k, n
  <2>8. Content(b, s) = head \o (<<x>> \o rest)
    BY <2>3, <2>4, <2>5, Zenon
  <2>9. <<x>> \in Seq(STRING) /\ <<x>> \o rest \in Seq(STRING)
    <3>1. <<x>> \in Seq(STRING)
      BY <2>7, OneElement, Zenon
    <3>. QED
      BY <2>6, <3>1, ConcatProperties, Zenon
  <2>14. \A c, d \in Seq(STRING) : Expand(c \o d, f) = Expand(c, f) \o Expand(d, f)
    BY ExpandConcat
  <2>10. Expand(<<x>> \o rest, f) = Expand(<<x>>, f) \o Expand(rest, f)
    BY <2>6, <2>9, <2>14, Zenon
  <2>11. Expand(<<x>>, f) = f
    BY <2>1, <2>7, ExpandPercent
  <2>12. Expand(head \o (<<x>> \o rest), f) = Expand(head, f) \o Expand(<<x>> \o rest, f)
    BY <1>4, <2>9, <2>14, Zenon
  <2>13. Expand(rest, f) \in Seq(STRING)
    BY <2>6, ExpansionIsText, Zenon
  <2>. QED
    BY <1>4, <1>6, <1>8, <2>8, <2>10, <2>11, <2>12, <2>13, Zenon DEF head, rest, r
<1>. QED
  BY <1>7, <1>8, Zenon

-----------------------------------------------------------------------------
(* The inductive invariant.                                                *)

Legal == buf \in Seq(STRING) /\ InText(buf, cmd_pattern) /\ NulFree(buf, cmd_pattern)

\* What is still to be formatted is the end of the pattern.
Unread ==
  fmt \in {"piece", "filename"} =>
    /\ InText(buf, tail)
    /\ tail.ptr >= cmd_pattern.ptr /\ End(tail) = End(cmd_pattern)

\* Nothing is run before the command is complete, and err says whether it was.
Outcomes ==
  /\ fmt \in {"piece", "filename", "run", "crash"} => ran = << >>
  /\ fmt \in {"piece", "filename", "run"} => err = "OK"
  /\ fmt \in {"deinit", "done"} =>
       \/ ran = << >> /\ err = "ERR_OUT_OF_MEMORY"
       \/ ran = <<Expanded>> /\ err = "OK"
  /\ fmt = "done" => "cmd" \notin heap

IInv == TypeOK /\ fmt # "idle" /\ Legal /\ Unread /\ Fits(cmd) /\ NothingLost /\ Outcomes

\* The part of it that is about the string, in the words of CstrBufs.
LEMMA TypesOfState ==
  ASSUME TypeOK
  PROVE  /\ buf \in Seq(STRING) /\ cmd_pattern \in View /\ tail \in View
         /\ cmd \in CstrBufs /\ cmd.text \in Seq(STRING)
         /\ ran \in Seq(Seq(STRING))
<1>1. cmd \in CstrBufs
  BY Zenon DEF TypeOK, CstrBufs
<1>2. cmd.text \in Seq(STRING)
  BY <1>1, SMT DEF CstrBufs
<1>. QED
  BY <1>1, <1>2, Zenon DEF TypeOK

\* A call in a legal state establishes it.
LEMMA CallInvariant ==
  ASSUME Legal, cmd_pattern \in View,
         fmt = "piece", tail = cmd_pattern, cmd = cstrbuf_zero, ran = << >>, err = "OK"
  PROVE  IInv
<1>1. cmd \in CstrBufs /\ Fits(cmd) /\ cmd.text = << >>
  BY ZeroFits, Zenon DEF cstrbuf_zero
<1>2. << >> \in Seq(Seq(STRING))
  BY SMT
<1>3. TypeOK
  BY <1>1, <1>2, Zenon DEF TypeOK, Legal, CstrBufs
<1>4. Unread
  <2>1. cmd_pattern.ptr >= cmd_pattern.ptr
    BY SMT DEF View
  <2>. QED
    BY <2>1, Zenon DEF Unread, Legal
<1>5. NothingLost
  <2>1. Expanded \in Seq(STRING)
    BY ContentOf, ExpansionIsText, FilenameAssumption, Zenon
       DEF Expanded, Command, Legal, FilenameAssumption
  <2>2. << >> \o Expanded = Expanded
    BY <2>1, ConcatEmptySeq
  <2>3. Pending = Expanded
    BY Zenon DEF Pending, Expanded, Command
  <2>. QED
    BY <1>1, <2>2, <2>3, Zenon DEF NothingLost
<1>6. Outcomes
  BY Zenon DEF Outcomes
<1>. QED
  BY <1>1, <1>3, <1>4, <1>5, <1>6, Zenon DEF IInv, Legal

\* An extension of the command, when what it adds is what is pending first.
LEMMA ExtendInvariant ==
  ASSUME IInv, NEW str \in Seq(STRING), NEW next, Extend(str, next),
         buf' = buf, cmd_pattern' = cmd_pattern, ran' = ran, tail' \in View,
         fmt \in {"piece", "filename"}, next \in {"piece", "filename", "run"},
         fmt' = next => Unread',
         fmt' = next => (cmd.text \o str) \o Pending' = Expanded
  PROVE  IInv'
<1>1. /\ TypeOK /\ Legal /\ Fits(cmd) /\ cmd \in CstrBufs /\ ran = << >> /\ err = "OK"
  BY TypesOfState, Zenon DEF IInv, Outcomes
<1>2. PICK r \in cstrbuf_extend(cmd, str) :
        /\ cmd' = r.buf
        /\ \/ r.result = "true"  /\ fmt' = next /\ UNCHANGED err
           \/ r.result = "false" /\ fmt' = "deinit" /\ err' = "ERR_OUT_OF_MEMORY"
           \/ r.result = "crash" /\ fmt' = "crash" /\ UNCHANGED err
  BY Zenon DEF Extend
<1>3. /\ r.buf \in CstrBufs /\ Fits(r.buf)
      /\ r.result = "true" => r.buf.text = cmd.text \o str
  BY <1>1, ExtendContract, Zenon
<1>4. Legal' /\ Expanded' = Expanded /\ fmt' # "idle"
  BY <1>1, <1>2, Zenon DEF Legal, Expanded, Command
<1>5. TypeOK'
  BY <1>1, <1>2, <1>3, Zenon DEF TypeOK, CstrBufs
<1>6. Fits(cmd)'
  BY <1>2, <1>3, Zenon
<1>7. CASE fmt' = next
  <2>1. r.result = "true" /\ err' = err
    BY <1>2, <1>7, Zenon
  <2>2. NothingLost'
    BY <1>2, <1>3, <1>4, <1>7, <2>1, Zenon DEF NothingLost
  <2>3. Outcomes'
    BY <1>1, <1>7, <2>1, Zenon DEF Outcomes
  <2>. QED
    BY <1>4, <1>5, <1>6, <1>7, <2>2, <2>3, Zenon DEF IInv
<1>8. CASE fmt' # next
  <2>1. (fmt' = "deinit" /\ err' = "ERR_OUT_OF_MEMORY") \/ fmt' = "crash"
    BY <1>2, <1>8, Zenon
  <2>2. Unread' /\ NothingLost' /\ Outcomes'
    BY <1>1, <2>1, Zenon DEF Unread, NothingLost, Outcomes
  <2>. QED
    BY <1>4, <1>5, <1>6, <2>2, Zenon DEF IInv
<1>. QED
  BY <1>7, <1>8, Zenon

LEMMA PieceInvariant == IInv /\ Piece => IInv'
<1>. SUFFICES ASSUME IInv, Piece PROVE IInv'
  OBVIOUS
<1>. DEFINE split == sv_split_delims(buf, tail, {"%"})
            str == Content(buf, split.head)
            next == IF split.found THEN "filename" ELSE "run"
<1>1. /\ fmt = "piece" /\ tail' = split.tail /\ Extend(str, next)
      /\ buf' = buf /\ cmd_pattern' = cmd_pattern /\ ran' = ran
  BY Zenon DEF Piece
<1>2. /\ buf \in Seq(STRING) /\ cmd.text \in Seq(STRING) /\ Filename \in Seq(STRING)
      /\ cmd_pattern \in View /\ InText(buf, tail) /\ NulFree(buf, cmd_pattern)
      /\ tail.ptr >= cmd_pattern.ptr /\ End(tail) = End(cmd_pattern)
      /\ cmd.text \o Expand(Content(buf, tail), Filename) = Expanded
  BY <1>1, TypesOfState, FilenameAssumption, Zenon
     DEF IInv, Legal, Unread, NothingLost, Pending, FilenameAssumption
<1>3. NulFree(buf, tail)
  <2>1. tail.ptr \in Int /\ cmd_pattern.ptr \in Int /\ End(tail) \in Int
    BY <1>2, SMT DEF InText, View, End
  <2>2. \A p \in tail.ptr .. End(tail) - 1 : p \in cmd_pattern.ptr .. End(cmd_pattern) - 1
    BY <1>2, <2>1, SMT
  <2>. QED
    BY <1>2, <2>2, Zenon DEF NulFree
<1>4. /\ split.found \in BOOLEAN
      /\ split.head \in View /\ split.head.ptr = tail.ptr /\ split.head.len <= tail.len
      /\ \A p \in tail.ptr .. End(split.head) - 1 : buf[p + 1] # "%"
      /\ split.found => /\ split.head.len < tail.len /\ buf[End(split.head) + 1] = "%"
                        /\ split.tail \in View /\ split.tail.ptr = End(split.head) + 1
                        /\ End(split.tail) = End(tail)
      /\ ~split.found => split.head = tail /\ split.tail = str_empty
  BY <1>2, <1>3, PercentContract, Zenon
<1>5. /\ str \in Seq(STRING)
      /\ split.found => /\ Expand(Content(buf, split.tail), Filename) \in Seq(STRING)
                        /\ Expand(Content(buf, tail), Filename)
                             = str \o (Filename \o Expand(Content(buf, split.tail), Filename))
      /\ ~split.found => Expand(Content(buf, tail), Filename) = str
  BY <1>2, <1>3, ExpandSplit, Zenon
<1>. HIDE DEF split, str
<1>6. tail' \in View
  <2>1. str_empty \in View
    BY SMT DEF str_empty, Literal, View
  <2>. QED
    BY <1>1, <1>4, <2>1, Zenon
<1>7. CASE split.found
  <2>1. next = "filename"
    BY <1>7, Zenon
  <2>2. InText(buf, split.tail) /\ split.tail.ptr >= cmd_pattern.ptr
    <3>1. split.head.ptr \in Int /\ split.head.len \in Nat /\ tail.ptr \in Int
          /\ cmd_pattern.ptr \in Int
      BY <1>2, <1>4, SMT DEF View, InText
    <3>2. split.tail.ptr >= 0 /\ split.tail.ptr >= cmd_pattern.ptr
      BY <1>2, <1>4, <1>7, <3>1, SMTT(30) DEF End, InText
    <3>. QED
      BY <1>2, <1>4, <1>7, <3>2, Zenon DEF InText
  <2>3. fmt' = next => Unread'
    BY <1>1, <1>2, <1>4, <1>7, <2>2, Zenon DEF Unread
  <2>4. fmt' = next => (cmd.text \o str) \o Pending' = Expanded
    <3>. DEFINE more == Filename \o Expand(Content(buf, split.tail), Filename)
    <3>1. more \in Seq(STRING)
      BY <1>2, <1>5, <1>7, ConcatProperties, Zenon
    <3>2. fmt' = next => Pending' = more
      BY <1>1, <2>1, Zenon DEF Pending
    <3>3. Expanded = cmd.text \o (str \o more)
      BY <1>2, <1>5, <1>7, Zenon
    <3>. HIDE DEF more
    <3>4. Associates(cmd.text, str, more)
      BY <1>2, <1>5, <3>1, Associative, Zenon
    <3>. QED
      BY <3>2, <3>3, <3>4, Zenon DEF Associates
  <2>. QED
    BY <1>1, <1>5, <1>6, <2>1, <2>3, <2>4, ExtendInvariant, Zenon
<1>8. CASE ~split.found
  <2>1. next = "run"
    BY <1>8, Zenon
  <2>2. fmt' = next => Unread'
    BY <2>1, Zenon DEF Unread
  <2>3. fmt' = next => (cmd.text \o str) \o Pending' = Expanded
    <3>1. fmt' = next => Pending' = << >>
      BY <2>1, Zenon DEF Pending
    <3>2. cmd.text \o str \in Seq(STRING) /\ cmd.text \o str = Expanded
      BY <1>2, <1>5, <1>8, ConcatProperties, Zenon
    <3>3. (cmd.text \o str) \o << >> = cmd.text \o str
      BY <3>2, ConcatEmptySeq
    <3>. QED
      BY <3>1, <3>2, <3>3, Zenon
  <2>. QED
    BY <1>1, <1>5, <1>6, <2>1, <2>2, <2>3, ExtendInvariant, Zenon
<1>. QED
  BY <1>4, <1>7, <1>8, Zenon

LEMMA InsertInvariant == IInv /\ InsertFilename => IInv'
<1>. SUFFICES ASSUME IInv, InsertFilename PROVE IInv'
  OBVIOUS
<1>1. /\ fmt = "filename" /\ Extend(Filename, "piece")
      /\ buf' = buf /\ cmd_pattern' = cmd_pattern /\ tail' = tail /\ ran' = ran
  BY Zenon DEF InsertFilename
<1>. DEFINE rest == Expand(Content(buf, tail), Filename)
<1>2. /\ buf \in Seq(STRING) /\ cmd.text \in Seq(STRING) /\ Filename \in Seq(STRING)
      /\ tail \in View /\ InText(buf, tail)
      /\ tail.ptr >= cmd_pattern.ptr /\ End(tail) = End(cmd_pattern)
      /\ cmd.text \o (Filename \o rest) = Expanded
  BY <1>1, TypesOfState, FilenameAssumption, Zenon
     DEF IInv, Unread, NothingLost, Pending, FilenameAssumption
<1>3. rest \in Seq(STRING)
  BY <1>2, ContentOf, ExpansionIsText, Zenon
<1>4. fmt' = "piece" => Unread'
  BY <1>1, <1>2, Zenon DEF Unread
<1>5. fmt' = "piece" => (cmd.text \o Filename) \o Pending' = Expanded
  <2>1. fmt' = "piece" => Pending' = rest
    BY <1>1, Zenon DEF Pending
  <2>. HIDE DEF rest
  <2>2. Associates(cmd.text, Filename, rest)
    BY <1>2, <1>3, Associative, Zenon
  <2>. QED
    BY <1>2, <2>1, <2>2, Zenon DEF Associates
<1>. QED
  BY <1>1, <1>2, <1>4, <1>5, ExtendInvariant, Zenon

LEMMA RunInvariant == IInv /\ Run => IInv'
<1>. SUFFICES ASSUME IInv, Run PROVE IInv'
  OBVIOUS
<1>1. /\ fmt = "run" /\ fmt' = "deinit" /\ ran' = Append(ran, cmd.text)
      /\ buf' = buf /\ cmd_pattern' = cmd_pattern /\ tail' = tail /\ cmd' = cmd
      /\ heap' = heap /\ err' = err
  BY Zenon DEF Run
<1>2. /\ cmd.text \in Seq(STRING) /\ ran = << >> /\ err = "OK"
      /\ cmd.text \o << >> = Expanded
  BY <1>1, TypesOfState, Zenon DEF IInv, Outcomes, NothingLost, Pending
<1>3. cmd.text = Expanded
  <2>1. cmd.text \o << >> = cmd.text
    BY <1>2, ConcatEmptySeq
  <2>. QED
    BY <1>2, <2>1, Zenon
<1>4. ran' = <<cmd.text>> /\ ran' \in Seq(Seq(STRING))
  <2>1. Append(<< >>, cmd.text) = <<cmd.text>>
    BY SMT
  <2>2. <<cmd.text>> \in Seq(Seq(STRING))
    BY <1>2, OneElement, Zenon
  <2>. QED
    BY <1>1, <1>2, <2>1, <2>2, Zenon
<1>5. TypeOK' /\ Legal' /\ Fits(cmd)' /\ Expanded' = Expanded
  BY <1>1, <1>4, Zenon DEF IInv, TypeOK, Legal, Expanded, Command
<1>6. Unread' /\ NothingLost'
  BY <1>1, Zenon DEF Unread, NothingLost
<1>7. Outcomes'
  BY <1>1, <1>2, <1>3, <1>4, <1>5, Zenon DEF Outcomes
<1>. QED
  BY <1>1, <1>5, <1>6, <1>7, Zenon DEF IInv

LEMMA DeinitInvariant == IInv /\ Deinit => IInv'
<1>. SUFFICES ASSUME IInv, Deinit PROVE IInv'
  OBVIOUS
<1>1. /\ fmt = "deinit" /\ fmt' = "done" /\ heap' = heap \ {"cmd"}
      /\ buf' = buf /\ cmd_pattern' = cmd_pattern /\ tail' = tail /\ cmd' = cmd
      /\ ran' = ran /\ err' = err
  BY Zenon DEF Deinit
<1>2. TypeOK' /\ Legal' /\ Fits(cmd)' /\ Expanded' = Expanded
  BY <1>1, Zenon DEF IInv, TypeOK, Legal, Expanded, Command
<1>3. Unread' /\ NothingLost'
  BY <1>1, Zenon DEF Unread, NothingLost
<1>4. Outcomes'
  <2>1. \/ ran' = << >> /\ err' = "ERR_OUT_OF_MEMORY"
        \/ ran' = <<Expanded'>> /\ err' = "OK"
    BY <1>1, <1>2, Zenon DEF IInv, Outcomes
  <2>2. "cmd" \notin heap'
    BY <1>1, Zenon
  <2>. QED
    BY <1>1, <2>1, <2>2, Zenon DEF Outcomes
<1>. QED
  BY <1>1, <1>2, <1>3, <1>4, Zenon DEF IInv

LEMMA StepInvariant == IInv /\ format_and_run => IInv'
BY PieceInvariant, InsertInvariant, RunInvariant, DeinitInvariant, Zenon DEF format_and_run

LEMMA StutterInvariant == IInv /\ UNCHANGED formatVars => IInv'
BY Zenon
   DEF IInv, TypeOK, Legal, Unread, NothingLost, Outcomes, Expanded, Command, Pending,
       formatVars

\* What the invariant says to a caller.
LEMMA WhatItMeans == IInv => AllOrNothing /\ CmdFits
<1>. SUFFICES ASSUME IInv PROVE AllOrNothing /\ CmdFits
  OBVIOUS
<1>1. fmt \in {"piece", "filename", "run", "deinit", "done", "crash"}
  BY Zenon DEF IInv, TypeOK
<1>2. <<Expanded>> # << >>
  BY SMT
<1>3. AllOrNothing
  BY <1>1, <1>2, Zenon DEF IInv, Outcomes, AllOrNothing
<1>. QED
  BY <1>3, Zenon DEF IInv, Fits, CmdFits

-----------------------------------------------------------------------------
(* The theorems.                                                           *)

\* The inductive invariant holds in every state format_and_run can reach.
THEOREM Invariance == Spec => []IInv
<1>1. Init => IInv
  <2>. SUFFICES ASSUME Init PROVE IInv
    OBVIOUS
  <2>1. InText(buf, cmd_pattern) /\ buf \in Seq(STRING) /\ cmd_pattern \in View
    BY Zenon DEF Init, InText
  <2>2. NulFree(buf, cmd_pattern)
    <3>. SUFFICES ASSUME NEW p \in cmd_pattern.ptr .. End(cmd_pattern) - 1
                  PROVE  buf[p + 1] # NUL
      BY Zenon DEF NulFree
    <3>. DEFINE i == p - cmd_pattern.ptr + 1
    <3>1. i \in 1 .. cmd_pattern.len /\ cmd_pattern.ptr + i = p + 1
      BY <2>1, SMT DEF View, End
    <3>. HIDE DEF i
    <3>2. Content(buf, cmd_pattern)[i] = buf[cmd_pattern.ptr + i]
      BY <2>1, <3>1, ContentOf, Zenon
    <3>. QED
      BY <3>1, <3>2, Zenon DEF Init
  <2>. QED
    BY <2>1, <2>2, CallInvariant, Zenon DEF Init, Legal
<1>2. IInv /\ [Next]_formatVars => IInv'
  <2>. SUFFICES ASSUME IInv, [Next]_formatVars PROVE IInv'
    OBVIOUS
  <2>1. CASE format_and_run
    BY <2>1, StepInvariant, Zenon
  <2>2. CASE UNCHANGED formatVars
    BY <2>2, StutterInvariant, Zenon
  <2>. QED
    BY <2>1, <2>2, Zenon DEF Next, Returned
<1>. QED
  BY <1>1, <1>2, PTL DEF Spec

\* The text of the command and its terminator fit the block allocated for it.
THEOREM CommandFits == Spec => []CmdFits
<1>. QED
  BY Invariance, WhatItMeans, PTL

\* At every step, what was put together and what is pending are the command.
THEOREM PiecesAddUp == Spec => []NothingLost
<1>1. IInv => NothingLost
  BY Zenon DEF IInv
<1>. QED
  BY <1>1, Invariance, PTL

\* The command is run whole or not at all, for every text, pattern and name.
THEOREM WholeOrNothing == Spec => []AllOrNothing
<1>. QED
  BY Invariance, WhatItMeans, PTL
=============================================================================
