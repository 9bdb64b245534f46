---------------------------- MODULE KrsStrProofs ----------------------------
(***************************************************************************)
(* What the view operations of KrsStr compute, for every buffer and view:  *)
(* facts about FirstIn, FirstNotIn and the CHOOSE of the right trim, and   *)
(* from them the contracts of splitting and trimming.  The contracts speak *)
(* of offsets into the buffer rather than indices into the view.           *)
(* Then the growing string, for every text and capacity: the loop of       *)
(* da_reserve ends with enough room, and no function of cstrbuf leaves a   *)
(* text without its terminator, or more text than there is room for.       *)
(***************************************************************************)
EXTENDS CstrBuf, FiniteSetTheorems, SequenceTheorems, TLAPS

\* A nonempty set of naturals has a least element.
LEMMA LeastNatural ==
  ASSUME NEW S \in SUBSET Nat, S # {}
  PROVE  \E m \in S : \A k \in S : m <= k
<1>1. PICK m \in S : \A k \in S : <<k, m>> \notin OpToRel(<, Nat)
  BY WFMin, NatLessThanWellFounded, Zenon
<1>2. \A k \in S : ~(k < m)
  BY <1>1, Zenon DEF OpToRel
<1>. QED
  BY <1>2, SMT

\* Induction over the naturals, for a set.
LEMMA EveryNatural ==
  ASSUME NEW S, 0 \in S, \A k \in Nat : k \in S => k + 1 \in S
  PROVE  \A k \in Nat : k \in S
<1>. SUFFICES ASSUME NEW n \in Nat, n \notin S PROVE FALSE
  OBVIOUS
<1>. DEFINE T == {k \in Nat : k \notin S}
<1>1. PICK k \in T : \A j \in T : k <= j
  BY LeastNatural, Zenon
<1>2. k \in Nat /\ k \notin S /\ k # 0
  BY Zenon
<1>3. k - 1 \in Nat /\ (k - 1) + 1 = k /\ ~(k <= k - 1)
  BY <1>2, SMT
<1>4. k - 1 \in S
  BY <1>1, <1>3, Zenon
<1>. QED
  BY <1>2, <1>3, <1>4, Zenon

\* A sequence of one element.
LEMMA OneElement ==
  ASSUME NEW X, NEW x \in X
  PROVE  <<x>> \in Seq(X)
BY SMT

\* A nonempty set of naturals with an upper bound has a greatest element.
LEMMA GreatestNatural ==
  ASSUME NEW n \in Nat, NEW S \in SUBSET (0 .. n), S # {}
  PROVE  /\ Max(S) \in S
         /\ \A k \in S : k <= Max(S)
<1>. DEFINE T == {n - k : k \in S}
<1>1. T \in SUBSET Nat /\ T # {}
  <2>1. ASSUME NEW k \in S PROVE n - k \in Nat
    BY SMT
  <2>. QED
    BY <2>1, Zenon
<1>2. PICK m \in T : \A k \in T : m <= k
  BY <1>1, LeastNatural
<1>3. PICK x \in S : m = n - x
  BY <1>2
<1>4. ASSUME NEW k \in S PROVE x >= k /\ k \in Int
  <2>1. m <= n - k
    BY <1>2, Zenon
  <2>. QED
    BY <2>1, <1>3, SMT
<1>5. Max(S) \in S /\ \A k \in S : Max(S) >= k
  BY <1>4, Zenon DEF Max
<1>. QED
  BY <1>4, <1>5, SMT

\* The index FirstIn chooses exists: the scan stops at the first byte in C.
LEMMA FirstInFound ==
  ASSUME NEW b, NEW s, s.len \in Nat, NEW C
  PROVE  /\ FirstIn(b, s, C) \in 0 .. s.len
         /\ FirstIn(b, s, C) < s.len => Byte(b, s, FirstIn(b, s, C)) \in C
         /\ \A j \in 0 .. FirstIn(b, s, C) - 1 : Byte(b, s, j) \notin C
<1>. DEFINE S == {k \in 0 .. s.len : k < s.len => Byte(b, s, k) \in C}
<1>1. s.len \in S /\ S \in SUBSET Nat
  BY SMT
<1>2. PICK k \in S : \A j \in S : k <= j
  BY <1>1, LeastNatural
<1>3. \A j \in 0 .. k - 1 : Byte(b, s, j) \notin C
  BY <1>2, SMT
<1>. QED
  BY <1>2, <1>3, SMT DEF FirstIn

\* So does the index FirstNotIn chooses.
LEMMA FirstNotInFound ==
  ASSUME NEW b, NEW s, s.len \in Nat, NEW C
  PROVE  /\ FirstNotIn(b, s, C) \in 0 .. s.len
         /\ FirstNotIn(b, s, C) < s.len => Byte(b, s, FirstNotIn(b, s, C)) \notin C
         /\ \A j \in 0 .. FirstNotIn(b, s, C) - 1 : Byte(b, s, j) \in C
<1>. DEFINE S == {k \in 0 .. s.len : k < s.len => Byte(b, s, k) \notin C}
<1>1. s.len \in S /\ S \in SUBSET Nat
  BY SMT
<1>2. PICK k \in S : \A j \in S : k <= j
  BY <1>1, LeastNatural
<1>3. \A j \in 0 .. k - 1 : Byte(b, s, j) \in C
  BY <1>2, SMT
<1>. QED
  BY <1>2, <1>3, SMT DEF FirstNotIn

\* Splitting: the head runs up to the first delimiter, the tail from it on.
LEMMA SplitContract ==
  ASSUME NEW b, NEW s \in View, NEW D
  PROVE  LET r == sv_split_at_delims(b, s, D)
         IN  /\ r.head \in View /\ r.tail \in View
             /\ r.head.ptr = s.ptr /\ r.head.len <= s.len
             /\ \A p \in s.ptr .. End(r.head) - 1 : b[p + 1] \notin D \cup {NUL}
             /\ \/ /\ r.tail.len > 0 /\ r.tail.ptr = End(r.head)
                   /\ End(r.tail) = End(s)
                   /\ b[r.tail.ptr + 1] \in D \cup {NUL}
                \/ r.head = s /\ r.tail = str_empty
<1>. DEFINE i == FirstIn(b, s, D \cup {NUL})
            r == sv_split_at_delims(b, s, D)
<1>0. s.ptr \in Int /\ s.len \in Nat /\ s = [ptr |-> s.ptr, len |-> s.len]
  BY SMT DEF View
<1>1. /\ i \in 0 .. s.len
      /\ i < s.len => Byte(b, s, i) \in D \cup {NUL}
      /\ \A j \in 0 .. i - 1 : Byte(b, s, j) \notin D \cup {NUL}
  BY <1>0, FirstInFound, Zenon
<1>. HIDE DEF i
<1>2. /\ r.head = [ptr |-> s.ptr, len |-> i]
      /\ r.tail = IF i < s.len THEN [ptr |-> s.ptr + i, len |-> s.len - i] ELSE str_empty
  BY Zenon DEF sv_split_at_delims, Take, Drop, i
<1>3. ASSUME NEW p \in s.ptr .. (s.ptr + i) - 1
      PROVE  b[p + 1] \notin D \cup {NUL}
  <2>1. p - s.ptr \in 0 .. i - 1 /\ s.ptr + (p - s.ptr) + 1 = p + 1
    BY <1>0, <1>1, SMT
  <2>. QED
    BY <2>1, <1>1, Zenon DEF Byte
<1>4. CASE i < s.len
  <2>1. b[s.ptr + i + 1] \in D \cup {NUL}
    BY <1>1, <1>4, Zenon DEF Byte
  <2>. HIDE DEF r
  <2>2. /\ r.head \in View /\ r.tail \in View
        /\ r.head.ptr = s.ptr /\ r.head.len = i
        /\ r.tail.len > 0 /\ r.tail.ptr = s.ptr + i
        /\ End(r.head) = s.ptr + i /\ End(r.tail) = End(s)
    BY <1>0, <1>1, <1>2, <1>4, SMT DEF View, End
  <2>. QED
    BY <1>0, <1>1, <1>3, <2>1, <2>2, SMT DEF r
<1>5. CASE ~(i < s.len)
  <2>1. i = s.len
    BY <1>0, <1>1, <1>5, SMT
  <2>. HIDE DEF r
  <2>2. /\ r.head = s /\ r.tail = str_empty /\ r.tail \in View
        /\ End(r.head) = s.ptr + i
    BY <1>0, <1>2, <1>5, <2>1, SMT DEF View, End, str_empty, Literal
  <2>. QED
    BY <1>0, <1>3, <2>1, <2>2, SMT DEF r
<1>. QED
  BY <1>4, <1>5, Zenon

\* Trimming on the left: what is dropped is in C, what is left does not begin
\* with a byte in C, and ends where it did.
LEMMA TrimLeftContract ==
  ASSUME NEW b, NEW s \in View, NEW C
  PROVE  LET r == sv_trim_left(b, s, C)
         IN  /\ r \in View
             /\ s.ptr <= r.ptr /\ End(r) = End(s)
             /\ \A p \in s.ptr .. r.ptr - 1 : b[p + 1] \in C
             /\ r.len > 0 => b[r.ptr + 1] \notin C
             /\ s.len = 0 => r = s
<1>. DEFINE i == FirstNotIn(b, s, C)
            r == sv_trim_left(b, s, C)
<1>0. s.ptr \in Int /\ s.len \in Nat /\ s = [ptr |-> s.ptr, len |-> s.len]
  BY SMT DEF View
<1>1. /\ i \in 0 .. s.len
      /\ i < s.len => Byte(b, s, i) \notin C
      /\ \A j \in 0 .. i - 1 : Byte(b, s, j) \in C
  BY <1>0, FirstNotInFound, Zenon
<1>. HIDE DEF i
<1>2. r = [ptr |-> s.ptr + i, len |-> s.len - i]
  BY Zenon DEF sv_trim_left, Drop, i
<1>3. ASSUME NEW p \in s.ptr .. (s.ptr + i) - 1
      PROVE  b[p + 1] \in C
  <2>1. p - s.ptr \in 0 .. i - 1 /\ s.ptr + (p - s.ptr) + 1 = p + 1
    BY <1>0, <1>1, SMT
  <2>. QED
    BY <2>1, <1>1, Zenon DEF Byte
<1>4. i < s.len => b[s.ptr + i + 1] \notin C
  BY <1>1, Zenon DEF Byte
<1>. HIDE DEF r
<1>5. /\ r \in View /\ r.ptr = s.ptr + i /\ r.len = s.len - i /\ s.ptr <= r.ptr
      /\ End(r) = End(s)
      /\ s.len = 0 => r = s
  BY <1>0, <1>1, <1>2, SMT DEF View, End
<1>6. r.len > 0 => b[r.ptr + 1] \notin C
  BY <1>0, <1>1, <1>4, <1>5, SMT
<1>7. \A p \in s.ptr .. r.ptr - 1 : b[p + 1] \in C
  BY <1>3, <1>5, Zenon
<1>. QED
  BY <1>5, <1>6, <1>7, Zenon DEF r

\* Trimming on the right: what is dropped is whitespace, and what is left
\* does not end in whitespace.
LEMMA TrimRightContract ==
  ASSUME NEW b, NEW s \in View
  PROVE  LET r == sv_trim_right_whitespace(b, s)
         IN  /\ r \in View
             /\ r.ptr = s.ptr /\ r.len <= s.len
             /\ \A p \in End(r) .. End(s) - 1 : b[p + 1] \in Space
             /\ r.len > 0 => b[End(r)] \notin Space
<1>. DEFINE Blank(n) == \A j \in n .. s.len - 1 : Byte(b, s, j) \in Space
            S == {n \in 0 .. s.len : Blank(n)}
            n == CHOOSE n \in 0 .. s.len :
                   /\ n > 0 => Byte(b, s, n - 1) \notin Space
                   /\ \A j \in n .. s.len - 1 : Byte(b, s, j) \in Space
            r == sv_trim_right_whitespace(b, s)
<1>0. s.ptr \in Int /\ s.len \in Nat
  BY SMT DEF View
<1>1. s.len \in S /\ S \in SUBSET Nat
  BY <1>0, SMT
<1>2. PICK m \in S : \A k \in S : m <= k
  BY <1>1, LeastNatural
<1>3. ASSUME m > 0
      PROVE  Byte(b, s, m - 1) \notin Space
  <2>1. SUFFICES ASSUME Byte(b, s, m - 1) \in Space PROVE FALSE
    OBVIOUS
  <2>2. m \in 0 .. s.len /\ m - 1 \in 0 .. s.len /\ ~(m <= m - 1)
    BY <1>0, <1>2, <1>3, SMT
  <2>3. \A j \in m - 1 .. s.len - 1 : j = m - 1 \/ j \in m .. s.len - 1
    BY <1>0, <2>2, SMT
  <2>4. Blank(m - 1)
    BY <1>2, <2>1, <2>3, Zenon
  <2>. QED
    BY <1>2, <2>2, <2>4, Zenon
<1>4. /\ n \in 0 .. s.len
      /\ n > 0 => Byte(b, s, n - 1) \notin Space
      /\ Blank(n)
  BY <1>2, <1>3, Zenon
<1>5. r = [ptr |-> s.ptr, len |-> n]
  BY Zenon DEF sv_trim_right_whitespace, Take
<1>. HIDE DEF n, r, S
<1>6. ASSUME NEW p \in (s.ptr + n) .. (s.ptr + s.len) - 1
      PROVE  b[p + 1] \in Space
  <2>1. p - s.ptr \in n .. s.len - 1 /\ s.ptr + (p - s.ptr) + 1 = p + 1
    BY <1>0, <1>4, SMT
  <2>. QED
    BY <2>1, <1>4, Zenon DEF Byte
<1>7. n > 0 => b[s.ptr + n] \notin Space
  <2>1. s.ptr + (n - 1) + 1 = s.ptr + n
    BY <1>0, <1>4, SMT
  <2>. QED
    BY <1>4, <2>1, Zenon DEF Byte
<1>8. /\ r \in View /\ r.ptr = s.ptr /\ r.len = n /\ r.len <= s.len
      /\ End(r) = s.ptr + n /\ End(s) = s.ptr + s.len
  BY <1>0, <1>4, <1>5, SMT DEF View, End
<1>. QED
  BY <1>6, <1>7, <1>8, Zenon DEF r

\* Trimming on both sides.
LEMMA TrimContract ==
  ASSUME NEW b, NEW s \in View
  PROVE  LET r == sv_trim_whitespace(b, s)
         IN  /\ r \in View
             /\ s.ptr <= r.ptr /\ End(r) <= End(s)
             /\ \A p \in s.ptr .. r.ptr - 1 : b[p + 1] \in Space
             /\ \A p \in End(r) .. End(s) - 1 : b[p + 1] \in Space
             /\ r.len > 0 => b[r.ptr + 1] \notin Space /\ b[End(r)] \notin Space
<1>. DEFINE l == sv_trim_left(b, s, Space)
            r == sv_trim_right_whitespace(b, l)
<1>1. /\ l \in View /\ s.ptr <= l.ptr /\ End(l) = End(s)
      /\ \A p \in s.ptr .. l.ptr - 1 : b[p + 1] \in Space
      /\ l.len > 0 => b[l.ptr + 1] \notin Space
  BY TrimLeftContract, Zenon
<1>. HIDE DEF l
<1>2. /\ r \in View /\ r.ptr = l.ptr /\ r.len <= l.len
      /\ \A p \in End(r) .. End(l) - 1 : b[p + 1] \in Space
      /\ r.len > 0 => b[End(r)] \notin Space
  BY <1>1, TrimRightContract, Zenon
<1>. HIDE DEF r
<1>3. End(r) <= End(s) /\ (r.len > 0 => l.len > 0)
  BY <1>1, <1>2, SMT DEF View, End
<1>4. sv_trim_whitespace(b, s) = r
  BY Zenon DEF sv_trim_whitespace, l, r
<1>. QED
  BY <1>1, <1>2, <1>3, <1>4, Zenon

-----------------------------------------------------------------------------
(* The growth of da_reserve.                                               *)

\* The equation that the loop of da_reserve is: grow while it is too small.
Grows(g, t) == g = [c \in Nat |-> IF c < t THEN g[GROW_CAP(c)] ELSE c]

\* Growing makes any capacity but the smallest ones larger.
LEMMA GrowthIsStrict ==
  ASSUME NEW c \in Nat, c >= 4
  PROVE  GROW_CAP(c) \in Nat /\ GROW_CAP(c) > c
BY SMT DEF GROW_CAP

\* The equation has a solution.  One that serves the capacities less than m short
\* of the target also serves, after one more round, those less than m + 1 short
\* of it.
LEMMA GrowthSolved ==
  ASSUME NEW t \in Nat
  PROVE  \E g : Grows(g, t)
<1>. DEFINE Near(c, m) == c >= 4 /\ t - c <= m
            Serves(f, m) == \A c \in Nat : Near(c, m) =>
                              f[c] = IF c < t THEN f[GROW_CAP(c)] ELSE c
            P(m) == \E f : Serves(f, m)
<1>1. P(0)
  <2>1. Serves([c \in Nat |-> c], 0)
    BY SMT
  <2>. QED
    BY <2>1, Zenon
<1>2. ASSUME NEW m \in Nat, P(m)
      PROVE  P(m + 1)
  <2>1. PICK f : Serves(f, m)
    BY <1>2, Zenon
  <2>. DEFINE h == [c \in Nat |-> IF Near(c, m) THEN f[c]
                                  ELSE IF c < t THEN f[GROW_CAP(c)] ELSE c]
  <2>2. ASSUME NEW c \in Nat, Near(c, m + 1)
        PROVE  h[c] = IF c < t THEN h[GROW_CAP(c)] ELSE c
    <3>1. GROW_CAP(c) \in Nat /\ Near(GROW_CAP(c), m)
      BY <2>2, GrowthIsStrict, SMT
    <3>2. h[GROW_CAP(c)] = f[GROW_CAP(c)]
      BY <3>1, Zenon
    <3>3. Near(c, m) => f[c] = IF c < t THEN f[GROW_CAP(c)] ELSE c
      BY <2>1, Zenon
    <3>. QED
      BY <3>2, <3>3, Zenon
  <2>3. Serves(h, m + 1)
    BY <2>2, Zenon
  <2>. QED
    BY <2>3, Zenon
<1>3. \A m \in Nat : P(m)
  <2>. SUFFICES ASSUME NEW n \in Nat, ~P(n) PROVE FALSE
    BY Zenon
  <2>. DEFINE S == {k \in Nat : ~P(k)}
  <2>1. PICK k \in S : \A j \in S : k <= j
    BY LeastNatural, Zenon
  <2>2. k \in Nat /\ ~P(k)
    BY Zenon
  <2>. HIDE DEF P
  <2>3. k # 0
    BY <1>1, <2>2, Zenon
  <2>4. k - 1 \in Nat /\ (k - 1) + 1 = k /\ ~(k <= k - 1)
    BY <2>2, <2>3, SMT
  <2>5. P(k - 1)
    BY <2>1, <2>4, Zenon
  <2>. QED
    BY <1>2, <2>2, <2>4, <2>5, Zenon
<1>4. PICK f : Serves(f, t)
  BY <1>3, Zenon
<1>. DEFINE last == IF 3 < t THEN 0 ELSE 3
            g == [c \in Nat |-> IF c >= 4 THEN f[c]
                                ELSE IF c \in {2, 3} /\ c < t THEN last
                                ELSE IF c < t THEN 0 ELSE c]
<1>5. ASSUME NEW c \in Nat
      PROVE  g[c] = IF c < t THEN g[GROW_CAP(c)] ELSE c
  <2>1. CASE c >= 4
    <3>1. GROW_CAP(c) \in Nat /\ GROW_CAP(c) >= 4 /\ Near(c, t)
      BY <2>1, GrowthIsStrict, SMT
    <3>2. g[c] = f[c] /\ g[GROW_CAP(c)] = f[GROW_CAP(c)]
      BY <2>1, <3>1, Zenon
    <3>3. f[c] = IF c < t THEN f[GROW_CAP(c)] ELSE c
      BY <1>4, <3>1, Zenon
    <3>. QED
      BY <3>2, <3>3, Zenon
  <2>2. CASE c \in {0, 1}
    <3>1. GROW_CAP(c) = 0
      BY <2>2, SMT DEF GROW_CAP
    <3>2. g[0] = 0 /\ g[c] = IF c < t THEN 0 ELSE c
      BY <2>2, SMT
    <3>. QED
      BY <3>1, <3>2, Zenon
  <2>3. CASE c \in {2, 3}
    <3>1. GROW_CAP(c) = 3
      BY <2>3, SMT DEF GROW_CAP
    <3>2. g[3] = last /\ g[c] = IF c < t THEN last ELSE c
      BY <2>3, SMT
    <3>. QED
      BY <3>1, <3>2, Zenon
  <2>. QED
    BY <2>1, <2>2, <2>3, SMT
<1>6. g = [c \in Nat |-> IF c < t THEN g[GROW_CAP(c)] ELSE c]
  <2>1. \A c \in Nat : g[c] = IF c < t THEN g[GROW_CAP(c)] ELSE c
    BY <1>5, Zenon
  <2>2. g = [c \in Nat |-> g[c]]
    BY Zenon
  <2>. HIDE DEF g
  <2>. QED
    BY <2>1, <2>2, Zenon
<1>. QED
  BY <1>6, Zenon DEF Grows

\* Whatever solves it yields enough room.
LEMMA GrowthReaches ==
  ASSUME NEW t \in Nat, NEW g, Grows(g, t), NEW c \in Nat, c >= 4
  PROVE  g[c] \in Nat /\ g[c] >= t
<1>. DEFINE S == {k \in 0 .. t : k >= 4 /\ ~(g[k] \in Nat /\ g[k] >= t)}
<1>1. ASSUME NEW k \in Nat
      PROVE  g[k] = IF k < t THEN g[GROW_CAP(k)] ELSE k
  BY Zenon DEF Grows
<1>. SUFFICES ASSUME ~(g[c] \in Nat /\ g[c] >= t) PROVE FALSE
  OBVIOUS
<1>2. c \in S
  BY <1>1, SMT
<1>3. Max(S) \in S /\ \A k \in S : k <= Max(S)
  BY <1>2, GreatestNatural, Zenon
<1>. DEFINE x == Max(S)
<1>. HIDE DEF x
<1>4. x \in Nat /\ x >= 4 /\ x <= t /\ ~(g[x] \in Nat /\ g[x] >= t)
  BY <1>3, SMT DEF x
<1>5. GROW_CAP(x) \in Nat /\ GROW_CAP(x) > x
  BY <1>4, GrowthIsStrict, Zenon
<1>6. x < t /\ g[x] = g[GROW_CAP(x)]
  BY <1>1, <1>4, SMT
<1>7. GROW_CAP(x) >= t
  <2>. SUFFICES ASSUME GROW_CAP(x) < t PROVE FALSE
    BY <1>5, SMT
  <2>1. GROW_CAP(x) \in S
    BY <1>4, <1>5, <1>6, SMT
  <2>. QED
    BY <1>3, <1>4, <1>5, <2>1, SMT DEF x
<1>8. g[GROW_CAP(x)] = GROW_CAP(x)
  BY <1>1, <1>5, <1>7, SMT
<1>. QED
  BY <1>4, <1>5, <1>6, <1>7, <1>8, SMT

\* da_reserve leaves room for what it was asked, or fails.
LEMMA EnoughRoom ==
  ASSUME NEW cap \in Nat, NEW t \in Nat
  PROVE  new_cap(cap, t) \in Nat /\ new_cap(cap, t) >= t
<1>. DEFINE g == CHOOSE g : g = [c \in Nat |-> IF c < t THEN g[GROW_CAP(c)] ELSE c]
            first == IF cap < MIN_CAP THEN MIN_CAP ELSE GROW_CAP(cap)
<1>1. Grows(g, t)
  BY GrowthSolved, Zenon DEF Grows
<1>2. first \in Nat /\ first >= 4
  BY GrowthIsStrict, SMT DEF MIN_CAP
<1>3. new_cap(cap, t) = g[first]
  BY Zenon DEF new_cap
<1>. HIDE DEF g, first
<1>. QED
  BY <1>1, <1>2, <1>3, GrowthReaches, Zenon

\* A run of the loop, round by round: from the capacity c it grows n times, each
\* time because it is still too small, and then it is not.
Rounds(s, n, c, t) ==
  /\ s \in [0 .. n -> Nat] /\ s[0] = c
  /\ \A k \in 0 .. n - 1 : s[k] < t /\ s[k + 1] = GROW_CAP(s[k])
  /\ s[n] >= t

\* The capacity the loop starts with, which is never one that would not grow.
FirstCap(cap) == IF cap < MIN_CAP THEN MIN_CAP ELSE GROW_CAP(cap)

\* The loop that starts with the capacity c ends, and g[c] is where it ends.
EndsAt(g, c, t) == \E n \in Nat : \E s : Rounds(s, n, c, t) /\ g[c] = s[n]

\* From a capacity less than m + 1 short of the target, one round leads to one
\* less than m short of it.
LEMMA RoundsEnd ==
  ASSUME NEW t \in Nat, NEW g, Grows(g, t), NEW c \in Nat, c >= 4
  PROVE  EndsAt(g, c, t)
<1>. DEFINE Ends(x)  == \E n \in Nat : \E s : Rounds(s, n, x, t) /\ g[x] = s[n]
            P(m)     == \A x \in Nat : x >= 4 /\ t - x <= m => Ends(x)
<1>0. \A x \in Nat : g[x] = IF x < t THEN g[GROW_CAP(x)] ELSE x
  BY Zenon DEF Grows
<1>1. ASSUME NEW x \in Nat, x >= t
      PROVE  Ends(x)
  <2>. DEFINE s == [k \in 0 .. 0 |-> x]
  <2>1. Rounds(s, 0, x, t)
    BY <1>1, SMT DEF Rounds
  <2>2. g[x] = s[0] /\ 0 \in Nat
    BY <1>0, <1>1, SMT
  <2>. QED
    BY <2>1, <2>2, Zenon
<1>2. P(0)
  <2>1. \A x \in Nat : t - x <= 0 => x >= t
    BY SMT
  <2>. QED
    BY <1>1, <2>1, Zenon
<1>3. ASSUME NEW m \in Nat, P(m), NEW x \in Nat, x >= 4, t - x <= m + 1, x < t
      PROVE  Ends(x)
  <2>. DEFINE y == GROW_CAP(x)
  <2>1. y \in Nat /\ y >= 4 /\ t - y <= m
    BY <1>3, GrowthIsStrict, SMT
  <2>2a. PICK n \in Nat : \E r : Rounds(r, n, y, t) /\ g[y] = r[n]
    BY <1>3, <2>1, Zenon
  <2>2. PICK r : Rounds(r, n, y, t) /\ g[y] = r[n]
    BY <2>2a, Zenon
  <2>. DEFINE s == [k \in 0 .. n + 1 |-> IF k = 0 THEN x ELSE r[k - 1]]
  <2>. HIDE DEF y
  <2>3. /\ r \in [0 .. n -> Nat] /\ r[0] = y
        /\ \A k \in 0 .. n - 1 : r[k] < t /\ r[k + 1] = GROW_CAP(r[k])
        /\ r[n] >= t
    BY <2>2, Zenon DEF Rounds
  <2>4. s[0] = x /\ s[1] = y /\ s[n + 1] = r[n] /\ s \in [0 .. n + 1 -> Nat]
    BY <2>3, SMT
  <2>5. ASSUME NEW k \in 1 .. n
        PROVE  s[k] < t /\ s[k + 1] = GROW_CAP(s[k])
    <3>1. k - 1 \in 0 .. n - 1 /\ (k - 1) + 1 = k /\ (k + 1) - 1 = k
          /\ k \in 0 .. n + 1 /\ k + 1 \in 0 .. n + 1 /\ k # 0 /\ k + 1 # 0
      BY SMT
    <3>2. s[k] = r[k - 1] /\ s[k + 1] = r[k]
      BY <3>1, Zenon
    <3>. QED
      BY <2>3, <3>1, <3>2, Zenon
  <2>. HIDE DEF s
  <2>6. \A k \in 0 .. (n + 1) - 1 : k = 0 \/ k \in 1 .. n
    BY SMT
  <2>7. \A k \in 0 .. (n + 1) - 1 : s[k] < t /\ s[k + 1] = GROW_CAP(s[k])
    <3>1. 0 + 1 = 1
      BY SMT
    <3>. QED
      BY <1>3, <2>4, <2>5, <2>6, <3>1, Zenon DEF y
  <2>8. Rounds(s, n + 1, x, t)
    BY <2>3, <2>4, <2>7, Zenon DEF Rounds
  <2>9. g[x] = s[n + 1]
    BY <1>0, <1>3, <2>2, <2>4, Zenon DEF y
  <2>10. n + 1 \in Nat
    BY SMT
  <2>. QED
    BY <2>8, <2>9, <2>10, Zenon
<1>4. ASSUME NEW m \in Nat, P(m)
      PROVE  P(m + 1)
  <2>1. \A x \in Nat : x < t \/ x >= t
    BY SMT
  <2>. QED
    BY <1>1, <1>3, <1>4, <2>1, Zenon
<1>. HIDE DEF P
<1>5. \A m \in Nat : P(m)
  <2>. SUFFICES ASSUME NEW n \in Nat, ~P(n) PROVE FALSE
    BY Zenon
  <2>. DEFINE S == {k \in Nat : ~P(k)}
  <2>1. PICK k \in S : \A j \in S : k <= j
    BY LeastNatural, Zenon
  <2>2. k \in Nat /\ k # 0 /\ ~P(k)
    BY <1>2, <2>1, Zenon
  <2>3. k - 1 \in Nat /\ (k - 1) + 1 = k /\ ~(k <= k - 1)
    BY <2>2, SMT
  <2>. QED
    BY <1>4, <2>1, <2>2, <2>3, Zenon
<1>6. P(t) /\ t - c <= t
  <2>1. t - c <= t
    BY SMT
  <2>. QED
    BY <1>5, <2>1, Zenon
<1>. QED
  BY <1>6, Zenon DEF P, EndsAt

\* The loop of da_reserve ends after finitely many rounds, whatever the capacity
\* and whatever was asked for; and the recursive equation that new_cap is defined
\* by gives the capacity of the last round.
THEOREM GrowthEnds ==
  ASSUME NEW cap \in Nat, NEW t \in Nat
  PROVE  \E n \in Nat : \E s : Rounds(s, n, FirstCap(cap), t) /\ new_cap(cap, t) = s[n]
<1>. DEFINE g == CHOOSE g : g = [c \in Nat |-> IF c < t THEN g[GROW_CAP(c)] ELSE c]
<1>1. Grows(g, t)
  BY GrowthSolved, Zenon DEF Grows
<1>2. FirstCap(cap) \in Nat /\ FirstCap(cap) >= 4
  BY GrowthIsStrict, SMT DEF FirstCap, MIN_CAP
<1>3. new_cap(cap, t) = g[FirstCap(cap)]
  BY Zenon DEF new_cap, FirstCap
<1>. HIDE DEF g
<1>. DEFINE first == FirstCap(cap)
<1>. HIDE DEF first
<1>4. first \in Nat /\ first >= 4
  BY <1>2, Zenon DEF first
<1>5. EndsAt(g, first, t)
  BY <1>1, <1>4, RoundsEnd, Zenon
<1>. QED
  BY <1>3, <1>5, Zenon DEF first, EndsAt

-----------------------------------------------------------------------------
(* What the functions of cstrbuf do to a string.                           *)

CstrBufs == [text : Seq(STRING), cap : Nat]

\* There is room for the text and its terminator, if there is room at all;
\* and if there is none there is no text.
Fits(b) == IF b.cap = 0 THEN b.text = << >> ELSE Len(b.text) < b.cap

\* The zero-initialised string is a string.
LEMMA ZeroFits == cstrbuf_zero \in CstrBufs /\ Fits(cstrbuf_zero)
BY SMT DEF cstrbuf_zero, CstrBufs, Fits

\* da_reserve keeps a string's room, adds enough to it, or fails.
LEMMA ReserveContract ==
  ASSUME NEW b \in CstrBufs, NEW n \in Nat,
         NEW cap \in da_reserve(b.cap, Len(b.text) + n + 1)
  PROVE  cap = 0 \/ (cap \in Nat /\ Len(b.text) + n < cap)
<1>1. b.cap \in Nat /\ Len(b.text) + n + 1 \in Nat /\ Len(b.text) \in Nat
  BY SMT DEF CstrBufs
<1>. DEFINE t == Len(b.text) + n + 1
<1>2. new_cap(b.cap, t) \in Nat /\ new_cap(b.cap, t) >= t
  BY <1>1, EnoughRoom, Zenon
<1>3. cap = 0 \/ (cap = b.cap /\ t <= b.cap) \/ cap = new_cap(b.cap, t)
  BY Zenon DEF da_reserve
<1>4. cap = 0 \/ (cap \in Nat /\ t <= cap)
  BY <1>1, <1>2, <1>3, SMT
<1>. QED
  BY <1>1, <1>4, SMT

\* cstrbuf_extend appends all of a text and leaves room for its terminator,
\* or it leaves the string as it was; it dies only on a string that has no
\* buffer yet.
LEMMA ExtendContract ==
  ASSUME NEW b \in CstrBufs, Fits(b), NEW str \in Seq(STRING),
         NEW r \in cstrbuf_extend(b, str)
  PROVE  /\ r.result \in {"true", "false", "crash"}
         /\ r.buf \in CstrBufs /\ Fits(r.buf)
         /\ r.result = "true" => r.buf.cap > 0 /\ r.buf.text = b.text \o str
         /\ r.result # "true" => r.buf = b
         /\ r.result = "crash" => b = cstrbuf_zero
<1>1. /\ b.text \in Seq(STRING) /\ b.cap \in Nat /\ Len(b.text) \in Nat /\ Len(str) \in Nat
      /\ b = [text |-> b.text, cap |-> b.cap]
  BY SMT DEF CstrBufs
<1>2. PICK cap \in da_reserve(b.cap, Len(b.text) + Len(str) + 1) :
        r = IF cap = 0 THEN Failure(b) ELSE Outcome("true", cap, b.text \o str)
  BY Zenon DEF cstrbuf_extend
<1>3. cap = 0 \/ (cap \in Nat /\ Len(b.text) + Len(str) < cap)
  BY <1>1, ReserveContract
<1>4. CASE cap = 0
  <2>1. r = [result |-> IF b.cap = 0 THEN "crash" ELSE "false", buf |-> b]
    BY <1>1, <1>2, <1>4, Zenon DEF Failure, Outcome
  <2>2. b.cap = 0 => b = cstrbuf_zero
    BY <1>1, Zenon DEF Fits, cstrbuf_zero
  <2>. QED
    BY <2>1, <2>2
<1>5. CASE cap # 0
  <2>. DEFINE text == b.text \o str
  <2>1. r = [result |-> "true", buf |-> [text |-> text, cap |-> cap]]
    BY <1>2, <1>5, Zenon DEF Outcome
  <2>2. text \in Seq(STRING) /\ Len(text) = Len(b.text) + Len(str)
    BY <1>1, SMT
  <2>. HIDE DEF text
  <2>3. cap \in Nat /\ cap > 0 /\ Len(text) < cap
    BY <1>1, <1>3, <1>5, <2>2, SMT
  <2>4. r.buf \in CstrBufs /\ r.buf.text = text /\ r.buf.cap = cap /\ r.result = "true"
    BY <2>1, <2>2, <2>3 DEF CstrBufs
  <2>5. Fits(r.buf)
    BY <2>3, <2>4, SMT DEF Fits
  <2>. QED
    BY <2>3, <2>4, <2>5, Zenon DEF text
<1>. QED
  BY <1>4, <1>5

\* cstrbuf_snprintf, in the room it is given for n bytes, is true to a text
\* shorter than that, and only to that.
LEMMA PrintContract ==
  ASSUME NEW b \in CstrBufs, Fits(b), NEW n \in Nat \ {0}, NEW str \in Seq(STRING),
         NEW r \in cstrbuf_snprintf(b, n, str)
  PROVE  /\ r.result # "undefined" => r.buf \in CstrBufs /\ Fits(r.buf)
         /\ r.result = "true" /\ Len(str) < n => r.buf.text = b.text \o str
         /\ r.result = "undefined" => Len(str) > n
         /\ r.result = "crash" => b = cstrbuf_zero
<1>1. /\ b.text \in Seq(STRING) /\ b.cap \in Nat /\ Len(b.text) \in Nat /\ Len(str) \in Nat
      /\ b = [text |-> b.text, cap |-> b.cap]
  BY SMT DEF CstrBufs
<1>2. PICK cap \in da_reserve(b.cap, Len(b.text) + n + 1) :
        r = IF cap = 0 THEN Failure(b) ELSE Printed(b, n, str, cap)
  BY Zenon DEF cstrbuf_snprintf
<1>3. cap = 0 \/ (cap \in Nat /\ Len(b.text) + n < cap)
  BY <1>1, ReserveContract
<1>4. CASE cap = 0
  <2>1. r = [result |-> IF b.cap = 0 THEN "crash" ELSE "false", buf |-> b]
    BY <1>1, <1>2, <1>4, Zenon DEF Failure, Outcome
  <2>2. b.cap = 0 => b = cstrbuf_zero
    BY <1>1, Zenon DEF Fits, cstrbuf_zero
  <2>. QED
    BY <2>1, <2>2
<1>5. CASE cap # 0 /\ Len(str) <= n
  <2>. DEFINE out  == IF Len(str) < n THEN str ELSE [str EXCEPT ![n] = NUL]
              text == b.text \o out
  <2>1. r = [result |-> "true", buf |-> [text |-> text, cap |-> cap]]
    <3>1. Printed(b, n, str, cap) = Outcome("true", cap, text)
      <4>1. CASE Len(str) < n
        <5>1. Printed(b, n, str, cap) = Outcome("true", cap, b.text \o str)
          BY <1>1, <4>1, SMT DEF Printed
        <5>. QED
          BY <4>1, <5>1, Zenon
      <4>2. CASE ~(Len(str) < n)
        <5>1. Len(str) = n
          BY <1>1, <1>5, <4>2, SMT
        <5>2. Printed(b, n, str, cap) = Outcome("true", cap, b.text \o [str EXCEPT ![n] = NUL])
          BY <4>2, <5>1, SMT DEF Printed
        <5>. QED
          BY <4>2, <5>2, Zenon
      <4>. QED
        BY <4>1, <4>2, Zenon
    <3>. QED
      BY <1>2, <1>5, <3>1, Zenon DEF Outcome
  <2>2. out \in Seq(STRING) /\ Len(out) = Len(str)
    <3>1. NUL \in STRING
      BY ByteAssumption, Zenon DEF ByteAssumption
    <3>2. Len(str) < n \/ n \in 1 .. Len(str)
      BY <1>1, <1>5, SMT
    <3>. DEFINE cut == [str EXCEPT ![n] = NUL]
    <3>3. n \in 1 .. Len(str) => cut \in Seq(STRING) /\ Len(cut) = Len(str)
      BY <3>1, ExceptSeq
    <3>. HIDE DEF cut
    <3>4. out = str \/ (n \in 1 .. Len(str) /\ out = cut)
      BY <3>2, Zenon DEF cut
    <3>. QED
      BY <3>3, <3>4, Zenon
  <2>3. Len(str) < n => out = str
    BY Zenon
  <2>. HIDE DEF out
  <2>4. text \in Seq(STRING) /\ Len(text) = Len(b.text) + Len(str)
    <3>1. b.text \in Seq(STRING) /\ out \in Seq(STRING)
      BY <1>1, <2>2, Zenon
    <3>2. text \in Seq(STRING) /\ Len(text) = Len(b.text) + Len(out)
      BY <3>1, SMT
    <3>. QED
      BY <2>2, <3>2, Zenon
  <2>. HIDE DEF text
  <2>5. cap \in Nat /\ cap > 0 /\ Len(text) < cap
    BY <1>1, <1>3, <1>5, <2>4, SMT
  <2>6. r.buf \in CstrBufs /\ r.buf.text = text /\ r.buf.cap = cap /\ r.result = "true"
    BY <2>1, <2>4, <2>5 DEF CstrBufs
  <2>7. Fits(r.buf)
    BY <2>5, <2>6, SMT DEF Fits
  <2>. QED
    BY <2>3, <2>6, <2>7, Zenon DEF text
<1>6. CASE cap # 0 /\ Len(str) > n
  BY <1>1, <1>2, <1>6, SMT DEF Printed, Outcome
<1>. QED
  BY <1>1, <1>4, <1>5, <1>6, SMT
=============================================================================
