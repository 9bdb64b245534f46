-------------------------- MODULE FnmarParserProofs --------------------------
(***************************************************************************)
(* Safety of the configuration-file parser for files of every length and   *)
(* content.  Each lexer has a contract (what it returns for an unread      *)
(* suffix of the file); the inductive invariant and the properties of a    *)
(* step follow from the contract of the lexer that the step calls.  The    *)
(* last part relates what the parser has still to read to what is left of  *)
(* the grammar's rules: it accepts what the grammar does, and nothing else.*)
(***************************************************************************)
EXTENDS FnmarParserGrammar, KrsStrProofs

-----------------------------------------------------------------------------
(* The grammar: what its rules are from each position of a text.           *)

\* The text positions, and the position that ends them.
Places(text) == 1 .. Len(text) + 1

\* No byte of C from p up to k.
Free(text, p, k, C) == \A i \in p .. k - 1 : text[i] \notin C
AllBlank(text, p, k) == \A i \in p .. k - 1 : text[i] \in Blanks

LEMMA FirstOfFound ==
  ASSUME NEW text \in Seq(STRING), NEW p \in Places(text), NEW C
  PROVE  /\ FirstOf(text, p, C) \in p .. Len(text) + 1
         /\ FirstOf(text, p, C) \in Places(text)
         /\ Free(text, p, FirstOf(text, p, C), C)
         /\ FirstOf(text, p, C) <= Len(text) => text[FirstOf(text, p, C)] \in C
<1>. DEFINE n == Len(text)
            S == {i \in p .. n : text[i] \in C} \cup {n + 1}
<1>1. n \in Nat /\ p \in 1 .. n + 1
  BY SMT DEF Places
<1>. HIDE DEF n
<1>2. S \in SUBSET Nat /\ n + 1 \in S /\ \A i \in S : i \in p .. n + 1
  BY <1>1, SMT
<1>3. PICK k \in S : \A j \in S : k <= j
  BY <1>2, LeastNatural
<1>4. Min(S) \in S /\ \A j \in S : Min(S) <= j
  BY <1>3, Zenon DEF Min
<1>5. FirstOf(text, p, C) = Min(S)
  BY Zenon DEF FirstOf, n
<1>. DEFINE m == Min(S)
<1>. HIDE DEF m
<1>6. m \in S /\ (\A j \in S : m <= j) /\ m \in p .. n + 1
  BY <1>2, <1>4, Zenon DEF m
<1>7. ASSUME NEW i \in p .. m - 1, text[i] \in C PROVE FALSE
  <2>1. i \in p .. n /\ ~(m <= i)
    BY <1>1, <1>6, SMT
  <2>. QED
    BY <1>6, <1>7, <2>1, Zenon
<1>8. m <= n => text[m] \in C
  BY <1>1, <1>6, SMT
<1>9. m \in Places(text)
  BY <1>1, <1>6, SMT DEF Places, n
<1>. QED
  BY <1>5, <1>6, <1>7, <1>8, <1>9, Zenon DEF Free, n, m

\* There is only one such position.
LEMMA FirstOfIs ==
  ASSUME NEW text \in Seq(STRING), NEW p \in Places(text), NEW C,
         NEW k \in p .. Len(text) + 1, Free(text, p, k, C),
         k <= Len(text) => text[k] \in C
  PROVE  FirstOf(text, p, C) = k
<1>. DEFINE m == FirstOf(text, p, C)
<1>1. /\ m \in p .. Len(text) + 1 /\ Free(text, p, m, C)
      /\ m <= Len(text) => text[m] \in C
  BY FirstOfFound
<1>. HIDE DEF m
<1>2. p \in Nat /\ Len(text) \in Nat
  BY SMT DEF Places
<1>3. ~(m < k)
  <2>1. SUFFICES ASSUME m < k PROVE FALSE
    OBVIOUS
  <2>2. m \in p .. k - 1 /\ m <= Len(text)
    BY <1>1, <1>2, <2>1, SMT
  <2>. QED
    BY <1>1, <2>2, Zenon DEF Free
<1>4. ~(k < m)
  <2>1. SUFFICES ASSUME k < m PROVE FALSE
    OBVIOUS
  <2>2. k \in p .. m - 1 /\ k <= Len(text)
    BY <1>1, <1>2, <2>1, SMT
  <2>. QED
    BY <1>1, <2>2, Zenon DEF Free
<1>. QED
  BY <1>1, <1>2, <1>3, <1>4, SMT DEF m

\* Nor does it change with bytes that are passed over.
LEMMA FirstOfSkip ==
  ASSUME NEW text \in Seq(STRING), NEW p \in Places(text), NEW C,
         NEW k \in p .. Len(text) + 1, Free(text, p, k, C)
  PROVE  /\ FirstOf(text, p, C) = FirstOf(text, k, C)
         /\ k \in Places(text) /\ FirstOf(text, k, C) \in k .. Len(text) + 1
<1>. DEFINE m == FirstOf(text, k, C)
<1>1. p \in Nat /\ Len(text) \in Nat /\ k \in Places(text) /\ p \in 1 .. Len(text) + 1
  BY SMT DEF Places
<1>2. /\ m \in k .. Len(text) + 1 /\ Free(text, k, m, C)
      /\ m <= Len(text) => text[m] \in C
  BY <1>1, FirstOfFound
<1>. HIDE DEF m
<1>3. m \in p .. Len(text) + 1
  BY <1>1, <1>2, SMT
<1>4. Free(text, p, m, C)
  <2>1. \A i \in p .. m - 1 : i \in p .. k - 1 \/ i \in k .. m - 1
    BY <1>1, <1>2, SMT
  <2>. QED
    BY <1>2, <2>1, Zenon DEF Free
<1>5. FirstOf(text, p, C) = m
  BY <1>2, <1>3, <1>4, FirstOfIs
<1>. QED
  BY <1>1, <1>2, <1>5 DEF m

LEMMA BlankOrNot ==
  ASSUME NEW text \in Seq(STRING), NEW i \in 1 .. Len(text)
  PROVE  text[i] \in Nonblank <=> text[i] \notin Blanks
<1>1. text[i] \in STRING
  BY SMT
<1>. QED
  BY <1>1, Zenon DEF Nonblank

\* A part of a text is a text, and is empty only if nothing is in it.
LEMMA PartIsText ==
  ASSUME NEW text \in Seq(STRING), NEW i \in 1 .. Len(text), NEW j \in i .. Len(text)
  PROVE  SubSeq(text, i, j) \in Seq(STRING) /\ SubSeq(text, i, j) # << >>
<1>1. Len(text) \in Nat /\ \A k \in 1 .. Len(text) : text[k] \in STRING
  BY SMT
<1>2. \A k \in i .. j : text[k] \in STRING
  BY <1>1, SMT
<1>3. /\ SubSeq(text, i, j) \in Seq(STRING)
      /\ Len(SubSeq(text, i, j)) = IF i <= j THEN j - i + 1 ELSE 0
  BY <1>1, <1>2, SMT
<1>4. Len(SubSeq(text, i, j)) # 0
  BY <1>1, <1>3, SMT
<1>5. Len(<< >>) = 0
  BY SMT
<1>. QED
  BY <1>3, <1>4, <1>5, Zenon

\* What is left between two positions without the blanks.
LEMMA StripIs ==
  ASSUME NEW text \in Seq(STRING), NEW p \in Nat \ {0}, NEW q \in 0 .. Len(text),
         NEW i \in p .. q, NEW j \in i .. q,
         text[i] \notin Blanks, text[j] \notin Blanks,
         AllBlank(text, p, i), AllBlank(text, j + 1, q + 1)
  PROVE  /\ Strip(text, p, q) = SubSeq(text, i, j)
         /\ Strip(text, p, q) # << >> /\ Strip(text, p, q) \in Seq(STRING)
<1>. DEFINE S == {k \in p .. q : text[k] \in Nonblank}
<1>1. Len(text) \in Nat /\ i \in 1 .. Len(text) /\ j \in i .. Len(text) /\ j \in p .. q
  BY SMT
<1>2. \A k \in p .. q : k \in 1 .. Len(text)
  BY <1>1, SMT
<1>3. i \in S /\ j \in S
  BY <1>1, <1>2, BlankOrNot, Zenon
<1>4. ASSUME NEW k \in S PROVE i <= k /\ j >= k
  <2>1. text[k] \notin Blanks /\ k \in p .. q
    BY <1>2, BlankOrNot, Zenon
  <2>2. k \notin p .. i - 1 /\ k \notin j + 1 .. (q + 1) - 1
    BY <2>1, Zenon DEF AllBlank
  <2>. QED
    BY <1>1, <2>1, <2>2, SMT
<1>5. \A k \in S : k \in Int
  BY SMT
<1>. HIDE DEF S
<1>6. Min(S) = i
  <2>1. Min(S) \in S /\ \A k \in S : Min(S) <= k
    BY <1>3, <1>4, Zenon DEF Min
  <2>. DEFINE m == Min(S)
  <2>. HIDE DEF m
  <2>2. m \in Int /\ m <= i /\ i <= m /\ i \in Int
    BY <1>3, <1>4, <1>5, <2>1, Zenon DEF m
  <2>3. m = i
    BY <2>2, SMT
  <2>. QED
    BY <2>3 DEF m
<1>7. Max(S) = j
  <2>1. Max(S) \in S /\ \A k \in S : Max(S) >= k
    BY <1>3, <1>4, Zenon DEF Max
  <2>. DEFINE m == Max(S)
  <2>. HIDE DEF m
  <2>2. m \in Int /\ m >= j /\ j >= m /\ j \in Int
    BY <1>3, <1>4, <1>5, <2>1, Zenon DEF m
  <2>3. m = j
    BY <2>2, SMT
  <2>. QED
    BY <2>3 DEF m
<1>8. Strip(text, p, q) = SubSeq(text, i, j)
  BY <1>3, <1>6, <1>7, Zenon DEF Strip, S
<1>. QED
  BY <1>1, <1>8, PartIsText, Zenon

LEMMA StripBlank ==
  ASSUME NEW text \in Seq(STRING), NEW p \in Nat \ {0}, NEW q \in 0 .. Len(text),
         AllBlank(text, p, q + 1)
  PROVE  Strip(text, p, q) = << >>
<1>1. \A k \in p .. q : k \in 1 .. Len(text) /\ k \in p .. (q + 1) - 1
  BY SMT
<1>2. {k \in p .. q : text[k] \in Nonblank} = {}
  BY <1>1, BlankOrNot, Zenon DEF AllBlank
<1>. QED
  BY <1>2, Zenon DEF Strip

LEMMA StripIsText ==
  ASSUME NEW text \in Seq(STRING), NEW p \in Nat \ {0}, NEW q \in 0 .. Len(text)
  PROVE  Strip(text, p, q) \in Seq(STRING)
<1>. DEFINE S == {k \in p .. q : text[k] \in Nonblank}
<1>1. CASE S = {}
  BY <1>1, SMT DEF Strip
<1>2. CASE S # {}
  <2>1. \A k \in p .. q : k \in 0 .. q /\ k \in Nat
    BY SMT
  <2>2. S \in SUBSET (0 .. q) /\ S \in SUBSET Nat /\ q \in Nat
    BY <2>1, SMT
  <2>3. Max(S) \in S /\ \A k \in S : k <= Max(S)
    BY <1>2, <2>2, GreatestNatural
  <2>4. PICK m \in S : \A k \in S : m <= k
    BY <1>2, <2>2, LeastNatural
  <2>5. Min(S) \in S
    BY <2>4, Zenon DEF Min
  <2>6. Min(S) \in p .. q /\ Max(S) \in p .. q /\ Min(S) <= Max(S)
    BY <2>3, <2>5, Zenon
  <2>. DEFINE a == Min(S)
              b == Max(S)
  <2>. HIDE DEF a, b
  <2>7. a \in 1 .. Len(text) /\ b \in a .. Len(text)
    BY <2>6, SMT DEF a, b
  <2>8. SubSeq(text, a, b) \in Seq(STRING)
    BY <2>7, PartIsText
  <2>. QED
    BY <1>2, <2>8, Zenon DEF Strip, a, b
<1>. QED
  BY <1>1, <1>2, Zenon

Spanned(text, p, q, x) ==
  \E i \in p .. q : \E j \in i .. q : Spans(text, p, q, i, j) /\ x = SubSeq(text, i, j)

LEMMA PatternIs ==
  ASSUME NEW text, NEW p, NEW q, NEW x
  PROVE  x \in Patterns(text, p, q) <=> Spanned(text, p, q, x)
<1>. DEFINE Part(i) == {SubSeq(text, i, j) : j \in {j \in i .. q : Spans(text, p, q, i, j)}}
<1>1. \A i : x \in Part(i) <=> \E j \in i .. q : Spans(text, p, q, i, j) /\ x = SubSeq(text, i, j)
  BY Zenon
<1>2. Patterns(text, p, q) = UNION {Part(i) : i \in p .. q}
  BY Zenon DEF Patterns
<1>. HIDE DEF Part
<1>3. x \in UNION {Part(i) : i \in p .. q} <=> \E i \in p .. q : x \in Part(i)
  BY Zenon
<1>. QED
  BY <1>1, <1>2, <1>3, Zenon DEF Spanned

LEMMA PatternsAreTexts ==
  ASSUME NEW text \in Seq(STRING), NEW p \in Nat \ {0}, NEW q \in 0 .. Len(text)
  PROVE  Patterns(text, p, q) \in SUBSET Seq(STRING)
<1>1. ASSUME NEW i \in p .. q, NEW j \in i .. q, Spans(text, p, q, i, j)
      PROVE  SubSeq(text, i, j) \in Seq(STRING)
  <2>1. i \in 1 .. Len(text) /\ j \in i .. Len(text)
    BY SMT
  <2>. QED
    BY <2>1, PartIsText
<1>2. ASSUME NEW x \in Patterns(text, p, q)
      PROVE  x \in Seq(STRING)
  <2>1. Spanned(text, p, q, x)
    BY PatternIs, Zenon
  <2>. QED
    BY <1>1, <2>1, Zenon DEF Spanned
<1>. QED
  BY <1>2, Zenon

-----------------------------------------------------------------------------
(* The equation that Rules is defined by, and that it has a solution.      *)

Rule == [pats : SUBSET Seq(STRING), cmd : Seq(STRING)]

RulesAt(text, rules, p) ==
  LET start == FirstOf(text, p, Nonblank)
      colon == FirstOf(text, start, {":"})
      stop  == FirstOf(text, colon + 1, Stops)
      cmd   == Strip(text, colon + 1, stop - 1)
  IN  IF start > Len(text) THEN << >>
      ELSE IF text[start] = "#" THEN rules[FirstOf(text, start, Stops)]
      ELSE IF \/ colon > Len(text)
              \/ text[start] \in {";", ":"}
              \/ \E i \in start .. colon : text[i] = "NUL"
              \/ cmd = << >>
           THEN << Malformed >>
           ELSE << [pats |-> Patterns(text, start, colon - 1), cmd |-> cmd] >>
                  \o rules[stop]

Yields(text) == CHOOSE rules : rules = [p \in Places(text) |-> RulesAt(text, rules, p)]
RulesFrom(text, p) == Yields(text)[p]

\* Where a rule starts, and where it leads: further on in the text.
LEMMA RulePlaces ==
  ASSUME NEW text \in Seq(STRING), NEW p \in Places(text)
  PROVE  LET start == FirstOf(text, p, Nonblank)
             colon == FirstOf(text, start, {":"})
             stop  == FirstOf(text, colon + 1, Stops)
         IN  /\ start \in p .. Len(text) + 1 /\ start \in Places(text)
             /\ colon \in start .. Len(text) + 1 /\ colon \in Places(text)
             /\ start <= Len(text) /\ text[start] = "#" =>
                  FirstOf(text, start, Stops) \in p + 1 .. Len(text) + 1
             /\ colon <= Len(text) =>
                  /\ colon + 1 \in Places(text) /\ stop \in Places(text)
                  /\ stop \in colon + 1 .. Len(text) + 1
                  /\ stop \in p + 1 .. Len(text) + 1
<1>. DEFINE start == FirstOf(text, p, Nonblank)
            colon == FirstOf(text, start, {":"})
            stop  == FirstOf(text, colon + 1, Stops)
            eol   == FirstOf(text, start, Stops)
<1>1. Len(text) \in Nat /\ p \in 1 .. Len(text) + 1
  BY SMT DEF Places
<1>2. start \in p .. Len(text) + 1 /\ start \in Places(text)
  BY FirstOfFound
<1>. HIDE DEF start
<1>3. colon \in start .. Len(text) + 1 /\ colon \in Places(text)
  BY <1>2, FirstOfFound
<1>. HIDE DEF colon
<1>4. ASSUME start <= Len(text), text[start] = "#"
      PROVE  eol \in p + 1 .. Len(text) + 1
  <2>1. eol \in start .. Len(text) + 1 /\ (eol <= Len(text) => text[eol] \in Stops)
    BY <1>2, FirstOfFound
  <2>. HIDE DEF eol
  <2>2. "#" \notin Stops
    BY DEF Stops
  <2>3. eol # start
    BY <1>4, <2>1, <2>2, Zenon
  <2>. QED
    BY <1>1, <1>2, <2>1, <2>3, SMT
<1>5. ASSUME colon <= Len(text)
      PROVE  /\ colon + 1 \in Places(text) /\ stop \in Places(text)
             /\ stop \in colon + 1 .. Len(text) + 1
             /\ stop \in p + 1 .. Len(text) + 1
  <2>1. colon + 1 \in Places(text) /\ colon + 1 >= p + 1 /\ colon \in Nat
    BY <1>1, <1>2, <1>3, <1>5, SMT DEF Places
  <2>2. stop \in colon + 1 .. Len(text) + 1 /\ stop \in Places(text)
    BY <2>1, FirstOfFound
  <2>. HIDE DEF stop
  <2>. QED
    BY <1>1, <2>1, <2>2, SMT
<1>. QED
  BY <1>2, <1>3, <1>4, <1>5, Zenon DEF start, colon

\* The rules from a position depend on the rules from later ones only.
LEMMA RulesAtDepends ==
  ASSUME NEW text \in Seq(STRING), NEW p \in Places(text), NEW f, NEW g,
         \A q \in p + 1 .. Len(text) + 1 : f[q] = g[q] /\ g[q] \in Seq(Rule)
  PROVE  RulesAt(text, f, p) = RulesAt(text, g, p) /\ RulesAt(text, g, p) \in Seq(Rule)
<1>. DEFINE start == FirstOf(text, p, Nonblank)
            colon == FirstOf(text, start, {":"})
            stop  == FirstOf(text, colon + 1, Stops)
            eol   == FirstOf(text, start, Stops)
            cmd   == Strip(text, colon + 1, stop - 1)
            rule  == [pats |-> Patterns(text, start, colon - 1), cmd |-> cmd]
            bad   == \/ colon > Len(text)
                     \/ text[start] \in {";", ":"}
                     \/ \E i \in start .. colon : text[i] = "NUL"
                     \/ cmd = << >>
            Body(h) == IF start > Len(text) THEN << >>
                       ELSE IF text[start] = "#" THEN h[eol]
                       ELSE IF bad THEN << Malformed >>
                       ELSE << rule >> \o h[stop]
<1>1. /\ start \in p .. Len(text) + 1 /\ start \in Places(text)
      /\ colon \in start .. Len(text) + 1 /\ colon \in Places(text)
      /\ start <= Len(text) /\ text[start] = "#" => eol \in p + 1 .. Len(text) + 1
      /\ colon <= Len(text) =>
           /\ colon + 1 \in Places(text) /\ stop \in Places(text)
           /\ stop \in colon + 1 .. Len(text) + 1
           /\ stop \in p + 1 .. Len(text) + 1
  BY RulePlaces
<1>2. \A h : RulesAt(text, h, p) = Body(h)
  BY Zenon DEF RulesAt
<1>3. ASSUME ~bad
      PROVE  rule \in Rule /\ stop \in p + 1 .. Len(text) + 1
  <2>0. ~(colon > Len(text))
    BY <1>3, Zenon
  <2>. HIDE DEF start, colon, stop
  <2>1. Len(text) \in Nat /\ p \in 1 .. Len(text) + 1 /\ colon <= Len(text)
    BY <1>1, <2>0, SMT DEF Places
  <2>2. /\ start \in Nat \ {0} /\ colon - 1 \in 0 .. Len(text)
        /\ colon + 1 \in Nat \ {0} /\ stop - 1 \in 0 .. Len(text)
    BY <1>1, <2>1, SMT
  <2>3. cmd \in Seq(STRING) /\ Patterns(text, start, colon - 1) \in SUBSET Seq(STRING)
    BY <2>2, StripIsText, PatternsAreTexts
  <2>. QED
    BY <1>1, <2>1, <2>3, Zenon DEF Rule
<1>4. << >> \in Seq(Rule) /\ << Malformed >> \in Seq(Rule)
  <2>1. << >> \in Seq(STRING) /\ {} \in SUBSET Seq(STRING) /\ << >> \in Seq(Rule)
    BY SMT
  <2>2. Malformed \in Rule
    BY <2>1, Zenon DEF Malformed, Rule
  <2>. QED
    BY <2>1, <2>2, OneElement, Zenon
<1>5. start > Len(text) \/ start <= Len(text)
  BY <1>1, SMT DEF Places
<1>. HIDE DEF start, colon, stop, eol, cmd, rule, bad
<1>6. Body(f) = Body(g)
  BY <1>1, <1>3, <1>5, Zenon
<1>7. Body(g) \in Seq(Rule)
  <2>1. ASSUME ~bad
        PROVE  << rule >> \o g[stop] \in Seq(Rule)
    <3>1. << rule >> \in Seq(Rule) /\ g[stop] \in Seq(Rule)
      BY <1>3, <2>1, OneElement, Zenon
    <3>. QED
      BY <3>1, ConcatProperties, Zenon
  <2>. QED
    BY <1>1, <1>4, <1>5, <2>1, Zenon
<1>. QED
  BY <1>2, <1>6, <1>7, Zenon

\* From the end of the text backwards, the equation can be solved.
Solves(text, rules, p) ==
  \A q \in p .. Len(text) + 1 : rules[q] = RulesAt(text, rules, q) /\ rules[q] \in Seq(Rule)

LEMMA RulesExist ==
  ASSUME NEW text \in Seq(STRING)
  PROVE  \E rules : Solves(text, rules, 1)
<1>. DEFINE n == Len(text)
            S == {k \in Nat : k <= n => \E rules : Solves(text, rules, n + 1 - k)}
<1>0. n \in Nat
  BY SMT
<1>. HIDE DEF n
<1>a. \A f, p : Solves(text, f, p) <=>
        \A q \in p .. n + 1 : f[q] = RulesAt(text, f, q) /\ f[q] \in Seq(Rule)
  BY Zenon DEF Solves, n
<1>b. \A p \in 1 .. n + 1 : \A f, g :
        (\A q \in p + 1 .. n + 1 : f[q] = g[q] /\ g[q] \in Seq(Rule)) =>
        RulesAt(text, f, p) = RulesAt(text, g, p) /\ RulesAt(text, g, p) \in Seq(Rule)
  BY RulesAtDepends, Zenon DEF Places, n
\* One more position.
<1>1. ASSUME NEW p \in 1 .. n + 1, NEW f,
             \A q \in p + 1 .. n + 1 : f[q] = RulesAt(text, f, q) /\ f[q] \in Seq(Rule)
      PROVE  \E g : Solves(text, g, p)
  <2>. DEFINE g == [q \in p .. n + 1 |-> IF q = p THEN RulesAt(text, f, p) ELSE f[q]]
  <2>1. /\ p \in p .. n + 1
        /\ \A q \in p + 1 .. n + 1 : q \in p .. n + 1 /\ q # p /\ q \in 1 .. n + 1
        /\ \A q \in p .. n + 1 : q = p \/ q \in p + 1 .. n + 1
        /\ \A q \in p .. n + 1 : \A r \in q + 1 .. n + 1 : r \in p + 1 .. n + 1
    BY <1>0, SMT
  <2>2. g[p] = RulesAt(text, f, p) /\ \A q \in p + 1 .. n + 1 : g[q] = f[q]
    BY <2>1, Zenon
  <2>. HIDE DEF g
  <2>3. ASSUME NEW q \in p .. n + 1, q \in 1 .. n + 1
        PROVE  RulesAt(text, g, q) = RulesAt(text, f, q) /\ RulesAt(text, f, q) \in Seq(Rule)
    <3>1. \A r \in q + 1 .. n + 1 : g[r] = f[r] /\ f[r] \in Seq(Rule)
      BY <1>1, <2>1, <2>2, Zenon
    <3>. QED
      BY <1>b, <2>3, <3>1, Zenon
  <2>4. \A q \in p .. n + 1 : g[q] = RulesAt(text, g, q) /\ g[q] \in Seq(Rule)
    BY <1>1, <2>1, <2>2, <2>3, Zenon
  <2>. QED
    BY <1>a, <2>4, Zenon
<1>2. 0 \in S
  <2>. DEFINE f == << >>
  <2>1. n + 1 \in 1 .. n + 1 /\ (n + 1) + 1 .. n + 1 = {} /\ n + 1 - 0 = n + 1
    BY <1>0, SMT
  <2>2. \E g : Solves(text, g, n + 1)
    BY <1>1, <2>1, Zenon
  <2>. QED
    BY <2>1, <2>2, Zenon
<1>3. ASSUME NEW k \in Nat, k \in S
      PROVE  k + 1 \in S
  <2>1. SUFFICES ASSUME k + 1 <= n
                 PROVE  \E g : Solves(text, g, n + 1 - (k + 1))
    BY SMT
  <2>2. /\ k <= n /\ n + 1 - (k + 1) \in 1 .. n + 1
        /\ (n + 1 - (k + 1)) + 1 = n + 1 - k
    BY <1>0, <2>1, SMT
  <2>3. PICK f : Solves(text, f, n + 1 - k)
    BY <1>3, <2>2, Zenon
  <2>4. \A q \in (n + 1 - (k + 1)) + 1 .. n + 1 : f[q] = RulesAt(text, f, q) /\ f[q] \in Seq(Rule)
    BY <1>a, <2>2, <2>3, Zenon
  <2>. QED
    BY <1>1, <2>2, <2>4, Zenon
<1>4. n \in S
  BY <1>0, <1>2, <1>3, EveryNatural, Zenon
<1>5. n <= n /\ n + 1 - n = 1
  BY <1>0, SMT
<1>. QED
  BY <1>4, <1>5, Zenon

LEMMA RulesEquation ==
  ASSUME NEW text \in Seq(STRING)
  PROVE  /\ Rules(text) = RulesFrom(text, 1)
         /\ \A p \in Places(text) :
              /\ RulesFrom(text, p) = RulesAt(text, Yields(text), p)
              /\ RulesFrom(text, p) \in Seq(Rule)
<1>1. PICK f : Solves(text, f, 1)
  BY RulesExist
<1>. DEFINE h == [p \in Places(text) |-> f[p]]
<1>2. \A p \in Places(text) : f[p] = RulesAt(text, f, p) /\ f[p] \in Seq(Rule)
  BY <1>1, Zenon DEF Solves, Places
<1>3. \A p \in Places(text) : \A q \in p + 1 .. Len(text) + 1 : q \in Places(text)
  BY SMT DEF Places
<1>4. ASSUME NEW p \in Places(text)
      PROVE  h[p] = RulesAt(text, h, p)
  <2>1. \A q \in p + 1 .. Len(text) + 1 : h[q] = f[q] /\ f[q] \in Seq(Rule)
    BY <1>2, <1>3, Zenon
  <2>2. RulesAt(text, h, p) = RulesAt(text, f, p)
    BY <2>1, RulesAtDepends
  <2>. QED
    BY <1>2, <2>2, Zenon
<1>5. h = [p \in Places(text) |-> h[p]]
  BY Zenon
<1>. HIDE DEF h
<1>6. h = [p \in Places(text) |-> RulesAt(text, h, p)]
  BY <1>4, <1>5, Zenon
<1>7. Yields(text) = [p \in Places(text) |-> RulesAt(text, Yields(text), p)]
  BY <1>6, Zenon DEF Yields
<1>8. \A p \in Places(text) : RulesFrom(text, p) = RulesAt(text, Yields(text), p)
  BY <1>7, Zenon DEF RulesFrom
<1>9. \A p \in Places(text) : RulesFrom(text, p) \in Seq(Rule)
  <2>. DEFINE n == Len(text)
              S == {k \in Nat : k <= n => \A q \in n + 1 - k .. n + 1 : RulesFrom(text, q) \in Seq(Rule)}
  <2>0. n \in Nat /\ Places(text) = 1 .. n + 1
    BY SMT DEF Places
  <2>. HIDE DEF n
  <2>1. ASSUME NEW p \in 1 .. n + 1,
               \A q \in p + 1 .. n + 1 : RulesFrom(text, q) \in Seq(Rule)
        PROVE  RulesFrom(text, p) \in Seq(Rule)
    <3>1. \A q \in p + 1 .. n + 1 : Yields(text)[q] = Yields(text)[q] /\ Yields(text)[q] \in Seq(Rule)
      BY <2>1, Zenon DEF RulesFrom
    <3>2. RulesAt(text, Yields(text), p) \in Seq(Rule)
      BY <2>0, <3>1, RulesAtDepends, Zenon DEF n
    <3>. QED
      BY <1>8, <2>0, <3>2, Zenon
  <2>2. 0 \in S
    <3>1. /\ n + 1 \in 1 .. n + 1 /\ (n + 1) + 1 .. n + 1 = {}
          /\ \A q \in n + 1 - 0 .. n + 1 : q = n + 1
      BY <2>0, SMT
    <3>2. RulesFrom(text, n + 1) \in Seq(Rule)
      BY <2>1, <3>1, Zenon
    <3>. QED
      BY <3>1, <3>2, Zenon
  <2>3. ASSUME NEW k \in Nat, k \in S
        PROVE  k + 1 \in S
    <3>1. SUFFICES ASSUME k + 1 <= n
                   PROVE  \A q \in n + 1 - (k + 1) .. n + 1 : RulesFrom(text, q) \in Seq(Rule)
      BY SMT
    <3>2. /\ k <= n /\ n + 1 - (k + 1) \in 1 .. n + 1
          /\ (n + 1 - (k + 1)) + 1 = n + 1 - k
          /\ \A q \in n + 1 - (k + 1) .. n + 1 : q = n + 1 - (k + 1) \/ q \in n + 1 - k .. n + 1
      BY <2>0, <3>1, SMT
    <3>3. \A q \in n + 1 - k .. n + 1 : RulesFrom(text, q) \in Seq(Rule)
      BY <2>3, <3>2, Zenon
    <3>4. RulesFrom(text, n + 1 - (k + 1)) \in Seq(Rule)
      BY <2>1, <3>2, <3>3, Zenon
    <3>. QED
      BY <3>2, <3>3, <3>4, Zenon
  <2>4. n \in S
    BY <2>0, <2>2, <2>3, EveryNatural, Zenon
  <2>5. n <= n /\ n + 1 - n = 1
    BY <2>0, SMT
  <2>. QED
    BY <2>0, <2>4, <2>5, Zenon
<1>10. Rules(text) = RulesFrom(text, 1)
  BY Zenon DEF Rules, RulesFrom, Yields, RulesAt, Places
<1>. QED
  BY <1>8, <1>9, <1>10, Zenon

-----------------------------------------------------------------------------
(* What is left of a rule whose header or command is being read at p, the  *)
(* patterns before it being known; and the rules that follow it.           *)

OnCommand(text, pats, p) ==
  LET stop == FirstOf(text, p, Stops)
      cmd  == Strip(text, p, stop - 1)
  IN  IF cmd = << >> THEN << Malformed >>
      ELSE << [pats |-> pats, cmd |-> cmd] >> \o RulesFrom(text, stop)

HasNul(text, p, q) == \E i \in p .. q : text[i] = "NUL"

OnHeader(text, pats, p) ==
  LET colon == FirstOf(text, p, {":"})
  IN  IF colon > Len(text) \/ HasNul(text, p, colon) THEN << Malformed >>
      ELSE OnCommand(text, pats \cup Patterns(text, p, colon - 1), colon + 1)

LEMMA RulesOnLine ==
  ASSUME NEW text \in Seq(STRING), NEW p \in Places(text)
  PROVE  LET start == FirstOf(text, p, Nonblank)
         IN  RulesFrom(text, p) =
               IF start > Len(text) THEN << >>
               ELSE IF text[start] = "#" THEN RulesFrom(text, FirstOf(text, start, Stops))
               ELSE IF text[start] \in {";", ":"} THEN << Malformed >>
               ELSE OnHeader(text, {}, start)
<1>1. RulesFrom(text, p) = RulesAt(text, Yields(text), p)
  BY RulesEquation, Zenon
<1>2. \A q : Yields(text)[q] = RulesFrom(text, q)
  BY Zenon DEF RulesFrom
<1>3. \A P : {} \cup P = P
  OBVIOUS
<1>. QED
  BY <1>1, <1>2, <1>3, Zenon DEF RulesAt, OnHeader, OnCommand, HasNul

\* Blanks before a rule mean nothing.
LEMMA RulesSkip ==
  ASSUME NEW text \in Seq(STRING), NEW p \in Places(text), NEW k \in p .. Len(text) + 1,
         AllBlank(text, p, k)
  PROVE  RulesFrom(text, p) = RulesFrom(text, k) /\ k \in Places(text)
<1>1. \A i \in p .. k - 1 : i \in 1 .. Len(text)
  BY SMT DEF Places
<1>2. Free(text, p, k, Nonblank)
  BY <1>1, BlankOrNot, Zenon DEF Free, AllBlank
<1>3. FirstOf(text, p, Nonblank) = FirstOf(text, k, Nonblank) /\ k \in Places(text)
  BY <1>2, FirstOfSkip
<1>. QED
  BY <1>3, RulesOnLine, Zenon

\* Nothing but blanks is no rule.
LEMMA RulesEnd ==
  ASSUME NEW text \in Seq(STRING), NEW p \in Places(text), AllBlank(text, p, Len(text) + 1)
  PROVE  RulesFrom(text, p) = << >>
<1>1. Len(text) + 1 \in p .. Len(text) + 1 /\ Len(text) + 1 > Len(text)
      /\ ~(Len(text) + 1 <= Len(text))
  BY SMT DEF Places
<1>2. RulesFrom(text, p) = RulesFrom(text, Len(text) + 1) /\ Len(text) + 1 \in Places(text)
  BY <1>1, RulesSkip
<1>3. Len(text) + 1 \in Len(text) + 1 .. Len(text) + 1
  BY <1>2, SMT
<1>4. Free(text, Len(text) + 1, Len(text) + 1, Nonblank)
  BY SMT DEF Free
<1>5. FirstOf(text, Len(text) + 1, Nonblank) = Len(text) + 1
  BY <1>1, <1>2, <1>3, <1>4, FirstOfIs
<1>. QED
  BY <1>1, <1>2, <1>5, RulesOnLine, Zenon

\* A rule starts where there is something.
LEMMA RulesStart ==
  ASSUME NEW text \in Seq(STRING), NEW p \in Places(text), p <= Len(text),
         text[p] \notin Blanks
  PROVE  RulesFrom(text, p) =
           IF text[p] = "#" THEN RulesFrom(text, FirstOf(text, p, Stops))
           ELSE IF text[p] \in {";", ":"} THEN << Malformed >>
           ELSE OnHeader(text, {}, p)
<1>1. p \in p .. Len(text) + 1 /\ ~(p > Len(text)) /\ p \in 1 .. Len(text)
  BY SMT DEF Places
<1>2. Free(text, p, p, Nonblank)
  BY <1>1, SMT DEF Free
<1>3. FirstOf(text, p, Nonblank) = p
  BY <1>1, <1>2, BlankOrNot, FirstOfIs, Zenon
<1>. QED
  BY <1>1, <1>3, RulesOnLine, Zenon

\* A comment goes on to the end of its line, or of the text.
LEMMA RulesComment ==
  ASSUME NEW text \in Seq(STRING), NEW p \in Places(text), p <= Len(text),
         text[p] = "#", NEW k \in p .. Len(text) + 1, Free(text, p, k, Stops),
         \/ k <= Len(text) /\ text[k] \in Stops
         \/ AllBlank(text, k, Len(text) + 1)
  PROVE  RulesFrom(text, p) = RulesFrom(text, k)
<1>. DEFINE stop == FirstOf(text, p, Stops)
<1>1. "#" \notin Blanks
  BY DEF Blanks
<1>2. RulesFrom(text, p) = RulesFrom(text, stop)
  BY <1>1, RulesStart, Zenon
<1>3. k \in Places(text)
  BY SMT DEF Places
<1>4. CASE k <= Len(text) /\ text[k] \in Stops
  BY <1>2, <1>4, FirstOfIs
<1>5. CASE AllBlank(text, k, Len(text) + 1)
  <2>1. stop = FirstOf(text, k, Stops) /\ stop \in k .. Len(text) + 1
    BY FirstOfSkip
  <2>. HIDE DEF stop
  <2>2. stop \in Places(text) /\ \A i \in stop .. (Len(text) + 1) - 1 : i \in k .. (Len(text) + 1) - 1
    BY <1>3, <2>1, SMT DEF Places
  <2>3. AllBlank(text, stop, Len(text) + 1)
    BY <1>5, <2>2, Zenon DEF AllBlank
  <2>. QED
    BY <1>2, <1>3, <1>5, <2>2, <2>3, RulesEnd, Zenon
<1>. QED
  BY <1>4, <1>5

\* What no pattern can begin or end with.
Filler == Blanks \cup {";"}

\* The patterns of a header do not change with the filler before them.
LEMMA PatternsSkip ==
  ASSUME NEW text \in Seq(STRING), NEW p \in Nat \ {0}, NEW q \in 0 .. Len(text),
         NEW k \in p .. q + 1, \A i \in p .. k - 1 : text[i] \in Filler
  PROVE  Patterns(text, p, q) = Patterns(text, k, q)
<1>1. ASSUME NEW i \in p .. q, NEW j \in i .. q, Spans(text, p, q, i, j)
      PROVE  i \in k .. q /\ Spans(text, k, q, i, j)
  <2>1. /\ text[i] \in Nonblank /\ text[j] \in Nonblank
        /\ OnePiece(text, i, j)
        /\ \A m \in p .. i - 1 : OnePiece(text, m, i) => text[m] \in Blanks
        /\ \A m \in j + 1 .. q : OnePiece(text, j, m) => text[m] \in Blanks
    BY <1>1, Zenon DEF Spans
  <2>2. i \in 1 .. Len(text) /\ i \in i .. j
    BY <2>1, SMT
  <2>3. text[i] \notin Filler
    BY <2>1, <2>2, BlankOrNot, Zenon DEF OnePiece, Filler, Cuts
  <2>4. i \notin p .. k - 1
    BY <2>3, Zenon
  <2>5. i \in k .. q /\ \A m \in k .. i - 1 : m \in p .. i - 1
    BY <2>1, <2>4, SMT
  <2>. QED
    BY <2>1, <2>5, Zenon DEF Spans
<1>2. ASSUME NEW i \in k .. q, NEW j \in i .. q, Spans(text, k, q, i, j)
      PROVE  i \in p .. q /\ Spans(text, p, q, i, j)
  <2>1. /\ text[i] \in Nonblank /\ text[j] \in Nonblank
        /\ OnePiece(text, i, j)
        /\ \A m \in k .. i - 1 : OnePiece(text, m, i) => text[m] \in Blanks
        /\ \A m \in j + 1 .. q : OnePiece(text, j, m) => text[m] \in Blanks
    BY <1>2, Zenon DEF Spans
  <2>2. /\ i \in p .. q
        /\ \A m \in p .. i - 1 : m \in p .. k - 1 \/ m \in k .. i - 1
        /\ \A m \in p .. i - 1 : m \in m .. i
    BY SMT
  <2>3. ASSUME NEW m \in p .. k - 1, m \in m .. i, OnePiece(text, m, i)
        PROVE  text[m] \in Blanks
    BY <2>3, Zenon DEF OnePiece, Filler, Cuts
  <2>. QED
    BY <2>1, <2>2, <2>3, Zenon DEF Spans
<1>3. ASSUME NEW x
      PROVE  x \in Patterns(text, p, q) <=> x \in Patterns(text, k, q)
  <2>1. /\ x \in Patterns(text, p, q) <=> Spanned(text, p, q, x)
        /\ x \in Patterns(text, k, q) <=> Spanned(text, k, q, x)
    BY PatternIs, Zenon
  <2>. QED
    BY <1>1, <1>2, <2>1, Zenon DEF Spanned
<1>. QED
  BY <1>3, Zenon

\* There are none in an empty header.
LEMMA NoPatterns ==
  ASSUME NEW text, NEW p \in Nat
  PROVE  Patterns(text, p, p - 1) = {}
<1>1. p .. p - 1 = {}
  BY SMT
<1>. QED
  BY <1>1, Zenon DEF Patterns

\* The first pattern of a header, from i to j, and those after it.
LEMMA PatternsToken ==
  ASSUME NEW text \in Seq(STRING), NEW p \in Nat \ {0}, NEW q \in 0 .. Len(text),
         NEW i \in p .. q, NEW j \in i .. q, NEW k \in j + 1 .. q + 1,
         text[i] \notin Blanks, text[j] \notin Blanks,
         AllBlank(text, p, i), AllBlank(text, j + 1, k),
         OnePiece(text, p, k - 1),
         k <= q => text[k] \in Cuts
  PROVE  Patterns(text, p, q) = {SubSeq(text, i, j)} \cup Patterns(text, k, q)
<1>. DEFINE Cut(m) == text[m] \in Cuts
            One(a, b) == \A m \in a .. b : ~Cut(m)
            Dark(m) == text[m] \notin Blanks
<1>0. /\ p \in Nat /\ q \in Nat /\ i \in Nat /\ j \in Nat /\ k \in Nat
      /\ p <= i /\ i <= j /\ j < k /\ k <= q + 1 /\ q <= Len(text) /\ p > 0
  BY SMT
<1>1. \A a, b : OnePiece(text, a, b) <=> One(a, b)
  BY Zenon DEF OnePiece
<1>2. \A m \in p .. q : m \in 1 .. Len(text) /\ (text[m] \in Nonblank <=> Dark(m))
  <2>1. \A m \in p .. q : m \in 1 .. Len(text)
    BY <1>0, SMT
  <2>. QED
    BY <2>1, BlankOrNot, Zenon
<1>3. \A a \in p .. q, b \in p .. q, c \in Nat :
        Spans(text, c, q, a, b) <=>
          /\ Dark(a) /\ Dark(b) /\ One(a, b)
          /\ \A m \in c .. a - 1 : One(m, a) => ~Dark(m)
          /\ \A m \in b + 1 .. q : One(b, m) => ~Dark(m)
  BY <1>1, <1>2, Zenon DEF Spans
<1>4. /\ Dark(i) /\ Dark(j) /\ (\A m \in p .. k - 1 : ~Cut(m))
      /\ (\A m \in p .. i - 1 : ~Dark(m)) /\ (\A m \in j + 1 .. k - 1 : ~Dark(m))
      /\ k <= q => Cut(k)
  BY <1>1, Zenon DEF AllBlank
<1>. HIDE DEF Cut, Dark
<1>5. Spans(text, p, q, i, j)
  <2>1. /\ i \in p .. q /\ j \in p .. q
        /\ \A m \in i .. j : m \in p .. k - 1
    BY <1>0, SMT
  <2>2. ASSUME NEW m \in j + 1 .. q, One(j, m) PROVE ~Dark(m)
    <3>1. m \in j + 1 .. k - 1 \/ (k <= q /\ k \in j .. m)
      BY <1>0, SMT
    <3>. QED
      BY <1>4, <2>2, <3>1, Zenon
  <2>. QED
    BY <1>0, <1>3, <1>4, <2>1, <2>2, Zenon
\* A pattern further on.
<1>6. ASSUME NEW a \in k .. q, NEW b \in a .. q
      PROVE  a \in p .. q /\ (Spans(text, k, q, a, b) => Spans(text, p, q, a, b))
  <2>1. /\ a \in p .. q /\ b \in p .. q /\ k <= q /\ a \in Nat
    BY <1>0, SMT
  <2>2. ASSUME Spans(text, k, q, a, b), NEW m \in p .. a - 1, One(m, a) PROVE ~Dark(m)
    <3>1. m \in k .. a - 1 \/ (k \in m .. a)
      BY <1>0, <2>1, SMT
    <3>. QED
      BY <1>0, <1>3, <1>4, <2>1, <2>2, <3>1, Zenon
  <2>. QED
    BY <1>0, <1>3, <2>1, <2>2, Zenon
\* And there is no other.
<1>7. ASSUME NEW a \in p .. q, NEW b \in a .. q, Spans(text, p, q, a, b)
      PROVE  (a = i /\ b = j) \/ (a \in k .. q /\ Spans(text, k, q, a, b))
  <2>0. b \in p .. q /\ a <= b
    BY <1>0, SMT
  <2>1. /\ a <= b /\ Dark(a) /\ Dark(b) /\ One(a, b)
        /\ \A m \in p .. a - 1 : One(m, a) => ~Dark(m)
        /\ \A m \in b + 1 .. q : One(b, m) => ~Dark(m)
    BY <1>0, <1>3, <1>7, <2>0, Zenon
  <2>2. CASE a >= k
    <3>1. a \in k .. q /\ b \in k .. q /\ \A m \in k .. a - 1 : m \in p .. a - 1
      BY <1>0, <2>0, <2>2, SMT
    <3>. QED
      BY <1>0, <1>3, <2>0, <2>1, <3>1, Zenon
  <2>3. CASE a < k
    <3>1. a \in i .. j
      <4>1. a \notin p .. i - 1 /\ a \notin j + 1 .. k - 1
        BY <1>4, <2>1, Zenon
      <4>. QED
        BY <1>0, <2>3, <4>1, SMT
    <3>2. a = i
      <4>1. SUFFICES ASSUME a # i PROVE FALSE
        OBVIOUS
      <4>2. i \in p .. a - 1 /\ \A m \in i .. a : m \in p .. k - 1
        BY <1>0, <3>1, <4>1, SMT
      <4>. QED
        BY <1>4, <2>1, <4>2, Zenon
    <3>3. b \in i .. k - 1
      <4>1. SUFFICES ASSUME ~(b < k) PROVE FALSE
        BY <1>0, <2>1, <3>2, SMT
      <4>2. k <= q /\ k \in a .. b
        BY <1>0, <2>3, <4>1, SMT
      <4>. QED
        BY <1>4, <2>1, <4>2, Zenon
    <3>4. b \in i .. j
      <4>1. b \notin j + 1 .. k - 1
        BY <1>4, <2>1, Zenon
      <4>. QED
        BY <1>0, <3>3, <4>1, SMT
    <3>5. b = j
      <4>1. SUFFICES ASSUME b # j PROVE FALSE
        OBVIOUS
      <4>2. j \in b + 1 .. q /\ \A m \in b .. j : m \in p .. k - 1
        BY <1>0, <3>4, <4>1, SMT
      <4>. QED
        BY <1>4, <2>1, <4>2, Zenon
    <3>. QED
      BY <3>2, <3>5
  <2>. QED
    BY <1>0, <2>2, <2>3, SMT
<1>8. i \in p .. q /\ j \in i .. q
  BY <1>0, SMT
<1>9. ASSUME NEW x
      PROVE  x \in Patterns(text, p, q) <=> x \in {SubSeq(text, i, j)} \cup Patterns(text, k, q)
  <2>1. /\ x \in Patterns(text, p, q) <=> Spanned(text, p, q, x)
        /\ x \in Patterns(text, k, q) <=> Spanned(text, k, q, x)
    BY PatternIs, Zenon
  <2>. QED
    BY <1>5, <1>6, <1>7, <1>8, <2>1, Zenon DEF Spanned
<1>. QED
  BY <1>9, Zenon

-----------------------------------------------------------------------------
(* Reading on in a header and in a command.                                *)

\* A header wants a ':'.
LEMMA HeaderNoColon ==
  ASSUME NEW text \in Seq(STRING), NEW p \in Places(text), NEW pats,
         Free(text, p, Len(text) + 1, {":"})
  PROVE  OnHeader(text, pats, p) = << Malformed >>
<1>1. Len(text) + 1 \in p .. Len(text) + 1 /\ Len(text) + 1 > Len(text)
      /\ ~(Len(text) + 1 <= Len(text))
  BY SMT DEF Places
<1>2. FirstOf(text, p, {":"}) = Len(text) + 1
  BY <1>1, FirstOfIs
<1>. QED
  BY <1>1, <1>2, Zenon DEF OnHeader

\* And no NUL before it.
LEMMA HeaderNul ==
  ASSUME NEW text \in Seq(STRING), NEW p \in Places(text), NEW pats,
         p <= Len(text), text[p] = "NUL"
  PROVE  OnHeader(text, pats, p) = << Malformed >>
<1>. DEFINE colon == FirstOf(text, p, {":"})
<1>1. colon \in p .. Len(text) + 1
  BY FirstOfFound
<1>2. p \in p .. colon
  BY <1>1, SMT DEF Places
<1>. QED
  BY <1>2, Zenon DEF OnHeader, HasNul

\* After the ':' comes the command.
LEMMA HeaderColon ==
  ASSUME NEW text \in Seq(STRING), NEW p \in Places(text), NEW pats,
         p <= Len(text), text[p] = ":"
  PROVE  OnHeader(text, pats, p) = OnCommand(text, pats, p + 1)
<1>1. /\ p \in p .. Len(text) + 1 /\ ~(p > Len(text)) /\ p \in Nat
      /\ p .. p - 1 = {} /\ \A i \in p .. p : i = p
  BY SMT DEF Places
<1>2. Free(text, p, p, {":"})
  BY <1>1, Zenon DEF Free
<1>3. FirstOf(text, p, {":"}) = p
  BY <1>1, <1>2, FirstOfIs
<1>4. ~HasNul(text, p, p)
  BY <1>1, SMT DEF HasNul
<1>5. pats \cup Patterns(text, p, p - 1) = pats
  BY <1>1, NoPatterns, Zenon
<1>. QED
  BY <1>1, <1>3, <1>4, <1>5, Zenon DEF OnHeader

\* Filler is passed over, and other bytes if they belong to no pattern.
LEMMA HeaderFrom ==
  ASSUME NEW text \in Seq(STRING), NEW p \in Places(text), NEW pats, NEW more,
         NEW k \in p .. Len(text) + 1,
         Free(text, p, k, {":", "NUL"}),
         \A q \in 0 .. Len(text) :
           k <= q + 1 /\ ~HasNul(text, k, q) /\ Free(text, k, q + 1, {":"}) =>
           pats \cup Patterns(text, p, q) = more \cup Patterns(text, k, q)
  PROVE  OnHeader(text, pats, p) = OnHeader(text, more, k)
<1>. DEFINE colon == FirstOf(text, k, {":"})
<1>1. Len(text) \in Nat /\ p \in Nat /\ p > 0 /\ k \in Nat /\ p <= k
  BY SMT DEF Places
<1>2. Free(text, p, k, {":"})
  BY Zenon DEF Free
<1>3. FirstOf(text, p, {":"}) = colon /\ k \in Places(text) /\ colon \in k .. Len(text) + 1
  BY <1>2, FirstOfSkip
<1>4. Free(text, k, colon, {":"})
  BY <1>3, FirstOfFound, Zenon
<1>. HIDE DEF colon
<1>5. \A i \in p .. colon : i \in p .. k - 1 \/ i \in k .. colon
  BY <1>1, <1>3, SMT
<1>6. \A i \in k .. colon : i \in p .. colon
  BY <1>1, SMT
<1>7. HasNul(text, p, colon) <=> HasNul(text, k, colon)
  BY <1>5, <1>6, Zenon DEF HasNul, Free
<1>8. ASSUME colon <= Len(text), ~HasNul(text, k, colon)
      PROVE  pats \cup Patterns(text, p, colon - 1) = more \cup Patterns(text, k, colon - 1)
  <2>1. colon - 1 \in 0 .. Len(text) /\ (colon - 1) + 1 = colon /\ k <= (colon - 1) + 1
        /\ \A i \in k .. colon - 1 : i \in k .. colon
    BY <1>1, <1>3, <1>8, SMT
  <2>2. ~HasNul(text, k, colon - 1)
    BY <1>8, <2>1, Zenon DEF HasNul
  <2>. QED
    BY <1>4, <1>8, <2>1, <2>2, Zenon
<1>9. colon > Len(text) \/ colon <= Len(text)
  BY <1>1, <1>3, SMT
<1>. QED
  BY <1>3, <1>7, <1>8, <1>9, Zenon DEF OnHeader, colon

LEMMA HeaderSkip ==
  ASSUME NEW text \in Seq(STRING), NEW p \in Places(text), NEW pats,
         NEW k \in p .. Len(text) + 1, \A i \in p .. k - 1 : text[i] \in Filler
  PROVE  OnHeader(text, pats, p) = OnHeader(text, pats, k)
<1>1. \A c \in Filler : c \notin {":", "NUL"}
  BY Zenon DEF Filler, Blanks
<1>2. Free(text, p, k, {":", "NUL"})
  BY <1>1, Zenon DEF Free
<1>3. ASSUME NEW q \in 0 .. Len(text), k <= q + 1
      PROVE  Patterns(text, p, q) = Patterns(text, k, q)
  <2>1. p \in Nat \ {0} /\ k \in p .. q + 1
    BY <1>3, SMT DEF Places
  <2>. QED
    BY <2>1, PatternsSkip
<1>4. \A q \in 0 .. Len(text) :
        k <= q + 1 /\ ~HasNul(text, k, q) /\ Free(text, k, q + 1, {":"}) =>
        pats \cup Patterns(text, p, q) = pats \cup Patterns(text, k, q)
  BY <1>3, Zenon
<1>. QED
  BY <1>2, <1>4, HeaderFrom

\* What ends a pattern, or the header.
PatternEnds == Cuts \cup {":", "NUL"}

\* A pattern from i to j, up to the byte at k that ends it.
LEMMA HeaderToken ==
  ASSUME NEW text \in Seq(STRING), NEW p \in Places(text), NEW pats,
         NEW k \in p .. Len(text) + 1, NEW i \in p .. k - 1, NEW j \in i .. k - 1,
         text[i] \notin Blanks, text[j] \notin Blanks,
         AllBlank(text, p, i), AllBlank(text, j + 1, k),
         OnePiece(text, p, k - 1), Free(text, p, k, {":", "NUL"}),
         \/ k <= Len(text) /\ text[k] \in PatternEnds
         \/ AllBlank(text, k, Len(text) + 1)
  PROVE  OnHeader(text, pats, p) = OnHeader(text, pats \cup {SubSeq(text, i, j)}, k)
<1>0. Len(text) \in Nat /\ p \in Nat \ {0} /\ k \in Nat /\ p <= k
  BY SMT DEF Places
<1>1. CASE k <= Len(text) /\ text[k] \in PatternEnds
  <2>1. ASSUME NEW q \in 0 .. Len(text), k <= q + 1, ~HasNul(text, k, q),
               Free(text, k, q + 1, {":"})
        PROVE  Patterns(text, p, q) = {SubSeq(text, i, j)} \cup Patterns(text, k, q)
    <3>1. /\ i \in p .. q /\ j \in i .. q /\ k \in j + 1 .. q + 1
          /\ k <= q => k \in k .. q /\ k \in k .. (q + 1) - 1
      BY <1>0, <2>1, SMT
    <3>2. k <= q => text[k] \in Cuts
      BY <1>1, <2>1, <3>1, Zenon DEF HasNul, Free, PatternEnds
    <3>. QED
      BY <1>0, <3>1, <3>2, PatternsToken, SMTT(30)
  <2>2. \A P, x : pats \cup ({x} \cup P) = (pats \cup {x}) \cup P
    BY Zenon
  <2>3. \A q \in 0 .. Len(text) :
          k <= q + 1 /\ ~HasNul(text, k, q) /\ Free(text, k, q + 1, {":"}) =>
          pats \cup Patterns(text, p, q) = (pats \cup {SubSeq(text, i, j)}) \cup Patterns(text, k, q)
    BY <2>1, <2>2, Zenon
  <2>. QED
    BY <2>3, HeaderFrom
<1>2. CASE AllBlank(text, k, Len(text) + 1)
  <2>1. \A m \in p .. (Len(text) + 1) - 1 : m \in p .. k - 1 \/ m \in k .. (Len(text) + 1) - 1
    BY <1>0, SMT
  <2>2. ":" \notin Blanks
    BY DEF Blanks
  <2>3. Free(text, p, Len(text) + 1, {":"}) /\ Free(text, k, Len(text) + 1, {":"})
    BY <1>2, <2>1, <2>2, Zenon DEF Free, AllBlank
  <2>4. k \in Places(text)
    BY <1>0, SMT DEF Places
  <2>. QED
    BY <2>3, <2>4, HeaderNoColon, Zenon
<1>. QED
  BY <1>1, <1>2

\* A command wants something before the end of its line.
LEMMA CommandBlank ==
  ASSUME NEW text \in Seq(STRING), NEW p \in Places(text), NEW pats,
         NEW k \in p .. Len(text) + 1, AllBlank(text, p, k),
         k <= Len(text) => text[k] \in Stops
  PROVE  OnCommand(text, pats, p) = << Malformed >>
<1>. DEFINE stop == FirstOf(text, p, Stops)
<1>1. stop \in p .. Len(text) + 1 /\ Free(text, p, stop, Stops)
  BY FirstOfFound
<1>. HIDE DEF stop
<1>2. Len(text) \in Nat /\ p \in Nat \ {0} /\ k \in Nat /\ p <= k /\ k <= Len(text) + 1
  BY SMT DEF Places
<1>3. ~(k < stop)
  <2>1. SUFFICES ASSUME k < stop PROVE FALSE
    OBVIOUS
  <2>2. k \in p .. stop - 1 /\ k <= Len(text)
    BY <1>1, <1>2, <2>1, SMT
  <2>. QED
    BY <1>1, <2>2, Zenon DEF Free
<1>4. stop - 1 \in 0 .. Len(text) /\ \A i \in p .. ((stop - 1) + 1) - 1 : i \in p .. k - 1
  BY <1>1, <1>2, <1>3, SMT
<1>5. AllBlank(text, p, (stop - 1) + 1)
  BY <1>4, Zenon DEF AllBlank
<1>6. Strip(text, p, stop - 1) = << >>
  BY <1>2, <1>4, <1>5, StripBlank
<1>. QED
  BY <1>6, Zenon DEF OnCommand, stop

\* A command from i to j, up to the byte at k that ends the line.
LEMMA CommandToken ==
  ASSUME NEW text \in Seq(STRING), NEW p \in Places(text), NEW pats,
         NEW k \in p .. Len(text) + 1, NEW i \in p .. k - 1, NEW j \in i .. k - 1,
         text[i] \notin Blanks, text[j] \notin Blanks,
         AllBlank(text, p, i), AllBlank(text, j + 1, k), Free(text, p, k, Stops),
         \/ k <= Len(text) /\ text[k] \in Stops
         \/ AllBlank(text, k, Len(text) + 1)
  PROVE  OnCommand(text, pats, p) =
           << [pats |-> pats, cmd |-> SubSeq(text, i, j)] >> \o RulesFrom(text, k)
<1>. DEFINE stop == FirstOf(text, p, Stops)
<1>1. Len(text) \in Nat /\ p \in Nat \ {0} /\ k \in Nat /\ p <= k /\ k \in Places(text)
      /\ k <= Len(text) + 1 /\ i \in Nat /\ j \in Nat /\ i <= j /\ j < k /\ p <= i
  BY SMT DEF Places
<1>2. /\ stop \in k .. Len(text) + 1
      /\ AllBlank(text, k, stop)
      /\ RulesFrom(text, stop) = RulesFrom(text, k)
  <2>1. CASE k <= Len(text) /\ text[k] \in Stops
    <3>1. stop = k
      BY <2>1, FirstOfIs
    <3>2. AllBlank(text, k, k) /\ k \in k .. Len(text) + 1
      BY <1>1, SMT DEF AllBlank
    <3>. QED
      BY <3>1, <3>2, Zenon
  <2>2. CASE AllBlank(text, k, Len(text) + 1)
    <3>1. stop = FirstOf(text, k, Stops) /\ stop \in k .. Len(text) + 1
      BY FirstOfSkip
    <3>. HIDE DEF stop
    <3>2. \A m \in k .. stop - 1 : m \in k .. (Len(text) + 1) - 1
      BY <1>1, <3>1, SMT
    <3>3. AllBlank(text, k, stop)
      BY <2>2, <3>2, Zenon DEF AllBlank
    <3>4. RulesFrom(text, k) = RulesFrom(text, stop)
      BY <1>1, <3>1, <3>3, RulesSkip
    <3>. QED
      BY <3>1, <3>3, <3>4, Zenon
  <2>. QED
    BY <2>1, <2>2
<1>. HIDE DEF stop
<1>3. /\ stop - 1 \in 0 .. Len(text) /\ i \in p .. stop - 1 /\ j \in i .. stop - 1
      /\ \A m \in j + 1 .. ((stop - 1) + 1) - 1 : m \in j + 1 .. k - 1 \/ m \in k .. stop - 1
  BY <1>1, <1>2, SMT
<1>4. AllBlank(text, j + 1, (stop - 1) + 1)
  BY <1>2, <1>3, Zenon DEF AllBlank
<1>5. /\ Strip(text, p, stop - 1) = SubSeq(text, i, j)
      /\ Strip(text, p, stop - 1) # << >>
  BY <1>1, <1>3, <1>4, StripIs
<1>. QED
  BY <1>2, <1>5, Zenon DEF OnCommand, stop

-----------------------------------------------------------------------------
(* The unread input.                                                       *)

BufOK == buf \in Seq(STRING) /\ Len(buf) > 0

\* A view the parser may have as its unread input, and one with bytes left.
Solid(t) ==
  /\ t \in View /\ t.len > 0 /\ t.ptr \in 0 .. Len(buf) - 1
  /\ End(t) = TextEnd /\ buf[TextEnd] \notin Space
Unread(t) ==
  \/ t = str_empty
  \/ t \in View /\ t.len = 0 /\ t.ptr \in 0 .. Len(buf) - 1 /\ End(t) = TextEnd
  \/ Solid(t)

Where(t) == IF t.ptr = Literal THEN TextEnd ELSE t.ptr

InText(p) == p \in 0 .. FullText.len - 1

\* There is something on the line of the offset q, at or before it.
Anchored(q) ==
  \E p \in 0 .. q : /\ buf[p + 1] \notin Space
                    /\ \A k \in p .. q - 1 : buf[k + 1] # "\n"

\* The bytes from p up to q are whitespace or in the view str.
Covered(p, q, str) ==
  \A k \in p .. q - 1 : buf[k + 1] \in Space \/ k \in str.ptr .. End(str) - 1

LEMMA TextEndInBuffer ==
  ASSUME BufOK
  PROVE  TextEnd \in 0 .. Len(buf) - 1
<1>. DEFINE r == sv_trim_whitespace(buf, FullText)
<1>1. FullText \in View /\ FullText.ptr = 0 /\ End(FullText) = Len(buf) - 1
  BY SMT DEF BufOK, FullText, View, End
<1>2. r \in View /\ 0 <= r.ptr /\ End(r) <= Len(buf) - 1
  BY <1>1, TrimContract, Zenon
<1>. HIDE DEF r
<1>3. End(r) \in 0 .. Len(buf) - 1
  BY <1>2, SMT DEF BufOK, View, End
<1>. QED
  BY <1>3, Zenon DEF TextEnd, r

\* Skipping blanks leaves an unread view that is empty or begins with a byte
\* that is not one of them.
LEMMA SkipBlanks ==
  ASSUME BufOK, NEW view, Unread(view), NEW C \in SUBSET Space
  PROVE  LET input == sv_trim_left(buf, view, C)
         IN  /\ input \in View /\ Unread(input) /\ input.len <= view.len
             /\ Where(view) <= Where(input)
             /\ \A p \in Where(view) .. Where(input) - 1 : buf[p + 1] \in Space
             /\ \A p \in Where(view) .. Where(input) - 1 : buf[p + 1] \in C
             /\ input.len > 0 => Solid(input) /\ buf[input.ptr + 1] \notin C
             /\ Where(view) \in 0 .. TextEnd
<1>. DEFINE input == sv_trim_left(buf, view, C)
<1>1. TextEnd \in 0 .. Len(buf) - 1 /\ Len(buf) \in Nat
  BY TextEndInBuffer, SMT DEF BufOK
<1>2. view \in View
  BY SMT DEF Unread, Solid, View, str_empty, Literal
<1>3. /\ input \in View
      /\ view.ptr <= input.ptr /\ End(input) = End(view)
      /\ \A p \in view.ptr .. input.ptr - 1 : buf[p + 1] \in C
      /\ input.len > 0 => buf[input.ptr + 1] \notin C
      /\ view.len = 0 => input = view
  BY <1>2, TrimLeftContract, Zenon
<1>. HIDE DEF input
<1>4. CASE view.len = 0
  <2>1. input = view
    BY <1>3, <1>4
  <2>2. Where(view) \in 0 .. TextEnd
    BY <1>1, <1>4, SMT DEF Unread, Solid, Where, View, End, str_empty, Literal
  <2>. QED
    BY <1>1, <1>2, <1>4, <2>1, <2>2, SMT DEF input, View
<1>5. CASE view.len # 0
  <2>1. Solid(view)
    BY <1>5, SMT DEF Unread, str_empty
  <2>2. /\ view.ptr \in 0 .. Len(buf) - 1 /\ view.len \in Nat /\ End(view) = TextEnd
        /\ view.ptr + view.len = TextEnd
    BY <2>1, SMT DEF Solid, View, End
  <2>3. /\ input.ptr \in Int /\ input.len \in Nat /\ input.ptr + input.len = TextEnd
        /\ input.ptr \in 0 .. Len(buf) - 1 /\ input.len <= view.len
    BY <1>1, <1>3, <2>2, SMT DEF View, End
  <2>4. Where(view) = view.ptr /\ Where(input) = input.ptr
    BY <2>2, <2>3, SMT DEF Where, Literal
  <2>5. input.len > 0 => Solid(input)
    BY <1>3, <2>1, <2>3, SMT DEF Solid, End
  <2>6. Unread(input)
    BY <1>3, <2>2, <2>3, <2>5, SMT DEF Unread
  <2>7. view.ptr \in 0 .. TextEnd
    BY <1>1, <2>2, SMT
  <2>8. \A p \in view.ptr .. input.ptr - 1 : buf[p + 1] \in Space
    BY <1>3, Zenon
  <2>. QED
    BY <1>3, <2>3, <2>4, <2>5, <2>6, <2>7, <2>8, Zenon DEF input
<1>. QED
  BY <1>4, <1>5

\* Cutting a token off solid input at a set of delimiters: the token holds
\* all that is not blank, and where it is empty there is a delimiter.
LEMMA CutToken ==
  ASSUME BufOK, NEW input, Solid(input), NEW D
  PROVE  LET split == sv_split_at_delims(buf, input, D)
             str   == sv_trim_whitespace(buf, split.head)
         IN  /\ Unread(split.tail) /\ split.tail.len <= input.len
             /\ input.ptr <= Where(split.tail) /\ Where(split.tail) = End(split.head)
             /\ split.head \in View /\ split.head.ptr = input.ptr
             /\ split.head.len > 0 => split.tail.len < input.len
             /\ str \in View /\ End(str) <= Where(split.tail)
             /\ Covered(input.ptr, Where(split.tail), str)
             /\ \A p \in input.ptr .. Where(split.tail) - 1 : buf[p + 1] \notin D
             /\ str.len > 0 => split.head.len > 0 /\ Trimmed(str, D)
             /\ str.len = 0 => split.tail.len > 0 /\ InText(split.tail.ptr)
             /\ split.head.len = 0 => buf[input.ptr + 1] \in D \cup {NUL}
             /\ input.ptr <= str.ptr
             /\ \A p \in input.ptr .. Where(split.tail) - 1 : buf[p + 1] \notin D \cup {NUL}
             /\ \/ InText(Where(split.tail)) /\ buf[Where(split.tail) + 1] \in D \cup {NUL}
                \/ Where(split.tail) = TextEnd
<1>. DEFINE split == sv_split_at_delims(buf, input, D)
            head  == split.head
            tail  == split.tail
            str   == sv_trim_whitespace(buf, head)
<1>1. TextEnd \in 0 .. Len(buf) - 1 /\ Len(buf) \in Nat
  BY TextEndInBuffer, SMT DEF BufOK
<1>2. /\ input \in View /\ input.ptr \in 0 .. Len(buf) - 1 /\ input.len \in Nat /\ input.len > 0
      /\ input.ptr + input.len = TextEnd /\ End(input) = TextEnd
      /\ buf[TextEnd] \notin Space
  BY SMT DEF Solid, View, End
<1>a. /\ input.ptr \in Nat /\ input.len \in Nat /\ input.len > 0
      /\ input.ptr + input.len = TextEnd /\ TextEnd \in Nat
  BY <1>1, <1>2, SMT
<1>3. /\ head \in View /\ tail \in View
      /\ head.ptr = input.ptr /\ head.len <= input.len
      /\ \A p \in input.ptr .. End(head) - 1 : buf[p + 1] \notin D \cup {NUL}
      /\ \/ /\ tail.len > 0 /\ tail.ptr = End(head) /\ End(tail) = End(input)
            /\ buf[tail.ptr + 1] \in D \cup {NUL}
         \/ head = input /\ tail = str_empty
  <2>1. input \in View
    BY <1>2
  <2>2. LET r == sv_split_at_delims(buf, input, D)
        IN  /\ r.head \in View /\ r.tail \in View
            /\ r.head.ptr = input.ptr /\ r.head.len <= input.len
            /\ \A p \in input.ptr .. End(r.head) - 1 : buf[p + 1] \notin D \cup {NUL}
            /\ \/ /\ r.tail.len > 0 /\ r.tail.ptr = End(r.head)
                  /\ End(r.tail) = End(input)
                  /\ buf[r.tail.ptr + 1] \in D \cup {NUL}
               \/ r.head = input /\ r.tail = str_empty
    BY <2>1, SplitContract
  <2>. QED
    BY <2>2
<1>. HIDE DEF split, head, tail
<1>4. /\ str \in View
      /\ head.ptr <= str.ptr /\ End(str) <= End(head)
      /\ \A p \in head.ptr .. str.ptr - 1 : buf[p + 1] \in Space
      /\ \A p \in End(str) .. End(head) - 1 : buf[p + 1] \in Space
      /\ str.len > 0 => buf[str.ptr + 1] \notin Space /\ buf[End(str)] \notin Space
  BY <1>3, TrimContract, Zenon
<1>. HIDE DEF str
<1>5. /\ head.ptr = input.ptr /\ head.len \in 0 .. input.len
      /\ End(head) = input.ptr + head.len
      /\ str.ptr \in Int /\ str.len \in Nat /\ End(str) = str.ptr + str.len
      /\ tail.ptr \in Int /\ tail.len \in Nat /\ End(tail) = tail.ptr + tail.len
      /\ input.ptr <= str.ptr /\ End(str) <= End(head)
  <2>1. head.ptr = input.ptr /\ head.len <= input.len /\ head \in View /\ tail \in View
    BY <1>3, Zenon
  <2>2. str \in View /\ head.ptr <= str.ptr /\ End(str) <= End(head)
    BY <1>4, Zenon
  <2>. QED
    BY <1>2, <2>1, <2>2, SMT DEF View, End
<1>6. \/ /\ tail.len > 0 /\ tail.ptr = End(head) /\ End(tail) = TextEnd
         /\ buf[tail.ptr + 1] \in D \cup {NUL}
         /\ tail.len = input.len - head.len /\ tail.ptr \in 0 .. TextEnd - 1
      \/ head = input /\ tail = str_empty /\ tail.len = 0 /\ tail.ptr = Literal
         /\ End(head) = TextEnd
  <2>1. CASE /\ tail.len > 0 /\ tail.ptr = End(head) /\ End(tail) = End(input)
             /\ buf[tail.ptr + 1] \in D \cup {NUL}
    <3>1. tail.len > 0 /\ tail.ptr = End(head) /\ End(tail) = TextEnd
      BY <1>2, <2>1, Zenon
    <3>2. tail.len = input.len - head.len /\ tail.ptr \in 0 .. TextEnd - 1
      BY <1>a, <1>5, <3>1, SMT
    <3>. QED
      BY <2>1, <3>1, <3>2, Zenon
  <2>2. CASE head = input /\ tail = str_empty
    BY <1>2, <2>2, Zenon DEF str_empty
  <2>. QED
    BY <1>3, <2>1, <2>2, Zenon
<1>7. /\ Where(tail) = End(head) /\ tail.len <= input.len
      /\ head.len > 0 => tail.len < input.len
      /\ tail.len > 0 => InText(tail.ptr)
  <2>1. /\ Where(tail) = End(head) /\ tail.len <= input.len
        /\ head.len > 0 => tail.len < input.len
    BY <1>a, <1>5, <1>6, SMT DEF Where, Literal
  <2>2. tail.len > 0 => tail.ptr \in 0 .. TextEnd - 1
    BY <1>6, SMT
  <2>3. tail.len > 0 => InText(tail.ptr)
    BY <1>1, <2>2, SMT DEF InText, FullText
  <2>. QED
    BY <2>1, <2>3
<1>8. Unread(tail)
  <2>1. CASE tail = str_empty
    BY <2>1, Zenon DEF Unread
  <2>2. CASE tail.len > 0 /\ End(tail) = TextEnd /\ tail.ptr \in 0 .. TextEnd - 1
    <3>1. tail.ptr \in 0 .. Len(buf) - 1
      BY <1>1, <2>2, SMT
    <3>. QED
      BY <1>2, <1>3, <2>2, <3>1, Zenon DEF Unread, Solid
  <2>. QED
    BY <1>6, <2>1, <2>2, Zenon
<1>9. Covered(input.ptr, Where(tail), str)
  <2>1. SUFFICES ASSUME NEW k \in input.ptr .. End(head) - 1, k \notin str.ptr .. End(str) - 1
                 PROVE  buf[k + 1] \in Space
    BY <1>7, Zenon DEF Covered
  <2>2. k \in input.ptr .. str.ptr - 1 \/ k \in End(str) .. End(head) - 1
    BY <1>a, <1>5, <2>1, SMT
  <2>. QED
    BY <1>4, <1>5, <2>2, Zenon
<1>10. ASSUME str.len > 0
       PROVE  head.len > 0 /\ Trimmed(str, D)
  <2>1. /\ head.len > 0 /\ str.ptr \in 0 .. Len(buf) - 1 /\ End(str) <= TextEnd
    <3>1. head.len > 0 /\ str.ptr \in Nat /\ str.ptr < TextEnd /\ End(str) <= TextEnd
      BY <1>a, <1>5, <1>10, SMT
    <3>. QED
      BY <1>1, <3>1, SMT
  <2>2. ASSUME NEW k \in 0 .. str.len - 1
        PROVE  Byte(buf, str, k) \notin D \cup {NUL}
    <3>1. str.ptr + k \in input.ptr .. End(head) - 1
      BY <1>a, <1>5, SMT
    <3>. QED
      BY <1>3, <3>1, Zenon DEF Byte
  <2>3. str.ptr + 0 + 1 = str.ptr + 1 /\ str.ptr + (str.len - 1) + 1 = End(str)
    BY <1>5, SMT
  <2>. QED
    BY <1>4, <1>10, <2>1, <2>2, <2>3, Zenon DEF Trimmed, Byte
<1>11. ASSUME str.len = 0
       PROVE  tail.len > 0
  <2>1. SUFFICES ASSUME End(head) = TextEnd PROVE FALSE
    BY <1>6, Zenon
  <2>2. TextEnd - 1 \in input.ptr .. End(head) - 1 /\ TextEnd - 1 + 1 = TextEnd
    BY <1>a, <2>1, SMT
  <2>3. TextEnd - 1 \in input.ptr .. str.ptr - 1 \/ TextEnd - 1 \in End(str) .. End(head) - 1
    BY <1>a, <1>5, <1>11, <2>2, SMT
  <2>. QED
    BY <1>2, <1>4, <1>5, <2>2, <2>3, Zenon
<1>12. ASSUME head.len = 0
       PROVE  buf[input.ptr + 1] \in D \cup {NUL}
  <2>1. End(head) = input.ptr /\ End(head) # TextEnd
    BY <1>a, <1>5, <1>12, SMT
  <2>. QED
    BY <1>6, <2>1, Zenon
<1>13. input.ptr <= Where(tail) /\ End(str) <= Where(tail)
  BY <1>a, <1>5, <1>7, SMT
<1>14. \A p \in input.ptr .. Where(tail) - 1 : buf[p + 1] \notin D \cup {NUL}
  BY <1>3, <1>7, Zenon
<1>15. \/ InText(Where(tail)) /\ buf[Where(tail) + 1] \in D \cup {NUL}
       \/ Where(tail) = TextEnd
  BY <1>6, <1>7, Zenon
<1>. QED
  BY <1>3, <1>4, <1>5, <1>7, <1>8, <1>9, <1>10, <1>11, <1>12, <1>13, <1>14, <1>15, Zenon
     DEF split, head, tail, str

-----------------------------------------------------------------------------
(* The contracts of the lexers.                                            *)

Contract(view, lex, kinds) ==
  /\ lex.kind \in kinds /\ lex.str \in View
  /\ Unread(lex.tail) /\ lex.tail.len <= view.len
  /\ Where(view) <= Where(lex.tail) /\ End(lex.str) <= Where(lex.tail)
  /\ Covered(Where(view), Where(lex.tail), lex.str)

\* A byte that is not blank is something on its own line and on what follows.
LEMMA AnchoredHere ==
  ASSUME NEW q \in Nat, buf[q + 1] \notin Space
  PROVE  Anchored(q) /\ Anchored(q + 1)
<1>1. "\n" \in Space
  BY Zenon DEF Space, LineEnds
<1>2. /\ q \in 0 .. q /\ q .. q - 1 = {}
      /\ q \in 0 .. q + 1 /\ \A k \in q .. (q + 1) - 1 : k = q
  BY SMT
<1>3. Anchored(q)
  BY <1>2, Zenon DEF Anchored
<1>4. Anchored(q + 1)
  <2>1. ASSUME NEW k \in q .. (q + 1) - 1 PROVE buf[k + 1] # "\n"
    <3>1. k = q
      BY <1>2
    <3>. QED
      BY <1>1, <3>1, Zenon
  <2>. QED
    BY <1>2, <2>1, Zenon DEF Anchored
<1>. QED
  BY <1>3, <1>4

\* So is one further back, if no line ends in between.
LEMMA AnchoredBefore ==
  ASSUME NEW m \in Int, NEW q \in Int, m <= q, Anchored(m),
         \A k \in m .. q - 1 : buf[k + 1] # "\n"
  PROVE  Anchored(q)
<1>1. PICK p \in 0 .. m : /\ buf[p + 1] \notin Space
                          /\ \A k \in p .. m - 1 : buf[k + 1] # "\n"
  BY Zenon DEF Anchored
<1>2. p \in 0 .. q /\ \A k \in p .. q - 1 : k \in p .. m - 1 \/ k \in m .. q - 1
  BY SMT
<1>. QED
  BY <1>1, <1>2, Zenon DEF Anchored

LEMMA CoverAfterBlanks ==
  ASSUME NEW p, NEW m \in Int, NEW q, NEW str, p \in Int, q \in Int, p <= m, m <= q,
         \A k \in p .. m - 1 : buf[k + 1] \in Space,
         Covered(m, q, str)
  PROVE  Covered(p, q, str)
<1>1. SUFFICES ASSUME NEW k \in p .. q - 1, k \notin p .. m - 1
               PROVE  k \in m .. q - 1
  BY Zenon DEF Covered
<1>. QED
  BY <1>1, SMT

LEMMA UnreadFacts ==
  ASSUME BufOK, NEW t, Unread(t)
  PROVE  /\ t \in View /\ t.len \in Nat /\ Where(t) \in 0 .. TextEnd
         /\ TextEnd \in 0 .. Len(buf) - 1
<1>1. TextEnd \in 0 .. Len(buf) - 1
  BY TextEndInBuffer
<1>2. t \in View
  BY SMT DEF Unread, Solid, View, str_empty, Literal
<1>3. {} \in SUBSET Space
  OBVIOUS
<1>4. Where(t) \in 0 .. TextEnd
  BY <1>3, SkipBlanks
<1>. QED
  BY <1>1, <1>2, <1>4, SMT DEF View

\* A lexer that only skips blanks and returns an empty token.
LEMMA SkipContract ==
  ASSUME BufOK, NEW view, Unread(view), NEW C \in SUBSET Space, NEW kind
  PROVE  LET input == sv_trim_left(buf, view, C)
         IN  Contract(view, Lexed(kind, str_zero, input), {kind})
<1>. DEFINE input == sv_trim_left(buf, view, C)
            lex == Lexed(kind, str_zero, input)
<1>1. /\ Unread(input) /\ input.len <= view.len
      /\ Where(view) <= Where(input)
      /\ \A p \in Where(view) .. Where(input) - 1 : buf[p + 1] \in Space
  BY SkipBlanks
<1>. HIDE DEF input
<1>2. lex.kind = kind /\ lex.str = str_zero /\ lex.tail = input
  BY DEF Lexed
<1>3. str_zero \in View
  BY SMT DEF str_zero, View, NullPtr
<1>. HIDE DEF lex
<1>4. End(str_zero) <= Where(input)
  BY <1>1, UnreadFacts, SMT DEF End, str_zero, NullPtr
<1>5. Contract(view, lex, {kind})
  BY <1>1, <1>2, <1>3, <1>4, Zenon DEF Contract, Covered
<1>. QED
  BY <1>5, Zenon DEF lex, input

LEMMA LineStartContract ==
  ASSUME BufOK, NEW view, Unread(view)
  PROVE  LET lex == parse_line_start(view)
         IN  /\ Contract(view, lex, {"TOK_EOF", "TOK_COMMENT", "TOK_NONE"})
             /\ lex.kind = "TOK_COMMENT" => lex.tail.len < view.len
<1>. DEFINE input == sv_trim_left(buf, view, Space)
            split == sv_split_at_delims(buf, input, LineEnds)
            lex   == parse_line_start(view)
<1>. SUFFICES /\ Contract(view, lex, {"TOK_EOF", "TOK_COMMENT", "TOK_NONE"})
              /\ lex.kind = "TOK_COMMENT" => lex.tail.len < view.len
  OBVIOUS
<1>1. /\ input \in View /\ Unread(input) /\ input.len <= view.len
      /\ Where(view) <= Where(input)
      /\ \A p \in Where(view) .. Where(input) - 1 : buf[p + 1] \in Space
      /\ input.len > 0 => Solid(input)
  BY SkipBlanks, Zenon
<1>2. \A kind : Contract(view, Lexed(kind, str_zero, input), {kind})
  BY SkipContract, Zenon
<1>. HIDE DEF input
<1>3. lex = IF input.len = 0 THEN Lexed("TOK_EOF", str_zero, input)
            ELSE IF Byte(buf, input, 0) = "#"
                 THEN Lexed("TOK_COMMENT", split.head, split.tail)
                 ELSE Lexed("TOK_NONE", str_zero, input)
  BY Zenon DEF parse_line_start, input
<1>. HIDE DEF lex
<1>4. CASE input.len = 0
  <2>1. lex = Lexed("TOK_EOF", str_zero, input)
    BY <1>3, <1>4, Zenon
  <2>2. lex.kind = "TOK_EOF" /\ Contract(view, lex, {"TOK_EOF"})
    BY <1>2, <2>1 DEF Lexed
  <2>. QED
    BY <2>2 DEF Contract
<1>5. CASE input.len # 0 /\ Byte(buf, input, 0) # "#"
  <2>1. lex = Lexed("TOK_NONE", str_zero, input)
    BY <1>3, <1>5, Zenon
  <2>2. lex.kind = "TOK_NONE" /\ Contract(view, lex, {"TOK_NONE"})
    BY <1>2, <2>1 DEF Lexed
  <2>. QED
    BY <2>2 DEF Contract
<1>6. CASE input.len # 0 /\ Byte(buf, input, 0) = "#"
  <2>1. lex = Lexed("TOK_COMMENT", split.head, split.tail)
    BY <1>3, <1>6, Zenon
  <2>2. lex.kind = "TOK_COMMENT" /\ lex.str = split.head /\ lex.tail = split.tail
    BY <2>1 DEF Lexed
  <2>3. Solid(input) /\ input.ptr \in Nat /\ input.len \in Nat /\ input.len > 0
        /\ Where(input) = input.ptr
    BY <1>1, <1>6, SMT DEF View, Solid, Where, Literal
  <2>4. buf[input.ptr + 1] = "#"
    <3>1. input.ptr + 0 + 1 = input.ptr + 1
      BY <2>3, SMT
    <3>. QED
      BY <1>6, <3>1, Zenon DEF Byte
  <2>5. /\ Unread(split.tail) /\ split.tail.len <= input.len
        /\ input.ptr <= Where(split.tail) /\ Where(split.tail) = End(split.head)
        /\ split.head \in View /\ split.head.ptr = input.ptr
        /\ split.head.len > 0 => split.tail.len < input.len
        /\ split.head.len = 0 => buf[input.ptr + 1] \in LineEnds \cup {NUL}
    BY <2>3, CutToken
  <2>. HIDE DEF split
  <2>6. split.head.len > 0
    BY <2>4, <2>5, SMT DEF LineEnds, NUL, View
  <2>7. Covered(input.ptr, Where(split.tail), split.head)
    BY <2>5, Zenon DEF Covered
  <2>8. /\ Where(view) \in Int /\ Where(split.tail) \in Int /\ view.len \in Nat
        /\ split.tail.len \in Nat
    BY <2>5, UnreadFacts, SMT
  <2>9. Covered(Where(view), Where(split.tail), split.head)
    BY <1>1, <2>3, <2>5, <2>7, <2>8, CoverAfterBlanks, SMT
  <2>10. /\ Where(view) <= Where(split.tail) /\ split.tail.len < view.len
         /\ End(split.head) <= Where(split.tail)
    BY <1>1, <2>3, <2>5, <2>6, <2>8, SMT
  <2>. QED
    BY <2>2, <2>5, <2>8, <2>9, <2>10, SMT DEF Contract
<1>. QED
  BY <1>4, <1>5, <1>6, Zenon

\* What a token that is not there leaves to be read, and what ';' and ':' do.
DelimTail(lex) ==
  /\ lex.kind = "TOK_NONE" => InText(lex.tail.ptr)
  /\ lex.kind \in {"TOK_SEMI", "TOK_COLON"} =>
       /\ lex.tail.ptr \in 0 .. FullText.len
       /\ lex.tail.ptr = End(lex.str)
  /\ lex.kind # "TOK_EOF" /\ lex.kind # "TOK_PATTERN" => Anchored(lex.tail.ptr)

DelimKinds == {"TOK_EOF", "TOK_NONE", "TOK_SEMI", "TOK_COLON"}

LEMMA DelimContract ==
  ASSUME BufOK, NEW view, Unread(view)
  PROVE  LET lex == parse_pattern_delim(view)
         IN  /\ Contract(view, lex, DelimKinds)
             /\ DelimTail(lex)
             /\ lex.kind \in {"TOK_SEMI", "TOK_COLON"} => lex.tail.len < view.len
<1>. DEFINE input == sv_trim_left(buf, view, Space)
            kind  == get_delim_kind(Byte(buf, input, 0))
            lex   == parse_pattern_delim(view)
<1>. SUFFICES /\ Contract(view, lex, DelimKinds)
              /\ DelimTail(lex)
              /\ lex.kind \in {"TOK_SEMI", "TOK_COLON"} => lex.tail.len < view.len
  OBVIOUS
<1>1. /\ input \in View /\ Unread(input) /\ input.len <= view.len
      /\ Where(view) <= Where(input)
      /\ \A p \in Where(view) .. Where(input) - 1 : buf[p + 1] \in Space
      /\ input.len > 0 => Solid(input) /\ buf[input.ptr + 1] \notin Space
  BY SkipBlanks, Zenon
<1>2. \A k : Contract(view, Lexed(k, str_zero, input), {k})
  BY SkipContract, Zenon
<1>. HIDE DEF input
<1>3. lex = IF input.len = 0 THEN Lexed("TOK_EOF", str_zero, input)
            ELSE IF kind = "TOK_NONE" THEN Lexed(kind, str_zero, input)
                                      ELSE Lexed(kind, Take(input, 1), Drop(input, 1))
  BY Zenon DEF parse_pattern_delim, input
<1>. HIDE DEF lex
<1>4. kind \in {"TOK_NONE", "TOK_SEMI", "TOK_COLON"}
  BY SMT DEF get_delim_kind
<1>. HIDE DEF kind
<1>5. CASE input.len = 0
  <2>1. lex.kind = "TOK_EOF" /\ Contract(view, lex, {"TOK_EOF"})
    BY <1>2, <1>3, <1>5 DEF Lexed
  <2>. QED
    BY <2>1 DEF Contract, DelimTail, DelimKinds
<1>6. ASSUME input.len # 0
      PROVE  /\ Solid(input) /\ input.ptr \in Nat /\ input.len \in Nat /\ input.len > 0
             /\ input.ptr + input.len = TextEnd /\ End(input) = TextEnd
             /\ Where(input) = input.ptr
             /\ TextEnd \in 0 .. Len(buf) - 1 /\ view.len \in Nat /\ Where(view) \in Int
             /\ Anchored(input.ptr) /\ Anchored(input.ptr + 1)
  <2>1. Solid(input) /\ input.ptr \in Nat /\ input.len \in Nat /\ input.len > 0
    BY <1>1, <1>6, SMT DEF View, Solid
  <2>2. input.ptr + input.len = TextEnd /\ End(input) = TextEnd /\ Where(input) = input.ptr
    BY <2>1, SMT DEF Solid, End, Where, Literal
  <2>3. TextEnd \in 0 .. Len(buf) - 1 /\ view.len \in Nat /\ Where(view) \in Int
    BY UnreadFacts, SMT
  <2>4. buf[input.ptr + 1] \notin Space
    BY <1>1, <2>1, Zenon
  <2>5. Anchored(input.ptr) /\ Anchored(input.ptr + 1)
    BY <2>1, <2>4, AnchoredHere, Zenon
  <2>. QED
    BY <2>1, <2>2, <2>3, <2>5, Zenon
<1>7. CASE input.len # 0 /\ kind = "TOK_NONE"
  <2>1. lex.kind = "TOK_NONE" /\ lex.tail = input /\ Contract(view, lex, {"TOK_NONE"})
    BY <1>2, <1>3, <1>7 DEF Lexed
  <2>2. InText(input.ptr) /\ Anchored(input.ptr)
    <3>1. InText(input.ptr)
      BY <1>6, <1>7, SMT DEF InText, FullText
    <3>. QED
      BY <1>6, <1>7, <3>1, Zenon
  <2>. QED
    BY <2>1, <2>2 DEF Contract, DelimTail, DelimKinds
<1>8. CASE input.len # 0 /\ kind # "TOK_NONE"
  <2>. DEFINE str  == [ptr |-> input.ptr, len |-> 1]
              tail == [ptr |-> input.ptr + 1, len |-> input.len - 1]
  <2>1. lex.kind = kind /\ lex.str = str /\ lex.tail = tail
    BY <1>3, <1>8 DEF Lexed, Take, Drop
  <2>2. /\ str \in View /\ tail \in View /\ str.ptr = input.ptr /\ End(str) = input.ptr + 1
        /\ tail.ptr = input.ptr + 1 /\ tail.len = input.len - 1 /\ End(tail) = TextEnd
    BY <1>6, <1>8, SMTT(30) DEF View, End
  <2>. HIDE DEF str, tail
  <2>3. /\ tail.ptr \in 0 .. Len(buf) - 1 /\ tail.ptr \in 0 .. FullText.len
        /\ Where(tail) = input.ptr + 1 /\ tail.len < input.len
    BY <1>6, <1>8, <2>2, SMT DEF Where, Literal, FullText
  <2>4. buf[TextEnd] \notin Space
    BY <1>6, <1>8, Zenon DEF Solid
  <2>5. tail.len = 0 \/ tail.len > 0
    BY <1>6, <1>8, <2>2, SMT
  <2>6. Unread(tail)
    BY <2>2, <2>3, <2>4, <2>5, Zenon DEF Unread, Solid
  <2>7. Covered(input.ptr, input.ptr + 1, str)
    BY <2>2, Zenon DEF Covered
  <2>8. Covered(Where(view), Where(tail), str)
    BY <1>1, <1>6, <1>8, <2>3, <2>7, CoverAfterBlanks, SMT
  <2>9. /\ Where(view) <= Where(tail) /\ tail.len < view.len /\ tail.len <= view.len
        /\ End(str) <= Where(tail)
    BY <1>1, <1>6, <1>8, <2>2, <2>3, SMT
  <2>10. Contract(view, lex, DelimKinds)
    BY <1>4, <2>1, <2>2, <2>6, <2>8, <2>9, Zenon DEF Contract, DelimKinds
  <2>11. DelimTail(lex)
    BY <1>6, <1>8, <2>1, <2>2, <2>3, Zenon DEF DelimTail
  <2>. QED
    BY <2>1, <2>9, <2>10, <2>11, Zenon
<1>. QED
  BY <1>5, <1>7, <1>8, Zenon

Separators == {";", ":"} \cup LineEnds

LEMMA PatternContract ==
  ASSUME BufOK, NEW view, Unread(view)
  PROVE  LET lex == parse_pattern(view)
         IN  /\ Contract(view, lex, DelimKinds \cup {"TOK_PATTERN"})
             /\ DelimTail(lex)
             /\ lex.kind = "TOK_PATTERN" => /\ lex.tail.len < view.len
                                            /\ Trimmed(lex.str, Separators)
<1>. DEFINE input == sv_trim_left(buf, view, Space)
            split == sv_split_at_delims(buf, input, Separators)
            str   == sv_trim_whitespace(buf, split.head)
            delim == parse_pattern_delim(input)
            lex   == parse_pattern(view)
<1>. SUFFICES /\ Contract(view, lex, DelimKinds \cup {"TOK_PATTERN"})
              /\ DelimTail(lex)
              /\ lex.kind = "TOK_PATTERN" => /\ lex.tail.len < view.len
                                             /\ Trimmed(lex.str, Separators)
  OBVIOUS
<1>1. /\ input \in View /\ Unread(input) /\ input.len <= view.len
      /\ Where(view) <= Where(input)
      /\ \A p \in Where(view) .. Where(input) - 1 : buf[p + 1] \in Space
      /\ input.len > 0 => Solid(input)
  BY SkipBlanks, Zenon
<1>2. Contract(view, Lexed("TOK_EOF", str_zero, input), {"TOK_EOF"})
  BY SkipContract, Zenon
<1>. HIDE DEF input
<1>3. lex = IF input.len = 0 THEN Lexed("TOK_EOF", str_zero, input)
            ELSE IF str.len > 0 THEN Lexed("TOK_PATTERN", str, split.tail)
                                ELSE delim
  BY Zenon DEF parse_pattern, input, Separators
<1>. HIDE DEF lex
<1>4. Contract(input, delim, DelimKinds) /\ DelimTail(delim)
  BY <1>1, DelimContract
<1>. HIDE DEF delim
<1>5. /\ view.len \in Nat /\ Where(view) \in Int /\ input.len \in Nat /\ Where(input) \in Int
  BY <1>1, UnreadFacts, SMT
<1>6. CASE input.len = 0
  <2>1. lex.kind = "TOK_EOF" /\ Contract(view, lex, {"TOK_EOF"})
    BY <1>2, <1>3, <1>6 DEF Lexed
  <2>. QED
    BY <2>1 DEF Contract, DelimTail, DelimKinds
<1>7. CASE input.len # 0 /\ str.len > 0
  <2>1. lex.kind = "TOK_PATTERN" /\ lex.str = str /\ lex.tail = split.tail
    BY <1>3, <1>7 DEF Lexed
  <2>2. Solid(input) /\ Where(input) = input.ptr
    BY <1>1, <1>5, <1>7, SMT DEF Solid, Where, Literal
  <2>3. /\ Unread(split.tail) /\ input.ptr <= Where(split.tail)
        /\ split.tail.len < input.len
        /\ str \in View /\ Covered(input.ptr, Where(split.tail), str)
        /\ Trimmed(str, Separators) /\ End(str) <= Where(split.tail)
    BY <1>7, <2>2, CutToken
  <2>. HIDE DEF split, str
  <2>4. Where(split.tail) \in Int /\ split.tail.len \in Nat
    BY <2>3, UnreadFacts, SMT
  <2>5. Covered(Where(view), Where(split.tail), str)
    BY <1>1, <1>5, <2>2, <2>3, <2>4, CoverAfterBlanks, SMT
  <2>6. Where(view) <= Where(split.tail) /\ split.tail.len < view.len
        /\ split.tail.len <= view.len
    BY <1>1, <1>5, <2>2, <2>3, <2>4, SMT
  <2>. QED
    BY <2>1, <2>3, <2>5, <2>6, Zenon DEF Contract, DelimTail
<1>8. CASE input.len # 0 /\ ~(str.len > 0)
  <2>1. lex = delim
    BY <1>3, <1>8, Zenon
  <2>2. /\ delim.kind \in DelimKinds /\ delim.str \in View
        /\ Unread(delim.tail) /\ delim.tail.len <= input.len
        /\ Where(input) <= Where(delim.tail) /\ End(delim.str) <= Where(delim.tail)
        /\ Covered(Where(input), Where(delim.tail), delim.str)
    BY <1>4, Zenon DEF Contract
  <2>3. Where(delim.tail) \in Int /\ delim.tail.len \in Nat
    BY <2>2, UnreadFacts, SMT
  <2>4. Covered(Where(view), Where(delim.tail), delim.str)
    BY <1>1, <1>5, <2>2, <2>3, CoverAfterBlanks, SMT
  <2>5. Where(view) <= Where(delim.tail) /\ delim.tail.len <= view.len
    BY <1>1, <1>5, <2>2, <2>3, SMT
  <2>6. delim.kind # "TOK_PATTERN"
    BY <2>2 DEF DelimKinds
  <2>. QED
    BY <1>4, <2>1, <2>2, <2>4, <2>5, <2>6, Zenon DEF Contract
<1>. QED
  BY <1>6, <1>7, <1>8, Zenon

LEMMA CommandContract ==
  ASSUME BufOK, NEW view, Unread(view)
  PROVE  LET lex == parse_command(view)
         IN  /\ Contract(view, lex, {"TOK_EOF", "TOK_CMD", "TOK_NONE"})
             /\ lex.kind = "TOK_NONE" =>
                  /\ InText(lex.tail.ptr)
                  /\ \A k \in Where(view) .. lex.tail.ptr - 1 : buf[k + 1] # "\n"
             /\ lex.kind = "TOK_CMD" => /\ lex.tail.len < view.len
                                        /\ Trimmed(lex.str, LineEnds)
<1>. DEFINE input == sv_trim_left(buf, view, {" "})
            split == sv_split_at_delims(buf, input, LineEnds)
            str   == sv_trim_whitespace(buf, split.head)
            lex   == parse_command(view)
<1>. SUFFICES /\ Contract(view, lex, {"TOK_EOF", "TOK_CMD", "TOK_NONE"})
              /\ lex.kind = "TOK_NONE" =>
                   /\ InText(lex.tail.ptr)
                   /\ \A k \in Where(view) .. lex.tail.ptr - 1 : buf[k + 1] # "\n"
              /\ lex.kind = "TOK_CMD" => /\ lex.tail.len < view.len
                                         /\ Trimmed(lex.str, LineEnds)
  OBVIOUS
<1>0. {" "} \in SUBSET Space
  BY Zenon DEF Space
<1>1. /\ input \in View /\ Unread(input) /\ input.len <= view.len
      /\ Where(view) <= Where(input)
      /\ \A p \in Where(view) .. Where(input) - 1 : buf[p + 1] \in Space
      /\ input.len > 0 => Solid(input)
  BY <1>0, SkipBlanks, Zenon
<1>9. \A p \in Where(view) .. Where(input) - 1 : buf[p + 1] \in {" "}
  BY <1>0, SkipBlanks, Zenon
<1>2. Contract(view, Lexed("TOK_EOF", str_zero, input), {"TOK_EOF"})
  BY <1>0, SkipContract, Zenon
<1>. HIDE DEF input
<1>3. lex = IF input.len = 0 THEN Lexed("TOK_EOF", str_zero, input)
            ELSE Lexed(IF str.len > 0 THEN "TOK_CMD" ELSE "TOK_NONE", str, split.tail)
  BY Zenon DEF parse_command, input
<1>. HIDE DEF lex
<1>4. /\ view.len \in Nat /\ Where(view) \in Int /\ input.len \in Nat /\ Where(input) \in Int
  BY <1>1, UnreadFacts, SMT
<1>5. CASE input.len = 0
  <2>1. lex.kind = "TOK_EOF" /\ Contract(view, lex, {"TOK_EOF"})
    BY <1>2, <1>3, <1>5 DEF Lexed
  <2>. QED
    BY <2>1 DEF Contract
<1>6. CASE input.len # 0
  <2>1. /\ lex.kind = (IF str.len > 0 THEN "TOK_CMD" ELSE "TOK_NONE")
        /\ lex.str = str /\ lex.tail = split.tail
    BY <1>3, <1>6 DEF Lexed
  <2>2. Solid(input) /\ Where(input) = input.ptr
    BY <1>1, <1>4, <1>6, SMT DEF Solid, Where, Literal
  <2>3. /\ Unread(split.tail) /\ input.ptr <= Where(split.tail)
        /\ split.tail.len <= input.len
        /\ str \in View /\ Covered(input.ptr, Where(split.tail), str)
        /\ End(str) <= Where(split.tail)
        /\ str.len > 0 => split.tail.len < input.len /\ Trimmed(str, LineEnds)
        /\ str.len = 0 => InText(split.tail.ptr)
        /\ \A p \in input.ptr .. Where(split.tail) - 1 : buf[p + 1] \notin LineEnds
    BY <2>2, CutToken
  <2>. HIDE DEF split, str
  <2>4. Where(split.tail) \in Int /\ split.tail.len \in Nat /\ (str.len > 0 \/ str.len = 0)
    BY <2>3, UnreadFacts, SMT DEF View
  <2>5. Covered(Where(view), Where(split.tail), str)
    BY <1>1, <1>4, <2>2, <2>3, <2>4, CoverAfterBlanks, SMT
  <2>6. /\ Where(view) <= Where(split.tail) /\ split.tail.len <= view.len
        /\ str.len > 0 => split.tail.len < view.len
    BY <1>1, <1>4, <2>2, <2>3, <2>4, SMT
  <2>7. Contract(view, lex, {"TOK_EOF", "TOK_CMD", "TOK_NONE"})
    BY <2>1, <2>3, <2>5, <2>6, Zenon DEF Contract
  <2>8. ASSUME str.len = 0, NEW k \in Where(view) .. split.tail.ptr - 1
        PROVE  buf[k + 1] # "\n"
    <3>1. Where(split.tail) = split.tail.ptr
      BY <2>3, <2>8, SMT DEF InText, Where, Literal
    <3>2. k \in Where(view) .. Where(input) - 1 \/ k \in input.ptr .. Where(split.tail) - 1
      BY <1>4, <2>2, <2>4, <3>1, SMT
    <3>3. "\n" \in LineEnds /\ "\n" # " "
      BY DEF LineEnds
    <3>. QED
      BY <1>9, <2>3, <3>2, <3>3, Zenon
  <2>. QED
    BY <2>1, <2>3, <2>4, <2>6, <2>7, <2>8, Zenon
<1>. QED
  BY <1>5, <1>6, Zenon

-----------------------------------------------------------------------------
(* One call of fnmar_parser_next.                                          *)

LEMMA Moves ==
  /\ Successors("PS_LINE_START", "TOK_NONE") = {"PS_PATTERN"}
  /\ Successors("PS_LINE_START", "TOK_COMMENT") = {"PS_LINE_START"}
  /\ Successors("PS_LINE_START", "TOK_EOF") = {"PS_LINE_START"}
  /\ Successors("PS_PATTERN", "TOK_PATTERN") = {"PS_PATTERN_DELIM"}
  /\ \A k \in DelimKinds : Successors("PS_PATTERN", k) = {}
  /\ Successors("PS_PATTERN_DELIM", "TOK_NONE") = {"PS_PATTERN"}
  /\ Successors("PS_PATTERN_DELIM", "TOK_SEMI") = {"PS_PATTERN_DELIM"}
  /\ Successors("PS_PATTERN_DELIM", "TOK_COLON") = {"PS_COMMAND"}
  /\ Successors("PS_PATTERN_DELIM", "TOK_EOF") = {}
  /\ Successors("PS_COMMAND", "TOK_CMD") = {"PS_LINE_START"}
  /\ Successors("PS_COMMAND", "TOK_NONE") = {}
  /\ Successors("PS_COMMAND", "TOK_EOF") = {}
BY SMTT(30) DEF Successors, ParserState, Transition, DelimKinds

\* A reported position has a line and a column, or is not in the text.
LEMMA FilePos ==
  ASSUME BufOK, NEW ptr \in Int
  PROVE  /\ find_file_pos(ptr) \in Reports
         /\ find_file_pos(ptr) = AssertFails => ~InText(ptr)
         /\ find_file_pos(ptr).kind = "token" =>
              InText(ptr) /\ find_file_pos(ptr).line = LineOf(ptr)
<1>. DEFINE newlines == {i \in 0 .. ptr - 1 : buf[i + 1] = "\n"}
            line     == Cardinality(newlines)
            column   == IF newlines = {} THEN ptr ELSE ptr - Max(newlines) - 1
<1>1. CASE ~InText(ptr)
  <2>1. find_file_pos(ptr) = AssertFails
    BY <1>1, Zenon DEF InText, find_file_pos
  <2>2. AssertFails \in Reports /\ AssertFails.kind # "token"
    BY DEF AssertFails, Reports
  <2>. QED
    BY <1>1, <2>1, <2>2, Zenon
<1>2. CASE InText(ptr)
  <2>1. ptr \in Nat
    BY <1>2, SMT DEF InText
  <2>2. line \in Nat
    <3>1. IsFiniteSet(0 .. ptr - 1)
      <4>1. 0 \in Int /\ ptr - 1 \in Int
        BY <2>1, SMT
      <4>. QED
        BY <4>1, FS_Interval
    <3>2. newlines \in SUBSET (0 .. ptr - 1)
      OBVIOUS
    <3>. HIDE DEF newlines
    <3>3. IsFiniteSet(newlines)
      BY <3>1, <3>2, FS_Subset, Zenon
    <3>. QED
      BY <3>3, FS_CardinalityType, Zenon
  <2>. HIDE DEF line
  <2>3. column \in Nat
    <3>1. newlines \in SUBSET (0 .. ptr) /\ \A i \in newlines : i \in Nat /\ i < ptr
      BY <2>1, SMT
    <3>. HIDE DEF newlines
    <3>2. CASE newlines = {}
      BY <2>1, <3>2
    <3>3. CASE newlines # {}
      <4>1. Max(newlines) \in newlines
        BY <2>1, <3>1, <3>3, GreatestNatural, Zenon
      <4>2. Max(newlines) \in Nat /\ Max(newlines) < ptr
        BY <3>1, <4>1, Zenon
      <4>3. ptr - Max(newlines) - 1 \in Nat
        BY <2>1, <4>2, SMT
      <4>. QED
        BY <3>3, <4>3
    <3>. QED
      BY <3>2, <3>3
  <2>3a. ptr \in 0 .. FullText.len - 1
    BY <1>2 DEF InText
  <2>4. find_file_pos(ptr) = [kind |-> "token", line |-> line, column |-> column]
    BY <2>3a, Zenon DEF find_file_pos, line
  <2>. HIDE DEF column
  <2>5. find_file_pos(ptr).kind = "token" /\ find_file_pos(ptr).line = line
    BY <2>4
  <2>6. line = LineOf(ptr)
    BY Zenon DEF line, LineOf
  <2>7. find_file_pos(ptr) \in Reports /\ find_file_pos(ptr) # AssertFails
    BY <2>2, <2>3, <2>4, <2>5 DEF Reports, AssertFails
  <2>. QED
    BY <1>2, <2>5, <2>6, <2>7, Zenon
<1>. QED
  BY <1>1, <1>2

\* No line begins between an anchor and what it is the anchor of.
LEMMA SameLine ==
  ASSUME NEW p \in Nat, NEW q \in Nat, p <= q, \A k \in p .. q - 1 : buf[k + 1] # "\n"
  PROVE  LineOf(p) = LineOf(q)
<1>1. \A i : i \in 0 .. q - 1 <=> i \in 0 .. p - 1 \/ i \in p .. q - 1
  BY SMT
<1>2. {i \in 0 .. p - 1 : buf[i + 1] = "\n"} = {i \in 0 .. q - 1 : buf[i + 1] = "\n"}
  <2>1. \A i : /\ i \in 0 .. p - 1 => i \in 0 .. q - 1
              /\ i \in 0 .. q - 1 /\ buf[i + 1] = "\n" => i \in 0 .. p - 1
    BY <1>1, Zenon
  <2>. QED
    BY <2>1, SMT
<1>. QED
  BY <1>2, Zenon DEF LineOf

\* The line that is reported has something on it.
LineHasText(rep, q) ==
  \E p \in 0 .. q : LineOf(p) = rep.line /\ buf[p + 1] \notin Space

LEMMA AnchorIsReported ==
  ASSUME NEW rep, NEW q \in Nat, rep.line = LineOf(q), Anchored(q)
  PROVE  LineHasText(rep, q)
<1>1. PICK p \in 0 .. q : /\ buf[p + 1] \notin Space
                          /\ \A k \in p .. q - 1 : buf[k + 1] # "\n"
  BY Zenon DEF Anchored
<1>2. p \in Nat /\ p <= q
  BY SMT
<1>3. LineOf(p) = LineOf(q)
  BY <1>1, <1>2, SameLine, Zenon
<1>. QED
  BY <1>1, <1>3, Zenon DEF LineHasText

Bonus(state) == IF state \in {"PS_LINE_START", "PS_PATTERN_DELIM"} THEN 1 ELSE 0

\* Where a command is read there is a ':' just before the unread input.
AfterColon ==
  parser.state = "PS_COMMAND" /\ ~parser.is_done => Anchored(Where(parser.tail))

\* What every step of the parser does.
StepFacts ==
  /\ parser' \in Parser /\ report' \in Reports
  /\ Unread(parser'.tail)
  /\ Where(parser.tail) <= Where(parser'.tail)
  /\ End(parser'.token.str) <= Where(parser'.tail)
  /\ Covered(Where(parser.tail), Where(parser'.tail), parser'.token.str)
  /\ parser'.token.kind = "TOK_PATTERN" => Trimmed(parser'.token.str, Separators)
  /\ parser'.token.kind = "TOK_CMD" => Trimmed(parser'.token.str, LineEnds)
  /\ report' = AssertFails =>
       /\ parser'.state = "PS_PATTERN"
       /\ parser'.token.kind \in {"TOK_SEMI", "TOK_COLON"}
       /\ End(parser'.token.str) = FullText.len
  /\ report'.kind = "token" => LineHasText(report', parser'.tail.ptr)
  /\ parser'.state = "PS_COMMAND" /\ ~parser'.is_done => Anchored(Where(parser'.tail))
  /\ \/ parser'.is_done
     \/ 2 * parser'.tail.len + Bonus(parser'.state) < 2 * parser.tail.len + Bonus(parser.state)

\* The lexers' part of a step, for all four states at once.
LEMMA ConsumeFacts ==
  ASSUME BufOK, parser \in Parser, Unread(parser.tail), NEW lex, NEW kinds \in SUBSET TokenKind,
         Consume(lex), Contract(parser.tail, lex, kinds)
  PROVE  /\ parser' \in Parser /\ report' \in Reports
         /\ Unread(parser'.tail)
         /\ Where(parser.tail) <= Where(parser'.tail)
         /\ End(parser'.token.str) <= Where(parser'.tail)
         /\ Covered(Where(parser.tail), Where(parser'.tail), parser'.token.str)
         /\ parser'.token.kind = lex.kind /\ parser'.token.str = lex.str
         /\ parser'.tail = lex.tail
         /\ LET next == Successors(parser.state, lex.kind)
            IN  /\ parser'.state = IF next = {} THEN parser.state ELSE CHOOSE s \in next : TRUE
                /\ parser'.is_done <=> lex.kind = "TOK_EOF" \/ next = {}
                /\ report' = AssertFails =>
                     next = {} /\ lex.kind # "TOK_EOF" /\ ~InText(lex.tail.ptr)
                /\ report'.kind = "token" =>
                     /\ next = {} /\ lex.kind # "TOK_EOF" /\ InText(lex.tail.ptr)
                     /\ Anchored(lex.tail.ptr) => LineHasText(report', lex.tail.ptr)
<1>. DEFINE next  == Successors(parser.state, lex.kind)
            state == IF next = {} THEN parser.state ELSE CHOOSE s \in next : TRUE
<1>1. /\ lex.kind \in TokenKind /\ lex.str \in View
      /\ Unread(lex.tail) /\ Where(parser.tail) <= Where(lex.tail)
      /\ End(lex.str) <= Where(lex.tail)
      /\ Covered(Where(parser.tail), Where(lex.tail), lex.str)
  BY Zenon DEF Contract
<1>2. lex.tail \in View
  BY <1>1, UnreadFacts
<1>3. next \in SUBSET ParserState /\ parser.state \in ParserState
  BY DEF Successors, Parser
<1>4. /\ parser' = [state |-> state,
                    token |-> [kind |-> lex.kind, str |-> lex.str],
                    tail  |-> lex.tail,
                    unexpected_token |-> next = {},
                    is_done |-> lex.kind = "TOK_EOF" \/ next = {}]
      /\ report' = IF next # {} THEN NoReport
                   ELSE IF lex.kind = "TOK_EOF" THEN ReportEof
                   ELSE find_file_pos(lex.tail.ptr)
  BY Zenon DEF Consume
<1>. HIDE DEF next
<1>5. state \in ParserState
  BY <1>3, Zenon
<1>. HIDE DEF state
<1>6. parser' \in Parser
  BY <1>1, <1>2, <1>4, <1>5 DEF Parser, Token
<1>7. /\ parser'.token.kind = lex.kind /\ parser'.token.str = lex.str
      /\ parser'.tail = lex.tail /\ parser'.state = state
      /\ parser'.is_done <=> lex.kind = "TOK_EOF" \/ next = {}
  BY <1>4
<1>8. lex.tail.ptr \in Int
  BY <1>2, SMT DEF View
<1>9. /\ find_file_pos(lex.tail.ptr) \in Reports
      /\ find_file_pos(lex.tail.ptr) = AssertFails => ~InText(lex.tail.ptr)
      /\ find_file_pos(lex.tail.ptr).kind = "token" =>
           /\ InText(lex.tail.ptr)
           /\ find_file_pos(lex.tail.ptr).line = LineOf(lex.tail.ptr)
  BY <1>8, FilePos, Zenon
<1>10. report' \in Reports
  BY <1>4, <1>9, Zenon DEF Reports
<1>11. NoReport # AssertFails /\ ReportEof # AssertFails
  <2>1. NoReport.kind # AssertFails.kind /\ ReportEof.kind # AssertFails.kind
    BY DEF NoReport, ReportEof, AssertFails
  <2>. QED
    BY <2>1, Zenon
<1>12. report' = AssertFails => next = {} /\ lex.kind # "TOK_EOF" /\ ~InText(lex.tail.ptr)
  BY <1>4, <1>9, <1>11, Zenon
<1>13. ASSUME report'.kind = "token"
       PROVE  /\ next = {} /\ lex.kind # "TOK_EOF" /\ InText(lex.tail.ptr)
              /\ Anchored(lex.tail.ptr) => LineHasText(report', lex.tail.ptr)
  <2>1. NoReport.kind # "token" /\ ReportEof.kind # "token"
    BY DEF NoReport, ReportEof
  <2>2. next = {} /\ lex.kind # "TOK_EOF" /\ report' = find_file_pos(lex.tail.ptr)
    BY <1>4, <1>13, <2>1, Zenon
  <2>3. InText(lex.tail.ptr) /\ report'.line = LineOf(lex.tail.ptr)
    BY <1>9, <1>13, <2>2, Zenon
  <2>4. lex.tail.ptr \in Nat
    BY <2>3, SMT DEF InText
  <2>. QED
    BY <2>2, <2>3, <2>4, AnchorIsReported, Zenon
<1>. QED
  BY <1>1, <1>6, <1>7, <1>10, <1>12, <1>13, Zenon DEF next, state

LEMMA OnlyChoice == \A x : (CHOOSE s \in {x} : TRUE) = x
OBVIOUS

\* Arithmetic of the measure: how much a move has to read.
LEMMA MeasureFalls ==
  ASSUME NEW s, NEW t, NEW n \in Nat, NEW m \in Nat, m <= n,
         m < n \/ (Bonus(s) = 1 /\ Bonus(t) = 0)
  PROVE  2 * m + Bonus(t) < 2 * n + Bonus(s)
<1>1. Bonus(s) \in {0, 1} /\ Bonus(t) \in {0, 1}
  BY Zenon DEF Bonus
<1>. HIDE DEF Bonus
<1>. QED
  BY <1>1, SMT

LEMMA BonusOf ==
  /\ Bonus("PS_LINE_START") = 1 /\ Bonus("PS_PATTERN_DELIM") = 1
  /\ Bonus("PS_PATTERN") = 0 /\ Bonus("PS_COMMAND") = 0
BY DEF Bonus

LEMMA LineStartStep ==
  ASSUME BufOK, parser \in Parser, Unread(parser.tail), LineStart
  PROVE  StepFacts
<1>. DEFINE lex   == parse_line_start(parser.tail)
            kinds == {"TOK_EOF", "TOK_COMMENT", "TOK_NONE"}
            next  == Successors(parser.state, lex.kind)
<1>1. parser.state = "PS_LINE_START" /\ Consume(lex)
  BY Zenon DEF LineStart, In
<1>2. /\ Contract(parser.tail, lex, kinds)
      /\ lex.kind = "TOK_COMMENT" => lex.tail.len < parser.tail.len
  BY LineStartContract
<1>. HIDE DEF lex
<1>3. kinds \in SUBSET TokenKind
  BY Zenon DEF TokenKind
<1>4. /\ parser' \in Parser /\ report' \in Reports
      /\ Unread(parser'.tail)
      /\ Where(parser.tail) <= Where(parser'.tail)
      /\ End(parser'.token.str) <= Where(parser'.tail)
      /\ Covered(Where(parser.tail), Where(parser'.tail), parser'.token.str)
      /\ parser'.token.kind = lex.kind /\ parser'.token.str = lex.str
      /\ parser'.tail = lex.tail
      /\ parser'.state = IF next = {} THEN parser.state ELSE CHOOSE s \in next : TRUE
      /\ parser'.is_done <=> lex.kind = "TOK_EOF" \/ next = {}
      /\ report' = AssertFails =>
           next = {} /\ lex.kind # "TOK_EOF" /\ ~InText(lex.tail.ptr)
      /\ report'.kind = "token" =>
           /\ next = {} /\ lex.kind # "TOK_EOF" /\ InText(lex.tail.ptr)
           /\ Anchored(lex.tail.ptr) => LineHasText(report', lex.tail.ptr)
  BY <1>1, <1>2, <1>3, ConsumeFacts
<1>5. lex.kind \in kinds /\ lex.tail.len <= parser.tail.len
  BY <1>2, Zenon DEF Contract
<1>6. lex.tail.len \in Nat /\ parser.tail.len \in Nat
  BY <1>4, UnreadFacts, Zenon
<1>7. /\ next # {} /\ parser'.state # "PS_COMMAND"
      /\ lex.kind = "TOK_NONE" => parser'.state = "PS_PATTERN"
  BY <1>1, <1>4, <1>5, Moves, OnlyChoice, Zenon
<1>8. \/ parser'.is_done
      \/ 2 * parser'.tail.len + Bonus(parser'.state) < 2 * parser.tail.len + Bonus(parser.state)
  <2>1. CASE lex.kind = "TOK_EOF"
    BY <1>4, <2>1, Zenon
  <2>2. CASE lex.kind = "TOK_COMMENT"
    BY <1>2, <1>4, <1>5, <1>6, <2>2, MeasureFalls, Zenon
  <2>3. CASE lex.kind = "TOK_NONE"
    BY <1>1, <1>4, <1>5, <1>6, <1>7, <2>3, MeasureFalls, BonusOf, Zenon
  <2>. QED
    BY <1>5, <2>1, <2>2, <2>3, Zenon
<1>9. parser'.token.kind # "TOK_PATTERN" /\ parser'.token.kind # "TOK_CMD"
  BY <1>4, <1>5, Zenon
<1>10. report'.kind # "token" /\ report' # AssertFails
  BY <1>4, <1>7, Zenon
<1>. QED
  BY <1>4, <1>7, <1>8, <1>9, <1>10, Zenon DEF StepFacts

LEMMA PatternStep ==
  ASSUME BufOK, parser \in Parser, Unread(parser.tail), Pattern
  PROVE  StepFacts
<1>. DEFINE lex   == parse_pattern(parser.tail)
            kinds == DelimKinds \cup {"TOK_PATTERN"}
            next  == Successors(parser.state, lex.kind)
<1>1. parser.state = "PS_PATTERN" /\ Consume(lex)
  BY Zenon DEF Pattern, In
<1>2. /\ Contract(parser.tail, lex, kinds)
      /\ DelimTail(lex)
      /\ lex.kind = "TOK_PATTERN" => /\ lex.tail.len < parser.tail.len
                                     /\ Trimmed(lex.str, Separators)
  BY PatternContract
<1>. HIDE DEF lex
<1>3. kinds \in SUBSET TokenKind
  BY Zenon DEF TokenKind, DelimKinds
<1>4. /\ parser' \in Parser /\ report' \in Reports
      /\ Unread(parser'.tail)
      /\ Where(parser.tail) <= Where(parser'.tail)
      /\ End(parser'.token.str) <= Where(parser'.tail)
      /\ Covered(Where(parser.tail), Where(parser'.tail), parser'.token.str)
      /\ parser'.token.kind = lex.kind /\ parser'.token.str = lex.str
      /\ parser'.tail = lex.tail
      /\ parser'.state = IF next = {} THEN parser.state ELSE CHOOSE s \in next : TRUE
      /\ parser'.is_done <=> lex.kind = "TOK_EOF" \/ next = {}
      /\ report' = AssertFails =>
           next = {} /\ lex.kind # "TOK_EOF" /\ ~InText(lex.tail.ptr)
      /\ report'.kind = "token" =>
           /\ next = {} /\ lex.kind # "TOK_EOF" /\ InText(lex.tail.ptr)
           /\ Anchored(lex.tail.ptr) => LineHasText(report', lex.tail.ptr)
  BY <1>1, <1>2, <1>3, ConsumeFacts
<1>5. lex.kind \in kinds /\ lex.tail.len <= parser.tail.len
  BY <1>2, Zenon DEF Contract
<1>6. lex.tail.len \in Nat /\ parser.tail.len \in Nat
  BY <1>4, UnreadFacts, Zenon
<1>7. IF lex.kind = "TOK_PATTERN" THEN next # {} /\ parser'.state = "PS_PATTERN_DELIM"
                                  ELSE next = {} /\ parser'.state = "PS_PATTERN"
  BY <1>1, <1>4, <1>5, Moves, OnlyChoice, Zenon
<1>8. \/ parser'.is_done
      \/ 2 * parser'.tail.len + Bonus(parser'.state) < 2 * parser.tail.len + Bonus(parser.state)
  <2>1. CASE lex.kind # "TOK_PATTERN"
    BY <1>4, <1>7, <2>1, Zenon
  <2>2. CASE lex.kind = "TOK_PATTERN"
    BY <1>2, <1>4, <1>5, <1>6, <2>2, MeasureFalls, Zenon
  <2>. QED
    BY <2>1, <2>2, Zenon
<1>9. ASSUME report' = AssertFails
      PROVE  /\ parser'.state = "PS_PATTERN"
             /\ parser'.token.kind \in {"TOK_SEMI", "TOK_COLON"}
             /\ End(parser'.token.str) = FullText.len
  <2>1. next = {} /\ lex.kind # "TOK_EOF" /\ ~InText(lex.tail.ptr)
    BY <1>4, <1>9, Zenon
  <2>2. lex.kind \in {"TOK_SEMI", "TOK_COLON"} /\ parser'.state = "PS_PATTERN"
    BY <1>2, <1>5, <1>7, <2>1, Zenon DEF DelimTail, DelimKinds
  <2>3. lex.tail.ptr \in 0 .. FullText.len /\ lex.tail.ptr = End(lex.str)
    BY <1>2, <2>2, Zenon DEF DelimTail
  <2>4. FullText.len \in Nat
    BY SMT DEF BufOK, FullText
  <2>5. lex.tail.ptr = FullText.len
    BY <2>1, <2>3, <2>4, SMT DEF InText
  <2>. QED
    BY <1>4, <2>2, <2>3, <2>5, Zenon
<1>10. parser'.token.kind # "TOK_CMD"
  BY <1>4, <1>5, Zenon DEF DelimKinds
<1>11. report'.kind = "token" => LineHasText(report', parser'.tail.ptr)
  BY <1>2, <1>4, <1>7, Zenon DEF DelimTail
<1>12. parser'.state # "PS_COMMAND"
  BY <1>7, Zenon
<1>. QED
  BY <1>2, <1>4, <1>8, <1>9, <1>10, <1>11, <1>12, Zenon DEF StepFacts

LEMMA PatternDelimStep ==
  ASSUME BufOK, parser \in Parser, Unread(parser.tail), PatternDelim
  PROVE  StepFacts
<1>. DEFINE lex   == parse_pattern_delim(parser.tail)
            next  == Successors(parser.state, lex.kind)
<1>1. parser.state = "PS_PATTERN_DELIM" /\ Consume(lex)
  BY Zenon DEF PatternDelim, In
<1>2. /\ Contract(parser.tail, lex, DelimKinds) /\ DelimTail(lex)
      /\ lex.kind \in {"TOK_SEMI", "TOK_COLON"} => lex.tail.len < parser.tail.len
  BY DelimContract
<1>. HIDE DEF lex
<1>3. DelimKinds \in SUBSET TokenKind
  BY Zenon DEF TokenKind, DelimKinds
<1>4. /\ parser' \in Parser /\ report' \in Reports
      /\ Unread(parser'.tail)
      /\ Where(parser.tail) <= Where(parser'.tail)
      /\ End(parser'.token.str) <= Where(parser'.tail)
      /\ Covered(Where(parser.tail), Where(parser'.tail), parser'.token.str)
      /\ parser'.token.kind = lex.kind /\ parser'.token.str = lex.str
      /\ parser'.tail = lex.tail
      /\ parser'.state = IF next = {} THEN parser.state ELSE CHOOSE s \in next : TRUE
      /\ parser'.is_done <=> lex.kind = "TOK_EOF" \/ next = {}
      /\ report' = AssertFails =>
           next = {} /\ lex.kind # "TOK_EOF" /\ ~InText(lex.tail.ptr)
      /\ report'.kind = "token" =>
           /\ next = {} /\ lex.kind # "TOK_EOF" /\ InText(lex.tail.ptr)
           /\ Anchored(lex.tail.ptr) => LineHasText(report', lex.tail.ptr)
  BY <1>1, <1>2, <1>3, ConsumeFacts
<1>5. lex.kind \in DelimKinds /\ lex.tail.len <= parser.tail.len
  BY <1>2, Zenon DEF Contract
<1>6. lex.tail.len \in Nat /\ parser.tail.len \in Nat
  BY <1>4, UnreadFacts, Zenon
<1>7. /\ lex.kind # "TOK_EOF" => next # {}
      /\ lex.kind = "TOK_NONE" => parser'.state = "PS_PATTERN"
  BY <1>1, <1>4, <1>5, Moves, OnlyChoice, Zenon DEF DelimKinds
<1>8. \/ parser'.is_done
      \/ 2 * parser'.tail.len + Bonus(parser'.state) < 2 * parser.tail.len + Bonus(parser.state)
  <2>1. CASE lex.kind = "TOK_EOF"
    BY <1>4, <2>1, Zenon
  <2>2. CASE lex.kind \in {"TOK_SEMI", "TOK_COLON"}
    BY <1>2, <1>4, <1>5, <1>6, <2>2, MeasureFalls, Zenon
  <2>3. CASE lex.kind = "TOK_NONE"
    BY <1>1, <1>4, <1>5, <1>6, <1>7, <2>3, MeasureFalls, BonusOf, Zenon
  <2>. QED
    BY <1>5, <2>1, <2>2, <2>3, Zenon DEF DelimKinds
<1>9. parser'.token.kind # "TOK_PATTERN" /\ parser'.token.kind # "TOK_CMD"
  BY <1>4, <1>5, Zenon DEF DelimKinds
<1>10. report'.kind # "token" /\ report' # AssertFails
  BY <1>4, <1>7, Zenon
<1>11. ASSUME parser'.state = "PS_COMMAND", ~parser'.is_done
       PROVE  Anchored(Where(parser'.tail))
  <2>1. lex.kind \in {"TOK_SEMI", "TOK_COLON"}
    BY <1>4, <1>5, <1>7, <1>11, Zenon DEF DelimKinds
  <2>2. Anchored(lex.tail.ptr) /\ lex.tail.ptr \in 0 .. FullText.len
    BY <1>2, <2>1, Zenon DEF DelimTail
  <2>3. Where(lex.tail) = lex.tail.ptr
    BY <2>2, SMT DEF Where, Literal
  <2>. QED
    BY <1>4, <2>2, <2>3, Zenon
<1>. QED
  BY <1>4, <1>8, <1>9, <1>10, <1>11, Zenon DEF StepFacts

LEMMA CommandStep ==
  ASSUME BufOK, parser \in Parser, Unread(parser.tail), AfterColon, Command
  PROVE  StepFacts
<1>. DEFINE lex   == parse_command(parser.tail)
            kinds == {"TOK_EOF", "TOK_CMD", "TOK_NONE"}
            next  == Successors(parser.state, lex.kind)
<1>1. parser.state = "PS_COMMAND" /\ Consume(lex) /\ ~parser.is_done
  BY Zenon DEF Command, In
<1>2. /\ Contract(parser.tail, lex, kinds)
      /\ lex.kind = "TOK_NONE" =>
           /\ InText(lex.tail.ptr)
           /\ \A k \in Where(parser.tail) .. lex.tail.ptr - 1 : buf[k + 1] # "\n"
      /\ lex.kind = "TOK_CMD" => /\ lex.tail.len < parser.tail.len
                                 /\ Trimmed(lex.str, LineEnds)
  BY CommandContract
<1>. HIDE DEF lex
<1>3. kinds \in SUBSET TokenKind
  BY Zenon DEF TokenKind
<1>4. /\ parser' \in Parser /\ report' \in Reports
      /\ Unread(parser'.tail)
      /\ Where(parser.tail) <= Where(parser'.tail)
      /\ End(parser'.token.str) <= Where(parser'.tail)
      /\ Covered(Where(parser.tail), Where(parser'.tail), parser'.token.str)
      /\ parser'.token.kind = lex.kind /\ parser'.token.str = lex.str
      /\ parser'.tail = lex.tail
      /\ parser'.state = IF next = {} THEN parser.state ELSE CHOOSE s \in next : TRUE
      /\ parser'.is_done <=> lex.kind = "TOK_EOF" \/ next = {}
      /\ report' = AssertFails =>
           next = {} /\ lex.kind # "TOK_EOF" /\ ~InText(lex.tail.ptr)
      /\ report'.kind = "token" =>
           /\ next = {} /\ lex.kind # "TOK_EOF" /\ InText(lex.tail.ptr)
           /\ Anchored(lex.tail.ptr) => LineHasText(report', lex.tail.ptr)
  BY <1>1, <1>2, <1>3, ConsumeFacts
<1>5. lex.kind \in kinds /\ lex.tail.len <= parser.tail.len
  BY <1>2, Zenon DEF Contract
<1>6. lex.tail.len \in Nat /\ parser.tail.len \in Nat
  BY <1>4, UnreadFacts, Zenon
<1>7. (lex.kind # "TOK_CMD" => next = {}) /\ (lex.kind = "TOK_CMD" => next # {})
  BY <1>1, <1>5, Moves, Zenon
<1>8. \/ parser'.is_done
      \/ 2 * parser'.tail.len + Bonus(parser'.state) < 2 * parser.tail.len + Bonus(parser.state)
  <2>1. CASE lex.kind # "TOK_CMD"
    BY <1>4, <1>7, <2>1, Zenon
  <2>2. CASE lex.kind = "TOK_CMD"
    BY <1>2, <1>4, <1>5, <1>6, <2>2, MeasureFalls, Zenon
  <2>. QED
    BY <2>1, <2>2, Zenon
<1>9. report' # AssertFails
  BY <1>2, <1>4, <1>5, <1>7, Zenon
<1>10. parser'.token.kind # "TOK_PATTERN"
  BY <1>4, <1>5, Zenon
<1>11. ASSUME report'.kind = "token"
       PROVE  LineHasText(report', parser'.tail.ptr)
  <2>1. lex.kind = "TOK_NONE" /\ InText(lex.tail.ptr)
    BY <1>4, <1>5, <1>7, <1>11, Zenon
  <2>2. Where(lex.tail) = lex.tail.ptr /\ lex.tail.ptr \in Int
    BY <2>1, SMT DEF InText, Where, Literal
  <2>3. Where(parser.tail) <= lex.tail.ptr /\ Where(parser.tail) \in Int
    <3>1. Where(parser.tail) <= Where(lex.tail)
      BY <1>2, Zenon DEF Contract
    <3>. QED
      BY <2>2, <3>1, UnreadFacts, SMT
  <2>4. Anchored(lex.tail.ptr)
    BY <1>1, <1>2, <2>1, <2>2, <2>3, AnchoredBefore, Zenon DEF AfterColon
  <2>. QED
    BY <1>4, <1>11, <2>4, Zenon
<1>12. ~(parser'.state = "PS_COMMAND" /\ ~parser'.is_done)
  <2>1. CASE lex.kind = "TOK_CMD"
    BY <1>1, <1>4, <2>1, Moves, OnlyChoice, Zenon
  <2>2. CASE lex.kind # "TOK_CMD"
    BY <1>4, <1>7, <2>2, Zenon
  <2>. QED
    BY <2>1, <2>2, Zenon
<1>. QED
  BY <1>2, <1>4, <1>8, <1>9, <1>10, <1>11, <1>12, Zenon DEF StepFacts

LEMMA EveryStep ==
  ASSUME BufOK, parser \in Parser, Unread(parser.tail), AfterColon, fnmar_parser_next
  PROVE  StepFacts
BY LineStartStep, PatternStep, PatternDelimStep, CommandStep, Zenon DEF fnmar_parser_next

-----------------------------------------------------------------------------
(* The inductive invariant, and the theorems.                              *)

\* The token has been read: it ends where the unread input begins, or before.
TokenIsRead == End(parser.token.str) <= Where(parser.tail)

IInv == /\ TypeOK /\ Unread(parser.tail) /\ TokenIsRead /\ AfterColon
        /\ TokensWellFormed /\ AbortsOnlyAtFinalDelim /\ ReportedLine

LEMMA UnreadIsSuffix ==
  ASSUME TypeOK, Unread(parser.tail)
  PROVE  TailIsSuffix /\ Position = Where(parser.tail)
<1>1. BufOK
  BY DEF BufOK, TypeOK
<1>2. parser.tail = str_empty => TailIsSuffix
  BY Zenon DEF TailIsSuffix
<1>3. ASSUME parser.tail # str_empty
      PROVE  TailIsSuffix
  <2>1. /\ parser.tail \in View /\ parser.tail.ptr \in 0 .. Len(buf) - 1
        /\ End(parser.tail) = TextEnd
        /\ parser.tail.len > 0 => buf[TextEnd] \notin Space
    BY <1>3, SMT DEF Unread, Solid
  <2>2. parser.tail.ptr + (parser.tail.len - 1) + 1 = End(parser.tail)
    BY <2>1, SMT DEF View, End
  <2>. QED
    BY <2>1, <2>2, Zenon DEF TailIsSuffix, Byte
<1>4. Position = Where(parser.tail)
  BY Zenon DEF Position, Where
<1>. QED
  BY <1>2, <1>3, <1>4, Zenon

\* The text ends at the same place as long as the buffer is not touched.
LEMMA SameText ==
  ASSUME buf' = buf
  PROVE  /\ TextEnd' = TextEnd /\ FullText' = FullText /\ BufOK' = BufOK
         /\ Unread(parser.tail)' = Unread(parser'.tail)
         /\ Where(parser.tail)' = Where(parser'.tail)
         /\ \A C : Trimmed(parser.token.str, C)' = Trimmed(parser'.token.str, C)
         /\ AfterColon' <=>
              (parser'.state = "PS_COMMAND" /\ ~parser'.is_done => Anchored(Where(parser'.tail)))
         /\ ReportedLine' <=>
              (report'.kind = "token" => LineHasText(report', parser'.tail.ptr))
<1>1. FullText' = FullText
  BY DEF FullText
<1>2. TextEnd' = TextEnd
  BY <1>1 DEF TextEnd
<1>3. BufOK' = BufOK
  BY DEF BufOK
<1>4. Unread(parser.tail)' = Unread(parser'.tail)
  BY <1>2 DEF Unread, Solid
<1>5. Where(parser.tail)' = Where(parser'.tail)
  BY <1>2 DEF Where
<1>6. \A C : Trimmed(parser.token.str, C)' = Trimmed(parser'.token.str, C)
  BY <1>2 DEF Trimmed, Byte
<1>7. AfterColon' <=>
        (parser'.state = "PS_COMMAND" /\ ~parser'.is_done => Anchored(Where(parser'.tail)))
  BY <1>5 DEF AfterColon, Anchored
<1>8. ReportedLine' <=> (report'.kind = "token" => LineHasText(report', parser'.tail.ptr))
  BY DEF ReportedLine, LineHasText, LineOf
<1>. QED
  BY <1>1, <1>2, <1>3, <1>4, <1>5, <1>6, <1>7, <1>8

LEMMA InitInvariant == Init => IInv
<1>. SUFFICES ASSUME Init PROVE IInv
  OBVIOUS
<1>1. PICK f \in Files : buf = Append(f, NUL)
  BY Zenon DEF Init
<1>2. f \in Seq(STRING) /\ NUL \in STRING
  BY FilesAssumption, ByteAssumption, Zenon DEF FilesAssumption, ByteAssumption
<1>3. buf \in Seq(STRING) /\ Len(buf) = Len(f) + 1
  BY <1>1, <1>2, AppendProperties
<1>4. BufOK
  BY <1>2, <1>3, SMT DEF BufOK
<1>. DEFINE tail == sv_trim_whitespace(buf, FullText)
<1>5. parser = [state |-> "PS_LINE_START",
                token |-> [kind |-> "TOK_NONE", str |-> str_zero],
                tail  |-> tail,
                unexpected_token |-> FALSE,
                is_done |-> FALSE]
  BY Zenon DEF Init, fnmar_parser_start, FullText
<1>6. FullText \in View /\ FullText.ptr = 0 /\ End(FullText) = Len(buf) - 1
  BY <1>4, SMT DEF BufOK, FullText, View, End
<1>7. /\ tail \in View /\ 0 <= tail.ptr /\ End(tail) <= Len(buf) - 1
      /\ tail.len > 0 => buf[End(tail)] \notin Space
  BY <1>6, TrimContract, Zenon
<1>8. End(tail) = TextEnd
  BY Zenon DEF TextEnd
<1>. HIDE DEF tail
<1>9. tail.ptr \in 0 .. Len(buf) - 1 /\ (tail.len = 0 \/ tail.len > 0)
  BY <1>4, <1>7, SMT DEF BufOK, View, End
<1>10. Unread(tail)
  BY <1>7, <1>8, <1>9, Zenon DEF Unread, Solid
<1>11. str_zero \in View
  BY SMT DEF str_zero, View, NullPtr
<1>12. parser \in Parser
  BY <1>5, <1>7, <1>11 DEF Parser, Token, TokenKind, ParserState
<1>13. /\ report = NoReport /\ report \in Reports /\ report # AssertFails
       /\ report.kind # "token"
  BY DEF Init, Reports, NoReport, AssertFails
<1>14. /\ parser.state = "PS_LINE_START" /\ parser.tail = tail
       /\ parser.token.kind = "TOK_NONE" /\ parser.token.str = str_zero
  BY <1>5
<1>15. TokenIsRead
  BY <1>4, <1>10, <1>14, UnreadFacts, SMT DEF TokenIsRead, End, str_zero, NullPtr
<1>. QED
  BY <1>4, <1>10, <1>12, <1>13, <1>14, <1>15, Zenon
  DEF IInv, TypeOK, BufOK, TokensWellFormed, AbortsOnlyAtFinalDelim, AfterColon, ReportedLine

\* A step keeps the invariant, reads forward and covers what it passes.
LEMMA NextInvariant ==
  ASSUME IInv, fnmar_parser_next, buf' = buf
  PROVE  /\ IInv'
         /\ parser'.is_done \/ Measure' < Measure
         /\ Position <= Position'
         /\ Covered(Position, Position', parser'.token.str)
<1>1. BufOK /\ parser \in Parser /\ Unread(parser.tail) /\ AfterColon
  BY Zenon DEF IInv, TypeOK, BufOK
<1>2. StepFacts
  BY <1>1, EveryStep
<1>3. /\ FullText' = FullText /\ BufOK' = BufOK
      /\ Unread(parser.tail)' = Unread(parser'.tail)
      /\ Where(parser.tail)' = Where(parser'.tail)
      /\ \A C : Trimmed(parser.token.str, C)' = Trimmed(parser'.token.str, C)
      /\ AfterColon' <=>
           (parser'.state = "PS_COMMAND" /\ ~parser'.is_done => Anchored(Where(parser'.tail)))
      /\ ReportedLine' <=>
           (report'.kind = "token" => LineHasText(report', parser'.tail.ptr))
  BY SameText
<1>4. TypeOK'
  BY <1>1, <1>2, <1>3, Zenon DEF TypeOK, BufOK, StepFacts
<1>5. Unread(parser.tail)' /\ TokenIsRead'
  BY <1>2, <1>3, Zenon DEF StepFacts, TokenIsRead, End
<1>6. TokensWellFormed'
  BY <1>2, <1>3, Zenon DEF StepFacts, TokensWellFormed, Separators
<1>7. AbortsOnlyAtFinalDelim'
  BY <1>2, <1>3, Zenon DEF StepFacts, AbortsOnlyAtFinalDelim
<1>8. parser'.is_done \/ Measure' < Measure
  BY <1>2, Zenon DEF StepFacts, Measure, Bonus
<1>9. Position = Where(parser.tail) /\ Position' = Where(parser'.tail)
  BY <1>3, Zenon DEF Position, Where
<1>10. Position <= Position' /\ Covered(Position, Position', parser'.token.str)
  BY <1>2, <1>9, Zenon DEF StepFacts
<1>11. AfterColon' /\ ReportedLine'
  BY <1>2, <1>3, Zenon DEF StepFacts
<1>. QED
  BY <1>4, <1>5, <1>6, <1>7, <1>8, <1>10, <1>11, Zenon DEF IInv

LEMMA StutterInvariant ==
  ASSUME IInv, UNCHANGED vars
  PROVE  IInv'
BY ZenonT(60) DEF IInv, vars, TypeOK, Parser, Unread, Solid, TextEnd, FullText, TokenIsRead, Where,
       TokensWellFormed, Trimmed, Byte, AbortsOnlyAtFinalDelim,
       AfterColon, Anchored, ReportedLine, LineOf

LEMMA Inductive == IInv /\ [Next]_vars => IInv'
BY NextInvariant, StutterInvariant, Zenon DEF Next, Terminated

THEOREM Invariance == Spec => []IInv
BY InitInvariant, Inductive, PTL DEF Spec

\* fnmar_parser stays within its types on every file: no token kind, view or
\* report that the code has no case for.
THEOREM TypeCorrect == Spec => []TypeOK
<1>1. IInv => TypeOK
  BY Zenon DEF IInv
<1>. QED
  BY <1>1, Invariance, PTL

\* The unread input never runs over the end of the text, in a file of any
\* length, although a split can leave a literal behind in place of a suffix.
THEOREM TailSafe == Spec => []TailIsSuffix
<1>1. IInv => TailIsSuffix
  BY UnreadIsSuffix, Zenon DEF IInv
<1>. QED
  BY <1>1, Invariance, PTL

\* Every pattern and command that evaluate() is handed is non-empty, trimmed
\* and free of the separators that end it.
THEOREM TokensSafe == Spec => []TokensWellFormed
<1>1. IInv => TokensWellFormed
  BY Zenon DEF IInv
<1>. QED
  BY <1>1, Invariance, PTL

\* The assertions of find_file_pos can fail in one way only: on a file whose
\* last byte is a separator that stands where a pattern must.
THEOREM AbortsPinnedDown == Spec => []AbortsOnlyAtFinalDelim
<1>1. IInv => AbortsOnlyAtFinalDelim
  BY Zenon DEF IInv
<1>. QED
  BY <1>1, Invariance, PTL

\* The line a mistake is reported on has something on it, at or before the
\* reported column, although the position is that of what follows the mistake:
\* no line ends between the separator before the mistake and the position.
THEOREM ReportPointsAtText == Spec => []ReportedLine
<1>1. IInv => ReportedLine
  BY Zenon DEF IInv
<1>. QED
  BY <1>1, Invariance, PTL

\* Every call of fnmar_parser_next that does not finish the parse decreases
\* the measure, so evaluate()'s loop over the rules is bounded by the file.
THEOREM ParserProgresses == Spec => Progress
<1>1. IInv /\ [Next]_vars => [parser'.is_done \/ Measure' < Measure]_vars
  BY NextInvariant, Zenon DEF Next, Terminated
<1>. QED
  BY <1>1, Invariance, PTL DEF Spec, Progress

\* No call drops a byte that means something or reads one twice.
THEOREM ParserReadsEveryByte == Spec => ReadsEveryByte
<1>1. ASSUME IInv, Next, ~UNCHANGED vars
      PROVE  /\ Position <= Position'
             /\ \A p \in Position .. Position' - 1 :
                  \/ buf[p + 1] \in Space
                  \/ p \in parser'.token.str.ptr .. End(parser'.token.str) - 1
  BY <1>1, NextInvariant, Zenon DEF Next, Terminated, Covered
<1>2. IInv /\ [Next]_vars =>
        [/\ Position <= Position'
         /\ \A p \in Position .. Position' - 1 :
              \/ buf[p + 1] \in Space
              \/ p \in parser'.token.str.ptr .. End(parser'.token.str) - 1
        ]_vars
  BY <1>1, Zenon
<1>. QED
  BY <1>2, Invariance, PTL DEF Spec, ReadsEveryByte

-----------------------------------------------------------------------------
(* What the lexers read, by the grammar.                                   *)

\* The position in the text of what is unread.
At(t) == Where(t) + 1

LEMMA TextOfBuffer ==
  ASSUME BufOK
  PROVE  /\ Text \in Seq(STRING) /\ Len(Text) = Len(buf) - 1 /\ Len(Text) \in Nat
         /\ \A k \in 1 .. Len(Text) : Text[k] = buf[k]
<1>1. buf \in Seq(STRING) /\ Len(buf) \in Nat /\ Len(buf) > 0
      /\ \A k \in 1 .. Len(buf) : buf[k] \in STRING
  BY SMT DEF BufOK
<1>2. \A k \in 1 .. Len(buf) - 1 : buf[k] \in STRING
  BY <1>1, SMT
<1>3. /\ SubSeq(buf, 1, Len(buf) - 1) \in Seq(STRING)
      /\ Len(SubSeq(buf, 1, Len(buf) - 1)) = Len(buf) - 1
      /\ \A k \in 1 .. Len(buf) - 1 : SubSeq(buf, 1, Len(buf) - 1)[k] = buf[k]
  <2>. DEFINE n == Len(buf) - 1
              s == SubSeq(buf, 1, n)
  <2>1. 1 \in 1 .. Len(buf) + 1 /\ n \in 0 .. Len(buf) /\ n \in Nat
    BY <1>1, SMT
  <2>2. /\ s \in Seq(STRING)
        /\ Len(s) = IF 1 <= n THEN n - 1 + 1 ELSE 0
        /\ \A k \in 1 .. n - 1 + 1 : s[k] = buf[1 + k - 1]
    BY <1>1, <2>1, SubSeqProperties
  <2>. HIDE DEF s, n
  <2>3. Len(s) = n /\ \A k \in 1 .. n : k \in 1 .. n - 1 + 1 /\ 1 + k - 1 = k
    BY <2>1, <2>2, SMT
  <2>. QED
    BY <2>2, <2>3, Zenon DEF s, n
<1>4. Len(buf) - 1 \in Nat
  BY <1>1, SMT
<1>. QED
  BY <1>3, <1>4, Zenon DEF Text

\* A part of the text is that part of the buffer.
LEMMA PartOfBuffer ==
  ASSUME BufOK, NEW i \in 1 .. Len(Text), NEW j \in i .. Len(Text)
  PROVE  SubSeq(Text, i, j) = SubSeq(buf, i, j)
<1>1. /\ Text \in Seq(STRING) /\ Len(Text) = Len(buf) - 1 /\ Len(Text) \in Nat
      /\ \A k \in 1 .. Len(Text) : Text[k] = buf[k]
  BY TextOfBuffer
<1>2. buf \in Seq(STRING)
  BY DEF BufOK
<1>. DEFINE a == SubSeq(Text, i, j)
            b == SubSeq(buf, i, j)
<1>3. /\ a = [k \in 1 .. (1 + j - i) |-> Text[i + k - 1]]
      /\ b = [k \in 1 .. (1 + j - i) |-> buf[i + k - 1]]
  BY <1>1, <1>2, SMT
<1>4. \A k \in 1 .. (1 + j - i) : i + k - 1 \in 1 .. Len(Text)
  BY <1>1, SMT
<1>. QED
  BY <1>1, <1>3, <1>4, Zenon

LEMMA SameBytes ==
  /\ Blanks = Space /\ Stops = LineEnds \cup {NUL}
  /\ Cuts = {";"} \cup LineEnds /\ Filler = {";"} \cup Space
BY Zenon DEF Blanks, Space, Stops, LineEnds, NUL, Cuts, Filler

\* What holds of the bytes from one offset up to another holds in the text.
LEMMA RunInText ==
  ASSUME BufOK, NEW p \in 0 .. Len(Text), NEW q \in p .. Len(Text)
  PROVE  /\ p + 1 \in Places(Text) /\ q + 1 \in p + 1 .. Len(Text) + 1
         /\ (\A k \in p .. q - 1 : buf[k + 1] \in Space) => AllBlank(Text, p + 1, q + 1)
         /\ \A C : (\A k \in p .. q - 1 : buf[k + 1] \notin C) => Free(Text, p + 1, q + 1, C)
<1>1. /\ Len(Text) \in Nat /\ \A k \in 1 .. Len(Text) : Text[k] = buf[k]
  BY TextOfBuffer
<1>2. p + 1 \in Places(Text) /\ q + 1 \in p + 1 .. Len(Text) + 1
  BY <1>1, SMT DEF Places
<1>3. \A i \in p + 1 .. (q + 1) - 1 :
        i - 1 \in p .. q - 1 /\ (i - 1) + 1 = i /\ i \in 1 .. Len(Text)
  BY <1>1, SMT
<1>4. \A i \in p + 1 .. (q + 1) - 1 : Text[i] = buf[(i - 1) + 1]
  BY <1>1, <1>3, Zenon
<1>5. (\A k \in p .. q - 1 : buf[k + 1] \in Space) => AllBlank(Text, p + 1, q + 1)
  BY <1>3, <1>4, SameBytes, Zenon DEF AllBlank
<1>6. \A C : (\A k \in p .. q - 1 : buf[k + 1] \notin C) => Free(Text, p + 1, q + 1, C)
  BY <1>3, <1>4, Zenon DEF Free
<1>. QED
  BY <1>2, <1>5, <1>6

\* Past what the parser reads there are only blanks.
LEMMA BlankAtEnd ==
  ASSUME BufOK
  PROVE  /\ TextEnd \in 0 .. Len(Text) /\ TextEnd + 1 \in Places(Text)
         /\ AllBlank(Text, TextEnd + 1, Len(Text) + 1)
<1>. DEFINE r == sv_trim_whitespace(buf, FullText)
<1>1. TextEnd \in 0 .. Len(buf) - 1
  BY TextEndInBuffer
<1>2. Len(Text) = Len(buf) - 1 /\ Len(Text) \in Nat
  BY TextOfBuffer
<1>3. FullText \in View /\ FullText.ptr = 0 /\ End(FullText) = Len(buf) - 1
  BY SMT DEF BufOK, FullText, View, End
<1>4. \A p \in End(r) .. End(FullText) - 1 : buf[p + 1] \in Space
  BY <1>3, TrimContract, Zenon
<1>5. \A p \in TextEnd .. Len(Text) - 1 : buf[p + 1] \in Space
  BY <1>2, <1>3, <1>4, Zenon DEF TextEnd
<1>6. TextEnd \in 0 .. Len(Text) /\ Len(Text) \in TextEnd .. Len(Text)
  BY <1>1, <1>2, SMT
<1>. QED
  BY <1>5, <1>6, RunInText

\* Skipping blanks, by the positions in the text.
LEMMA SkipInText ==
  ASSUME BufOK, NEW view, Unread(view), NEW C \in SUBSET Space
  PROVE  LET input == sv_trim_left(buf, view, C)
         IN  /\ Unread(input)
             /\ At(view) \in Places(Text) /\ At(input) \in Places(Text)
             /\ At(input) \in At(view) .. Len(Text) + 1
             /\ AllBlank(Text, At(view), At(input))
             /\ Free(Text, At(view), At(input), STRING \ C)
             /\ input.len = 0 => /\ AllBlank(Text, At(view), Len(Text) + 1)
             /\ input.len > 0 => /\ Solid(input) /\ input.ptr \in Nat
                                 /\ At(input) = input.ptr + 1 /\ At(input) <= Len(Text)
                                 /\ Text[At(input)] = Byte(buf, input, 0)
                                 /\ Text[At(input)] \notin C
<1>. DEFINE input == sv_trim_left(buf, view, C)
<1>1. /\ input \in View /\ Unread(input)
      /\ Where(view) <= Where(input)
      /\ \A p \in Where(view) .. Where(input) - 1 : buf[p + 1] \in Space
      /\ \A p \in Where(view) .. Where(input) - 1 : buf[p + 1] \in C
      /\ input.len > 0 => Solid(input) /\ buf[input.ptr + 1] \notin C
      /\ Where(view) \in 0 .. TextEnd
  BY SkipBlanks
<1>. HIDE DEF input
<1>2. Where(input) \in 0 .. TextEnd /\ input.len \in Nat
  BY <1>1, UnreadFacts
<1>3. /\ TextEnd \in 0 .. Len(Text) /\ TextEnd + 1 \in Places(Text)
      /\ AllBlank(Text, TextEnd + 1, Len(Text) + 1)
  BY BlankAtEnd
<1>4. /\ Len(Text) \in Nat /\ \A k \in 1 .. Len(Text) : Text[k] = buf[k]
  BY TextOfBuffer
<1>5. Where(view) \in 0 .. Len(Text) /\ Where(input) \in Where(view) .. Len(Text)
      /\ Where(input) \in 0 .. Len(Text)
  BY <1>1, <1>2, <1>3, <1>4, SMT
<1>6. /\ At(view) \in Places(Text) /\ At(input) \in At(view) .. Len(Text) + 1
      /\ AllBlank(Text, At(view), At(input))
      /\ At(input) \in Places(Text)
  <2>1. /\ Where(view) + 1 \in Places(Text)
        /\ Where(input) + 1 \in Where(view) + 1 .. Len(Text) + 1
        /\ AllBlank(Text, Where(view) + 1, Where(input) + 1)
    BY <1>1, <1>5, RunInText
  <2>2. Where(input) + 1 \in Places(Text)
    BY <1>4, <1>5, SMT DEF Places
  <2>. QED
    BY <2>1, <2>2, Zenon DEF At
<1>7. Free(Text, At(view), At(input), STRING \ C)
  <2>1. \A k \in Where(view) .. Where(input) - 1 : buf[k + 1] \notin STRING \ C
    BY <1>1, Zenon
  <2>. QED
    BY <1>5, <2>1, RunInText, Zenon DEF At
<1>8. ASSUME input.len = 0
      PROVE  AllBlank(Text, At(view), Len(Text) + 1)
  <2>1. Where(input) = TextEnd
    BY <1>1, <1>2, <1>8, SMT DEF Unread, Solid, Where, View, End, str_empty, Literal
  <2>2. At(input) = TextEnd + 1
    BY <2>1, Zenon DEF At
  <2>3. \A i \in At(view) .. (Len(Text) + 1) - 1 :
          i \in At(view) .. At(input) - 1 \/ i \in TextEnd + 1 .. (Len(Text) + 1) - 1
    BY <1>3, <1>4, <1>6, <2>2, SMT DEF Places
  <2>. QED
    BY <1>3, <1>6, <2>3, Zenon DEF AllBlank
<1>9. ASSUME input.len > 0
      PROVE  /\ Solid(input) /\ input.ptr \in Nat
             /\ At(input) = input.ptr + 1 /\ At(input) <= Len(Text)
             /\ Text[At(input)] = Byte(buf, input, 0)
             /\ Text[At(input)] \notin C
  <2>1. Solid(input) /\ buf[input.ptr + 1] \notin C
    BY <1>1, <1>9, Zenon
  <2>2. input.ptr \in Nat /\ input.ptr + input.len = TextEnd
    BY <2>1, SMT DEF Solid, View, End
  <2>3. Where(input) = input.ptr
    BY <2>2, SMT DEF Where, Literal
  <2>4. At(input) = input.ptr + 1 /\ input.ptr + 0 + 1 = input.ptr + 1
    BY <2>2, <2>3, SMT DEF At
  <2>5. input.ptr + 1 \in 1 .. Len(Text) /\ input.ptr + 1 <= Len(Text)
    BY <1>2, <1>3, <1>4, <1>9, <2>2, SMT
  <2>6. Text[At(input)] = buf[input.ptr + 1]
    BY <1>4, <2>4, <2>5, Zenon
  <2>. QED
    BY <2>1, <2>2, <2>4, <2>5, <2>6, Zenon DEF Byte
<1>. QED
  BY <1>1, <1>6, <1>7, <1>8, <1>9, Zenon DEF input

\* Cutting a token off, by the positions in the text.
LEMMA CutInText ==
  ASSUME BufOK, NEW input, Solid(input), NEW D
  PROVE  LET split == sv_split_at_delims(buf, input, D)
             str   == sv_trim_whitespace(buf, split.head)
             k     == At(split.tail)
         IN  /\ Unread(split.tail) /\ str \in View
             /\ At(input) \in Places(Text) /\ k \in Places(Text)
             /\ k \in At(input) .. Len(Text) + 1
             /\ Free(Text, At(input), k, D \cup {NUL})
             /\ \/ k <= Len(Text) /\ Text[k] \in D \cup {NUL}
                \/ AllBlank(Text, k, Len(Text) + 1)
             /\ str.len = 0 => /\ k <= Len(Text) /\ Text[k] \in D \cup {NUL}
                               /\ AllBlank(Text, At(input), k)
             /\ str.len > 0 =>
                  \E i \in At(input) .. k - 1 : \E j \in i .. k - 1 :
                     /\ Content(buf, str) = SubSeq(Text, i, j)
                     /\ Content(buf, str) \in Seq(STRING) /\ Content(buf, str) # << >>
                     /\ Text[i] \notin Blanks /\ Text[j] \notin Blanks
                     /\ AllBlank(Text, At(input), i) /\ AllBlank(Text, j + 1, k)
<1>. DEFINE split == sv_split_at_delims(buf, input, D)
            str   == sv_trim_whitespace(buf, split.head)
            tail  == split.tail
            k     == At(split.tail)
<1>1. /\ Unread(tail)
      /\ input.ptr <= Where(tail)
      /\ str \in View /\ End(str) <= Where(tail)
      /\ Covered(input.ptr, Where(tail), str)
      /\ str.len > 0 => Trimmed(str, D)
      /\ str.len = 0 => tail.len > 0 /\ InText(tail.ptr)
      /\ input.ptr <= str.ptr
      /\ \A p \in input.ptr .. Where(tail) - 1 : buf[p + 1] \notin D \cup {NUL}
      /\ \/ InText(Where(tail)) /\ buf[Where(tail) + 1] \in D \cup {NUL}
         \/ Where(tail) = TextEnd
  BY CutToken
<1>. HIDE DEF split, str
<1>2. /\ TextEnd \in 0 .. Len(Text) /\ TextEnd + 1 \in Places(Text)
      /\ AllBlank(Text, TextEnd + 1, Len(Text) + 1)
  BY BlankAtEnd
<1>3. /\ Text \in Seq(STRING) /\ Len(Text) \in Nat /\ \A m \in 1 .. Len(Text) : Text[m] = buf[m]
      /\ Len(Text) = Len(buf) - 1
  BY TextOfBuffer
<1>4. /\ input.ptr \in Nat /\ input.len \in Nat /\ input.len > 0
      /\ input.ptr + input.len = TextEnd /\ Where(input) = input.ptr
  BY SMT DEF Solid, View, End, Where, Literal
<1>5. Where(tail) \in 0 .. TextEnd /\ tail.len \in Nat
  BY <1>1, UnreadFacts
<1>. DEFINE w == Where(tail)
<1>6. At(input) = input.ptr + 1 /\ k = w + 1
  BY <1>4, Zenon DEF At
<1>. HIDE DEF w, k, tail
<1>7. /\ input.ptr \in 0 .. Len(Text) /\ w \in input.ptr .. Len(Text) /\ w \in 0 .. Len(Text)
  BY <1>1, <1>2, <1>3, <1>4, <1>5, SMT DEF w
<1>8. /\ At(input) \in Places(Text) /\ k \in Places(Text)
      /\ k \in At(input) .. Len(Text) + 1
      /\ Free(Text, At(input), k, D \cup {NUL})
  <2>1. \A p \in input.ptr .. w - 1 : buf[p + 1] \notin D \cup {NUL}
    BY <1>1, Zenon DEF w
  <2>2. /\ input.ptr + 1 \in Places(Text)
        /\ w + 1 \in input.ptr + 1 .. Len(Text) + 1
        /\ Free(Text, input.ptr + 1, w + 1, D \cup {NUL})
    BY <1>7, <2>1, RunInText
  <2>3. w + 1 \in Places(Text)
    BY <1>3, <1>7, SMT DEF Places
  <2>. QED
    BY <1>6, <2>2, <2>3, Zenon
<1>9. InText(w) /\ buf[w + 1] \in D \cup {NUL} =>
        k <= Len(Text) /\ Text[k] \in D \cup {NUL}
  <2>1. InText(w) => k \in 1 .. Len(Text) /\ k <= Len(Text)
    BY <1>3, <1>6, <1>7, SMT DEF InText, FullText
  <2>. QED
    BY <1>3, <1>6, <2>1, Zenon
<1>10. \/ k <= Len(Text) /\ Text[k] \in D \cup {NUL}
       \/ AllBlank(Text, k, Len(Text) + 1)
  BY <1>1, <1>2, <1>6, <1>9, Zenon DEF w
<1>11. ASSUME str.len = 0
       PROVE  /\ k <= Len(Text) /\ Text[k] \in D \cup {NUL}
              /\ AllBlank(Text, At(input), k)
  <2>1. w # TextEnd
    <3>1. tail.len > 0
      BY <1>1, <1>11, Zenon
    <3>. QED
      BY <1>1, <1>5, <3>1, SMT DEF Unread, Solid, Where, View, End, str_empty, Literal, w
  <2>2. k <= Len(Text) /\ Text[k] \in D \cup {NUL}
    BY <1>1, <1>9, <2>1, Zenon DEF w
  <2>3. \A p : p \notin str.ptr .. End(str) - 1
    BY <1>1, <1>11, SMT DEF View, End
  <2>4. \A p \in input.ptr .. w - 1 : buf[p + 1] \in Space
    BY <1>1, <2>3, Zenon DEF Covered, w
  <2>. QED
    BY <1>6, <1>7, <2>2, <2>4, RunInText, Zenon
<1>12. ASSUME str.len > 0
       PROVE  \E i \in At(input) .. k - 1 : \E j \in i .. k - 1 :
                 /\ Content(buf, str) = SubSeq(Text, i, j)
                 /\ Content(buf, str) \in Seq(STRING) /\ Content(buf, str) # << >>
                 /\ Text[i] \notin Blanks /\ Text[j] \notin Blanks
                 /\ AllBlank(Text, At(input), i) /\ AllBlank(Text, j + 1, k)
  <2>. DEFINE i == str.ptr + 1
              j == str.ptr + str.len
  <2>1. /\ Byte(buf, str, 0) \notin Space /\ Byte(buf, str, str.len - 1) \notin Space
    BY <1>1, <1>12, Zenon DEF Trimmed
  <2>2. /\ str.ptr \in Nat /\ str.len \in Nat /\ End(str) = str.ptr + str.len
        /\ input.ptr <= str.ptr /\ str.ptr + str.len <= w
    BY <1>1, <1>4, SMT DEF View, End, w
  <2>3. /\ i \in At(input) .. k - 1 /\ j \in i .. k - 1
        /\ i \in 1 .. Len(Text) /\ j \in i .. Len(Text) /\ j \in 1 .. Len(Text)
        /\ str.ptr + 0 + 1 = i /\ str.ptr + (str.len - 1) + 1 = j
        /\ str.ptr \in input.ptr .. Len(Text) /\ j \in 0 .. Len(Text) /\ w \in j .. Len(Text)
    <3>. DEFINE a == input.ptr
                b == str.ptr
                c == str.len
                n == Len(Text)
    <3>1. a \in Nat /\ b \in Nat /\ c \in Nat /\ c > 0 /\ w \in Nat /\ n \in Nat
          /\ a <= b /\ b + c <= w /\ w <= n
      BY <1>3, <1>4, <1>7, <1>12, <2>2, SMT
    <3>. HIDE DEF a, b, c, n, i, j
    <3>2. i = b + 1 /\ j = b + c
      BY DEF i, j, b, c
    <3>3. /\ i \in a + 1 .. (w + 1) - 1 /\ j \in i .. (w + 1) - 1
          /\ i \in 1 .. n /\ j \in i .. n /\ j \in 1 .. n
          /\ b + 0 + 1 = i /\ b + (c - 1) + 1 = j
          /\ b \in a .. n /\ j \in 0 .. n /\ w \in j .. n
      BY <3>1, <3>2, SMT
    <3>. QED
      BY <1>6, <3>3, Zenon DEF a, b, c, n
  <2>4. Text[i] \notin Blanks /\ Text[j] \notin Blanks
    BY <1>3, <2>1, <2>3, SameBytes, Zenon DEF Byte
  <2>5. Content(buf, str) = SubSeq(Text, i, j)
    BY <2>3, PartOfBuffer, Zenon DEF Content
  <2>6. SubSeq(Text, i, j) \in Seq(STRING) /\ SubSeq(Text, i, j) # << >>
    BY <1>3, <2>3, PartIsText, Zenon
  <2>7. /\ \A p \in input.ptr .. str.ptr - 1 : p \in input.ptr .. w - 1 /\ p \notin str.ptr .. End(str) - 1
        /\ \A p \in j .. w - 1 : p \in input.ptr .. w - 1 /\ p \notin str.ptr .. End(str) - 1
    BY <1>4, <1>7, <1>12, <2>2, SMT
  <2>8. /\ \A p \in input.ptr .. str.ptr - 1 : buf[p + 1] \in Space
        /\ \A p \in j .. w - 1 : buf[p + 1] \in Space
    BY <1>1, <2>7, Zenon DEF Covered, w
  <2>9. AllBlank(Text, At(input), i) /\ AllBlank(Text, j + 1, k)
    BY <1>6, <1>7, <2>3, <2>8, RunInText, Zenon
  <2>. QED
    BY <2>3, <2>4, <2>5, <2>6, <2>9, Zenon
<1>. QED
  BY <1>1, <1>8, <1>10, <1>11, <1>12, Zenon DEF k, split, str, tail

\* Input that a pattern may be read from, and what is left of the rules there.
Ready(t) == /\ Solid(t) /\ At(t) \in Places(Text) /\ At(t) <= Len(Text)
            /\ Text[At(t)] \notin Blanks
OnPattern(text, pats, p) ==
  IF text[p] \in {";", ":"} THEN << Malformed >> ELSE OnHeader(text, pats, p)

\* Skipping blanks from input that begins with none goes nowhere.
LEMMA SkipReady ==
  ASSUME BufOK, NEW view, Unread(view), Ready(view), NEW C \in SUBSET Space
  PROVE  LET input == sv_trim_left(buf, view, C)
         IN  input.len # 0 /\ Solid(input) /\ At(input) = At(view)
<1>. DEFINE input == sv_trim_left(buf, view, C)
            a == At(view)
            b == At(input)
<1>1. /\ Unread(input) /\ b \in a .. Len(Text) + 1
      /\ AllBlank(Text, a, b)
      /\ input.len = 0 => AllBlank(Text, a, Len(Text) + 1)
      /\ input.len > 0 => Solid(input)
  BY SkipInText
<1>2. a \in Places(Text) /\ a <= Len(Text) /\ Text[a] \notin Blanks
  BY Zenon DEF Ready
<1>3. input.len \in Nat
  BY <1>1, UnreadFacts
<1>. HIDE DEF input, a, b
<1>4. a \notin a .. b - 1 /\ ~AllBlank(Text, a, Len(Text) + 1)
  <2>1. a \in a .. (Len(Text) + 1) - 1
    BY <1>2, SMT DEF Places
  <2>. QED
    BY <1>1, <1>2, <2>1, Zenon DEF AllBlank
<1>5. b = a
  BY <1>1, <1>2, <1>4, SMT DEF Places
<1>6. input.len # 0 /\ input.len > 0
  BY <1>1, <1>3, <1>4, SMT
<1>. QED
  BY <1>1, <1>5, <1>6, Zenon DEF input, a, b

\* At the start of a line.
LEMMA LineStartMeans ==
  ASSUME BufOK, NEW view, Unread(view)
  PROVE  LET lex == parse_line_start(view)
             p   == At(view)
             k   == At(lex.tail)
         IN  /\ lex.kind = "TOK_EOF" => RulesFrom(Text, p) = << >>
             /\ lex.kind = "TOK_COMMENT" => RulesFrom(Text, p) = RulesFrom(Text, k)
             /\ lex.kind = "TOK_NONE" =>
                  Ready(lex.tail) /\ RulesFrom(Text, p) = OnPattern(Text, {}, k)
<1>. DEFINE input == sv_trim_left(buf, view, Space)
            split == sv_split_at_delims(buf, input, LineEnds)
            lex   == parse_line_start(view)
            p     == At(view)
            m     == At(input)
<1>1. /\ p \in Places(Text) /\ m \in Places(Text) /\ m \in p .. Len(Text) + 1
      /\ AllBlank(Text, p, m)
      /\ input.len = 0 => AllBlank(Text, p, Len(Text) + 1)
      /\ input.len > 0 => /\ Solid(input) /\ m <= Len(Text)
                          /\ Text[m] = Byte(buf, input, 0) /\ Text[m] \notin Space
  BY SkipInText
<1>2. input.len \in Nat
  BY SkipInText, UnreadFacts
<1>3. Text \in Seq(STRING)
  BY TextOfBuffer
<1>. HIDE DEF input, p, m
<1>4. lex = IF input.len = 0 THEN Lexed("TOK_EOF", str_zero, input)
            ELSE IF Byte(buf, input, 0) = "#"
                 THEN Lexed("TOK_COMMENT", split.head, split.tail)
                 ELSE Lexed("TOK_NONE", str_zero, input)
  BY Zenon DEF parse_line_start, input
<1>. HIDE DEF lex
<1>5. RulesFrom(Text, p) = RulesFrom(Text, m)
  BY <1>1, <1>3, RulesSkip
<1>6. ASSUME lex.kind = "TOK_EOF" PROVE RulesFrom(Text, p) = << >>
  <2>1. input.len = 0
    BY <1>4, <1>6 DEF Lexed
  <2>. QED
    BY <1>1, <1>3, <2>1, RulesEnd
<1>7. ASSUME input.len # 0
      PROVE  /\ input.len > 0 /\ Solid(input) /\ m <= Len(Text)
             /\ Text[m] = Byte(buf, input, 0) /\ Text[m] \notin Blanks
  <2>1. input.len > 0
    BY <1>2, <1>7, SMT
  <2>. QED
    BY <1>1, <2>1, SameBytes, Zenon
<1>8. ASSUME lex.kind = "TOK_COMMENT" PROVE RulesFrom(Text, p) = RulesFrom(Text, At(lex.tail))
  <2>1. input.len # 0 /\ Byte(buf, input, 0) = "#" /\ lex.tail = split.tail
    BY <1>4, <1>8 DEF Lexed
  <2>. DEFINE k == At(split.tail)
  <2>2. /\ k \in m .. Len(Text) + 1
        /\ Free(Text, m, k, LineEnds \cup {NUL})
        /\ \/ k <= Len(Text) /\ Text[k] \in LineEnds \cup {NUL}
           \/ AllBlank(Text, k, Len(Text) + 1)
    BY <1>7, <2>1, CutInText DEF m
  <2>. HIDE DEF k
  <2>3. /\ Free(Text, m, k, Stops)
        /\ (k <= Len(Text) /\ Text[k] \in Stops) \/ AllBlank(Text, k, Len(Text) + 1)
    BY <2>2, SameBytes, Zenon
  <2>4. RulesFrom(Text, m) = RulesFrom(Text, k)
    BY <1>1, <1>3, <1>7, <2>1, <2>2, <2>3, RulesComment
  <2>. QED
    BY <1>5, <2>1, <2>4, Zenon DEF k
<1>9. ASSUME lex.kind = "TOK_NONE"
      PROVE  Ready(lex.tail) /\ RulesFrom(Text, p) = OnPattern(Text, {}, At(lex.tail))
  <2>1. input.len # 0 /\ Byte(buf, input, 0) # "#" /\ lex.tail = input
    BY <1>4, <1>9 DEF Lexed
  <2>2. Ready(input)
    BY <1>1, <1>7, <2>1, Zenon DEF Ready, m
  <2>3. RulesFrom(Text, m) = IF Text[m] = "#" THEN RulesFrom(Text, FirstOf(Text, m, Stops))
                             ELSE IF Text[m] \in {";", ":"} THEN << Malformed >>
                             ELSE OnHeader(Text, {}, m)
    BY <1>1, <1>3, <1>7, <2>1, RulesStart
  <2>. QED
    BY <1>5, <1>7, <2>1, <2>2, <2>3, Zenon DEF OnPattern, m
<1>. QED
  BY <1>6, <1>8, <1>9, Zenon DEF lex, p

\* In a header, after a pattern or a ';'.
LEMMA DelimMeans ==
  ASSUME BufOK, NEW view, Unread(view), NEW pats
  PROVE  LET lex == parse_pattern_delim(view)
             p   == At(view)
             k   == At(lex.tail)
         IN  /\ lex.kind = "TOK_EOF" => OnHeader(Text, pats, p) = << Malformed >>
             /\ lex.kind = "TOK_NONE" =>
                  Ready(lex.tail) /\ OnHeader(Text, pats, p) = OnPattern(Text, pats, k)
             /\ lex.kind = "TOK_SEMI" => OnHeader(Text, pats, p) = OnHeader(Text, pats, k)
             /\ lex.kind = "TOK_COLON" => OnHeader(Text, pats, p) = OnCommand(Text, pats, k)
<1>. DEFINE input == sv_trim_left(buf, view, Space)
            kind  == get_delim_kind(Byte(buf, input, 0))
            lex   == parse_pattern_delim(view)
            p     == At(view)
            m     == At(input)
<1>1. /\ p \in Places(Text) /\ m \in Places(Text) /\ m \in p .. Len(Text) + 1
      /\ AllBlank(Text, p, m)
      /\ input.len = 0 => AllBlank(Text, p, Len(Text) + 1)
      /\ input.len > 0 => /\ Solid(input) /\ input.ptr \in Nat /\ m = input.ptr + 1
                          /\ m <= Len(Text)
                          /\ Text[m] = Byte(buf, input, 0) /\ Text[m] \notin Space
  BY SkipInText
<1>2. input.len \in Nat
  BY SkipInText, UnreadFacts
<1>3. Text \in Seq(STRING)
  BY TextOfBuffer
<1>. HIDE DEF input, p, m
<1>4. lex = IF input.len = 0 THEN Lexed("TOK_EOF", str_zero, input)
            ELSE IF kind = "TOK_NONE" THEN Lexed(kind, str_zero, input)
                                      ELSE Lexed(kind, Take(input, 1), Drop(input, 1))
  BY Zenon DEF parse_pattern_delim, input
<1>. HIDE DEF lex
<1>5. OnHeader(Text, pats, p) = OnHeader(Text, pats, m)
  <2>1. \A i \in p .. m - 1 : Text[i] \in Filler
    BY <1>1, Zenon DEF AllBlank, Filler
  <2>. QED
    BY <1>1, <1>3, <2>1, HeaderSkip
<1>6. ASSUME input.len # 0
      PROVE  /\ input.len > 0 /\ Solid(input) /\ m <= Len(Text) /\ Text[m] \notin Blanks
             /\ input.ptr \in Nat /\ m = input.ptr + 1
             /\ kind = get_delim_kind(Text[m])
  <2>1. input.len > 0
    BY <1>2, <1>6, SMT
  <2>. QED
    BY <1>1, <2>1, SameBytes, Zenon
<1>7. /\ kind = "TOK_NONE" \/ kind = "TOK_SEMI" \/ kind = "TOK_COLON"
      /\ kind = "TOK_NONE" => Byte(buf, input, 0) # ";" /\ Byte(buf, input, 0) # ":"
      /\ kind = "TOK_SEMI" => Byte(buf, input, 0) = ";"
      /\ kind = "TOK_COLON" => Byte(buf, input, 0) = ":"
  <2>. DEFINE c == Byte(buf, input, 0)
  <2>. HIDE DEF c
  <2>1. \/ c = ";" /\ get_delim_kind(c) = "TOK_SEMI"
        \/ c = ":" /\ get_delim_kind(c) = "TOK_COLON"
        \/ c # ";" /\ c # ":" /\ get_delim_kind(c) = "TOK_NONE"
    <3>1. c = ";" => get_delim_kind(c) = "TOK_SEMI"
      BY DEF get_delim_kind
    <3>2. c = ":" => get_delim_kind(c) = "TOK_COLON"
      BY DEF get_delim_kind
    <3>3. c # ";" /\ c # ":" => get_delim_kind(c) = "TOK_NONE"
      BY DEF get_delim_kind
    <3>. QED
      BY <3>1, <3>2, <3>3, Zenon
  <2>. QED
    BY <2>1 DEF c, kind
<1>. HIDE DEF kind
<1>8. ASSUME lex.kind = "TOK_EOF" PROVE OnHeader(Text, pats, p) = << Malformed >>
  <2>1. input.len # 0 => lex.kind = kind
    BY <1>4 DEF Lexed
  <2>0. input.len = 0
    BY <1>7, <1>8, <2>1
  <2>2. ":" \notin Blanks
    BY DEF Blanks
  <2>3. Free(Text, p, Len(Text) + 1, {":"})
    BY <1>1, <2>0, <2>2, Zenon DEF AllBlank, Free
  <2>. QED
    BY <1>1, <1>3, <2>3, HeaderNoColon
<1>9. ASSUME lex.kind = "TOK_NONE"
      PROVE  Ready(lex.tail) /\ OnHeader(Text, pats, p) = OnPattern(Text, pats, At(lex.tail))
  <2>1. input.len # 0 /\ kind = "TOK_NONE" /\ lex.tail = input
    BY <1>4, <1>7, <1>9 DEF Lexed
  <2>2. Ready(input)
    BY <1>1, <1>6, <2>1, Zenon DEF Ready, m
  <2>3. Text[m] \notin {";", ":"}
    <3>1. input.len > 0
      BY <1>6, <2>1
    <3>. QED
      BY <1>1, <1>7, <2>1, <3>1, Zenon
  <2>. QED
    BY <1>5, <2>1, <2>2, <2>3, Zenon DEF OnPattern, m
<1>10. ASSUME input.len # 0, kind # "TOK_NONE"
       PROVE  /\ lex.kind = kind /\ At(lex.tail) = m + 1 /\ m + 1 \in m .. Len(Text) + 1
              /\ Text[m] = Byte(buf, input, 0)
  <2>1. lex.kind = kind /\ lex.tail = Drop(input, 1)
    BY <1>4, <1>10 DEF Lexed
  <2>2. lex.tail.ptr = input.ptr + 1
    BY <2>1 DEF Drop
  <2>3. Where(lex.tail) = input.ptr + 1
    BY <1>6, <1>10, <2>2, SMT DEF Where, Literal
  <2>4. At(lex.tail) = m + 1
    BY <1>6, <1>10, <2>3, Zenon DEF At
  <2>5. m + 1 \in m .. Len(Text) + 1
    BY <1>1, <1>6, <1>10, SMT DEF Places
  <2>. QED
    BY <1>1, <1>6, <1>10, <2>1, <2>4, <2>5, Zenon
<1>11. ASSUME lex.kind = "TOK_SEMI"
       PROVE  OnHeader(Text, pats, p) = OnHeader(Text, pats, At(lex.tail))
  <2>1. input.len # 0 /\ kind = "TOK_SEMI"
    BY <1>4, <1>7, <1>11 DEF Lexed
  <2>2. At(lex.tail) = m + 1 /\ m + 1 \in m .. Len(Text) + 1 /\ Text[m] = ";"
    BY <1>7, <1>10, <2>1, Zenon
  <2>3. \A i \in m .. (m + 1) - 1 : i = m
    BY <1>1, SMT DEF Places
  <2>4. \A i \in m .. (m + 1) - 1 : Text[i] \in Filler
    BY <2>2, <2>3, Zenon DEF Filler
  <2>5. OnHeader(Text, pats, m) = OnHeader(Text, pats, m + 1)
    BY <1>1, <1>3, <2>2, <2>4, HeaderSkip, ZenonT(40)
  <2>. QED
    BY <1>5, <2>2, <2>5, Zenon
<1>12. ASSUME lex.kind = "TOK_COLON"
       PROVE  OnHeader(Text, pats, p) = OnCommand(Text, pats, At(lex.tail))
  <2>1. input.len # 0 /\ kind = "TOK_COLON"
    BY <1>4, <1>7, <1>12 DEF Lexed
  <2>2. At(lex.tail) = m + 1 /\ Text[m] = ":"
    BY <1>7, <1>10, <2>1, Zenon
  <2>3. OnHeader(Text, pats, m) = OnCommand(Text, pats, m + 1)
    BY <1>1, <1>3, <1>6, <2>1, <2>2, HeaderColon
  <2>. QED
    BY <1>5, <2>2, <2>3, Zenon
<1>. QED
  BY <1>8, <1>9, <1>11, <1>12, Zenon DEF lex, p

\* In a header, where a pattern is wanted.
LEMMA PatternMeans ==
  ASSUME BufOK, NEW view, Unread(view), Ready(view), NEW pats
  PROVE  LET lex == parse_pattern(view)
             p   == At(view)
             tok == Content(buf, lex.str)
         IN  /\ lex.kind = "TOK_PATTERN" =>
                  /\ tok \in Seq(STRING) /\ tok # << >>
                  /\ OnPattern(Text, pats, p) = OnHeader(Text, pats \cup {tok}, At(lex.tail))
             /\ lex.kind # "TOK_PATTERN" => OnPattern(Text, pats, p) = << Malformed >>
<1>. DEFINE input == sv_trim_left(buf, view, Space)
            split == sv_split_at_delims(buf, input, Separators)
            str   == sv_trim_whitespace(buf, split.head)
            lex   == parse_pattern(view)
            p     == At(view)
            k     == At(split.tail)
<1>1. input.len # 0 /\ Solid(input) /\ At(input) = p
  BY SkipReady
<1>2. p \in Places(Text) /\ p <= Len(Text) /\ Text[p] \notin Blanks
  BY Zenon DEF Ready
<1>3. Text \in Seq(STRING)
  BY TextOfBuffer
<1>. HIDE DEF input, p
<1>4. /\ k \in p .. Len(Text) + 1 /\ str \in View
      /\ Free(Text, p, k, Separators \cup {NUL})
      /\ \/ k <= Len(Text) /\ Text[k] \in Separators \cup {NUL}
         \/ AllBlank(Text, k, Len(Text) + 1)
      /\ str.len = 0 => /\ k <= Len(Text) /\ Text[k] \in Separators \cup {NUL}
                        /\ AllBlank(Text, p, k)
      /\ str.len > 0 =>
           \E i \in p .. k - 1 : \E j \in i .. k - 1 :
              /\ Content(buf, str) = SubSeq(Text, i, j)
              /\ Content(buf, str) \in Seq(STRING) /\ Content(buf, str) # << >>
              /\ Text[i] \notin Blanks /\ Text[j] \notin Blanks
              /\ AllBlank(Text, p, i) /\ AllBlank(Text, j + 1, k)
  BY <1>1, CutInText
<1>. HIDE DEF split, str, k
<1>5. lex = IF str.len > 0 THEN Lexed("TOK_PATTERN", str, split.tail)
                          ELSE parse_pattern_delim(input)
  BY <1>1, Zenon DEF parse_pattern, input, split, str, Separators
<1>. HIDE DEF lex
<1>6. parse_pattern_delim(input).kind # "TOK_PATTERN"
  <2>1. Contract(input, parse_pattern_delim(input), DelimKinds)
    BY <1>1, DelimContract, Zenon DEF Unread
  <2>. QED
    BY <2>1 DEF Contract, DelimKinds
<1>7. ASSUME lex.kind # "TOK_PATTERN"
      PROVE  OnPattern(Text, pats, p) = << Malformed >>
  <2>1. ~(str.len > 0)
    BY <1>5, <1>7 DEF Lexed
  <2>2. str.len = 0
    BY <1>4, <2>1, SMT DEF View
  <2>3. k = p
    <3>1. p \notin p .. k - 1
      BY <1>2, <1>4, <2>2, Zenon DEF AllBlank
    <3>. QED
      BY <1>2, <1>4, <3>1, SMT DEF Places
  <2>4. Text[p] \in {";", ":"} \/ Text[p] = "NUL"
    BY <1>2, <1>4, <2>2, <2>3, Zenon DEF Separators, LineEnds, Blanks, NUL
  <2>5. Text[p] = "NUL" => OnHeader(Text, pats, p) = << Malformed >>
    BY <1>2, <1>3, HeaderNul
  <2>. QED
    BY <2>4, <2>5, Zenon DEF OnPattern
<1>8. ASSUME lex.kind = "TOK_PATTERN"
      PROVE  LET tok == Content(buf, lex.str)
             IN  /\ tok \in Seq(STRING) /\ tok # << >>
                 /\ OnPattern(Text, pats, p) = OnHeader(Text, pats \cup {tok}, At(lex.tail))
  <2>1. str.len > 0 /\ lex.str = str /\ lex.tail = split.tail
    BY <1>5, <1>6, <1>8 DEF Lexed
  <2>2. PICK i \in p .. k - 1 : \E j \in i .. k - 1 :
              /\ Content(buf, str) = SubSeq(Text, i, j)
              /\ Content(buf, str) \in Seq(STRING) /\ Content(buf, str) # << >>
              /\ Text[i] \notin Blanks /\ Text[j] \notin Blanks
              /\ AllBlank(Text, p, i) /\ AllBlank(Text, j + 1, k)
    BY <1>4, <2>1, Zenon
  <2>9. PICK j \in i .. k - 1 :
              /\ Content(buf, str) = SubSeq(Text, i, j)
              /\ Content(buf, str) \in Seq(STRING) /\ Content(buf, str) # << >>
              /\ Text[i] \notin Blanks /\ Text[j] \notin Blanks
              /\ AllBlank(Text, p, i) /\ AllBlank(Text, j + 1, k)
    BY <2>2
  <2>3. /\ Separators \cup {NUL} = PatternEnds
        /\ Cuts \subseteq Separators
    BY Zenon DEF Separators, LineEnds, NUL, Cuts, PatternEnds
  <2>4. p \in p .. k - 1
    <3>1. p \in Places(Text) /\ k \in p .. Len(Text) + 1 /\ Len(Text) \in Nat
      BY <1>2, <1>4, TextOfBuffer, Zenon
    <3>. QED
      BY <3>1, SMT DEF Places
  <2>5. Text[p] \notin {";", ":"}
    BY <1>4, <2>4, Zenon DEF Free, Separators
  <2>6. OnePiece(Text, p, k - 1) /\ Free(Text, p, k, {":", "NUL"})
    BY <1>4, <2>3, Zenon DEF Free, OnePiece, PatternEnds
  <2>7. \/ k <= Len(Text) /\ Text[k] \in PatternEnds
        \/ AllBlank(Text, k, Len(Text) + 1)
    BY <1>4, <2>3, Zenon
  <2>8. OnHeader(Text, pats, p) = OnHeader(Text, pats \cup {SubSeq(Text, i, j)}, k)
    <3>1. /\ k \in p .. Len(Text) + 1 /\ p \in Places(Text)
          /\ Text[i] \notin Blanks /\ Text[j] \notin Blanks
          /\ AllBlank(Text, p, i) /\ AllBlank(Text, j + 1, k)
      BY <1>2, <1>4, <2>9, Zenon
    <3>. QED
      BY <1>3, <3>1, <2>6, <2>7, HeaderToken
  <2>. QED
    BY <2>1, <2>9, <2>5, <2>8, Zenon DEF OnPattern, k
<1>. QED
  BY <1>7, <1>8, Zenon DEF lex, p

\* After the ':'.
LEMMA CommandMeans ==
  ASSUME BufOK, NEW view, Unread(view), NEW pats
  PROVE  LET lex == parse_command(view)
             p   == At(view)
             tok == Content(buf, lex.str)
         IN  /\ lex.kind = "TOK_CMD" =>
                  /\ tok \in Seq(STRING) /\ tok # << >>
                  /\ OnCommand(Text, pats, p) =
                       << [pats |-> pats, cmd |-> tok] >> \o RulesFrom(Text, At(lex.tail))
             /\ lex.kind # "TOK_CMD" => OnCommand(Text, pats, p) = << Malformed >>
<1>. DEFINE input == sv_trim_left(buf, view, {" "})
            split == sv_split_at_delims(buf, input, LineEnds)
            str   == sv_trim_whitespace(buf, split.head)
            lex   == parse_command(view)
            p     == At(view)
            m     == At(input)
            k     == At(split.tail)
<1>0. {" "} \in SUBSET Space
  BY Zenon DEF Space
<1>1. /\ p \in Places(Text) /\ m \in Places(Text) /\ m \in p .. Len(Text) + 1
      /\ AllBlank(Text, p, m) /\ Free(Text, p, m, STRING \ {" "})
      /\ input.len = 0 => AllBlank(Text, p, Len(Text) + 1)
      /\ input.len > 0 => Solid(input)
  BY <1>0, SkipInText
<1>2. input.len \in Nat
  BY <1>0, SkipInText, UnreadFacts
<1>3. Text \in Seq(STRING)
  BY TextOfBuffer
<1>. HIDE DEF input, p, m
<1>a. p \in Places(Text) /\ m \in Places(Text) /\ m \in p .. Len(Text) + 1
  BY <1>1, Zenon
<1>b. Len(Text) \in Nat
  BY <1>3, SMT
<1>4. lex = IF input.len = 0 THEN Lexed("TOK_EOF", str_zero, input)
            ELSE Lexed(IF str.len > 0 THEN "TOK_CMD" ELSE "TOK_NONE", str, split.tail)
  BY Zenon DEF parse_command, input
<1>5. ASSUME input.len # 0
      PROVE  /\ k \in m .. Len(Text) + 1 /\ k \in p .. Len(Text) + 1 /\ str \in View
             /\ Free(Text, m, k, Stops)
             /\ \/ k <= Len(Text) /\ Text[k] \in Stops
                \/ AllBlank(Text, k, Len(Text) + 1)
             /\ str.len = 0 => /\ k <= Len(Text) /\ Text[k] \in Stops
                               /\ AllBlank(Text, m, k)
             /\ str.len > 0 =>
                  \E i \in m .. k - 1 : \E j \in i .. k - 1 :
                     /\ Content(buf, str) = SubSeq(Text, i, j)
                     /\ Content(buf, str) \in Seq(STRING) /\ Content(buf, str) # << >>
                     /\ Text[i] \notin Blanks /\ Text[j] \notin Blanks
                     /\ AllBlank(Text, m, i) /\ AllBlank(Text, j + 1, k)
  <2>0. input.len > 0
    BY <1>2, <1>5, SMT
  <2>1. Solid(input)
    BY <1>1, <2>0, Zenon
  <2>2. /\ k \in m .. Len(Text) + 1 /\ str \in View
        /\ Free(Text, m, k, LineEnds \cup {NUL})
        /\ \/ k <= Len(Text) /\ Text[k] \in LineEnds \cup {NUL}
           \/ AllBlank(Text, k, Len(Text) + 1)
        /\ str.len = 0 => /\ k <= Len(Text) /\ Text[k] \in LineEnds \cup {NUL}
                          /\ AllBlank(Text, m, k)
        /\ str.len > 0 =>
             \E i \in m .. k - 1 : \E j \in i .. k - 1 :
                /\ Content(buf, str) = SubSeq(Text, i, j)
                /\ Content(buf, str) \in Seq(STRING) /\ Content(buf, str) # << >>
                /\ Text[i] \notin Blanks /\ Text[j] \notin Blanks
                /\ AllBlank(Text, m, i) /\ AllBlank(Text, j + 1, k)
    BY <2>1, CutInText DEF m
  <2>. HIDE DEF k, str
  <2>4. k \in m .. Len(Text) + 1
    BY <2>2, Zenon
  <2>3. k \in p .. Len(Text) + 1
    BY <1>a, <1>b, <2>4, SMT DEF Places
  <2>. QED
    BY <2>2, <2>3, SameBytes, Zenon
<1>. HIDE DEF split, str, k, lex
<1>6. ASSUME lex.kind # "TOK_CMD"
      PROVE  OnCommand(Text, pats, p) = << Malformed >>
  <2>1. CASE input.len = 0
    <3>1. Len(Text) + 1 \in p .. Len(Text) + 1 /\ ~(Len(Text) + 1 <= Len(Text))
      BY <1>a, <1>b, SMT DEF Places
    <3>. QED
      BY <1>1, <1>3, <2>1, <3>1, CommandBlank
  <2>2. CASE input.len # 0
    <3>1. ~(str.len > 0)
      BY <1>4, <1>6, <2>2 DEF Lexed
    <3>2. str.len = 0
      BY <1>5, <2>2, <3>1, SMT DEF View
    <3>3. \A i \in p .. k - 1 : i \in p .. m - 1 \/ i \in m .. k - 1
      BY <1>a, SMT DEF Places
    <3>4. AllBlank(Text, p, k)
      BY <1>1, <1>5, <2>2, <3>2, <3>3, Zenon DEF AllBlank
    <3>. QED
      BY <1>1, <1>3, <1>5, <2>2, <3>2, <3>4, CommandBlank
  <2>. QED
    BY <2>1, <2>2
<1>7. ASSUME lex.kind = "TOK_CMD"
      PROVE  LET tok == Content(buf, lex.str)
             IN  /\ tok \in Seq(STRING) /\ tok # << >>
                 /\ OnCommand(Text, pats, p) =
                      << [pats |-> pats, cmd |-> tok] >> \o RulesFrom(Text, At(lex.tail))
  <2>1. input.len # 0 /\ str.len > 0 /\ lex.str = str /\ lex.tail = split.tail
    BY <1>4, <1>7 DEF Lexed
  <2>2. PICK i \in m .. k - 1 : \E j \in i .. k - 1 :
              /\ Content(buf, str) = SubSeq(Text, i, j)
              /\ Content(buf, str) \in Seq(STRING) /\ Content(buf, str) # << >>
              /\ Text[i] \notin Blanks /\ Text[j] \notin Blanks
              /\ AllBlank(Text, m, i) /\ AllBlank(Text, j + 1, k)
    BY <1>5, <2>1, Zenon
  <2>9. PICK j \in i .. k - 1 :
              /\ Content(buf, str) = SubSeq(Text, i, j)
              /\ Content(buf, str) \in Seq(STRING) /\ Content(buf, str) # << >>
              /\ Text[i] \notin Blanks /\ Text[j] \notin Blanks
              /\ AllBlank(Text, m, i) /\ AllBlank(Text, j + 1, k)
    BY <2>2
  <2>3. /\ i \in p .. k - 1
        /\ \A q \in p .. i - 1 : q \in p .. m - 1 \/ q \in m .. i - 1
        /\ \A q \in p .. k - 1 : q \in p .. m - 1 \/ q \in m .. k - 1
        /\ \A q \in p .. m - 1 : q \in 1 .. Len(Text)
    BY <1>a, <1>b, SMT DEF Places
  <2>4. AllBlank(Text, p, i)
    BY <1>1, <2>9, <2>3, Zenon DEF AllBlank
  <2>5. \A q \in p .. m - 1 : Text[q] = " "
    <3>1. \A q \in 1 .. Len(Text) : Text[q] \in STRING
      BY <1>3, SMT
    <3>. QED
      BY <1>1, <2>3, <3>1, Zenon DEF Free
  <2>6. Free(Text, p, k, Stops)
    <3>1. " " \notin Stops
      BY DEF Stops
    <3>. QED
      BY <1>5, <2>1, <2>3, <2>5, <3>1, Zenon DEF Free
  <2>7. OnCommand(Text, pats, p) =
          << [pats |-> pats, cmd |-> SubSeq(Text, i, j)] >> \o RulesFrom(Text, k)
    <3>1. /\ k \in p .. Len(Text) + 1
          /\ Text[i] \notin Blanks /\ Text[j] \notin Blanks /\ AllBlank(Text, j + 1, k)
          /\ (k <= Len(Text) /\ Text[k] \in Stops) \/ AllBlank(Text, k, Len(Text) + 1)
      BY <1>5, <2>1, <2>9, Zenon
    <3>2. i \in p .. k - 1
      BY <2>3, Zenon
    <3>. HIDE DEF k
    <3>3. AllBlank(Text, k, Len(Text) + 1) \/ (k <= Len(Text) /\ Text[k] \in Stops)
      BY <3>1, Zenon
    <3>4. \A n \in p .. Len(Text) + 1 : \A a \in p .. n - 1 : \A b \in a .. n - 1 :
             /\ Text[a] \notin Blanks /\ Text[b] \notin Blanks
             /\ AllBlank(Text, p, a) /\ AllBlank(Text, b + 1, n) /\ Free(Text, p, n, Stops)
             /\ AllBlank(Text, n, Len(Text) + 1) \/ (n <= Len(Text) /\ Text[n] \in Stops)
             => OnCommand(Text, pats, p)
                  = << [pats |-> pats, cmd |-> SubSeq(Text, a, b)] >> \o RulesFrom(Text, n)
      <4>. SUFFICES ASSUME NEW n \in p .. Len(Text) + 1, NEW a \in p .. n - 1,
                           NEW b \in a .. n - 1,
                           Text[a] \notin Blanks, Text[b] \notin Blanks,
                           AllBlank(Text, p, a), AllBlank(Text, b + 1, n),
                           Free(Text, p, n, Stops),
                           \/ n <= Len(Text) /\ Text[n] \in Stops
                           \/ AllBlank(Text, n, Len(Text) + 1)
                    PROVE  OnCommand(Text, pats, p)
                             = << [pats |-> pats, cmd |-> SubSeq(Text, a, b)] >>
                                 \o RulesFrom(Text, n)
        BY Zenon
      <4>. QED
        BY <1>a, <1>3, CommandToken, ZenonT(60)
    <3>5. j \in i .. k - 1
      BY Zenon
    <3>. QED
      BY <3>1, <3>2, <3>3, <3>4, <3>5, <2>4, <2>6, Zenon
  <2>. QED
    BY <2>1, <2>9, <2>7, Zenon DEF k
<1>. QED
  BY <1>6, <1>7, Zenon DEF lex, p

-----------------------------------------------------------------------------
(* Reading rules one by one.                                               *)

\* A rule in front of others.
LEMMA OneMore ==
  ASSUME NEW r \in Rule, NEW rest \in Seq(Rule)
  PROVE  LET rules == << r >> \o rest
         IN  /\ rules \in Seq(Rule) /\ Len(rules) = Len(rest) + 1 /\ Len(rest) \in Nat
             /\ rules[1] = r
             /\ \A i \in 1 .. Len(rest) : rules[i + 1] = rest[i]
<1>. DEFINE one == << r >>
            rules == one \o rest
<1>1. one \in Seq(Rule) /\ Len(one) = 1 /\ one[1] = r
  BY SMT
<1>. HIDE DEF one
<1>2. /\ rules \in Seq(Rule) /\ Len(rules) = Len(one) + Len(rest)
      /\ \A i \in 1 .. Len(one) + Len(rest) :
           rules[i] = IF i <= Len(one) THEN one[i] ELSE rest[i - Len(one)]
  BY <1>1, ConcatProperties
<1>. HIDE DEF rules
<1>3. Len(rest) \in Nat
  BY SMT
<1>. DEFINE n == Len(rest)
<1>. HIDE DEF n
<1>4. /\ 1 \in 1 .. 1 + n /\ 1 <= 1 /\ n \in Nat /\ 1 + n = n + 1
      /\ \A i \in 1 .. n : i + 1 \in 1 .. 1 + n /\ ~(i + 1 <= 1) /\ (i + 1) - 1 = i
  BY <1>3, SMT DEF n
<1>5. rules[1] = r /\ \A i \in 1 .. n : rules[i + 1] = rest[i]
  BY <1>1, <1>2, <1>4, Zenon DEF n
<1>. QED
  BY <1>1, <1>2, <1>4, <1>5, Zenon DEF n, rules, one

LEMMA FormedOneMore ==
  ASSUME NEW r \in Rule, NEW rest \in Seq(Rule), r # Malformed
  PROVE  AllFormed(<< r >> \o rest) <=> AllFormed(rest)
<1>. DEFINE rules == << r >> \o rest
            n == Len(rest)
<1>1. /\ Len(rules) = n + 1 /\ n \in Nat /\ rules[1] = r
      /\ \A i \in 1 .. n : rules[i + 1] = rest[i]
  BY OneMore
<1>. HIDE DEF rules, n
<1>2. /\ \A i \in 1 .. n + 1 : i = 1 \/ (i - 1 \in 1 .. n /\ (i - 1) + 1 = i)
      /\ \A i \in 1 .. n : i + 1 \in 1 .. n + 1
  BY <1>1, SMT
<1>3. AllFormed(rules) <=> \A i \in 1 .. n + 1 : rules[i] # Malformed
  BY <1>1, Zenon DEF AllFormed
<1>4. AllFormed(rest) <=> \A i \in 1 .. n : rest[i] # Malformed
  BY Zenon DEF AllFormed, n
<1>. HIDE DEF n
<1>5. ASSUME \A i \in 1 .. n : rest[i] # Malformed, NEW i \in 1 .. n + 1
      PROVE  rules[i] # Malformed
  <2>1. CASE i = 1
    BY <1>1, <2>1, Zenon
  <2>2. CASE i - 1 \in 1 .. n /\ (i - 1) + 1 = i
    <3>1. rules[i] = rest[i - 1]
      BY <1>1, <2>2, Zenon
    <3>. QED
      BY <1>5, <2>2, <3>1, Zenon
  <2>. QED
    BY <1>2, <2>1, <2>2, Zenon
<1>6. ASSUME \A i \in 1 .. n + 1 : rules[i] # Malformed, NEW i \in 1 .. n
      PROVE  rest[i] # Malformed
  BY <1>1, <1>2, <1>6, Zenon
<1>7. AllFormed(rules) <=> AllFormed(rest)
  BY <1>3, <1>4, <1>5, <1>6, Zenon
<1>. QED
  BY <1>7, Zenon DEF rules

LEMMA FormedAtEnd == AllFormed(<< >>) /\ ~AllFormed(<< Malformed >>)
<1>1. /\ Len(<< >>) = 0 /\ 1 .. 0 = {} /\ 1 \in 1 .. 1
      /\ \A r : Len(<< r >>) = 1 /\ << r >>[1] = r
  BY SMT
<1>. QED
  BY <1>1, Zenon DEF AllFormed

LEMMA HitOneMore ==
  ASSUME NEW r \in Rule, NEW rest \in Seq(Rule), NEW matching
  PROVE  FirstHit(<< r >> \o rest, matching) =
           IF r.pats \cap matching # {} THEN r ELSE FirstHit(rest, matching)
<1>. DEFINE rules == << r >> \o rest
            n == Len(rest)
            S == {i \in 1 .. n + 1 : rules[i].pats \cap matching # {}}
            R == {i \in 1 .. n : rest[i].pats \cap matching # {}}
<1>1. /\ Len(rules) = n + 1 /\ n \in Nat /\ rules[1] = r
      /\ \A i \in 1 .. n : rules[i + 1] = rest[i]
  BY OneMore
<1>2. FirstHit(rest, matching) = IF R = {} THEN Malformed ELSE rest[Min(R)]
  BY Zenon DEF FirstHit
<1>. HIDE DEF rules
<1>3. FirstHit(rules, matching) = IF S = {} THEN Malformed ELSE rules[Min(S)]
  BY <1>1, Zenon DEF FirstHit
<1>. HIDE DEF n
<1>4. /\ \A i \in 1 .. n + 1 : i \in Nat /\ 1 <= i
      /\ \A i \in 1 .. n + 1 : i = 1 \/ (i - 1 \in 1 .. n /\ (i - 1) + 1 = i)
      /\ \A i \in 1 .. n : i + 1 \in 1 .. n + 1 /\ i \in Nat
      /\ 1 \in 1 .. n + 1
  BY <1>1, SMT
<1>5. CASE r.pats \cap matching # {}
  <2>1. 1 \in S /\ \A i \in S : 1 <= i /\ i \in Nat
    BY <1>1, <1>4, <1>5, Zenon
  <2>. HIDE DEF S
  <2>2. Min(S) \in S /\ \A i \in S : Min(S) <= i
    BY <2>1, Zenon DEF Min
  <2>. DEFINE m == Min(S)
  <2>3. m \in Nat /\ m <= 1 /\ 1 <= m
    BY <2>1, <2>2, Zenon
  <2>. HIDE DEF m
  <2>4. m = 1
    BY <2>3, SMT
  <2>. QED
    BY <1>1, <1>3, <1>5, <2>1, <2>4, Zenon DEF m, rules
<1>6. CASE ~(r.pats \cap matching # {})
  <2>1. \A i : i \in S => i - 1 \in R /\ (i - 1) + 1 = i
    BY <1>1, <1>4, <1>6, Zenon
  <2>2. \A i : i \in R => i + 1 \in S
    BY <1>1, <1>4, Zenon
  <2>3. R \in SUBSET Nat /\ S \in SUBSET Nat
    BY <1>4, Zenon
  <2>4. \A i \in R : i \in 1 .. n
    BY Zenon
  <2>. HIDE DEF S, R
  <2>5. CASE R = {}
    <3>1. S = {}
      BY <2>1, <2>5, Zenon
    <3>. QED
      BY <1>2, <1>3, <1>6, <2>5, <3>1, Zenon DEF rules
  <2>6. CASE R # {}
    <3>1. PICK k \in R : \A j \in R : k <= j
      BY <2>3, <2>6, LeastNatural
    <3>2. Min(R) \in R /\ \A j \in R : Min(R) <= j
      BY <3>1, Zenon DEF Min
    <3>3. k + 1 \in S /\ \A i \in S : k + 1 <= i
      <4>1. ASSUME NEW i \in S PROVE k + 1 <= i
        <5>1. i - 1 \in R /\ k <= i - 1 /\ i \in Nat /\ k \in Nat
          BY <2>1, <2>3, <3>1, Zenon
        <5>. QED
          BY <5>1, SMT
      <4>. QED
        BY <2>2, <4>1, Zenon
    <3>4. Min(S) \in S /\ \A i \in S : Min(S) <= i
      BY <3>3, Zenon DEF Min
    <3>. DEFINE a == Min(S)
                b == Min(R)
    <3>5. /\ a \in Nat /\ b \in Nat /\ a <= k + 1 /\ k + 1 <= a /\ b <= k /\ k <= b
          /\ k \in Nat
      BY <2>3, <3>1, <3>2, <3>3, <3>4, Zenon
    <3>. HIDE DEF a, b
    <3>6. a = b + 1
      BY <3>5, SMT
    <3>7. rules[a] = rest[b]
      BY <1>1, <2>4, <3>2, <3>6, Zenon DEF b
    <3>8. S # {}
      BY <3>3, Zenon
    <3>. QED
      BY <1>2, <1>3, <1>6, <2>6, <3>7, <3>8, Zenon DEF a, b, rules
  <2>. QED
    BY <2>5, <2>6
<1>. QED
  BY <1>5, <1>6

LEMMA HitAtEnd ==
  \A matching : /\ FirstHit(<< >>, matching) = Malformed
                /\ FirstHit(<< Malformed >>, matching) = Malformed
<1>. SUFFICES ASSUME NEW matching
              PROVE  /\ FirstHit(<< >>, matching) = Malformed
                     /\ FirstHit(<< Malformed >>, matching) = Malformed
  OBVIOUS
<1>1. /\ Len(<< >>) = 0 /\ 1 .. 0 = {}
      /\ \A r : Len(<< r >>) = 1 /\ << r >>[1] = r
      /\ \A i \in 1 .. 1 : i = 1
  BY SMT
<1>2. Malformed.pats = {}
  BY DEF Malformed
<1>3. \A i \in 1 .. Len(<< Malformed >>) : ~(<< Malformed >>[i].pats \cap matching # {})
  BY <1>1, <1>2, ZenonT(40)
<1>. QED
  BY <1>1, <1>3, Zenon DEF FirstHit

-----------------------------------------------------------------------------
(* What a call of fnmar_parser_next reads, by the grammar.                 *)

\* The rules that are left where a parser in this state reads on.
Rest(state, pats, p) ==
  IF state = "PS_LINE_START" THEN RulesFrom(Text, p)
  ELSE IF state = "PS_PATTERN" THEN OnPattern(Text, pats, p)
  ELSE IF state = "PS_PATTERN_DELIM" THEN OnHeader(Text, pats, p)
  ELSE OnCommand(Text, pats, p)

Left(pats) == Rest(parser.state, pats, At(parser.tail))

\* The patterns read of the rule at hand are those of its header.
Known(pats) == /\ pats \in SUBSET Seq(STRING)
               /\ parser.state = "PS_LINE_START" => pats = {}
               /\ parser.state = "PS_PATTERN" => Ready(parser.tail)

CallMeans(pats) ==
  LET kind  == parser'.token.kind
      tok   == Content(buf, parser'.token.str)
      After(more) == Rest(parser'.state, more, At(parser'.tail))
  IN  /\ parser'.is_done <=> parser'.unexpected_token \/ kind = "TOK_EOF"
      /\ parser'.unexpected_token =>
           kind \notin {"TOK_PATTERN", "TOK_CMD"} /\ Left(pats) = << Malformed >>
      /\ kind = "TOK_EOF" /\ ~parser'.unexpected_token => Left(pats) = << >>
      /\ kind = "TOK_PATTERN" =>
           /\ tok \in Seq(STRING) /\ parser'.state = "PS_PATTERN_DELIM"
           /\ Left(pats) = After(pats \cup {tok})
      /\ kind = "TOK_CMD" =>
           /\ tok \in Seq(STRING) /\ tok # << >> /\ parser'.state = "PS_LINE_START"
           /\ Left(pats) = << [pats |-> pats, cmd |-> tok] >> \o After({})
      /\ kind \notin {"TOK_PATTERN", "TOK_CMD"} /\ ~parser'.is_done =>
           /\ Left(pats) = After(pats)
           /\ parser'.state = "PS_LINE_START" => pats = {}
      /\ parser'.state = "PS_PATTERN" /\ ~parser'.is_done => Ready(parser'.tail)

LEMMA ConsumeGives ==
  ASSUME NEW lex, Consume(lex)
  PROVE  LET next == Successors(parser.state, lex.kind)
         IN  /\ parser'.token.kind = lex.kind /\ parser'.token.str = lex.str
             /\ parser'.tail = lex.tail
             /\ parser'.state = IF next = {} THEN parser.state ELSE CHOOSE s \in next : TRUE
             /\ parser'.unexpected_token <=> next = {}
             /\ parser'.is_done <=> lex.kind = "TOK_EOF" \/ next = {}
<1>. DEFINE next  == Successors(parser.state, lex.kind)
            state == IF next = {} THEN parser.state ELSE CHOOSE s \in next : TRUE
<1>1. parser' = [state |-> state,
                 token |-> [kind |-> lex.kind, str |-> lex.str],
                 tail  |-> lex.tail,
                 unexpected_token |-> next = {},
                 is_done |-> lex.kind = "TOK_EOF" \/ next = {}]
  BY Zenon DEF Consume
<1>. HIDE DEF next, state
<1>2. /\ parser'.token.kind = lex.kind /\ parser'.token.str = lex.str
      /\ parser'.tail = lex.tail /\ parser'.state = state
      /\ parser'.unexpected_token <=> next = {}
      /\ parser'.is_done <=> lex.kind = "TOK_EOF" \/ next = {}
  BY <1>1
<1>. QED
  BY <1>2, Zenon DEF next, state

LEMMA LineStartReads ==
  ASSUME BufOK, Unread(parser.tail), LineStart, NEW pats, Known(pats)
  PROVE  CallMeans(pats)
<1>. DEFINE lex  == parse_line_start(parser.tail)
            next == Successors(parser.state, lex.kind)
            p    == At(parser.tail)
<1>1. parser.state = "PS_LINE_START" /\ Consume(lex)
  BY Zenon DEF LineStart, In
<1>2. lex.kind = "TOK_EOF" \/ lex.kind = "TOK_COMMENT" \/ lex.kind = "TOK_NONE"
  BY LineStartContract, Zenon DEF Contract
<1>3. /\ lex.kind = "TOK_EOF" => RulesFrom(Text, p) = << >>
      /\ lex.kind = "TOK_COMMENT" => RulesFrom(Text, p) = RulesFrom(Text, At(lex.tail))
      /\ lex.kind = "TOK_NONE" =>
           /\ Ready(lex.tail)
           /\ RulesFrom(Text, p) = OnPattern(Text, {}, At(lex.tail))
  BY LineStartMeans
<1>. HIDE DEF lex
<1>4. /\ parser'.token.kind = lex.kind /\ parser'.tail = lex.tail
      /\ parser'.state = IF next = {} THEN parser.state ELSE CHOOSE s \in next : TRUE
      /\ parser'.unexpected_token <=> next = {}
      /\ parser'.is_done <=> lex.kind = "TOK_EOF" \/ next = {}
  BY <1>1, ConsumeGives
<1>5. /\ next # {}
      /\ lex.kind = "TOK_NONE" => parser'.state = "PS_PATTERN"
      /\ lex.kind # "TOK_NONE" => parser'.state = "PS_LINE_START"
  BY <1>1, <1>2, <1>4, Moves, OnlyChoice, Zenon
<1>6. pats = {} /\ Left(pats) = RulesFrom(Text, p)
  BY <1>1, Zenon DEF Known, Left, Rest
<1>7. \A k : /\ Rest("PS_LINE_START", {}, k) = RulesFrom(Text, k)
             /\ Rest("PS_PATTERN", {}, k) = OnPattern(Text, {}, k)
  BY Zenon DEF Rest
<1>. QED
  BY <1>2, <1>3, <1>4, <1>5, <1>6, <1>7, Zenon DEF CallMeans

LEMMA PatternReads ==
  ASSUME BufOK, Unread(parser.tail), Pattern, NEW pats, Known(pats)
  PROVE  CallMeans(pats)
<1>. DEFINE lex  == parse_pattern(parser.tail)
            next == Successors(parser.state, lex.kind)
            p    == At(parser.tail)
            tok  == Content(buf, lex.str)
<1>1. parser.state = "PS_PATTERN" /\ Consume(lex)
  BY Zenon DEF Pattern, In
<1>2. lex.kind \in DelimKinds \/ lex.kind = "TOK_PATTERN"
  BY PatternContract, Zenon DEF Contract
<1>3. Ready(parser.tail)
  BY <1>1, Zenon DEF Known
<1>4. /\ lex.kind = "TOK_PATTERN" =>
           /\ tok \in Seq(STRING) /\ tok # << >>
           /\ OnPattern(Text, pats, p) = OnHeader(Text, pats \cup {tok}, At(lex.tail))
      /\ lex.kind # "TOK_PATTERN" => OnPattern(Text, pats, p) = << Malformed >>
  BY <1>3, PatternMeans
<1>. HIDE DEF lex
<1>5. /\ parser'.token.kind = lex.kind /\ parser'.tail = lex.tail
      /\ parser'.token.str = lex.str
      /\ parser'.state = IF next = {} THEN parser.state ELSE CHOOSE s \in next : TRUE
      /\ parser'.unexpected_token <=> next = {}
      /\ parser'.is_done <=> lex.kind = "TOK_EOF" \/ next = {}
  BY <1>1, ConsumeGives
<1>6. /\ lex.kind \in DelimKinds => next = {}
      /\ lex.kind = "TOK_PATTERN" => next # {} /\ parser'.state = "PS_PATTERN_DELIM"
      /\ lex.kind \in DelimKinds => lex.kind # "TOK_PATTERN" /\ lex.kind # "TOK_CMD"
  <2>1. /\ lex.kind \in DelimKinds => next = {}
        /\ lex.kind = "TOK_PATTERN" => next # {} /\ parser'.state = "PS_PATTERN_DELIM"
    BY <1>1, <1>2, <1>5, Moves, OnlyChoice, Zenon
  <2>. QED
    BY <2>1, Zenon DEF DelimKinds
<1>7. Left(pats) = OnPattern(Text, pats, p)
  BY <1>1, Zenon DEF Left, Rest
<1>8. \A k, more : Rest("PS_PATTERN_DELIM", more, k) = OnHeader(Text, more, k)
  BY Zenon DEF Rest
<1>. QED
  BY <1>2, <1>4, <1>5, <1>6, <1>7, <1>8, Zenon DEF CallMeans

LEMMA PatternDelimReads ==
  ASSUME BufOK, Unread(parser.tail), PatternDelim, NEW pats, Known(pats)
  PROVE  CallMeans(pats)
<1>. DEFINE lex  == parse_pattern_delim(parser.tail)
            next == Successors(parser.state, lex.kind)
            p    == At(parser.tail)
<1>1. parser.state = "PS_PATTERN_DELIM" /\ Consume(lex)
  BY Zenon DEF PatternDelim, In
<1>2. lex.kind = "TOK_EOF" \/ lex.kind = "TOK_NONE" \/ lex.kind = "TOK_SEMI" \/ lex.kind = "TOK_COLON"
  BY DelimContract, Zenon DEF Contract, DelimKinds
<1>3. /\ lex.kind = "TOK_EOF" => OnHeader(Text, pats, p) = << Malformed >>
      /\ lex.kind = "TOK_NONE" =>
           /\ Ready(lex.tail)
           /\ OnHeader(Text, pats, p) = OnPattern(Text, pats, At(lex.tail))
      /\ lex.kind = "TOK_SEMI" =>
           OnHeader(Text, pats, p) = OnHeader(Text, pats, At(lex.tail))
      /\ lex.kind = "TOK_COLON" =>
           OnHeader(Text, pats, p) = OnCommand(Text, pats, At(lex.tail))
  BY DelimMeans
<1>. HIDE DEF lex
<1>4. /\ parser'.token.kind = lex.kind /\ parser'.tail = lex.tail
      /\ parser'.state = IF next = {} THEN parser.state ELSE CHOOSE s \in next : TRUE
      /\ parser'.unexpected_token <=> next = {}
      /\ parser'.is_done <=> lex.kind = "TOK_EOF" \/ next = {}
  BY <1>1, ConsumeGives
<1>5. /\ lex.kind = "TOK_EOF" <=> next = {}
      /\ lex.kind = "TOK_NONE" => parser'.state = "PS_PATTERN"
      /\ lex.kind = "TOK_SEMI" => parser'.state = "PS_PATTERN_DELIM"
      /\ lex.kind = "TOK_COLON" => parser'.state = "PS_COMMAND"
  BY <1>1, <1>2, <1>4, Moves, OnlyChoice, Zenon
<1>6. Left(pats) = OnHeader(Text, pats, p)
  BY <1>1, Zenon DEF Left, Rest
<1>7. \A k : /\ Rest("PS_PATTERN", pats, k) = OnPattern(Text, pats, k)
             /\ Rest("PS_PATTERN_DELIM", pats, k) = OnHeader(Text, pats, k)
             /\ Rest("PS_COMMAND", pats, k) = OnCommand(Text, pats, k)
  BY Zenon DEF Rest
<1>. QED
  BY <1>2, <1>3, <1>4, <1>5, <1>6, <1>7, Zenon DEF CallMeans

LEMMA CommandReads ==
  ASSUME BufOK, Unread(parser.tail), Command, NEW pats, Known(pats)
  PROVE  CallMeans(pats)
<1>. DEFINE lex  == parse_command(parser.tail)
            next == Successors(parser.state, lex.kind)
            p    == At(parser.tail)
            tok  == Content(buf, lex.str)
<1>1. parser.state = "PS_COMMAND" /\ Consume(lex)
  BY Zenon DEF Command, In
<1>2. lex.kind = "TOK_EOF" \/ lex.kind = "TOK_CMD" \/ lex.kind = "TOK_NONE"
  BY CommandContract, Zenon DEF Contract
<1>3. /\ lex.kind = "TOK_CMD" =>
           /\ tok \in Seq(STRING) /\ tok # << >>
           /\ OnCommand(Text, pats, p) =
                << [pats |-> pats, cmd |-> tok] >> \o RulesFrom(Text, At(lex.tail))
      /\ lex.kind # "TOK_CMD" => OnCommand(Text, pats, p) = << Malformed >>
  BY CommandMeans
<1>. HIDE DEF lex
<1>4. /\ parser'.token.kind = lex.kind /\ parser'.tail = lex.tail
      /\ parser'.token.str = lex.str
      /\ parser'.state = IF next = {} THEN parser.state ELSE CHOOSE s \in next : TRUE
      /\ parser'.unexpected_token <=> next = {}
      /\ parser'.is_done <=> lex.kind = "TOK_EOF" \/ next = {}
  BY <1>1, ConsumeGives
<1>5. /\ lex.kind = "TOK_CMD" => next # {} /\ parser'.state = "PS_LINE_START"
      /\ lex.kind # "TOK_CMD" => next = {}
  BY <1>1, <1>2, <1>4, Moves, OnlyChoice, Zenon
<1>6. Left(pats) = OnCommand(Text, pats, p)
  BY <1>1, Zenon DEF Left, Rest
<1>7. \A k : Rest("PS_LINE_START", {}, k) = RulesFrom(Text, k)
  BY Zenon DEF Rest
<1>. QED
  BY <1>2, <1>3, <1>4, <1>5, <1>6, <1>7, Zenon DEF CallMeans

LEMMA EveryCallMeans ==
  ASSUME BufOK, Unread(parser.tail), fnmar_parser_next, NEW pats, Known(pats)
  PROVE  CallMeans(pats)
BY LineStartReads, PatternReads, PatternDelimReads, CommandReads, Zenon
   DEF fnmar_parser_next

\* What is left after the call, said of the next state.
LEMMA LeftNext ==
  ASSUME buf' = buf
  PROVE  /\ Text' = Text
         /\ \A more : Left(more)' = Rest(parser'.state, more, At(parser'.tail))
         /\ \A more : Known(more)' <=>
              /\ more \in SUBSET Seq(STRING)
              /\ parser'.state = "PS_LINE_START" => more = {}
              /\ parser'.state = "PS_PATTERN" => Ready(parser'.tail)
<1>1. Text' = Text
  BY Zenon DEF Text
<1>2. /\ TextEnd' = TextEnd /\ Where(parser.tail)' = Where(parser'.tail)
  BY SameText
<1>3. At(parser.tail)' = At(parser'.tail)
  BY <1>2, Zenon DEF At
<1>4. ASSUME NEW more
      PROVE  Left(more)' = Rest(parser'.state, more, At(parser'.tail))
  BY <1>1, <1>3, Zenon DEF Left, Rest
<1>5. Solid(parser.tail)' <=> Solid(parser'.tail)
  BY <1>2, Zenon DEF Solid
<1>6. Ready(parser.tail)' <=> Ready(parser'.tail)
  BY <1>1, <1>3, <1>5, Zenon DEF Ready
<1>. QED
  BY <1>1, <1>4, <1>6, Zenon DEF Known

\* A call passes over what it means: nothing, a pattern of the rule, or all of it.
LEMMA CallLeaves ==
  ASSUME BufOK, Unread(parser.tail), Unread(parser'.tail), fnmar_parser_next, buf' = buf,
         NEW pats, Known(pats)
  PROVE  LET kind == parser'.token.kind
             tok  == Content(buf, parser'.token.str)
         IN  /\ parser'.is_done <=> parser'.unexpected_token \/ kind = "TOK_EOF"
             /\ parser'.unexpected_token => Left(pats) = << Malformed >>
             /\ kind = "TOK_EOF" /\ ~parser'.unexpected_token => Left(pats) = << >>
             /\ kind \in {"TOK_PATTERN", "TOK_CMD"} => ~parser'.is_done
             /\ kind = "TOK_PATTERN" =>
                  \E more : more = pats \cup {tok} /\ Known(more)' /\ Left(pats) = Left(more)'
             /\ kind = "TOK_CMD" =>
                  \E rest \in Seq(Rule) :
                     /\ [pats |-> pats, cmd |-> tok] \in Rule /\ tok # << >>
                     /\ Known({})' /\ rest = Left({})'
                     /\ Left(pats) = << [pats |-> pats, cmd |-> tok] >> \o rest
             /\ kind \notin {"TOK_PATTERN", "TOK_CMD"} /\ ~parser'.is_done =>
                  Known(pats)' /\ Left(pats) = Left(pats)'
<1>. DEFINE kind == parser'.token.kind
            tok  == Content(buf, parser'.token.str)
            After(more) == Rest(parser'.state, more, At(parser'.tail))
<1>1. CallMeans(pats)
  BY EveryCallMeans
<1>2. /\ \A more : Left(more)' = After(more)
      /\ \A more : Known(more)' <=>
           /\ more \in SUBSET Seq(STRING)
           /\ parser'.state = "PS_LINE_START" => more = {}
           /\ parser'.state = "PS_PATTERN" => Ready(parser'.tail)
  BY LeftNext
<1>3. /\ parser'.is_done <=> parser'.unexpected_token \/ kind = "TOK_EOF"
      /\ parser'.unexpected_token =>
           kind \notin {"TOK_PATTERN", "TOK_CMD"} /\ Left(pats) = << Malformed >>
      /\ kind = "TOK_EOF" /\ ~parser'.unexpected_token => Left(pats) = << >>
      /\ kind = "TOK_PATTERN" =>
           /\ tok \in Seq(STRING) /\ parser'.state = "PS_PATTERN_DELIM"
           /\ Left(pats) = After(pats \cup {tok})
      /\ kind = "TOK_CMD" =>
           /\ tok \in Seq(STRING) /\ tok # << >> /\ parser'.state = "PS_LINE_START"
           /\ Left(pats) = << [pats |-> pats, cmd |-> tok] >> \o After({})
      /\ kind \notin {"TOK_PATTERN", "TOK_CMD"} /\ ~parser'.is_done =>
           /\ Left(pats) = After(pats)
           /\ parser'.state = "PS_LINE_START" => pats = {}
      /\ parser'.state = "PS_PATTERN" /\ ~parser'.is_done => Ready(parser'.tail)
  BY <1>1, Zenon DEF CallMeans
<1>4. pats \in SUBSET Seq(STRING)
  BY Zenon DEF Known
<1>5. kind \in {"TOK_PATTERN", "TOK_CMD"} => ~parser'.is_done /\ kind # "TOK_EOF"
  BY <1>3, Zenon
<1>. HIDE DEF kind, tok
<1>6. ASSUME kind = "TOK_PATTERN"
      PROVE  \E more : more = pats \cup {tok} /\ Known(more)' /\ Left(pats) = Left(more)'
  <2>1. pats \cup {tok} \in SUBSET Seq(STRING)
    BY <1>3, <1>4, <1>6, Zenon
  <2>2. \A more : more = pats \cup {tok} => Known(more)' /\ Left(pats) = Left(more)'
    BY <1>2, <1>3, <1>6, <2>1, Zenon
  <2>. QED
    BY <2>2, Zenon
<1>7. ASSUME kind = "TOK_CMD"
      PROVE  \E rest \in Seq(Rule) :
                     /\ [pats |-> pats, cmd |-> tok] \in Rule /\ tok # << >>
                     /\ Known({})' /\ rest = Left({})'
                     /\ Left(pats) = << [pats |-> pats, cmd |-> tok] >> \o rest
  <2>1. [pats |-> pats, cmd |-> tok] \in Rule
    BY <1>3, <1>4, <1>7 DEF Rule
  <2>2. After({}) = RulesFrom(Text, At(parser'.tail))
    BY <1>3, <1>7, Zenon DEF Rest
  <2>3. At(parser'.tail) \in Places(Text) /\ Text \in Seq(STRING)
    BY TextOfBuffer, SkipInText, Zenon
  <2>4. After({}) \in Seq(Rule)
    BY <2>2, <2>3, RulesEquation, Zenon
  <2>5. Known({})'
    BY <1>2, <1>3, <1>7, Zenon
  <2>. QED
    BY <1>2, <1>3, <1>7, <2>1, <2>4, <2>5, Zenon
<1>8. ASSUME kind \notin {"TOK_PATTERN", "TOK_CMD"}, ~parser'.is_done
      PROVE  Known(pats)' /\ Left(pats) = Left(pats)'
  BY <1>2, <1>3, <1>4, <1>8, Zenon
<1>. QED
  BY <1>3, <1>5, <1>6, <1>7, <1>8, Zenon DEF kind, tok

-----------------------------------------------------------------------------
(* The parser accepts exactly the grammar.                                 *)

\* When the parser is done it has decided; until then what is left decides.
Judged ==
  IF parser.is_done THEN parser.unexpected_token <=> ~WellFormed(Text)
  ELSE \E pats : Known(pats) /\ (AllFormed(Left(pats)) <=> WellFormed(Text))

\* The parser starts with all the rules before it.
LEMMA AllIsLeft ==
  ASSUME BufOK, Unread(parser.tail), parser.state = "PS_LINE_START",
         parser.tail = sv_trim_whitespace(buf, FullText)
  PROVE  Known({}) /\ Left({}) = Rules(Text)
<1>. DEFINE t == parser.tail
<1>1. Text \in Seq(STRING) /\ Len(Text) = Len(buf) - 1 /\ Len(Text) \in Nat
  BY TextOfBuffer
<1>2. FullText \in View /\ FullText.ptr = 0
  BY SMT DEF BufOK, FullText, View
<1>3. /\ t \in View /\ FullText.ptr <= t.ptr
      /\ \A p \in FullText.ptr .. t.ptr - 1 : buf[p + 1] \in Space
  BY <1>2, TrimContract
<1>4. Where(t) \in 0 .. TextEnd /\ TextEnd \in 0 .. Len(Text) /\ t.ptr # Literal
      /\ 0 <= t.ptr
  BY <1>1, <1>2, <1>3, UnreadFacts, SMT DEF Literal, View
<1>5. Where(t) = t.ptr
  BY <1>4, Zenon DEF Where
<1>. HIDE DEF t
<1>6. t.ptr \in 0 .. Len(Text) /\ 0 \in 0 .. Len(Text) /\ 0 + 1 = 1 /\ At(t) = t.ptr + 1
  BY <1>1, <1>4, <1>5, SMT DEF At
<1>7. \A p \in 0 .. t.ptr - 1 : buf[p + 1] \in Space
  BY <1>2, <1>3, Zenon
<1>8. /\ 1 \in Places(Text) /\ At(t) \in 1 .. Len(Text) + 1 /\ AllBlank(Text, 1, At(t))
  <2>1. t.ptr \in 0 .. Len(Text) /\ 0 \in 0 .. Len(Text)
    BY <1>6
  <2>2. /\ 0 + 1 \in Places(Text) /\ t.ptr + 1 \in 0 + 1 .. Len(Text) + 1
        /\ AllBlank(Text, 0 + 1, t.ptr + 1)
    BY <1>7, <2>1, RunInText
  <2>. QED
    BY <1>6, <2>2, Zenon
<1>9. RulesFrom(Text, 1) = RulesFrom(Text, At(t))
  BY <1>1, <1>8, RulesSkip
<1>10. Left({}) = RulesFrom(Text, At(t))
  BY Zenon DEF Left, Rest, t
<1>11. Rules(Text) = RulesFrom(Text, 1)
  BY <1>1, RulesEquation
<1>12. Known({})
  BY Zenon DEF Known
<1>. QED
  BY <1>9, <1>10, <1>11, <1>12, Zenon

LEMMA StartsWithAll == Init => ~parser.is_done /\ Known({}) /\ Left({}) = Rules(Text)
<1>. SUFFICES ASSUME Init PROVE ~parser.is_done /\ Known({}) /\ Left({}) = Rules(Text)
  OBVIOUS
<1>1. IInv
  BY InitInvariant
<1>2. BufOK /\ Unread(parser.tail)
  BY <1>1, Zenon DEF IInv, TypeOK, BufOK
<1>3. /\ parser.state = "PS_LINE_START" /\ ~parser.is_done
      /\ parser.tail = sv_trim_whitespace(buf, FullText)
  BY DEF Init, fnmar_parser_start, FullText
<1>4. Known({}) /\ Left({}) = Rules(Text)
  BY <1>2, <1>3, AllIsLeft
<1>. QED
  BY <1>3, <1>4

LEMMA InitJudged == Init => Judged
BY StartsWithAll, Zenon DEF Judged, WellFormed

\* A call that dies of an assertion was about an unexpected token.
LEMMA AbortIsUnexpected ==
  ASSUME fnmar_parser_next, report' = AssertFails
  PROVE  parser'.is_done /\ parser'.unexpected_token
<1>1. ASSUME NEW lex, Consume(lex)
      PROVE  parser'.is_done /\ parser'.unexpected_token
  <2>. DEFINE next == Successors(parser.state, lex.kind)
  <2>1. /\ parser'.unexpected_token <=> next = {}
        /\ parser'.is_done <=> lex.kind = "TOK_EOF" \/ next = {}
    BY <1>1, ConsumeGives
  <2>2. ~(next = {}) => report' = NoReport
    BY <1>1, Zenon DEF Consume
  <2>3. NoReport # AssertFails
    BY DEF NoReport, AssertFails
  <2>. HIDE DEF next
  <2>. QED
    BY <2>1, <2>2, <2>3, Zenon
<1>. QED
  BY <1>1, Zenon DEF fnmar_parser_next, LineStart, Pattern, PatternDelim, Command

LEMMA NextJudged ==
  ASSUME IInv, Judged, fnmar_parser_next, buf' = buf
  PROVE  Judged'
<1>1. BufOK /\ Unread(parser.tail)
  BY Zenon DEF IInv, TypeOK, BufOK
<1>2. Unread(parser'.tail)
  <2>1. IInv'
    BY NextInvariant
  <2>2. Unread(parser.tail)'
    BY <2>1, Zenon DEF IInv
  <2>. QED
    BY <2>2, SameText, Zenon
<1>3. ~parser.is_done
  BY Zenon DEF fnmar_parser_next, LineStart, Pattern, PatternDelim, Command, In
<1>4. PICK pats : Known(pats) /\ (AllFormed(Left(pats)) <=> WellFormed(Text))
  BY <1>3, Zenon DEF Judged
<1>. DEFINE kind == parser'.token.kind
            tok  == Content(buf, parser'.token.str)
<1>5. /\ parser'.is_done <=> parser'.unexpected_token \/ kind = "TOK_EOF"
      /\ parser'.unexpected_token => Left(pats) = << Malformed >>
      /\ kind = "TOK_EOF" /\ ~parser'.unexpected_token => Left(pats) = << >>
      /\ kind = "TOK_PATTERN" =>
           \E more : more = pats \cup {tok} /\ Known(more)' /\ Left(pats) = Left(more)'
      /\ kind = "TOK_CMD" =>
           \E rest \in Seq(Rule) :
              /\ [pats |-> pats, cmd |-> tok] \in Rule /\ tok # << >>
              /\ Known({})' /\ rest = Left({})'
              /\ Left(pats) = << [pats |-> pats, cmd |-> tok] >> \o rest
      /\ kind \notin {"TOK_PATTERN", "TOK_CMD"} /\ ~parser'.is_done =>
           Known(pats)' /\ Left(pats) = Left(pats)'
  BY <1>1, <1>2, <1>4, CallLeaves
<1>. HIDE DEF kind, tok
<1>6. Text' = Text
  BY LeftNext
<1>7. CASE parser'.is_done
  <2>1. parser'.unexpected_token <=> ~AllFormed(Left(pats))
    BY <1>5, <1>7, FormedAtEnd, Zenon
  <2>. QED
    BY <1>4, <1>6, <1>7, <2>1, Zenon DEF Judged
<1>8. CASE ~parser'.is_done
  <2>1. \E more : Known(more)' /\ (AllFormed(Left(pats)) <=> AllFormed(Left(more)'))
    <3>1. CASE kind = "TOK_CMD"
      <4>1. PICK rest \in Seq(Rule) :
                   /\ [pats |-> pats, cmd |-> tok] \in Rule /\ tok # << >>
                   /\ Known({})' /\ rest = Left({})'
                   /\ Left(pats) = << [pats |-> pats, cmd |-> tok] >> \o rest
        BY <1>5, <3>1
      <4>2. [pats |-> pats, cmd |-> tok] # Malformed
        BY <4>1 DEF Malformed
      <4>3. AllFormed(<< [pats |-> pats, cmd |-> tok] >> \o rest) <=> AllFormed(rest)
        BY <4>1, <4>2, FormedOneMore
      <4>. QED
        BY <4>1, <4>3, Zenon
    <3>2. CASE kind # "TOK_CMD"
      BY <1>5, <1>8, <3>2, Zenon
    <3>. QED
      BY <3>1, <3>2
  <2>. QED
    BY <1>4, <1>6, <1>8, <2>1, Zenon DEF Judged
<1>. QED
  BY <1>7, <1>8

\* The parser complains about a file exactly when the grammar has no reading
\* of it, for every file: it drops no malformed rule, and no comment, blank
\* line or run of separators makes it reject one.
THEOREM ParserFollowsGrammar == Spec => []AcceptsExactlyTheGrammar
<1>1. Judged /\ UNCHANGED vars => Judged'
  <2>. SUFFICES ASSUME Judged, UNCHANGED vars PROVE Judged'
    OBVIOUS
  <2>1. buf' = buf /\ parser' = parser
    BY Zenon DEF vars
  <2>. QED
    BY <2>1, Zenon DEF Judged, Known, Left, Rest, At, Where, Ready, Solid, Text, TextEnd, FullText
<1>2. IInv /\ Judged /\ [Next]_vars => Judged'
  BY <1>1, NextJudged, Zenon DEF Next, Terminated
<1>3. Judged => AcceptsExactlyTheGrammar
  BY Zenon DEF Judged, AcceptsExactlyTheGrammar
<1>. QED
  BY <1>2, <1>3, InitJudged, Invariance, PTL DEF Spec
=============================================================================
