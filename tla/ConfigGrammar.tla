--------------------------- MODULE ConfigGrammar ----------------------------
(***************************************************************************)
(* What a configuration file means, stated on the text as a whole: a file  *)
(* is a sequence of rules, a rule is a header up to the first ':' and a    *)
(* command on the rest of that line.  It is the reference that the parser  *)
(* and evaluate() of src/main.c are compared with; it shares nothing with  *)
(* their lexers.                                                           *)
(***************************************************************************)
EXTENDS Integers, FiniteSetsExt, Expansion

Blanks   == {" ", "\t", "\n", "\r"}
Nonblank == STRING \ Blanks
Stops    == {"\n", "\r", "NUL"}               \* what ends a line
Cuts     == {";", "\n", "\r"}                 \* what separates two patterns

\* The first position from p on with a byte of C; the end if there is none.
FirstOf(text, p, C) ==
  Min({i \in p .. Len(text) : text[i] \in C} \cup {Len(text) + 1})

\* The text from p to q without the blanks around it.
Strip(text, p, q) ==
  LET solid == {i \in p .. q : text[i] \in Nonblank}
  IN  IF solid = {} THEN << >> ELSE SubSeq(text, Min(solid), Max(solid))

\* Nothing from i to j separates two patterns.
OnePiece(text, i, j) == \A k \in i .. j : text[k] \notin Cuts

\* From i to j is a pattern of the header from p to q: one of its pieces
\* between separators, but for the blanks around it.
Spans(text, p, q, i, j) ==
  /\ text[i] \in Nonblank /\ text[j] \in Nonblank
  /\ OnePiece(text, i, j)
  /\ \A k \in p .. i - 1 : OnePiece(text, k, i) => text[k] \in Blanks
  /\ \A k \in j + 1 .. q : OnePiece(text, j, k) => text[k] \in Blanks

Patterns(text, p, q) ==
  UNION {{SubSeq(text, i, j) : j \in {j \in i .. q : Spans(text, p, q, i, j)}} : i \in p .. q}

Malformed == [pats |-> {}, cmd |-> << >>]

\* The rules of a text in order, from each position; a malformed one is the last.
Rules(text) ==
  LET rules[p \in 1 .. Len(text) + 1] ==
        LET start == FirstOf(text, p, Nonblank)
            colon == FirstOf(text, start, {":"})
            stop  == FirstOf(text, colon + 1, Stops)
            cmd   == Strip(text, colon + 1, stop - 1)
        IN  IF start > Len(text) THEN << >>
            ELSE IF text[start] = "#" THEN rules[FirstOf(text, start, Stops)]
            ELSE IF \/ colon > Len(text)
                    \/ text[start] \in {";", ":"}          \* no pattern
                    \/ \E i \in start .. colon : text[i] = "NUL"
                    \/ cmd = << >>
                 THEN << Malformed >>
                 ELSE << [pats |-> Patterns(text, start, colon - 1), cmd |-> cmd] >>
                        \o rules[stop]
  IN  rules[1]

AllFormed(rules) == \A i \in 1 .. Len(rules) : rules[i] # Malformed

\* The first rule with a pattern in the set, if there is one.
FirstHit(rules, matching) ==
  LET hits == {i \in 1 .. Len(rules) : rules[i].pats \cap matching # {}}
  IN  IF hits = {} THEN Malformed ELSE rules[Min(hits)]

WellFormed(text)          == AllFormed(Rules(text))
FirstRule(text, matching) == FirstHit(Rules(text), matching)
=============================================================================
