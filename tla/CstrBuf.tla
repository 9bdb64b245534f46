------------------------------ MODULE CstrBuf -------------------------------
(***************************************************************************)
(* The growing string of lib/krs: struct cstrbuf, what its functions may   *)
(* do, and the da_reserve they grow by.  A cstrbuf is its text and its     *)
(* capacity; capacity 0 is the zero-initialised struct, whose ptr is NULL. *)
(* Sizes are natural numbers here; the module DynArray has the arithmetic  *)
(* of size_t, and shows that the two agree.                                *)
(***************************************************************************)
EXTENDS KrsStr

cstrbuf_zero == [text |-> << >>, cap |-> 0]

MIN_CAP       == 8
GROW_CAP(cap) == (cap \div 2) * 3

\* Seeded fault: the terminator is forgotten.
CapWithoutTerminator(cap, target_len) == target_len - 1

\* The capacity da_reserve grows to when cap is less than target_len.
new_cap(cap, target_len) ==
  LET grow[c \in Nat] == IF c < target_len THEN grow[GROW_CAP(c)] ELSE c
  IN  grow[IF cap < MIN_CAP THEN MIN_CAP ELSE GROW_CAP(cap)]

\* The capacities da_reserve may leave; 0 if the realloc it needs fails.
da_reserve(cap, target_len) ==
  IF target_len <= cap THEN {cap} ELSE {new_cap(cap, target_len), 0}

(***************************************************************************)
(* What follows is the set of outcomes of each function.  A failure leaves *)
(* the string as it was and returns false; but the assertion at the end of *)
(* both extend and reserve reads the string's terminator either way, and   *)
(* crashes when there is no buffer yet.  A text to append has no NUL.      *)
(***************************************************************************)
Outcome(result, cap, text) == [result |-> result, buf |-> [text |-> text, cap |-> cap]]
Failure(b) == Outcome(IF b.cap = 0 THEN "crash" ELSE "false", b.cap, b.text)

cstrbuf_extend(b, str) ==
  {IF cap = 0 THEN Failure(b) ELSE Outcome("true", cap, b.text \o str)
     : cap \in da_reserve(b.cap, Len(b.text) + Len(str) + 1)}

\* Seeded faults: the size given to snprintf() is one less than the room; the
\* room is cleared without the byte for the terminator.
PrintsOneLess(b, n, str, cap) ==
  CASE Len(str) < n - 1 -> Outcome("true", cap, b.text \o str)
    [] Len(str) \in {n - 1, n} -> Outcome("true", cap, b.text \o [str EXCEPT ![n - 1] = NUL])
    [] OTHER -> Outcome("undefined", cap, b.text)
ClearsOneLess(b, n, str, cap) ==
  IF Len(str) < n THEN Outcome("true", cap, b.text \o str)
                  ELSE Outcome("undefined", cap, b.text)

(***************************************************************************)
(* cstrbuf_snprintf of a text str, with room for n more bytes.  The macro  *)
(* adds the length snprintf() wanted to write.  A text of n bytes loses    *)
(* its last one to the terminator that snprintf writes, which stays in the *)
(* middle of the string; after a longer one, len is past all that was      *)
(* written, and the assertion reads whatever is there.                     *)
(***************************************************************************)
Printed(b, n, str, cap) ==
  CASE Len(str) < n -> Outcome("true", cap, b.text \o str)
    [] Len(str) = n -> Outcome("true", cap, b.text \o [str EXCEPT ![n] = NUL])
    [] OTHER        -> Outcome("undefined", cap, b.text)

cstrbuf_snprintf(b, n, str) ==
  {IF cap = 0 THEN Failure(b) ELSE Printed(b, n, str, cap)
     : cap \in da_reserve(b.cap, Len(b.text) + n + 1)}
=============================================================================
