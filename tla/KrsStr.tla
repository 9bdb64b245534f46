------------------------------- MODULE KrsStr -------------------------------
(***************************************************************************)
(* The string views of lib/krs/krs_str.{h,c}.                              *)
(*                                                                         *)
(* A `struct str` (or `struct sv`, bit-compatible with it) is a pointer    *)
(* and a length.  Every view of the program points into one heap buffer,   *)
(* so a view is [ptr |-> p, len |-> n] with p the offset of its first      *)
(* byte; the byte at offset p is buf[p + 1].  Two pointers are no offset:  *)
(* the literal "" of str_empty(), and NULL (the zero-initialised struct).  *)
(*                                                                         *)
(* Bytes are one-character strings, "NUL" being the byte zero.  "\t"       *)
(* stands for every isspace() byte other than space, CR and LF.            *)
(***************************************************************************)
EXTENDS Integers, Sequences, FiniteSetsExt

NUL      == "NUL"
LineEnds == {"\n", "\r"}
Space    == {" ", "\t"} \cup LineEnds

\* The terminator is a byte like any other.  (True of every string literal,
\* but no prover has an axiom that says so.)
ASSUME ByteAssumption == NUL \in STRING

Literal == -1                                 \* address of the literal ""
NullPtr == -2

str_empty == [ptr |-> Literal, len |-> 0]     \* str_empty(), sv_empty()
str_zero  == [ptr |-> NullPtr, len |-> 0]     \* (struct str){0}

View == [ptr : Int, len : Nat]

Byte(buf, s, i) == buf[s.ptr + i + 1]         \* s.ptr[i]
Drop(s, n)      == [ptr |-> s.ptr + n, len |-> s.len - n]
Take(s, n)      == [ptr |-> s.ptr, len |-> n]
Content(buf, s) == SubSeq(buf, s.ptr + 1, s.ptr + s.len)

\* The index of the first byte of the view that is, or is not, in the set C;
\* the length of the view if there is none.
FirstIn(buf, s, C) ==
  CHOOSE k \in 0..s.len : /\ k < s.len => Byte(buf, s, k) \in C
                          /\ \A j \in 0 .. k - 1 : Byte(buf, s, j) \notin C
FirstNotIn(buf, s, C) ==
  CHOOSE k \in 0..s.len : /\ k < s.len => Byte(buf, s, k) \notin C
                          /\ \A j \in 0 .. k - 1 : Byte(buf, s, j) \in C

\* Seeded faults: the head takes the delimiter along; the delimiter is dropped.
SplitAfterDelim(buf, s, delims) ==
  LET i == FirstIn(buf, s, delims \cup {NUL})
  IN  [found |-> i < s.len,
       head  |-> Take(s, IF i < s.len THEN i + 1 ELSE i),
       tail  |-> IF i < s.len THEN Drop(s, i) ELSE str_empty]
SplitDropsDelim(buf, s, delims) ==
  LET i == FirstIn(buf, s, delims \cup {NUL})
  IN  [found |-> i < s.len,
       head  |-> Take(s, i),
       tail  |-> IF i < s.len THEN Drop(s, i + 1) ELSE str_empty]

(***************************************************************************)
(* Split before the first byte that strchr() finds among the delimiters;   *)
(* strchr also finds the terminator of the delimiter string, so a NUL byte *)
(* always splits.  With no such byte the head is the whole view and the    *)
(* tail is the literal "", which no longer points into the buffer.         *)
(***************************************************************************)
sv_split_at_delims(buf, s, delims) ==
  LET i == FirstIn(buf, s, delims \cup {NUL})
  IN  [found |-> i < s.len,
       head  |-> Take(s, i),
       tail  |-> IF i < s.len THEN Drop(s, i) ELSE str_empty]

\* Seeded fault: the delimiter is not skipped.
SplitKeepsDelim(buf, s, delims) ==
  sv_split_at_delims(buf, s, delims)

\* The same split, with the delimiter itself in neither half.
sv_split_delims(buf, s, delims) ==
  LET split == sv_split_at_delims(buf, s, delims)
  IN  [split EXCEPT !.tail = IF split.found THEN Drop(@, 1) ELSE @]

\* sv_trim_left_char and sv_trim_left_whitespace: drop the leading bytes in C.
sv_trim_left(buf, s, C) ==
  Drop(s, FirstNotIn(buf, s, C))

sv_trim_right_whitespace(buf, s) ==
  Take(s, CHOOSE n \in 0..s.len :
            /\ n > 0 => Byte(buf, s, n - 1) \notin Space
            /\ \A j \in n .. s.len - 1 : Byte(buf, s, j) \in Space)

sv_trim_whitespace(buf, s) ==
  sv_trim_right_whitespace(buf, sv_trim_left(buf, s, Space))

(***************************************************************************)
(* str_into_cstr_unsafe writes a terminator over the byte just past the    *)
(* view and hands out that byte; str_revert_into_cstr_unsafe puts it back. *)
(***************************************************************************)
End(s)                             == s.ptr + s.len
str_into_cstr_unsafe(buf, s)       == [buf EXCEPT ![End(s) + 1] = NUL]

\* Seeded fault: the byte is put back one place too early.
RevertTooEarly(buf, s, c) == [buf EXCEPT ![End(s)] = c]

str_revert_into_cstr_unsafe(buf, s, c) == [buf EXCEPT ![End(s) + 1] = c]

\* What a callee reads from a char pointer: the bytes up to the first NUL.
CStr(buf, p) ==
  SubSeq(buf, p + 1, Min({k \in p + 1 .. Len(buf) : buf[k] = NUL}) - 1)
=============================================================================
