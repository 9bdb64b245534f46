----------------------------- MODULE ConfigFile -----------------------------
(***************************************************************************)
(* cstrbuf_init_from_file() of src/main.c: the size of the configuration   *)
(* file is taken, a buffer of that size allocated, and the file read into  *)
(* it.  The file is shared with whoever edits it meanwhile.                *)
(*                                                                         *)
(* Contents are sequences of bytes.  fread takes them in as many reads as  *)
(* stdio likes: an edit may fall between any two bytes, and a read may     *)
(* fail before any.  A pipe opens but has no size.  The stream is closed   *)
(* on every path at `done` and is not part of the state.                   *)
(***************************************************************************)
EXTENDS KrsStr

CONSTANTS
  Files,      \* the contents the configuration file may have
  Missing,    \* the content of a file that fopen cannot open
  Pipe,       \* the content of one it can open, but that has no size
  SIZE_MAX,
  Saves,      \* the contents an editor may give the file
  MaxEdits    \* how often it does so while the file is being read

ASSUME FilesAssumption ==
  /\ Files \subseteq Seq(STRING) /\ Saves \subseteq Files
  /\ Missing \notin Files /\ Pipe \notin Files /\ Pipe # Missing
ASSUME SizeAssumption ==
  SIZE_MAX \in Nat \ {0} /\ \A f \in Files : Len(f) < SIZE_MAX
ASSUME MaxEditsAssumption == MaxEdits \in Nat

VARIABLES
  disk,    \* the file
  edits,   \* how often it was rewritten
  load,    \* the step cstrbuf_init_from_file is at
  len,     \* the size ftell returned
  got,     \* the bytes that fread has put into the buffer
  buf,     \* the buffer, once fread has returned and it is terminated
  heap,    \* the live heap objects
  err      \* what the function returns

configVars == <<disk, edits, load, len, got, buf, heap, err>>

Error == {"OK", "ERR_NO_MATCHES", "ERR_FILESYSTEM", "ERR_OUT_OF_MEMORY"}

Init ==
  /\ disk \in Files \cup {Missing, Pipe}
  /\ edits = 0
  /\ load = "open"
  /\ len = 0
  /\ got = << >>
  /\ buf = << >>
  /\ heap = {}
  /\ err = "OK"

-----------------------------------------------------------------------------
Open ==
  /\ load = "open"
  /\ IF disk = Missing
     THEN load' = "done" /\ err' = "ERR_FILESYSTEM"
     ELSE load' = "size" /\ UNCHANGED err
  /\ UNCHANGED <<disk, edits, len, got, buf, heap>>

\* For a pipe ftell() returns -1, which becomes a size_t.
ftell == IF disk = Pipe THEN SIZE_MAX ELSE Len(disk)

Size ==
  /\ load = "size"
  /\ len' = ftell
  /\ load' = "alloc"
  /\ UNCHANGED <<disk, edits, got, buf, heap, err>>

\* Seeded fault: a failed allocation is not reported.
AllocUnreported ==
  /\ load = "alloc"
  /\ \/ load' = "read" /\ heap' = heap \cup {"config_str"}
     \/ load' = "done" /\ UNCHANGED heap
  /\ UNCHANGED <<disk, edits, len, got, buf, err>>

\* malloc(len + 1), which for a pipe is malloc(0).
Alloc ==
  /\ load = "alloc"
  /\ \/ load' = "read" /\ heap' = heap \cup {"config_str"} /\ UNCHANGED err
     \/ load' = "done" /\ err' = "ERR_OUT_OF_MEMORY" /\ UNCHANGED heap
  /\ UNCHANGED <<disk, edits, len, got, buf>>

\* What can be read of a pipe is never SIZE_MAX bytes, and has no place in a
\* block of none: it counts as nothing.
readable   == IF disk = Pipe THEN << >> ELSE disk
bytes_read == Len(got)

\* Seeded fault: at the end of a file that has shrunk, fread starts again.
ReadAgain ==
  /\ load = "read"
  /\ bytes_read < len /\ readable # << >>
  /\ got' = Append(got, readable[IF bytes_read < Len(readable) THEN bytes_read + 1 ELSE 1])
  /\ UNCHANGED <<disk, edits, load, len, buf, heap, err>>

\* The next byte, of what the file holds by now.
Read ==
  /\ load = "read"
  /\ bytes_read < len /\ bytes_read < Len(readable)
  /\ got' = Append(got, readable[bytes_read + 1])
  /\ UNCHANGED <<disk, edits, load, len, buf, heap, err>>

\* Seeded fault: a short read is accepted.
ReadShort ==
  /\ load = "read"
  /\ load' = "done" /\ buf' = Append(got, NUL)
  /\ UNCHANGED <<disk, edits, len, got, heap, err>>

\* fread returns with all that was asked for, or with less at the end of the
\* file or upon a read error: assert(bytes_read == len).
ReadEnds ==
  /\ load = "read"
  /\ \/ bytes_read = len /\ load' = "done" /\ buf' = Append(got, NUL)
     \/ bytes_read < len /\ load' = "abort" /\ UNCHANGED buf
  /\ UNCHANGED <<disk, edits, len, got, heap, err>>

cstrbuf_init_from_file == Open \/ Size \/ Alloc \/ Read \/ ReadEnds

\* An editor rewrites the file in place while the program reads it.  (Before
\* the ftell, a rewritten file is just another file to begin with; after the
\* last byte that is asked for, nothing of it is seen any more.)
Edit ==
  /\ load \in {"alloc", "read"} /\ bytes_read < len
  /\ disk \in Files /\ edits < MaxEdits
  /\ edits' = edits + 1
  /\ disk' \in Saves \ {disk}
  /\ UNCHANGED <<load, len, got, buf, heap, err>>

Returned == load \in {"done", "abort"} /\ UNCHANGED configVars

Next == cstrbuf_init_from_file \/ Edit \/ Returned
Spec == Init /\ [][Next]_configVars

-----------------------------------------------------------------------------
(* Properties.                                                             *)

TypeOK ==
  /\ disk \in Seq(STRING) \cup {Missing, Pipe}
  /\ edits \in 0 .. MaxEdits
  /\ load \in {"open", "size", "alloc", "read", "done", "abort"}
  /\ len \in Nat
  /\ got \in Seq(STRING)
  /\ buf \in Seq(STRING)
  /\ heap \subseteq {"config_str"}
  /\ err \in Error

(***************************************************************************)
(* The function succeeds exactly if it leaves its caller a buffer to free  *)
(* that holds a terminated text: a caller that sees an error has nothing   *)
(* to free, and a caller that sees OK can always read up to the NUL.       *)
(***************************************************************************)
OwnedIffOK ==
  load = "done" =>
    /\ err = "OK" <=> "config_str" \in heap
    /\ err = "OK" <=> buf # << >>
    /\ err = "OK" => Len(buf) = len + 1 /\ buf[len + 1] = NUL

(***************************************************************************)
(* An edit may leave a mixture of contents in the buffer, but no more than *)
(* that: every byte of the text is one that the file held at that place,   *)
(* at first or after an edit.  None is shifted, read twice or left         *)
(* unwritten, however the edits fall between the reads.                    *)
(***************************************************************************)
Mixtures ==
  {t \in Seq(STRING) :
     \E f \in Files : \A k \in 1 .. Len(t) : \E g \in {f} \cup Saves : k <= Len(g) /\ t[k] = g[k]}

BytesInPlace == buf # << >> => got \in Mixtures /\ buf = Append(got, NUL)

(***************************************************************************)
(* Unless somebody edits the file between the ftell and the last read, a   *)
(* text that is returned is the whole file, whichever reads failed; and no *)
(* pipe is ever taken for a file, an empty one say: the size_t arithmetic  *)
(* on its failed ftell ends in the assertion or in ERR_OUT_OF_MEMORY.      *)
(***************************************************************************)
WholeUnlessEdited ==
  buf # << >> => disk \in Files /\ (edits = 0 => buf = Append(disk, NUL))

(***************************************************************************)
(* assert(bytes_read == len) (main.c:72): what is read is as long as what  *)
(* was measured.  It is not when the file shrinks in between, when it has  *)
(* no size, or when a read fails.                                          *)
(***************************************************************************)
ReadsWhatItMeasured == load # "abort"
=============================================================================
