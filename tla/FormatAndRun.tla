---------------------------- MODULE FormatAndRun ----------------------------
(***************************************************************************)
(* format_and_run() of src/main.c: every '%' of the command is replaced by *)
(* the file name, piece by piece into a growing buffer, and the result is  *)
(* given to system().  An allocation may fail at every piece.              *)
(***************************************************************************)
EXTENDS KrsStr, CstrBuf, Expansion

CONSTANT Filename              \* the bytes of the file name
ASSUME FilenameAssumption == Filename \in Seq(STRING)

VARIABLES
  buf,            \* the text of the configuration file
  cmd_pattern,    \* the command of the rule, a view of it
  fmt,    \* the step format_and_run is at
  tail,   \* the part of cmd_pattern still to be formatted
  cmd,    \* the buffer the command is put together in
  ran,    \* the commands given to system()
  heap,   \* the live heap objects
  err     \* what the function returns

formatVars == <<buf, cmd_pattern, fmt, tail, cmd, ran, heap, err>>

-----------------------------------------------------------------------------
\* Entering the function.
Call ==
  /\ fmt' = "piece"
  /\ tail' = cmd_pattern
  /\ cmd' = cstrbuf_zero
  /\ err' = "OK"
  /\ UNCHANGED <<cmd_pattern, ran>>

(***************************************************************************)
(* A call: any text, and any part of it without a NUL byte, which no       *)
(* command that the parser returns has.                                    *)
(***************************************************************************)
Init ==
  /\ buf \in Seq(STRING) /\ cmd_pattern \in View
  /\ cmd_pattern.ptr >= 0 /\ End(cmd_pattern) <= Len(buf)
  /\ \A i \in 1 .. cmd_pattern.len : Content(buf, cmd_pattern)[i] # NUL
  /\ fmt = "piece" /\ tail = cmd_pattern /\ cmd = cstrbuf_zero
  /\ ran = << >> /\ heap = {} /\ err = "OK"

\* Seeded fault: a failed extension is not noticed.
ExtendUnchecked(str, next) ==
  \E r \in cstrbuf_extend(cmd, str) :
    /\ cmd' = r.buf
    /\ heap' = IF r.buf.cap > 0 THEN heap \cup {"cmd"} ELSE heap
    /\ \/ r.result \in {"true", "false"} /\ fmt' = next /\ UNCHANGED err
       \/ r.result = "crash" /\ fmt' = "crash" /\ UNCHANGED err

\* Extend cmd by str and go on at step `next`, or leave with an error.
Extend(str, next) ==
  \E r \in cstrbuf_extend(cmd, str) :
    /\ cmd' = r.buf
    /\ heap' = IF r.buf.cap > 0 THEN heap \cup {"cmd"} ELSE heap
    /\ \/ r.result = "true"  /\ fmt' = next /\ UNCHANGED err
       \/ r.result = "false" /\ fmt' = "deinit" /\ err' = "ERR_OUT_OF_MEMORY"
       \/ r.result = "crash" /\ fmt' = "crash" /\ UNCHANGED err

Piece ==
  /\ fmt = "piece"
  /\ \E split \in {sv_split_delims(buf, tail, {"%"})} :
       /\ tail' = split.tail
       /\ Extend(Content(buf, split.head), IF split.found THEN "filename" ELSE "run")
  /\ UNCHANGED <<buf, cmd_pattern, ran>>

InsertFilename ==
  /\ fmt = "filename"
  /\ Extend(Filename, "piece")
  /\ UNCHANGED <<buf, cmd_pattern, tail, ran>>

\* The exit code of the command is logged, and otherwise ignored.
Run ==
  /\ fmt = "run"
  /\ ran' = Append(ran, cmd.text)
  /\ fmt' = "deinit"
  /\ UNCHANGED <<buf, cmd_pattern, tail, cmd, heap, err>>

Deinit ==
  /\ fmt = "deinit"
  /\ heap' = heap \ {"cmd"}
  /\ fmt' = "done"
  /\ UNCHANGED <<buf, cmd_pattern, tail, cmd, ran, err>>

format_and_run == Piece \/ InsertFilename \/ Run \/ Deinit
Returned       == fmt \in {"done", "crash"} /\ UNCHANGED formatVars

Next == format_and_run \/ Returned
Spec == Init /\ [][Next]_formatVars

-----------------------------------------------------------------------------
(* Properties.                                                             *)

TypeOK ==
  /\ buf \in Seq(STRING) /\ cmd_pattern \in View
  /\ fmt \in {"idle", "piece", "filename", "run", "deinit", "done", "crash"}
  /\ tail \in View
  /\ cmd \in [text : Seq(STRING), cap : Nat]
  /\ ran \in Seq(Seq(STRING))

\* The text and its terminator always fit the allocated block.
CmdFits == cmd.cap = 0 \/ Len(cmd.text) < cmd.cap

\* What is to be run.
Command  == Content(buf, cmd_pattern)
Expanded == Expand(Command, Filename)

\* What is still to come of it.
Pending ==
  CASE fmt = "piece"    -> Expand(Content(buf, tail), Filename)
    [] fmt = "filename" -> Filename \o Expand(Content(buf, tail), Filename)
    [] fmt = "run"      -> << >>

(***************************************************************************)
(* While the command is put together, what is in the buffer and what is    *)
(* still to be formatted always come to the whole command.                 *)
(***************************************************************************)
NothingLost == fmt \in {"piece", "filename", "run"} => cmd.text \o Pending = Expanded

(***************************************************************************)
(* No part of a command is ever run: system() gets it whole, and only if   *)
(* no allocation failed; and the buffer is freed on either path.           *)
(***************************************************************************)
AllOrNothing ==
  /\ ran \in {<< >>, <<Expanded>>}
  /\ fmt = "done" => /\ "cmd" \notin heap
                     /\ err = IF ran = << >> THEN "ERR_OUT_OF_MEMORY" ELSE "OK"

(***************************************************************************)
(* assert(b->ptr[b->len] == '\0') (krs_str.c:206): after an extension,     *)
(* successful or not, the buffer has a terminated text.  It has none, and  *)
(* the assertion itself crashes, when the first allocation fails.          *)
(***************************************************************************)
TerminatorAsserted == fmt # "crash"
=============================================================================
