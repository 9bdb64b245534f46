------------------------------ MODULE Evaluate ------------------------------
(***************************************************************************)
(* evaluate() of src/main.c, from its call to its return: it reads the     *)
(* configuration file (ConfigFile), drives the parser over it              *)
(* (FnmarParser), gives every pattern before the first match to fnmatch(), *)
(* which wants a C string and gets one by patching the parser's own        *)
(* buffer, and runs the command of the rule that matches (FormatAndRun).   *)
(***************************************************************************)
EXTENDS KrsStr

CONSTANTS
  Files, Missing, Pipe, SIZE_MAX, Saves, MaxEdits,   \* see ConfigFile
  Filename,      \* the bytes of the file name
  Matching       \* the patterns fnmatch() matches it with

ASSUME FilesAssumption ==
  /\ Files \subseteq Seq(STRING) /\ Saves \subseteq Files
  /\ Missing \notin Files /\ Pipe \notin Files /\ Pipe # Missing
ASSUME SizesAssumption ==
  /\ SIZE_MAX \in Nat \ {0} /\ \A f \in Files : Len(f) < SIZE_MAX
  /\ MaxEdits \in Nat
ASSUME FilenameAssumption == Filename \in Seq(STRING)

VARIABLES
  disk, edits, load, len, got,   \* cstrbuf_init_from_file
  buf,                           \* config_str
  parser, report,                \* the parser, and what it reports
  fmt, tail, cmd, ran,           \* format_and_run
  pc,                            \* the step evaluate is at
  found_match,
  removed_char,                  \* the byte under the terminator patched in
  heap,                          \* the live heap objects
  err

configVars == <<disk, edits, load, len, got>>
parserVars == <<parser, report>>
formatVars == <<fmt, tail, cmd, ran>>
vars == <<configVars, buf, parserVars, formatVars, pc, found_match, removed_char, heap, err>>

Config == INSTANCE ConfigFile
Parser == INSTANCE FnmarParser
Format == INSTANCE FormatAndRun WITH cmd_pattern <- parser.token.str

\* A failed assertion of a callee has ended the process.
Aborted == load = "abort" \/ report = Parser!AssertFails \/ fmt = "crash"

parser_zero ==
  [state |-> "PS_LINE_START", token |-> [kind |-> "TOK_NONE", str |-> str_zero],
   tail |-> str_zero, unexpected_token |-> FALSE, is_done |-> FALSE]

Init ==
  /\ Config!Init
  /\ parser = parser_zero /\ report = Parser!NoReport
  /\ fmt = "idle" /\ tail = str_zero /\ cmd = Format!cstrbuf_zero /\ ran = << >>
  /\ pc = "load"
  /\ found_match = FALSE
  /\ removed_char = NUL

-----------------------------------------------------------------------------
Load ==
  /\ pc = "load" /\ load \notin {"done", "abort"}
  /\ Config!cstrbuf_init_from_file \/ Config!Edit
  /\ UNCHANGED <<parserVars, formatVars, pc, found_match, removed_char>>

StartParser ==
  /\ pc = "load" /\ load = "done"
  /\ IF err # "OK"
     THEN pc' = "deinit" /\ UNCHANGED parser
     ELSE pc' = "parse" /\ parser' = Parser!fnmar_parser_start(buf)
  /\ UNCHANGED <<configVars, buf, report, formatVars, found_match, removed_char, heap, err>>

NextToken ==
  /\ pc = "parse" /\ ~Aborted
  /\ Parser!fnmar_parser_next
  /\ pc' = "token"
  /\ UNCHANGED <<configVars, buf, formatVars, found_match, removed_char, heap, err>>

NoMatches ==
  /\ pc = "parse" /\ parser.is_done /\ ~Aborted
  /\ err' = "ERR_NO_MATCHES"
  /\ pc' = "deinit"
  /\ UNCHANGED <<configVars, buf, parserVars, formatVars, found_match, removed_char, heap>>

\* Seeded fault: the first command is run without a match.
RunsUnmatched == parser.token.kind = "TOK_CMD"

TestPattern == ~found_match /\ parser.token.kind = "TOK_PATTERN"
RunCommand  == found_match /\ parser.token.kind = "TOK_CMD"

\* Patch the byte after the pattern, which the parser has yet to read.
IntoCstr ==
  /\ pc = "token" /\ ~Aborted /\ TestPattern
  /\ removed_char' = buf[End(parser.token.str) + 1]
  /\ buf' = str_into_cstr_unsafe(buf, parser.token.str)
  /\ pc' = "fnmatch"
  /\ UNCHANGED <<configVars, parserVars, formatVars, found_match, heap, err>>

Fnmatch ==
  /\ pc = "fnmatch"
  /\ found_match' = (CStr(buf, parser.token.str.ptr) \in Matching)
  /\ pc' = "revert"
  /\ UNCHANGED <<configVars, buf, parserVars, formatVars, removed_char, heap, err>>

RevertIntoCstr ==
  /\ pc = "revert"
  /\ buf' = str_revert_into_cstr_unsafe(buf, parser.token.str, removed_char)
  /\ pc' = "parse"
  /\ UNCHANGED <<configVars, parserVars, formatVars, found_match, removed_char, heap, err>>

StartCommand ==
  /\ pc = "token" /\ ~Aborted /\ RunCommand
  /\ pc' = "format"
  /\ UNCHANGED <<configVars, buf, parserVars, found_match, removed_char, heap>>
  /\ Format!Call

SkipToken ==
  /\ pc = "token" /\ ~Aborted /\ ~TestPattern /\ ~RunCommand
  /\ pc' = "parse"
  /\ UNCHANGED <<configVars, buf, parserVars, formatVars, found_match, removed_char, heap, err>>

FormatCommand ==
  /\ pc = "format"
  /\ UNCHANGED <<configVars, parserVars, pc, found_match, removed_char>>
  /\ Format!format_and_run

\* Seeded fault: the result is returned without freeing the text.
ReturnsAtOnce ==
  /\ pc = "format" /\ fmt = "done"
  /\ pc' = "exit"
  /\ UNCHANGED <<configVars, buf, parserVars, formatVars, found_match, removed_char, heap, err>>

CommandReturns ==
  /\ pc = "format" /\ fmt = "done"
  /\ pc' = "deinit"
  /\ UNCHANGED <<configVars, buf, parserVars, formatVars, found_match, removed_char, heap, err>>

Deinit ==
  /\ pc = "deinit"
  /\ heap' = heap \ {"config_str"}
  /\ pc' = "exit"
  /\ UNCHANGED <<configVars, buf, parserVars, formatVars, found_match, removed_char, err>>

Ended == (pc = "exit" \/ Aborted) /\ UNCHANGED vars

Step == \/ Load \/ StartParser \/ NextToken \/ NoMatches
        \/ IntoCstr \/ Fnmatch \/ RevertIntoCstr \/ SkipToken
        \/ StartCommand \/ FormatCommand \/ CommandReturns \/ Deinit

Next     == Step \/ Ended
Spec     == Init /\ [][Next]_vars
FairSpec == Spec /\ WF_vars(Step)

-----------------------------------------------------------------------------
(* Properties.                                                             *)

\* The type invariant of evaluate and of what it drives.
TypeOK ==
  /\ disk \in Seq(STRING) \cup {Missing, Pipe} /\ edits \in 0 .. MaxEdits
  /\ len \in Nat /\ got \in Seq(STRING)
  /\ load \in {"open", "size", "alloc", "read", "done", "abort"}
  /\ parser \in Parser!Parser
  /\ Format!TypeOK
  /\ pc \in {"load", "parse", "token", "fnmatch", "revert", "format", "deinit", "exit"}
  /\ found_match \in BOOLEAN
  /\ removed_char \in STRING
  /\ heap \subseteq {"config_str", "cmd"}
  /\ err \in Config!Error

(***************************************************************************)
(* fnmatch() sees the pattern and nothing after it, and what the patch     *)
(* overwrites is back before the parser reads on: at every other step the  *)
(* buffer holds the text as it was read, its terminator included.          *)
(***************************************************************************)
PatchIsInvisible ==
  /\ pc = "fnmatch" => CStr(buf, parser.token.str.ptr) = Content(buf, parser.token.str)
  /\ pc \in {"parse", "token", "format", "deinit"} /\ buf # << >>
       => buf = Append(got, NUL)

(***************************************************************************)
(* The patch never lands outside the buffer, nor inside what the parser    *)
(* has still to skip as part of the same token.                            *)
(***************************************************************************)
PatchInBounds ==
  pc = "fnmatch" =>
    /\ End(parser.token.str) + 1 \in 1 .. Len(buf)
    /\ parser.tail.len > 0 => End(parser.token.str) <= parser.tail.ptr

(***************************************************************************)
(* When the program ends, and along every error path, everything it        *)
(* allocated has been freed, and it has run a command exactly if it says   *)
(* that it succeeded.                                                      *)
(***************************************************************************)
CleanExit ==
  pc = "exit" => heap = {} /\ (err = "OK" <=> Len(ran) = 1) /\ Len(ran) <= 1

(***************************************************************************)
(* evaluate() always returns or dies: no text keeps its loop going.        *)
(***************************************************************************)
Returns == <>(pc = "exit" \/ Aborted)
=============================================================================
