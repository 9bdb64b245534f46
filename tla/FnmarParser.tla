---------------------------- MODULE FnmarParser -----------------------------
(***************************************************************************)
(* The configuration-file parser of src/main.c: the four parse_* lexers,   *)
(* the fnmar_parser state machine that drives them, and the diagnostics it *)
(* prints for an unexpected token.  One action is one call of              *)
(* fnmar_parser_next(); the actions differ in the lexer state they call.   *)
(***************************************************************************)
EXTENDS KrsStr

CONSTANT Files                 \* the contents a configuration file may have
ASSUME FilesAssumption == Files \subseteq Seq(STRING)

VARIABLES
  buf,      \* the file's bytes and the terminator appended when it is read
  parser,   \* struct fnmar_parser; its full_text is FullText
  report    \* what fnmar_parser_next logged about an unexpected token

vars == <<buf, parser, report>>

TokenKind   == {"TOK_NONE", "TOK_COMMENT", "TOK_PATTERN", "TOK_SEMI",
                "TOK_COLON", "TOK_CMD", "TOK_EOF"}
ParserState == {"PS_LINE_START", "PS_PATTERN", "PS_PATTERN_DELIM", "PS_COMMAND"}

FullText == [ptr |-> 0, len |-> Len(buf) - 1]

-----------------------------------------------------------------------------
(* The lexers.  Each returns the token it found and the input left after.  *)

Lexed(kind, str, tail) == [kind |-> kind, str |-> str, tail |-> tail]

get_delim_kind(c) == CASE c = ";" -> "TOK_SEMI"
                       [] c = ":" -> "TOK_COLON"
                       [] OTHER   -> "TOK_NONE"

parse_line_start(view) ==
  LET input == sv_trim_left(buf, view, Space)
      split == sv_split_at_delims(buf, input, LineEnds)
  IN  IF input.len = 0 THEN Lexed("TOK_EOF", str_zero, input)
      ELSE IF Byte(buf, input, 0) = "#"
           THEN Lexed("TOK_COMMENT", split.head, split.tail)
           ELSE Lexed("TOK_NONE", str_zero, input)

parse_pattern_delim(view) ==
  LET input == sv_trim_left(buf, view, Space)
      kind  == get_delim_kind(Byte(buf, input, 0))
  IN  IF input.len = 0 THEN Lexed("TOK_EOF", str_zero, input)
      ELSE IF kind = "TOK_NONE" THEN Lexed(kind, str_zero, input)
                                ELSE Lexed(kind, Take(input, 1), Drop(input, 1))

parse_pattern(view) ==
  LET input == sv_trim_left(buf, view, Space)
      split == sv_split_at_delims(buf, input, {";", ":"} \cup LineEnds)
      str   == sv_trim_whitespace(buf, split.head)
  IN  IF input.len = 0 THEN Lexed("TOK_EOF", str_zero, input)
      ELSE IF str.len > 0 THEN Lexed("TOK_PATTERN", str, split.tail)
                          ELSE parse_pattern_delim(input)

\* Seeded fault: blanks at the end of a command are kept.
CommandUntrimmed(view) ==
  LET input == sv_trim_left(buf, view, {" "})
      split == sv_split_at_delims(buf, input, LineEnds)
  IN  IF input.len = 0 THEN Lexed("TOK_EOF", str_zero, input)
      ELSE Lexed(IF split.head.len > 0 THEN "TOK_CMD" ELSE "TOK_NONE",
                 split.head, split.tail)

parse_command(view) ==
  LET input == sv_trim_left(buf, view, {" "})
      split == sv_split_at_delims(buf, input, LineEnds)
      str   == sv_trim_whitespace(buf, split.head)
  IN  IF input.len = 0 THEN Lexed("TOK_EOF", str_zero, input)
      ELSE Lexed(IF str.len > 0 THEN "TOK_CMD" ELSE "TOK_NONE", str, split.tail)

-----------------------------------------------------------------------------
(* The state machine.                                                      *)

\* The tokens each state expects, and the state they lead to.
Transition ==
  { <<"PS_LINE_START",    "TOK_NONE",    "PS_PATTERN">>,
    <<"PS_LINE_START",    "TOK_COMMENT", "PS_LINE_START">>,
    <<"PS_LINE_START",    "TOK_EOF",     "PS_LINE_START">>,
    <<"PS_PATTERN",       "TOK_PATTERN", "PS_PATTERN_DELIM">>,
    <<"PS_PATTERN_DELIM", "TOK_NONE",    "PS_PATTERN">>,
    <<"PS_PATTERN_DELIM", "TOK_SEMI",    "PS_PATTERN_DELIM">>,
    <<"PS_PATTERN_DELIM", "TOK_COLON",   "PS_COMMAND">>,
    <<"PS_COMMAND",       "TOK_CMD",     "PS_LINE_START">> }

\* Seeded faults: the end of the file is expected everywhere; a missing token
\* does not change the state.
EofAnywhere(state, kind) ==
  IF kind = "TOK_EOF" THEN {state}
  ELSE {s \in ParserState : <<state, kind, s>> \in Transition}
StaysPut(state, kind) ==
  IF kind = "TOK_NONE" THEN {state}
  ELSE {s \in ParserState : <<state, kind, s>> \in Transition}

Successors(state, kind) == {s \in ParserState : <<state, kind, s>> \in Transition}

\* Reports: none, "Unexpected end of file", "Unexpected token at line, col",
\* or the failure of one of find_file_pos's assertions, which aborts.
NoReport    == [kind |-> "none"]
ReportEof   == [kind |-> "eof"]
AssertFails == [kind |-> "abort"]

\* Seeded faults: a line begins after its first byte; the newline the position
\* is at is counted; the first byte of the text is taken to be outside it.
FilePosNoLine(ptr) ==
  LET newlines == {i \in 0 .. ptr - 1 : buf[i + 1] = "\n"}
  IN  IF ptr \notin 0 .. FullText.len - 1 THEN AssertFails
      ELSE [kind   |-> "token",
            line   |-> Cardinality(newlines),
            column |-> ptr - Max(newlines \cup {0}) - 1]
FilePosNextLine(ptr) ==
  IF ptr \notin 0 .. FullText.len - 1 THEN AssertFails
  ELSE [kind   |-> "token",
        line   |-> Cardinality({i \in 0 .. ptr : buf[i + 1] = "\n"}),
        column |-> 0]
FilePosOffByOne(ptr) ==
  IF ptr \notin 1 .. FullText.len - 1 THEN AssertFails
  ELSE [kind |-> "token", line |-> 0, column |-> ptr]

find_file_pos(ptr) ==
  LET newlines == {i \in 0 .. ptr - 1 : buf[i + 1] = "\n"}
  IN  IF ptr \notin 0 .. FullText.len - 1 THEN AssertFails
      ELSE [kind   |-> "token",
            line   |-> Cardinality(newlines),
            column |-> IF newlines = {} THEN ptr ELSE ptr - Max(newlines) - 1]

\* Seeded fault: blanks at the end of the file are kept.
StartUntrimmed(content) ==
  [state |-> "PS_LINE_START",
   token |-> [kind |-> "TOK_NONE", str |-> str_zero],
   tail  |-> sv_trim_left(content, [ptr |-> 0, len |-> Len(content) - 1], Space),
   unexpected_token |-> FALSE,
   is_done |-> FALSE]

fnmar_parser_start(content) ==
  [state |-> "PS_LINE_START",
   token |-> [kind |-> "TOK_NONE", str |-> str_zero],
   tail  |-> sv_trim_whitespace(content, [ptr |-> 0, len |-> Len(content) - 1]),
   unexpected_token |-> FALSE,
   is_done |-> FALSE]

\* The rest of fnmar_parser_next once the lexer of the current state has run.
Consume(lex) ==
  LET successors == Successors(parser.state, lex.kind)
      unexpected == successors = {}
  IN  /\ parser' = [state |-> IF unexpected THEN parser.state
                              ELSE CHOOSE s \in successors : TRUE,
                    token |-> [kind |-> lex.kind, str |-> lex.str],
                    tail  |-> lex.tail,
                    unexpected_token |-> unexpected,
                    is_done |-> lex.kind = "TOK_EOF" \/ unexpected]
      /\ report' = IF ~unexpected THEN NoReport
                   ELSE IF lex.kind = "TOK_EOF" THEN ReportEof
                   ELSE find_file_pos(lex.tail.ptr)

In(state) == ~parser.is_done /\ parser.state = state

LineStart ==
  In("PS_LINE_START") /\ \E lex \in {parse_line_start(parser.tail)} : Consume(lex)
Pattern ==
  In("PS_PATTERN") /\ \E lex \in {parse_pattern(parser.tail)} : Consume(lex)
PatternDelim ==
  In("PS_PATTERN_DELIM") /\ \E lex \in {parse_pattern_delim(parser.tail)} : Consume(lex)
Command ==
  In("PS_COMMAND") /\ \E lex \in {parse_command(parser.tail)} : Consume(lex)

fnmar_parser_next == LineStart \/ Pattern \/ PatternDelim \/ Command

Terminated == parser.is_done /\ UNCHANGED vars

Init == /\ \E f \in Files : buf = Append(f, NUL)
        /\ parser = fnmar_parser_start(buf)
        /\ report = NoReport

Next == (fnmar_parser_next /\ UNCHANGED buf) \/ Terminated

Spec == Init /\ [][Next]_vars

-----------------------------------------------------------------------------
(* Properties.                                                             *)

Token == [kind : TokenKind, str : View]
Parser == [state : ParserState, token : Token, tail : View,
           unexpected_token : BOOLEAN, is_done : BOOLEAN]

Reports == {NoReport, ReportEof, AssertFails}
             \cup [kind : {"token"}, line : Nat, column : Nat]

\* The type invariant of fnmar_parser, its buffer and its diagnostics.
TypeOK ==
  /\ buf \in Seq(STRING) /\ Len(buf) > 0
  /\ parser \in Parser
  /\ report \in Reports

\* Where the text to read ends, and the offset the parser has read up to.
TextEnd  == End(sv_trim_whitespace(buf, FullText))
Position == IF parser.tail.ptr = Literal THEN TextEnd ELSE parser.tail.ptr

(***************************************************************************)
(* The unread input is always a suffix of the file with its trailing       *)
(* whitespace cut off, or the literal "" that a split leaves behind once   *)
(* everything is read: never a view that runs over the end of the file.    *)
(***************************************************************************)
TailIsSuffix ==
  \/ parser.tail = str_empty
  \/ /\ parser.tail.ptr \in 0 .. Len(buf) - 1
     /\ End(parser.tail) = TextEnd
     /\ parser.tail.len > 0
          => Byte(buf, parser.tail, parser.tail.len - 1) \notin Space

\* A view of the file that holds no byte of C and is trimmed of whitespace.
Trimmed(str, C) ==
  /\ str.len > 0 /\ str.ptr \in 0 .. Len(buf) - 1 /\ End(str) <= TextEnd
  /\ \A k \in 0 .. str.len - 1 : Byte(buf, str, k) \notin C \cup {NUL}
  /\ Byte(buf, str, 0) \notin Space /\ Byte(buf, str, str.len - 1) \notin Space

(***************************************************************************)
(* What evaluate() is handed: a pattern never contains a separator, and a  *)
(* command is never empty and never runs on into the next line, whatever   *)
(* blanks, separators and NUL bytes surround them in the file.             *)
(***************************************************************************)
TokensWellFormed ==
  /\ parser.token.kind = "TOK_PATTERN"
       => Trimmed(parser.token.str, {";", ":"} \cup LineEnds)
  /\ parser.token.kind = "TOK_CMD" => Trimmed(parser.token.str, LineEnds)

(***************************************************************************)
(* A call of fnmar_parser_next reads forward, and every byte it reads past *)
(* is in the token it returns or is whitespace: no part of a pattern, a    *)
(* command or a separator is ever dropped or read twice.                   *)
(***************************************************************************)
ReadsEveryByte ==
  [][/\ Position <= Position'
     /\ \A p \in Position .. Position' - 1 :
          \/ buf[p + 1] \in Space
          \/ p \in parser'.token.str.ptr .. End(parser'.token.str) - 1
    ]_vars

(***************************************************************************)
(* Two of the parser's moves consume nothing (a TOK_NONE at a line start   *)
(* and after a separator), so that the `while (!parser.is_done)` loop of   *)
(* evaluate() ends is not obvious: every call decreases this measure.      *)
(***************************************************************************)
Measure == 2 * parser.tail.len
           + (IF parser.state \in {"PS_LINE_START", "PS_PATTERN_DELIM"} THEN 1 ELSE 0)

Progress == [][parser'.is_done \/ Measure' < Measure]_vars

(***************************************************************************)
(* The assertions of find_file_pos hold whenever a position is reported    *)
(* (main.c:257-259).  They do not: see the findings.                       *)
(***************************************************************************)
FilePosAssertions == report # AssertFails

(***************************************************************************)
(* The only file that trips them ends, without so much as a newline, in a  *)
(* ';' or ':' that stands where a pattern must.                            *)
(***************************************************************************)
AbortsOnlyAtFinalDelim ==
  report = AssertFails =>
    /\ parser.state = "PS_PATTERN"
    /\ parser.token.kind \in {"TOK_SEMI", "TOK_COLON"}
    /\ End(parser.token.str) = FullText.len

(***************************************************************************)
(* The reported line is the line of the mistake, although the position is  *)
(* taken from the input after the token: the line the user is sent to has  *)
(* something on it, at or before the reported column.                      *)
(***************************************************************************)
LineOf(p) == Cardinality({i \in 0 .. p - 1 : buf[i + 1] = "\n"})

ReportedLine ==
  report.kind = "token" =>
    \E p \in 0 .. parser.tail.ptr :
      LineOf(p) = report.line /\ buf[p + 1] \notin Space
=============================================================================
