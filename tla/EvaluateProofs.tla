--------------------------- MODULE EvaluateProofs ---------------------------
(***************************************************************************)
(* Proofs about evaluate(), for every configuration file, every file name  *)
(* and every fnmatch().  They are composed of the proofs about what it     *)
(* drives: the invariant of the loader holds while the file is loaded, and *)
(* the invariant of the parser holds from then on, not of the buffer,      *)
(* which evaluate() patches, but of the text that was read into it; and    *)
(* the invariant of format_and_run holds while the command is formatted.   *)
(* The last part adds what the parser has found of the rules to that, and  *)
(* shows that evaluate() implements FirstMatch.                            *)
(***************************************************************************)
EXTENDS EvaluatePromise, KrsStrProofs

Loader == INSTANCE ConfigFileProofs

\* The text as it was read, its terminator included.
original == Append(got, NUL)

Reader == INSTANCE FnmarParserProofs WITH buf <- original, Files <- Seq(STRING)

Formatter == INSTANCE FormatAndRunProofs WITH cmd_pattern <- parser.token.str

-----------------------------------------------------------------------------
(* The inductive invariant.                                                *)

\* While the file is loaded nothing else has begun.
Loading ==
  pc = "load" =>
    /\ Loader!IInv
    /\ parser = parser_zero /\ report = Parser!NoReport
    /\ fmt = "idle" /\ ran = << >>

\* From then on there is a text, which the parser reads.
Parsing ==
  pc \in {"parse", "token", "fnmatch", "revert", "format"} =>
    /\ load = "done" /\ got \in Texts
    /\ Reader!IInv

\* What is in the buffer.  While it is patched, the byte that is missing from
\* it is the one that evaluate() remembers.
Patching ==
  /\ pc \in {"parse", "token", "format"} => buf = original
  /\ pc = "deinit" /\ buf # << >> => buf = original
  /\ pc \in {"fnmatch", "revert"} =>
       /\ parser.token.kind = "TOK_PATTERN"
       /\ buf = [original EXCEPT ![End(parser.token.str) + 1] = NUL]
       /\ removed_char = original[End(parser.token.str) + 1]

\* How a call may have ended: it ran its one command, or failed without it.
Settled == (err = "OK" /\ Len(ran) = 1) \/ (err # "OK" /\ ran = << >>)

\* Who owns what, and what has been decided so far.
Owning ==
  /\ pc # "format" \/ fmt = "done" => heap \subseteq {"config_str"}
  /\ pc \in {"parse", "token", "fnmatch", "revert"} =>
       fmt = "idle" /\ err = "OK" /\ ran = << >>
  /\ pc \in {"deinit", "exit"} => Settled
  /\ pc = "exit" => heap = {}

\* The command fits its buffer; while it is formatted the invariant of
\* format_and_run holds, and what that has done stays done.
Formatting ==
  /\ Format!CmdFits
  /\ pc = "format" => Formatter!IInv
  /\ pc \in {"deinit", "exit"} => Format!AllOrNothing

IInv == TypeOK /\ Loading /\ Parsing /\ Patching /\ Owning /\ Formatting

-----------------------------------------------------------------------------
(* The instances agree: what evaluate() calls is what the proofs are about.*)

LEMMA SameConstants ==
  /\ Parser!Space = Reader!Space /\ Parser!LineEnds = Reader!LineEnds
  /\ Parser!NUL = Reader!NUL
  /\ Parser!str_zero = Reader!str_zero /\ Parser!str_empty = Reader!str_empty
  /\ Parser!NoReport = Reader!NoReport
BY Zenon
   DEF Parser!Space, Reader!Space, Parser!LineEnds, Reader!LineEnds, Parser!NUL,
       Reader!NUL, Parser!str_zero, Reader!str_zero, Parser!str_empty,
       Reader!str_empty, Parser!NullPtr, Reader!NullPtr, Parser!Literal, Reader!Literal,
       Parser!NoReport, Reader!NoReport

LEMMA SameViews ==
  /\ \A s, n : Parser!Take(s, n) = Reader!Take(s, n) /\ Parser!Drop(s, n) = Reader!Drop(s, n)
  /\ \A b, s, i : Parser!Byte(b, s, i) = Reader!Byte(b, s, i)
  /\ \A b, s, C : Parser!FirstIn(b, s, C) = Reader!FirstIn(b, s, C)
  /\ \A b, s, C : Parser!FirstNotIn(b, s, C) = Reader!FirstNotIn(b, s, C)
BY Zenon
   DEF Parser!Take, Reader!Take, Parser!Drop, Reader!Drop, Parser!Byte, Reader!Byte,
       Parser!FirstIn, Reader!FirstIn, Parser!FirstNotIn, Reader!FirstNotIn

LEMMA SameScans ==
  /\ \A b, s, C : Parser!sv_trim_left(b, s, C) = Reader!sv_trim_left(b, s, C)
  /\ \A b, s, C : Parser!sv_split_at_delims(b, s, C) = Reader!sv_split_at_delims(b, s, C)
  /\ \A b, s : Parser!sv_trim_whitespace(b, s) = Reader!sv_trim_whitespace(b, s)
<1>1. \A b, s, C : Parser!sv_trim_left(b, s, C) = Reader!sv_trim_left(b, s, C)
  BY SameViews, Zenon DEF Parser!sv_trim_left, Reader!sv_trim_left
<1>2. \A b, s, C : Parser!sv_split_at_delims(b, s, C) = Reader!sv_split_at_delims(b, s, C)
  BY SameConstants, SameViews, Zenon
     DEF Parser!sv_split_at_delims, Reader!sv_split_at_delims
<1>3. \A b, s : Parser!sv_trim_right_whitespace(b, s) = Reader!sv_trim_right_whitespace(b, s)
  BY Zenon
     DEF Parser!sv_trim_right_whitespace, Reader!sv_trim_right_whitespace,
         Parser!Take, Reader!Take, Parser!Byte, Reader!Byte, Parser!Space, Reader!Space,
         Parser!LineEnds, Reader!LineEnds
<1>4. \A b, s : Parser!sv_trim_whitespace(b, s) = Reader!sv_trim_whitespace(b, s)
  BY <1>1, <1>3, SameConstants, Zenon
     DEF Parser!sv_trim_whitespace, Reader!sv_trim_whitespace
<1>. QED
  BY <1>1, <1>2, <1>4, Zenon

LEMMA SameLexers ==
  ASSUME buf = original, NEW v
  PROVE  /\ Parser!parse_line_start(v) = Reader!parse_line_start(v)
         /\ Parser!parse_pattern(v) = Reader!parse_pattern(v)
         /\ Parser!parse_pattern_delim(v) = Reader!parse_pattern_delim(v)
         /\ Parser!parse_command(v) = Reader!parse_command(v)
<1>1. \A a, b, c : Parser!Lexed(a, b, c) = Reader!Lexed(a, b, c)
  BY Zenon DEF Parser!Lexed, Reader!Lexed
<1>2. \A c : Parser!get_delim_kind(c) = Reader!get_delim_kind(c)
  BY Zenon DEF Parser!get_delim_kind, Reader!get_delim_kind
<1>3. \A u : Parser!parse_pattern_delim(u) = Reader!parse_pattern_delim(u)
  BY <1>1, <1>2, SameConstants, SameViews, SameScans, Zenon
     DEF Parser!parse_pattern_delim, Reader!parse_pattern_delim
<1>4. Parser!parse_line_start(v) = Reader!parse_line_start(v)
  BY <1>1, SameConstants, SameViews, SameScans, Zenon
     DEF Parser!parse_line_start, Reader!parse_line_start
<1>5. Parser!parse_pattern(v) = Reader!parse_pattern(v)
  BY <1>1, <1>3, SameConstants, SameViews, SameScans, Zenon
     DEF Parser!parse_pattern, Reader!parse_pattern
<1>6. Parser!parse_command(v) = Reader!parse_command(v)
  BY <1>1, SameConstants, SameViews, SameScans, Zenon
     DEF Parser!parse_command, Reader!parse_command
<1>. QED
  BY <1>3, <1>4, <1>5, <1>6, Zenon

LEMMA SameConsume ==
  ASSUME buf = original, NEW lex
  PROVE  Parser!Consume(lex) => Reader!Consume(lex)
<1>1. \A s, k : Parser!Successors(s, k) = Reader!Successors(s, k)
  BY Zenon DEF Parser!Successors, Reader!Successors, Parser!ParserState,
               Reader!ParserState, Parser!Transition, Reader!Transition
<1>2. ASSUME NEW p
      PROVE  Parser!find_file_pos(p) = Reader!find_file_pos(p)
  <2>. DEFINE Newlines(b) == {i \in 0 .. p - 1 : b[i + 1] = "\n"}
              Column(n, max) == IF n = {} THEN p ELSE p - max - 1
              Pos(n, full, fails, line, max) ==
                IF p \notin 0 .. full.len - 1 THEN fails
                ELSE [kind |-> "token", line |-> line, column |-> Column(n, max)]
  <2>1. Parser!FullText = Reader!FullText /\ Parser!AssertFails = Reader!AssertFails
    BY Zenon DEF Parser!FullText, Reader!FullText, Parser!AssertFails, Reader!AssertFails
  <2>2. Newlines(buf) = Newlines(original)
    BY Zenon
  <2>3. Parser!Max(Newlines(buf)) = Reader!Max(Newlines(original))
    BY <2>2, Zenon DEF Parser!Max, Reader!Max
  <2>6. Parser!Cardinality(Newlines(buf)) = Reader!Cardinality(Newlines(original))
    BY <2>2, Zenon DEF Parser!Cardinality, Reader!Cardinality
  <2>4. Parser!find_file_pos(p) =
          Pos(Newlines(buf), Parser!FullText, Parser!AssertFails,
              Parser!Cardinality(Newlines(buf)), Parser!Max(Newlines(buf)))
    BY Zenon DEF Parser!find_file_pos
  <2>5. Reader!find_file_pos(p) =
          Pos(Newlines(original), Reader!FullText, Reader!AssertFails,
              Reader!Cardinality(Newlines(original)), Reader!Max(Newlines(original)))
    BY Zenon DEF Reader!find_file_pos
  <2>. HIDE DEF Pos, Newlines
  <2>. QED
    BY <2>1, <2>2, <2>3, <2>4, <2>5, <2>6, Zenon
<1>3. Parser!NoReport = Reader!NoReport /\ Parser!ReportEof = Reader!ReportEof
  BY Zenon DEF Parser!NoReport, Reader!NoReport, Parser!ReportEof, Reader!ReportEof
<1>. QED
  BY <1>1, <1>2, <1>3, Zenon DEF Parser!Consume, Reader!Consume

\* A call of fnmar_parser_next on the buffer is one on the text.
LEMMA SameNext ==
  ASSUME buf = original, Parser!fnmar_parser_next
  PROVE  Reader!fnmar_parser_next
<1>1. \A state : Parser!In(state) <=> Reader!In(state)
  BY Zenon DEF Parser!In, Reader!In
<1>2. CASE Parser!LineStart
  BY <1>1, <1>2, SameLexers, SameConsume, Zenon
     DEF Parser!LineStart, Reader!LineStart, Reader!fnmar_parser_next
<1>3. CASE Parser!Pattern
  BY <1>1, <1>3, SameLexers, SameConsume, Zenon
     DEF Parser!Pattern, Reader!Pattern, Reader!fnmar_parser_next
<1>4. CASE Parser!PatternDelim
  BY <1>1, <1>4, SameLexers, SameConsume, Zenon
     DEF Parser!PatternDelim, Reader!PatternDelim, Reader!fnmar_parser_next
<1>5. CASE Parser!Command
  BY <1>1, <1>5, SameLexers, SameConsume, Zenon
     DEF Parser!Command, Reader!Command, Reader!fnmar_parser_next
<1>. QED
  BY <1>2, <1>3, <1>4, <1>5, Zenon DEF Parser!fnmar_parser_next

LEMMA SameStart == Parser!fnmar_parser_start(original) = Reader!fnmar_parser_start(original)
BY SameConstants, SameScans, Zenon DEF Parser!fnmar_parser_start, Reader!fnmar_parser_start

LEMMA SameTypes ==
  /\ Parser!Parser = Reader!Parser /\ Reader!View = View
  /\ Format!View = View /\ Formatter!View = View
BY Zenon
   DEF Parser!Parser, Reader!Parser, Parser!ParserState, Reader!ParserState,
       Parser!Token, Reader!Token, Parser!TokenKind, Reader!TokenKind,
       Parser!View, Reader!View, View, Format!View, Formatter!View

\* The string of a token is a view.
LEMMA TokenIsView == ASSUME NEW p \in Parser!Parser PROVE p.token.str \in View
<1>1. p.token.str \in Parser!View
  BY DEF Parser!Parser, Parser!Token
<1>. QED
  BY <1>1, Zenon DEF Parser!View, View

\* A step of the loader.
LEMMA SameLoad == Config!cstrbuf_init_from_file \/ Config!Edit => Loader!Next
BY Zenon
   DEF Config!cstrbuf_init_from_file, Config!Edit, Config!Open, Config!Size,
       Config!Alloc, Config!Read, Config!ReadEnds, Config!ftell, Config!readable,
       Config!bytes_read, Config!NUL,
       Loader!Next, Loader!cstrbuf_init_from_file, Loader!Edit, Loader!Open, Loader!Size,
       Loader!Alloc, Loader!Read, Loader!ReadEnds, Loader!ftell, Loader!readable,
       Loader!bytes_read, Loader!NUL

-----------------------------------------------------------------------------
(* What the instances' invariants say here.                                *)

LEMMA Assumptions ==
  /\ Files \subseteq Seq(STRING) /\ Saves \subseteq Files
  /\ Missing \notin Files /\ Pipe \notin Files /\ Pipe # Missing
  /\ SIZE_MAX \in Nat \ {0} /\ (\A f \in Files : Len(f) < SIZE_MAX) /\ MaxEdits \in Nat
  /\ Filename \in Seq(STRING) /\ NUL \in STRING
BY FilesAssumption, SizesAssumption, FilenameAssumption, ByteAssumption, Zenon
   DEF FilesAssumption, SizesAssumption, FilenameAssumption, ByteAssumption

LEMMA LoaderStarts == Loader!Init => Loader!IInv
BY Loader!InitInvariant, Assumptions, Zenon DEF NUL, Loader!NUL

LEMMA LoaderSteps == Loader!IInv /\ [Loader!Next]_Loader!configVars => Loader!IInv'
BY Loader!Inductive, Assumptions, Zenon DEF NUL, Loader!NUL

LEMMA ReaderStarts == (Reader!Init => Reader!IInv)'
<1>1. Reader!Init => Reader!IInv
  BY Reader!InitInvariant, Assumptions, Zenon DEF NUL, Reader!NUL
<1>. QED
  BY <1>1, PTL

LEMMA ReaderSteps ==
  ASSUME Reader!IInv, Reader!fnmar_parser_next, original' = original
  PROVE  Reader!IInv'
BY Reader!NextInvariant, Assumptions, Zenon DEF NUL, Reader!NUL

LEMMA ReaderStays ==
  ASSUME Reader!IInv, UNCHANGED <<got, parser, report>>
  PROVE  Reader!IInv' /\ original' = original
<1>1. original' = original
  BY Zenon DEF original
<1>2. UNCHANGED Reader!vars
  BY <1>1, Zenon DEF Reader!vars
<1>. QED
  BY <1>1, <1>2, Reader!StutterInvariant, Assumptions, Zenon DEF NUL, Reader!NUL

LEMMA LoadedTexts ==
  /\ Texts = Loader!Mixtures /\ Texts \subseteq Seq(STRING)
  /\ \A t \in Texts : Len(t) \in Nat /\ t # Missing
<1>1. Texts = Loader!Mixtures
  BY Zenon DEF Texts, Config!Mixtures, Loader!Mixtures
<1>2. Texts \subseteq Seq(STRING)
  BY Zenon DEF Texts, Config!Mixtures
<1>3. \A t \in Seq(STRING) : Len(t) \in Nat
  BY SMT
<1>. QED
  BY <1>1, <1>2, <1>3, TextsAssumption, Zenon DEF TextsAssumption

LEMMA TextFacts ==
  ASSUME got \in Texts
  PROVE  /\ original \in Seq(STRING) /\ Len(original) = Len(got) + 1 /\ Len(original) \in Nat
         /\ original # << >> /\ original[Len(got) + 1] = NUL /\ Len(got) \in Nat
<1>1. got \in Seq(STRING) /\ Len(got) \in Nat
  BY LoadedTexts, Zenon
<1>2. Loader!NUL = NUL
  BY Zenon DEF Loader!NUL, NUL
<1>3. /\ original \in Seq(STRING) \ {<< >>} /\ Len(original) = Len(got) + 1
      /\ original[Len(got) + 1] = NUL
  BY <1>1, <1>2, Loader!TerminatedText, Assumptions, Zenon DEF original
<1>. QED
  BY <1>1, <1>3, SMT

\* From a byte's place in the buffer to its place in a view.
LEMMA PlaceInView ==
  ASSUME NEW p \in Nat, NEW n \in Nat, NEW k \in p + 1 .. p + n
  PROVE  k - p - 1 \in 0 .. n - 1 /\ p + (k - p - 1) + 1 = k
BY SMT

\* A pattern or a command lies in the text, holds no NUL and ends before what
\* the parser has still to read.
LEMMA TokenFacts ==
  ASSUME Reader!IInv, parser.token.kind \in {"TOK_PATTERN", "TOK_CMD"}
  PROVE  LET t == parser.token.str
         IN  /\ t \in View /\ t.ptr \in Nat /\ t.len \in Nat /\ t.len > 0
             /\ End(t) = t.ptr + t.len /\ End(t) \in 0 .. Len(original) - 1
             /\ Len(original) \in Nat
             /\ \A k \in t.ptr + 1 .. End(t) : original[k] # NUL
             /\ parser.tail.len > 0 => End(t) <= parser.tail.ptr
<1>. DEFINE t == parser.token.str
<1>1. /\ original \in Seq(STRING) /\ Len(original) > 0 /\ parser \in Reader!Parser
      /\ Reader!Unread(parser.tail) /\ Reader!TokenIsRead /\ Reader!TokensWellFormed
  BY Zenon DEF Reader!IInv, Reader!TypeOK
<1>2. t \in View /\ parser.tail \in View
  BY <1>1, SameTypes DEF Reader!Parser, Reader!Token
<1>3. PICK C : Reader!Trimmed(t, C)
  BY <1>1, Zenon DEF Reader!TokensWellFormed
<1>4. Reader!End(t) = End(t) /\ Reader!NUL = NUL /\ Reader!Literal = Literal
  BY Zenon DEF Reader!End, End, Reader!NUL, NUL, Reader!Literal, Literal
<1>5. /\ t.len > 0 /\ t.ptr \in 0 .. Len(original) - 1 /\ End(t) <= Reader!TextEnd
      /\ \A k \in 0 .. t.len - 1 : original[t.ptr + k + 1] # NUL
  BY <1>3, <1>4, Zenon DEF Reader!Trimmed, Reader!Byte
<1>6. Reader!TextEnd \in 0 .. Len(original) - 1
  BY <1>1, Reader!TextEndInBuffer, Assumptions, Zenon DEF Reader!BufOK, NUL, Reader!NUL
<1>7. /\ t.ptr \in Nat /\ t.len \in Nat /\ End(t) = t.ptr + t.len
      /\ Len(original) \in Nat /\ End(t) \in 0 .. Len(original) - 1
  BY <1>1, <1>2, <1>5, <1>6, SMT DEF View, End
<1>. HIDE DEF t
<1>8. ASSUME NEW k \in t.ptr + 1 .. End(t)
      PROVE  original[k] # NUL
  <2>1. k - t.ptr - 1 \in 0 .. t.len - 1 /\ t.ptr + (k - t.ptr - 1) + 1 = k
    <3>1. k \in t.ptr + 1 .. t.ptr + t.len
      BY <1>7, Zenon
    <3>2. t.ptr \in Nat /\ t.len \in Nat
      BY <1>7, Zenon
    <3>. QED
      BY <3>1, <3>2, PlaceInView, Zenon
  <2>. QED
    BY <1>5, <2>1, Zenon
<1>9. ASSUME parser.tail.len > 0
      PROVE  End(t) <= parser.tail.ptr
  <2>1. parser.tail # Reader!str_empty /\ ~(parser.tail.len = 0)
    BY <1>9, <1>2, SMT DEF Reader!str_empty, View
  <2>2. parser.tail.ptr \in 0 .. Len(original) - 1
    BY <1>1, <2>1, Zenon DEF Reader!Unread, Reader!Solid
  <2>3. parser.tail.ptr # Reader!Literal
    BY <1>7, <2>2, SMT DEF Reader!Literal
  <2>. QED
    BY <1>1, <1>4, <2>3, Zenon DEF Reader!TokenIsRead, Reader!Where, t
<1>. QED
  BY <1>2, <1>5, <1>7, <1>8, <1>9, Zenon DEF t

\* What a C function reads at p, if the first NUL from there on is after e.
LEMMA CStrUpTo ==
  ASSUME NEW b \in Seq(STRING), NEW p \in Nat, NEW e \in p .. Len(b) - 1,
         b[e + 1] = NUL, \A k \in p + 1 .. e : b[k] # NUL
  PROVE  CStr(b, p) = SubSeq(b, p + 1, e)
<1>. DEFINE S == {k \in p + 1 .. Len(b) : b[k] = NUL}
<1>1. e \in Int /\ Len(b) \in Nat /\ e + 1 \in p + 1 .. Len(b)
  BY SMT
<1>2. e + 1 \in S
  BY <1>1, Zenon
<1>3. \A k \in S : e + 1 <= k /\ k \in Int
  <2>. SUFFICES ASSUME NEW k \in S, ~(e + 1 <= k) PROVE FALSE
    BY SMT
  <2>1. k \in p + 1 .. e
    BY <1>1, SMT
  <2>. QED
    BY <2>1, Zenon
<1>. HIDE DEF S
<1>4. \A m \in S : (\A y \in S : m <= y) => m = e + 1
  BY <1>1, <1>2, <1>3, SMT
<1>5. Min(S) = e + 1
  BY <1>2, <1>3, <1>4, Zenon DEF Min
<1>6. (e + 1) - 1 = e
  BY <1>1, SMT
<1>. QED
  BY <1>5, <1>6, Zenon DEF CStr, S

-----------------------------------------------------------------------------
(* Every step keeps the invariant.                                         *)

Reads == {"parse", "token", "fnmatch", "revert", "format"}

\* While evaluate() touches neither the file nor the parser, the parser's
\* invariant goes on holding of the text.
LEMMA StillParsing ==
  ASSUME Parsing, pc \in Reads, UNCHANGED <<load, configVars, parserVars>>
  PROVE  Parsing' /\ original' = original
<1>1. UNCHANGED <<load, got, parser, report>>
  BY Zenon DEF configVars, parserVars
<1>2. load = "done" /\ got \in Texts /\ Reader!IInv
  BY Zenon DEF Parsing, Reads
<1>3. Reader!IInv' /\ original' = original
  BY <1>1, <1>2, ReaderStays, Zenon
<1>. QED
  BY <1>1, <1>2, <1>3, Zenon DEF Parsing

\* The types that loading a file can change are those of its own invariant.
LEMMA LoaderTypes ==
  ASSUME Loader!IInv
  PROVE  /\ disk \in Seq(STRING) \cup {Missing, Pipe} /\ edits \in 0 .. MaxEdits
         /\ load \in {"open", "size", "alloc", "read", "done", "abort"}
         /\ len \in Nat /\ got \in Seq(STRING) /\ buf \in Seq(STRING)
         /\ heap \subseteq {"config_str"}
         /\ err \in Config!Error
BY Zenon DEF Loader!IInv, Loader!TypeOK, Loader!Error, Config!Error

\* Steps that leave the command alone, and the ends without one.
LEMMA StillFits ==
  ASSUME Formatting, cmd' = cmd, pc' \notin {"format", "deinit", "exit"}
  PROVE  Formatting'
BY Zenon DEF Formatting, Format!CmdFits

LEMMA NoCommand ==
  ASSUME Formatting, cmd' = cmd, fmt' = "idle", ran' = << >>, pc' = "deinit"
  PROVE  Formatting'
BY Zenon DEF Formatting, Format!CmdFits, Format!AllOrNothing

LEMMA InitInvariant == Init => IInv
<1>. SUFFICES ASSUME Init PROVE IInv
  OBVIOUS
<1>1. Loader!IInv
  <2>1. Loader!Init
    BY Zenon DEF Init, Config!Init, Loader!Init
  <2>. QED
    BY <2>1, LoaderStarts, Zenon
<1>2. str_zero \in View /\ parser_zero \in Parser!Parser
  <2>1. str_zero \in View /\ Parser!str_zero = str_zero /\ Parser!View = View
    BY SMT DEF str_zero, NullPtr, View, Parser!str_zero, Parser!NullPtr, Parser!View
  <2>. QED
    BY <2>1, SMT DEF parser_zero, Parser!Parser, Parser!ParserState, Parser!Token,
       Parser!TokenKind
<1>3. cmd \in CstrBufs /\ Fits(cmd) /\ tail \in View /\ ran \in Seq(Seq(STRING))
  <2>1. cmd = cstrbuf_zero /\ tail = str_zero /\ ran = << >>
    BY Zenon DEF Init, Format!cstrbuf_zero, cstrbuf_zero
  <2>. QED
    BY <2>1, <1>2, ZeroFits, SMT
<1>4. TypeOK
  <2>1. removed_char \in STRING /\ found_match \in BOOLEAN /\ pc = "load" /\ fmt = "idle"
        /\ parser \in Parser!Parser /\ heap \subseteq {"config_str", "cmd"}
    BY <1>1, <1>2, LoaderTypes, Assumptions, Zenon DEF Init
  <2>2. Format!TypeOK
    BY <1>1, <1>3, <2>1, LoaderTypes, SameTypes, TokenIsView, Zenon
       DEF Format!TypeOK, CstrBufs
  <2>. QED
    BY <1>1, <2>1, <2>2, LoaderTypes, Zenon DEF TypeOK
<1>5. Loading /\ Parsing /\ Patching
  BY <1>1, Zenon DEF Init, Loading, Parsing, Patching
<1>6. Owning
  BY <1>1, LoaderTypes, Zenon DEF Init, Owning
<1>7. Formatting
  BY <1>3, Zenon DEF Init, Formatting, Fits, Format!CmdFits
<1>. QED
  BY <1>4, <1>5, <1>6, <1>7, Zenon DEF IInv

LEMMA LoadInvariant == IInv /\ Load => IInv'
<1>. SUFFICES ASSUME IInv, Load PROVE IInv'
  OBVIOUS
<1>1. pc = "load" /\ pc' = "load"
      /\ UNCHANGED <<parser, report, fmt, tail, cmd, ran, found_match, removed_char>>
  BY Zenon DEF Load, parserVars, formatVars
<1>2. Loader!IInv /\ parser = parser_zero /\ report = Parser!NoReport
      /\ fmt = "idle" /\ ran = << >>
  BY <1>1, Zenon DEF IInv, Loading
<1>3. Loader!Next
  BY SameLoad, Zenon DEF Load
<1>4. Loader!IInv'
  BY <1>2, <1>3, LoaderSteps, Zenon
<1>5. /\ (disk \in Seq(STRING) \cup {Missing, Pipe})' /\ (edits \in 0 .. MaxEdits)'
      /\ (load \in {"open", "size", "alloc", "read", "done", "abort"})'
      /\ (len \in Nat)' /\ (got \in Seq(STRING))' /\ (buf \in Seq(STRING))'
      /\ (heap \subseteq {"config_str"})'
      /\ (err \in Config!Error)'
  BY <1>4, Zenon DEF Loader!IInv, Loader!TypeOK, Loader!Error, Config!Error
<1>6. TypeOK'
  <2>1. /\ fmt' = fmt /\ tail' = tail /\ cmd' = cmd /\ ran' = ran /\ parser' = parser
        /\ found_match' = found_match /\ removed_char' = removed_char
    BY <1>1, Zenon
  <2>2. parser \in Parser!Parser /\ found_match \in BOOLEAN /\ removed_char \in STRING
        /\ Format!TypeOK
    BY Zenon DEF IInv, TypeOK
  <2>3. Format!TypeOK'
    BY <1>5, <2>1, <2>2, Zenon DEF Format!TypeOK
  <2>4. heap' \subseteq {"config_str", "cmd"}
    BY <1>5, Zenon
  <2>. QED
    BY <1>1, <1>5, <2>1, <2>2, <2>3, <2>4, Zenon DEF TypeOK
<1>7. Loading' /\ Parsing' /\ Patching'
  BY <1>1, <1>2, <1>4, Zenon DEF Loading, Parsing, Patching, Parser!NoReport, parser_zero
<1>8. Owning'
  BY <1>1, <1>5, Zenon DEF Owning
<1>9. Formatting'
  BY <1>1, StillFits, Zenon DEF IInv
<1>. QED
  BY <1>6, <1>7, <1>8, <1>9, Zenon DEF IInv

\* The text that was loaded is the one that the parser starts on.
LEMMA ReaderBegins ==
  ASSUME IInv, StartParser, err = "OK"
  PROVE  /\ Reader!Init' /\ pc' = "parse"
         /\ got \in Texts /\ buf = original /\ original' = original
<1>1. /\ pc = "load" /\ load = "done" /\ pc' = "parse"
      /\ parser' = Parser!fnmar_parser_start(buf)
      /\ UNCHANGED <<got, report>>
  BY Zenon DEF StartParser, configVars
<1>2. Loader!IInv /\ report = Parser!NoReport
  BY <1>1, Zenon DEF IInv, Loading
<1>3. got \in Texts /\ buf = original
  BY <1>1, <1>2, LoadedTexts, Zenon
     DEF Loader!IInv, Loader!OwnedIffOK, Loader!BytesInPlace, original, NUL, Loader!NUL
<1>4. original' = original
  BY <1>1, Zenon DEF original
<1>5. \E f \in Seq(STRING) : original = Append(f, Reader!NUL)
  <2>1. got \in Seq(STRING)
    BY <1>3, LoadedTexts, Zenon
  <2>. QED
    BY <2>1, Zenon DEF original, Reader!NUL, NUL
<1>6. parser' = Reader!fnmar_parser_start(original) /\ report' = Reader!NoReport
  BY <1>1, <1>2, <1>3, SameStart, SameConstants, Zenon
<1>7. Reader!fnmar_parser_start(original) = Reader!fnmar_parser_start(original')
  BY <1>4, Zenon
<1>. QED
  BY <1>1, <1>3, <1>4, <1>5, <1>6, <1>7, Zenon DEF Reader!Init

LEMMA StartParserInvariant == IInv /\ StartParser => IInv'
<1>. SUFFICES ASSUME IInv, StartParser PROVE IInv'
  OBVIOUS
<1>1. /\ pc = "load" /\ load = "done"
      /\ UNCHANGED <<disk, edits, load, len, got, buf, report, fmt, tail, cmd, ran, heap, err,
                     found_match, removed_char>>
  BY Zenon DEF StartParser, configVars, formatVars
<1>2. Loader!IInv /\ parser = parser_zero /\ report = Parser!NoReport
      /\ fmt = "idle" /\ ran = << >>
  BY <1>1, Zenon DEF IInv, Loading
<1>3. heap \subseteq {"config_str"} /\ (err = "OK" <=> buf # << >>)
  BY <1>1, <1>2, LoaderTypes, Zenon DEF Loader!IInv, Loader!OwnedIffOK
<1>4. Loading' \/ pc' = "load"
  BY Zenon DEF Loading
<1>5. CASE err # "OK" /\ pc' = "deinit" /\ UNCHANGED parser
  <2>1. Parsing' /\ Patching' /\ Owning'
    BY <1>1, <1>2, <1>3, <1>5, Zenon DEF Parsing, Patching, Owning, Settled
  <2>2. TypeOK'
    BY <1>1, <1>5, Zenon DEF IInv, TypeOK, Format!TypeOK
  <2>3. Formatting'
    BY <1>1, <1>2, <1>5, NoCommand, Zenon DEF IInv
  <2>. QED
    BY <1>4, <1>5, <2>1, <2>2, <2>3, Zenon DEF IInv
<1>6. CASE err = "OK" /\ pc' = "parse" /\ parser' = Parser!fnmar_parser_start(buf)
  <2>1. got \in Texts /\ buf = original /\ original' = original
    BY <1>6, ReaderBegins, Zenon
  <2>2. buf' = original'
    BY <1>1, <2>1, Zenon
  <2>3. Reader!Init'
    BY <1>6, ReaderBegins, Zenon
  <2>4. Reader!IInv'
    BY <2>3, ReaderStarts, Zenon
  <2>5. parser' \in Parser!Parser
    BY <2>4, SameTypes, Zenon DEF Reader!IInv, Reader!TypeOK
  <2>6. TypeOK'
    BY <1>1, <1>6, <2>5, SameTypes, TokenIsView, Zenon DEF IInv, TypeOK, Format!TypeOK
  <2>7. Parsing' /\ Patching' /\ Owning'
    BY <1>1, <1>2, <1>3, <1>6, <2>1, <2>2, <2>4, Zenon DEF Parsing, Patching, Owning
  <2>8. Formatting'
    BY <1>1, <1>6, StillFits, Zenon DEF IInv
  <2>. QED
    BY <1>4, <1>6, <2>6, <2>7, <2>8, Zenon DEF IInv
<1>. QED
  BY <1>1, <1>5, <1>6, Zenon DEF StartParser

LEMMA NextTokenInvariant == IInv /\ NextToken => IInv'
<1>. SUFFICES ASSUME IInv, NextToken PROVE IInv'
  OBVIOUS
<1>1. /\ pc = "parse" /\ pc' = "token"
      /\ UNCHANGED <<disk, edits, load, len, got, buf, fmt, tail, cmd, ran, heap, err,
                     found_match, removed_char>>
  BY Zenon DEF NextToken, configVars, formatVars
<1>2. load = "done" /\ got \in Texts /\ Reader!IInv
      /\ buf = original
  BY <1>1, Zenon DEF IInv, Parsing, Patching
<1>3. original' = original
  BY <1>1, Zenon DEF original
<1>4. Reader!fnmar_parser_next
  BY <1>2, SameNext, Zenon DEF NextToken
<1>5. Reader!IInv'
  BY <1>2, <1>3, <1>4, ReaderSteps, Zenon
<1>6. parser' \in Parser!Parser
  BY <1>5, SameTypes, Zenon DEF Reader!IInv, Reader!TypeOK
<1>7. TypeOK'
  BY <1>1, <1>6, SameTypes, TokenIsView, Zenon DEF IInv, TypeOK, Format!TypeOK
<1>8. Loading' /\ Parsing' /\ Patching' /\ Owning'
  BY <1>1, <1>2, <1>3, <1>5, Zenon DEF IInv, Loading, Parsing, Patching, Owning
<1>9. Formatting'
  BY <1>1, StillFits, Zenon DEF IInv
<1>. QED
  BY <1>7, <1>8, <1>9, Zenon DEF IInv

LEMMA NoMatchesInvariant == IInv /\ NoMatches => IInv'
<1>. SUFFICES ASSUME IInv, NoMatches PROVE IInv'
  OBVIOUS
<1>1. /\ pc = "parse" /\ pc' = "deinit" /\ err' = "ERR_NO_MATCHES"
      /\ UNCHANGED <<disk, edits, load, len, got, buf, parser, report, fmt, tail, cmd, ran, heap,
                     found_match, removed_char>>
  BY Zenon DEF NoMatches, configVars, parserVars, formatVars
<1>2. buf = original /\ original' = original
  BY <1>1, Zenon DEF IInv, Patching, original
<1>3. err' \in Config!Error
  BY <1>1, Zenon DEF Config!Error
<1>4. TypeOK'
  BY <1>1, <1>3, Zenon DEF IInv, TypeOK, Format!TypeOK
<1>5. Loading' /\ Parsing' /\ Patching'
  BY <1>1, <1>2, Zenon DEF IInv, Loading, Parsing, Patching
<1>6. Owning'
  BY <1>1, Zenon DEF IInv, Owning, Settled
<1>7. Formatting'
  BY <1>1, NoCommand, Zenon DEF IInv, Owning
<1>. QED
  BY <1>4, <1>5, <1>6, <1>7, Zenon DEF IInv

\* A terminator is written over a byte of the text, and that byte remembered.
LEMMA IntoCstrInvariant == IInv /\ IntoCstr => IInv'
<1>. SUFFICES ASSUME IInv, IntoCstr PROVE IInv'
  OBVIOUS
<1>. DEFINE i == End(parser.token.str) + 1
<1>1. /\ pc = "token" /\ pc' = "fnmatch" /\ parser.token.kind = "TOK_PATTERN"
      /\ UNCHANGED <<disk, edits, load, len, got, parser, report, fmt, tail, cmd, ran, heap, err,
                     found_match>>
  BY Zenon DEF IntoCstr, TestPattern, configVars, parserVars, formatVars
<1>2. got \in Texts /\ Reader!IInv /\ buf = original
  BY <1>1, Zenon DEF IInv, Parsing, Patching
<1>3. Parsing' /\ original' = original
  BY <1>1, StillParsing, Zenon DEF IInv, Reads, configVars, parserVars
<1>4. original \in Seq(STRING) /\ i \in 1 .. Len(original)
  <2>1. End(parser.token.str) \in 0 .. Len(original) - 1 /\ Len(original) \in Nat
    BY <1>1, <1>2, TokenFacts, Zenon
  <2>. QED
    BY <1>2, <2>1, TextFacts, SMT
<1>5. removed_char' = original[i] /\ buf' = [original EXCEPT ![i] = NUL]
  BY <1>2, Zenon DEF IntoCstr, str_into_cstr_unsafe
<1>6. removed_char' \in STRING /\ buf' \in Seq(STRING)
  <2>1. original[i] \in STRING
    BY <1>4, ElementOfSeq, Zenon
  <2>2. [original EXCEPT ![i] = NUL] \in Seq(STRING)
    BY <1>4, Assumptions, ExceptSeq, Zenon
  <2>. QED
    BY <1>5, <2>1, <2>2, Zenon
<1>. HIDE DEF i
<1>7. TypeOK'
  BY <1>1, <1>6, Zenon DEF IInv, TypeOK, Format!TypeOK
<1>8. Patching'
  BY <1>1, <1>3, <1>5, Zenon DEF Patching, i
<1>9. Loading' /\ Owning' /\ Formatting'
  BY <1>1, StillFits, Zenon DEF IInv, Loading, Owning
<1>. QED
  BY <1>3, <1>7, <1>8, <1>9, Zenon DEF IInv

LEMMA FnmatchInvariant == IInv /\ Fnmatch => IInv'
<1>. SUFFICES ASSUME IInv, Fnmatch PROVE IInv'
  OBVIOUS
<1>1. /\ pc = "fnmatch" /\ pc' = "revert"
      /\ UNCHANGED <<disk, edits, load, len, got, buf, parser, report, fmt, tail, cmd, ran, heap,
                     err, removed_char>>
  BY Zenon DEF Fnmatch, configVars, parserVars, formatVars
<1>2. found_match' \in BOOLEAN
  <2>. DEFINE match == CStr(buf, parser.token.str.ptr) \in Matching
  <2>1. match \in BOOLEAN /\ found_match' = match
    BY SMT DEF Fnmatch
  <2>. HIDE DEF match
  <2>. QED
    BY <2>1, Zenon
<1>3. Parsing' /\ original' = original
  BY <1>1, StillParsing, Zenon DEF IInv, Reads, configVars, parserVars
<1>4. TypeOK'
  BY <1>1, <1>2, Zenon DEF IInv, TypeOK, Format!TypeOK
<1>5. Loading' /\ Patching' /\ Owning' /\ Formatting'
  BY <1>1, <1>3, StillFits, Zenon DEF IInv, Loading, Patching, Owning
<1>. QED
  BY <1>3, <1>4, <1>5, Zenon DEF IInv

\* Putting the byte back restores the text.
LEMMA RevertInvariant == IInv /\ RevertIntoCstr => IInv'
<1>. SUFFICES ASSUME IInv, RevertIntoCstr PROVE IInv'
  OBVIOUS
<1>. DEFINE i == End(parser.token.str) + 1
<1>1. /\ pc = "revert" /\ pc' = "parse"
      /\ UNCHANGED <<disk, edits, load, len, got, parser, report, fmt, tail, cmd, ran, heap, err,
                     found_match, removed_char>>
  BY Zenon DEF RevertIntoCstr, configVars, parserVars, formatVars
<1>2. got \in Texts
  BY <1>1, Zenon DEF IInv, Parsing
<1>3. Parsing' /\ original' = original
  BY <1>1, StillParsing, Zenon DEF IInv, Reads, configVars, parserVars
<1>4. original \in Seq(STRING)
  BY <1>2, TextFacts, Zenon
<1>5. buf' = [[original EXCEPT ![i] = NUL] EXCEPT ![i] = original[i]]
  BY <1>1, Zenon DEF IInv, Patching, RevertIntoCstr, str_revert_into_cstr_unsafe
<1>6. buf' = original
  <2>1. original = [k \in 1 .. Len(original) |-> original[k]]
    BY <1>4, SMT
  <2>. HIDE DEF i
  <2>2. [[original EXCEPT ![i] = NUL] EXCEPT ![i] = original[i]]
          = [k \in 1 .. Len(original) |-> original[k]]
    BY <2>1, Zenon
  <2>. QED
    BY <1>5, <2>1, <2>2, Zenon
<1>. HIDE DEF i
<1>7. TypeOK'
  BY <1>1, <1>4, <1>6, Zenon DEF IInv, TypeOK, Format!TypeOK
<1>8. Loading' /\ Patching' /\ Owning' /\ Formatting'
  BY <1>1, <1>3, <1>6, StillFits, Zenon DEF IInv, Loading, Patching, Owning
<1>. QED
  BY <1>3, <1>7, <1>8, Zenon DEF IInv

LEMMA SkipTokenInvariant == IInv /\ SkipToken => IInv'
<1>. SUFFICES ASSUME IInv, SkipToken PROVE IInv'
  OBVIOUS
<1>1. /\ pc = "token" /\ pc' = "parse"
      /\ UNCHANGED <<disk, edits, load, len, got, buf, parser, report, fmt, tail, cmd, ran, heap,
                     err, found_match, removed_char>>
  BY Zenon DEF SkipToken, configVars, parserVars, formatVars
<1>2. Parsing' /\ original' = original
  BY <1>1, StillParsing, Zenon DEF IInv, Reads, configVars, parserVars
<1>3. TypeOK'
  BY <1>1, Zenon DEF IInv, TypeOK, Format!TypeOK
<1>4. Loading' /\ Patching' /\ Owning' /\ Formatting'
  BY <1>1, <1>2, StillFits, Zenon DEF IInv, Loading, Patching, Owning
<1>. QED
  BY <1>2, <1>3, <1>4, Zenon DEF IInv

-----------------------------------------------------------------------------
(* Formatting the command.                                                 *)

\* What evaluate() calls is what the proofs about format_and_run are about.
LEMMA SameExtend == \A str, next : Format!Extend(str, next) <=> Formatter!Extend(str, next)
<1>1. \A c : Format!GROW_CAP(c) = Formatter!GROW_CAP(c)
  BY Zenon DEF Format!GROW_CAP, Formatter!GROW_CAP
<1>2. \A c, t : Format!new_cap(c, t) = Formatter!new_cap(c, t)
  BY <1>1, Zenon
     DEF Format!new_cap, Formatter!new_cap, Format!MIN_CAP, Formatter!MIN_CAP
<1>3. \A c, t : Format!da_reserve(c, t) = Formatter!da_reserve(c, t)
  BY <1>2, Zenon DEF Format!da_reserve, Formatter!da_reserve
<1>4. \A b : Format!Failure(b) = Formatter!Failure(b)
  BY Zenon DEF Format!Failure, Formatter!Failure, Format!Outcome, Formatter!Outcome
<1>5. \A a, b, c : Format!Outcome(a, b, c) = Formatter!Outcome(a, b, c)
  BY Zenon DEF Format!Outcome, Formatter!Outcome
<1>6. \A b, str : Format!cstrbuf_extend(b, str) = Formatter!cstrbuf_extend(b, str)
  BY <1>3, <1>4, <1>5, Zenon DEF Format!cstrbuf_extend, Formatter!cstrbuf_extend
<1>. QED
  BY <1>6, Zenon DEF Format!Extend, Formatter!Extend

LEMMA SameSplit ==
  /\ \A b, s, D : Format!sv_split_delims(b, s, D) = Formatter!sv_split_delims(b, s, D)
  /\ \A b, s : Format!Content(b, s) = Formatter!Content(b, s)
<1>1. \A b, s, C : Format!FirstIn(b, s, C) = Formatter!FirstIn(b, s, C)
  BY Zenon DEF Format!FirstIn, Formatter!FirstIn, Format!Byte, Formatter!Byte
<1>2. /\ \A s, n : Format!Drop(s, n) = Formatter!Drop(s, n)
      /\ \A s, n : Format!Take(s, n) = Formatter!Take(s, n)
      /\ Format!NUL = Formatter!NUL /\ Format!str_empty = Formatter!str_empty
  BY Zenon
     DEF Format!Drop, Formatter!Drop, Format!Take, Formatter!Take, Format!NUL,
         Formatter!NUL, Format!str_empty, Formatter!str_empty, Format!Literal,
         Formatter!Literal
<1>3. \A b, s, D : Format!sv_split_at_delims(b, s, D) = Formatter!sv_split_at_delims(b, s, D)
  BY <1>1, <1>2, ZenonT(40) DEF Format!sv_split_at_delims, Formatter!sv_split_at_delims
<1>4. \A b, s, D : Format!sv_split_delims(b, s, D) = Formatter!sv_split_delims(b, s, D)
  BY <1>2, <1>3, Zenon DEF Format!sv_split_delims, Formatter!sv_split_delims
<1>. QED
  BY <1>4, Zenon DEF Format!Content, Formatter!Content

LEMMA SameFormat == Format!format_and_run => Formatter!format_and_run
<1>1. Format!Piece => Formatter!Piece
  BY SameExtend, SameSplit, Zenon DEF Format!Piece, Formatter!Piece
<1>2. Format!InsertFilename => Formatter!InsertFilename
  BY SameExtend, Zenon DEF Format!InsertFilename, Formatter!InsertFilename
<1>3. Format!Run \/ Format!Deinit => Formatter!Run \/ Formatter!Deinit
  BY Zenon DEF Format!Run, Formatter!Run, Format!Deinit, Formatter!Deinit
<1>. QED
  BY <1>1, <1>2, <1>3, Zenon DEF Format!format_and_run, Formatter!format_and_run

LEMMA SameTerms ==
  /\ Format!TypeOK <=> Formatter!TypeOK
  /\ Format!CmdFits <=> Formatter!CmdFits
  /\ Format!AllOrNothing <=> Formatter!AllOrNothing
<1>1. Format!TypeOK <=> Formatter!TypeOK
  BY SameTypes, Zenon DEF Format!TypeOK, Formatter!TypeOK
<1>2. Format!Expanded = Formatter!Expanded
  <2>1. \A x, f : Format!Meaning(x, f) = Formatter!Meaning(x, f)
    BY Zenon DEF Format!Meaning, Formatter!Meaning
  <2>2. \A c, f : Format!Expand(c, f) = Formatter!Expand(c, f)
    BY <2>1, Zenon DEF Format!Expand, Formatter!Expand
  <2>. QED
    BY <2>2, SameSplit, Zenon
       DEF Format!Expanded, Formatter!Expanded, Format!Command, Formatter!Command
<1>3. Format!AllOrNothing <=> Formatter!AllOrNothing
  BY <1>2, Zenon DEF Format!AllOrNothing, Formatter!AllOrNothing
<1>. QED
  BY <1>1, <1>3, Zenon DEF Format!CmdFits, Formatter!CmdFits

\* What its invariant says here.
LEMMA FormatterStarts ==
  (/\ Formatter!Legal /\ parser.token.str \in Formatter!View
   /\ fmt = "piece" /\ tail = parser.token.str /\ cmd = Formatter!cstrbuf_zero
   /\ ran = << >> /\ err = "OK"
   => Formatter!IInv)'
<1>1. /\ Formatter!Legal /\ parser.token.str \in Formatter!View
      /\ fmt = "piece" /\ tail = parser.token.str /\ cmd = Formatter!cstrbuf_zero
      /\ ran = << >> /\ err = "OK"
      => Formatter!IInv
  BY Formatter!CallInvariant, Assumptions, Zenon DEF NUL, Formatter!NUL
<1>. QED
  BY <1>1, PTL

LEMMA FormatterSteps == Formatter!IInv /\ Formatter!format_and_run => Formatter!IInv'
BY Formatter!StepInvariant, Assumptions, Zenon DEF NUL, Formatter!NUL

LEMMA FormatterStays ==
  ASSUME Formatter!IInv, UNCHANGED Formatter!formatVars
  PROVE  Formatter!IInv'
BY Formatter!StutterInvariant, Assumptions, Zenon DEF NUL, Formatter!NUL

\* What it promises to evaluate().
FormatPromise ==
  /\ Format!TypeOK /\ Format!CmdFits /\ Format!AllOrNothing
  /\ fmt # "idle"
  /\ fmt \in {"deinit", "done"} => Settled
  /\ fmt = "done" => "cmd" \notin heap

LEMMA FormatterMeans == Formatter!IInv => FormatPromise
<1>. SUFFICES ASSUME Formatter!IInv PROVE FormatPromise
  OBVIOUS
<1>1. Formatter!AllOrNothing /\ Formatter!CmdFits
  BY Formatter!WhatItMeans, Assumptions, Zenon DEF NUL, Formatter!NUL
<1>2. Formatter!TypeOK /\ fmt # "idle" /\ Formatter!Outcomes
  BY Zenon DEF Formatter!IInv
<1>3. \A c : Len(<<c>>) = 1
  BY SMT
<1>4. fmt \in {"deinit", "done"} => Settled
  BY <1>2, <1>3, Zenon DEF Formatter!Outcomes, Settled
<1>. QED
  BY <1>1, <1>2, <1>4, SameTerms, Zenon DEF Formatter!Outcomes, FormatPromise

LEMMA FormatterMeansNext == Formatter!IInv' => FormatPromise'
BY FormatterMeans, PTL

\* The command is a view of the text, which nothing patches any more.
LEMMA StartCommandInvariant == IInv /\ StartCommand => IInv'
<1>. SUFFICES ASSUME IInv, StartCommand PROVE IInv'
  OBVIOUS
<1>1. /\ pc = "token" /\ pc' = "format" /\ parser.token.kind = "TOK_CMD"
      /\ UNCHANGED <<disk, edits, load, len, got, buf, parser, report, ran, heap, found_match,
                     removed_char>>
      /\ fmt' = "piece" /\ tail' = parser.token.str /\ cmd' = Formatter!cstrbuf_zero
      /\ err' = "OK"
  BY Zenon
     DEF StartCommand, RunCommand, Format!Call, Format!cstrbuf_zero,
         Formatter!cstrbuf_zero, configVars, parserVars
<1>2. /\ got \in Texts /\ Reader!IInv /\ buf = original
      /\ ran = << >> /\ heap \subseteq {"config_str"}
  BY <1>1, Zenon DEF IInv, Parsing, Patching, Owning
<1>3. Parsing' /\ original' = original
  BY <1>1, StillParsing, Zenon DEF IInv, Reads, configVars, parserVars
<1>4. /\ parser.token.str \in Formatter!View /\ buf \in Seq(STRING)
      /\ Formatter!InText(buf, parser.token.str) /\ Formatter!NulFree(buf, parser.token.str)
  <2>. DEFINE t == parser.token.str
  <2>1. /\ t \in View /\ t.ptr \in Nat /\ End(t) \in 0 .. Len(original) - 1
        /\ Len(original) \in Nat
        /\ \A k \in t.ptr + 1 .. End(t) : original[k] # NUL
    BY <1>1, <1>2, TokenFacts, Zenon
  <2>2. buf \in Seq(STRING)
    BY <1>2, TextFacts, Zenon
  <2>3. Formatter!End(t) = End(t) /\ Formatter!NUL = NUL /\ t \in Formatter!View
    BY <2>1, SameTypes, Zenon DEF Formatter!End, End, Formatter!NUL, NUL
  <2>. HIDE DEF t
  <2>4. Formatter!InText(buf, t)
    <3>1. t.ptr >= 0 /\ End(t) <= Len(original)
      BY <2>1, SMT
    <3>. QED
      BY <1>2, <2>3, <3>1, Zenon DEF Formatter!InText
  <2>5. ASSUME NEW p \in t.ptr .. End(t) - 1
        PROVE  original[p + 1] # NUL
    <3>1. p + 1 \in t.ptr + 1 .. End(t)
      BY <2>1, SMT
    <3>. QED
      BY <2>1, <3>1, Zenon
  <2>6. Formatter!NulFree(buf, t)
    BY <1>2, <2>3, <2>5, Zenon DEF Formatter!NulFree
  <2>. QED
    BY <2>2, <2>3, <2>4, <2>6, Zenon DEF t
<1>5. Formatter!IInv'
  <2>1. Formatter!Legal' /\ (parser.token.str \in Formatter!View)'
    BY <1>1, <1>4, Zenon DEF Formatter!Legal
  <2>2. (ran = << >> /\ tail = parser.token.str /\ cmd = Formatter!cstrbuf_zero)'
    BY <1>1, <1>2, Zenon
  <2>. QED
    BY <1>1, <2>1, <2>2, FormatterStarts, Zenon
<1>6. TypeOK'
  <2>1. err' \in Config!Error
    BY <1>1, Zenon DEF Config!Error
  <2>. QED
    BY <1>1, <1>2, <1>5, <2>1, FormatterMeansNext, Zenon DEF IInv, TypeOK, FormatPromise
<1>7. Loading' /\ Patching' /\ Owning' /\ Formatting'
  BY <1>1, <1>2, <1>3, <1>5, FormatterMeansNext, Zenon
     DEF Loading, Patching, Owning, Formatting, FormatPromise
<1>. QED
  BY <1>3, <1>6, <1>7, Zenon DEF IInv

\* One step of format_and_run.
LEMMA FormatInvariant == IInv /\ FormatCommand => IInv'
<1>. SUFFICES ASSUME IInv, FormatCommand PROVE IInv'
  OBVIOUS
<1>1. /\ pc = "format" /\ pc' = "format" /\ buf' = buf
      /\ UNCHANGED <<disk, edits, load, len, got, parser, report, found_match, removed_char>>
  BY Zenon
     DEF FormatCommand, configVars, parserVars, Format!format_and_run, Format!Piece,
         Format!InsertFilename, Format!Run, Format!Deinit
<1>2. heap' \subseteq heap \cup {"cmd"} /\ err' \in {err, "ERR_OUT_OF_MEMORY"}
  BY Zenon
     DEF FormatCommand, Format!format_and_run, Format!Piece, Format!InsertFilename,
         Format!Extend, Format!Run, Format!Deinit
<1>3. Parsing' /\ original' = original /\ buf = original
  BY <1>1, StillParsing, Zenon DEF IInv, Reads, Patching, configVars, parserVars
<1>4. Formatter!IInv'
  BY <1>1, SameFormat, FormatterSteps, Zenon DEF IInv, Formatting, FormatCommand
<1>5. /\ Format!TypeOK' /\ Format!CmdFits' /\ fmt' # "idle"
      /\ fmt' = "done" => "cmd" \notin heap'
  BY <1>4, FormatterMeansNext, Zenon DEF FormatPromise
<1>6. heap' \subseteq {"config_str", "cmd"} /\ err' \in Config!Error
  BY <1>2, Zenon DEF IInv, TypeOK, Config!Error
<1>7. TypeOK'
  BY <1>1, <1>5, <1>6, Zenon DEF IInv, TypeOK
<1>8. Owning'
  <2>1. fmt' = "done" => heap' \subseteq {"config_str"}
    BY <1>5, <1>6, Zenon
  <2>. QED
    BY <1>1, <2>1, Zenon DEF Owning
<1>9. Loading' /\ Patching' /\ Formatting'
  BY <1>1, <1>3, <1>4, <1>5, Zenon DEF Loading, Patching, Formatting
<1>. QED
  BY <1>3, <1>7, <1>8, <1>9, Zenon DEF IInv

LEMMA CommandReturnsInvariant == IInv /\ CommandReturns => IInv'
<1>. SUFFICES ASSUME IInv, CommandReturns PROVE IInv'
  OBVIOUS
<1>1. /\ pc = "format" /\ fmt = "done" /\ pc' = "deinit"
      /\ UNCHANGED <<disk, edits, load, len, got, buf, parser, report, fmt, tail, cmd, ran, heap,
                     err, found_match, removed_char>>
  BY Zenon DEF CommandReturns, configVars, parserVars, formatVars
<1>2. original' = original
  BY <1>1, Zenon DEF original
<1>3. TypeOK'
  BY <1>1, Zenon DEF IInv, TypeOK, Format!TypeOK
<1>4. Loading' /\ Parsing' /\ Patching'
  BY <1>1, <1>2, Zenon DEF IInv, Loading, Parsing, Patching
<1>5. Settled /\ Format!AllOrNothing
  BY <1>1, FormatterMeans, Zenon DEF IInv, Formatting, FormatPromise
<1>6. Owning' /\ Formatting'
  BY <1>1, <1>5, Zenon
     DEF IInv, Owning, Settled, Formatting, Format!CmdFits, Format!AllOrNothing,
         Format!Expanded, Format!Command
<1>. QED
  BY <1>3, <1>4, <1>6, Zenon DEF IInv

LEMMA DeinitInvariant == IInv /\ Deinit => IInv'
<1>. SUFFICES ASSUME IInv, Deinit PROVE IInv'
  OBVIOUS
<1>1. /\ pc = "deinit" /\ pc' = "exit" /\ heap' = heap \ {"config_str"}
      /\ UNCHANGED <<disk, edits, load, len, got, buf, parser, report, fmt, tail, cmd, ran, err,
                     found_match, removed_char>>
  BY Zenon DEF Deinit, configVars, parserVars, formatVars
<1>2. heap' = {}
  BY <1>1, Zenon DEF IInv, Owning
<1>3. TypeOK'
  BY <1>1, <1>2, Zenon DEF IInv, TypeOK, Format!TypeOK
<1>4. Loading' /\ Parsing' /\ Patching'
  BY <1>1, Zenon DEF IInv, Loading, Parsing, Patching
<1>5. Owning' /\ Formatting'
  BY <1>1, <1>2, Zenon
     DEF IInv, Owning, Settled, Formatting, Format!CmdFits, Format!AllOrNothing,
         Format!Expanded, Format!Command
<1>. QED
  BY <1>3, <1>4, <1>5, Zenon DEF IInv

LEMMA StutterInvariant == IInv /\ UNCHANGED vars => IInv'
<1>. SUFFICES ASSUME IInv, UNCHANGED vars PROVE IInv'
  OBVIOUS
<1>1. UNCHANGED <<disk, edits, load, len, got, buf, parser, report, fmt, tail, cmd, ran, pc,
                  found_match, removed_char, heap, err>>
  BY Zenon DEF vars, configVars, parserVars, formatVars
<1>2. original' = original
  BY <1>1, Zenon DEF original
<1>3. TypeOK'
  BY <1>1, ZenonT(40) DEF IInv, TypeOK, Format!TypeOK
<1>4. Loading'
  <2>1. CASE pc = "load"
    <3>1. Loader!IInv /\ UNCHANGED Loader!configVars
      BY <1>1, <2>1, Zenon DEF IInv, Loading, Loader!configVars
    <3>2. Loader!IInv'
      BY <3>1, LoaderSteps, Zenon
    <3>. QED
      BY <1>1, <3>2, Zenon DEF IInv, Loading, Parser!NoReport, parser_zero
  <2>2. CASE pc # "load"
    BY <1>1, <2>2, Zenon DEF Loading
  <2>. QED
    BY <2>1, <2>2
<1>5. Parsing'
  <2>1. CASE pc \in Reads
    BY <1>1, <2>1, StillParsing, Zenon DEF IInv, configVars, parserVars
  <2>2. CASE pc \notin Reads
    BY <1>1, <2>2, Zenon DEF Parsing, Reads
  <2>. QED
    BY <2>1, <2>2
<1>6. Patching' /\ Owning'
  BY <1>1, <1>2, Zenon DEF IInv, Patching, Owning, Settled
<1>7. pc = "format" => Formatter!IInv'
  <2>1. UNCHANGED Formatter!formatVars
    BY <1>1, Zenon DEF Formatter!formatVars
  <2>. QED
    BY <1>1, <2>1, FormatterStays, Zenon DEF IInv, Formatting
<1>8. Formatting'
  BY <1>1, <1>7, Zenon
     DEF IInv, Formatting, Format!CmdFits, Format!AllOrNothing, Format!Expanded,
         Format!Command
<1>. QED
  BY <1>3, <1>4, <1>5, <1>6, <1>8, Zenon DEF IInv

LEMMA Inductive == IInv /\ [Next]_vars => IInv'
BY LoadInvariant, StartParserInvariant, NextTokenInvariant, NoMatchesInvariant,
   IntoCstrInvariant, FnmatchInvariant, RevertInvariant, SkipTokenInvariant,
   StartCommandInvariant, FormatInvariant, CommandReturnsInvariant, DeinitInvariant,
   StutterInvariant, Zenon
   DEF Next, Step, Ended

THEOREM Invariance == Spec => []IInv
BY InitInvariant, Inductive, PTL DEF Spec

-----------------------------------------------------------------------------
(* The properties.                                                         *)

\* evaluate() and all it drives stay within their types, whatever the file,
\* the file name and fnmatch() are.
THEOREM TypeCorrect == Spec => []TypeOK
<1>1. IInv => TypeOK
  BY Zenon DEF IInv
<1>. QED
  BY <1>1, Invariance, PTL

\* A patched buffer: the patch is in it, after the pattern and before what
\* the parser has still to read.
LEMMA PatchedText ==
  ASSUME IInv, pc = "fnmatch"
  PROVE  LET t == parser.token.str
         IN  /\ t.ptr \in Nat /\ End(t) \in t.ptr .. Len(buf) - 1 /\ Len(buf) \in Nat
             /\ buf \in Seq(STRING) /\ buf[End(t) + 1] = NUL
             /\ \A k \in t.ptr + 1 .. End(t) : buf[k] # NUL
             /\ parser.tail.len > 0 => End(t) <= parser.tail.ptr
<1>. DEFINE t == parser.token.str
            i == End(t) + 1
<1>1. /\ got \in Texts /\ Reader!IInv
      /\ parser.token.kind = "TOK_PATTERN" /\ buf = [original EXCEPT ![i] = NUL]
  BY Zenon DEF IInv, Parsing, Patching
<1>2. /\ t.ptr \in Nat /\ t.len \in Nat /\ End(t) = t.ptr + t.len
      /\ End(t) \in 0 .. Len(original) - 1 /\ Len(original) \in Nat
      /\ \A k \in t.ptr + 1 .. End(t) : original[k] # NUL
      /\ parser.tail.len > 0 => End(t) <= parser.tail.ptr
  BY <1>1, TokenFacts, Zenon
<1>3. original \in Seq(STRING)
  BY <1>1, TextFacts, Zenon
<1>. DEFINE p == t.ptr
            e == End(t)
<1>4. p \in Nat /\ e \in Nat /\ p <= e /\ e + 1 \in 1 .. Len(original)
  BY <1>2, SMT
<1>5. /\ buf \in Seq(STRING) /\ Len(buf) = Len(original)
      /\ \A k \in 1 .. Len(original) : buf[k] = IF k = e + 1 THEN NUL ELSE original[k]
  <2>1. NUL \in STRING /\ i = e + 1
    BY Assumptions, Zenon
  <2>. HIDE DEF i, e
  <2>2. i \in 1 .. Len(original) /\ buf = [original EXCEPT ![i] = NUL]
    BY <1>1, <1>4, <2>1, Zenon
  <2>. DEFINE o == original
              c == [o EXCEPT ![i] = NUL]
  <2>. HIDE DEF o
  <2>3. /\ c \in Seq(STRING) /\ Len(c) = Len(o)
        /\ \A k \in 1 .. Len(o) : c[k] = IF k = i THEN NUL ELSE o[k]
    <3>1. o \in Seq(STRING) /\ i \in 1 .. Len(o) /\ NUL \in STRING
      BY <1>3, <2>1, <2>2, Zenon DEF o
    <3>. HIDE DEF NUL
    <3>. QED
      BY <3>1, ExceptSeq
  <2>4. buf = c
    BY <2>2, Zenon DEF o
  <2>. HIDE DEF c
  <2>. QED
    BY <2>1, <2>3, <2>4, Zenon DEF o
<1>. HIDE DEF p, e
<1>6. buf[e + 1] = NUL
  BY <1>4, <1>5, Zenon
<1>7. ASSUME NEW k \in p + 1 .. e
      PROVE  buf[k] # NUL
  <2>1. k \in 1 .. Len(original) /\ k # e + 1
    BY <1>3, <1>4, SMT
  <2>2. original[k] # NUL
    BY <1>2, Zenon DEF p, e
  <2>. QED
    BY <1>5, <2>1, <2>2, Zenon
<1>8. e \in p .. Len(buf) - 1 /\ Len(buf) \in Nat
  BY <1>2, <1>4, <1>5, SMT
<1>. QED
  BY <1>2, <1>4, <1>5, <1>6, <1>7, <1>8, Zenon DEF p, e

\* The patch that makes a C string of a pattern lands inside the buffer, and
\* on nothing that the parser has read as part of the pattern or skips later.
THEOREM PatchSafe == Spec => []PatchInBounds
<1>1. ASSUME IInv, pc = "fnmatch"
      PROVE  /\ End(parser.token.str) + 1 \in 1 .. Len(buf)
             /\ parser.tail.len > 0 => End(parser.token.str) <= parser.tail.ptr
  <2>. DEFINE e == End(parser.token.str)
              p == parser.token.str.ptr
  <2>1. p \in Nat /\ e \in p .. Len(buf) - 1 /\ Len(buf) \in Nat
        /\ (parser.tail.len > 0 => e <= parser.tail.ptr)
    BY <1>1, PatchedText, Zenon
  <2>. HIDE DEF e, p
  <2>2. e + 1 \in 1 .. Len(buf)
    BY <2>1, SMT
  <2>. QED
    BY <2>1, <2>2, Zenon DEF e
<1>2. IInv => PatchInBounds
  BY <1>1, Zenon DEF PatchInBounds
<1>. QED
  BY <1>2, Invariance, PTL

\* fnmatch() is given the pattern and nothing else, and no other step of the
\* program ever sees the patch: the text it works on is the one that was read.
THEOREM PatchHidden == Spec => []PatchIsInvisible
<1>1. ASSUME IInv, pc = "fnmatch"
      PROVE  CStr(buf, parser.token.str.ptr) = Content(buf, parser.token.str)
  <2>1. CStr(buf, parser.token.str.ptr)
          = SubSeq(buf, parser.token.str.ptr + 1, End(parser.token.str))
    BY <1>1, PatchedText, CStrUpTo, Zenon
  <2>. QED
    BY <2>1, Zenon DEF Content, End
<1>2. IInv => PatchIsInvisible
  BY <1>1, Zenon DEF IInv, Patching, PatchIsInvisible, original
<1>. QED
  BY <1>2, Invariance, PTL

\* However it ends, with or without a match, a file or memory, the program has
\* freed what it allocated, and reports success exactly if it ran a command.
THEOREM ExitIsClean == Spec => []CleanExit
<1>1. ASSUME IInv, pc = "exit"
      PROVE  heap = {} /\ (err = "OK" <=> Len(ran) = 1) /\ Len(ran) <= 1
  <2>1. heap = {} /\ Settled
    BY <1>1, Zenon DEF IInv, Owning
  <2>2. CASE err = "OK" /\ Len(ran) = 1
    BY <2>1, <2>2, SMT
  <2>3. CASE err # "OK" /\ ran = << >>
    BY <2>1, <2>3, SMT
  <2>. QED
    BY <2>1, <2>2, <2>3, Zenon DEF Settled
<1>2. IInv => CleanExit
  BY <1>1, Zenon DEF CleanExit
<1>. QED
  BY <1>2, Invariance, PTL

\* The command that is put together always fits the buffer it is in, with its
\* terminator, whatever the command and the file name are and at whichever
\* piece an allocation fails.
THEOREM CommandFits == Spec => []Format!CmdFits
<1>1. IInv => Format!CmdFits
  BY Zenon DEF IInv, Formatting
<1>. QED
  BY <1>1, Invariance, PTL

\* What evaluate() has run, if anything, is the whole command of the rule it
\* stopped at, with the file name for every '%', and the call said so.
THEOREM RunsItWhole == Spec => []Format!AllOrNothing
<1>1. ASSUME IInv
      PROVE  Format!AllOrNothing
  <2>1. CASE pc = "format"
    BY <1>1, <2>1, FormatterMeans, Zenon DEF IInv, Formatting, FormatPromise
  <2>2. CASE pc \in {"deinit", "exit"}
    BY <1>1, <2>2, Zenon DEF IInv, Formatting
  <2>3. CASE pc \in {"load", "parse", "token", "fnmatch", "revert"}
    <3>1. fmt = "idle" /\ ran = << >>
      BY <1>1, <2>3, Zenon DEF IInv, Loading, Owning
    <3>. QED
      BY <3>1, Zenon DEF Format!AllOrNothing
  <2>. QED
    BY <1>1, <2>1, <2>2, <2>3, Zenon DEF IInv, TypeOK
<1>. QED
  BY <1>1, Invariance, PTL

-----------------------------------------------------------------------------
(* What evaluate() promises: that it finds the first rule that matches.    *)

\* The promise and the parser's proofs speak of the same grammar.
LEMMA SameGrammar ==
  /\ Promise!Malformed = Reader!Malformed
  /\ \A t : Promise!WellFormed(t) <=> Reader!WellFormed(t)
  /\ \A t, m : Promise!FirstRule(t, m) = Reader!FirstRule(t, m)
<1>1. /\ Promise!Malformed = Reader!Malformed
      /\ \A S : Promise!Min(S) = Reader!Min(S) /\ Promise!Max(S) = Reader!Max(S)
      /\ Promise!Blanks = Reader!Blanks /\ Promise!Cuts = Reader!Cuts
      /\ Promise!Stops = Reader!Stops
  BY Zenon
     DEF Promise!Malformed, Reader!Malformed, Promise!Min, Reader!Min, Promise!Max,
         Reader!Max, Promise!Blanks, Reader!Blanks, Promise!Cuts, Reader!Cuts,
         Promise!Stops, Reader!Stops
<1>2. Promise!Nonblank = Reader!Nonblank
  BY <1>1, Zenon DEF Promise!Nonblank, Reader!Nonblank
<1>3. /\ \A t, p, C : Promise!FirstOf(t, p, C) = Reader!FirstOf(t, p, C)
      /\ \A t, p, q : Promise!Strip(t, p, q) = Reader!Strip(t, p, q)
  BY <1>1, <1>2, Zenon
     DEF Promise!FirstOf, Reader!FirstOf, Promise!Strip, Reader!Strip
<1>4. \A t, i, j : Promise!OnePiece(t, i, j) <=> Reader!OnePiece(t, i, j)
  BY <1>1, Zenon DEF Promise!OnePiece, Reader!OnePiece
<1>5. \A t, p, q, i, j : Promise!Spans(t, p, q, i, j) <=> Reader!Spans(t, p, q, i, j)
  BY ZenonT(60)
     DEF Promise!Spans, Reader!Spans, Promise!OnePiece, Reader!OnePiece, Promise!Cuts,
         Reader!Cuts, Promise!Nonblank, Reader!Nonblank, Promise!Blanks, Reader!Blanks
<1>6. \A t, p, q : Promise!Patterns(t, p, q) = Reader!Patterns(t, p, q)
  BY Zenon
     DEF Promise!Patterns, Reader!Patterns, Promise!Spans, Reader!Spans,
         Promise!OnePiece, Reader!OnePiece, Promise!Cuts, Reader!Cuts,
         Promise!Nonblank, Reader!Nonblank, Promise!Blanks, Reader!Blanks
<1>7. ASSUME NEW t
      PROVE  Promise!Rules(t) = Reader!Rules(t)
  <2>. DEFINE places == 1 .. Len(t) + 1
              P(rules, p) ==
                LET start == Promise!FirstOf(t, p, Promise!Nonblank)
                    colon == Promise!FirstOf(t, start, {":"})
                    stop  == Promise!FirstOf(t, colon + 1, Promise!Stops)
                    text  == Promise!Strip(t, colon + 1, stop - 1)
                IN  IF start > Len(t) THEN << >>
                    ELSE IF t[start] = "#" THEN rules[Promise!FirstOf(t, start, Promise!Stops)]
                    ELSE IF \/ colon > Len(t)
                            \/ t[start] \in {";", ":"}
                            \/ \E i \in start .. colon : t[i] = "NUL"
                            \/ text = << >>
                         THEN << Promise!Malformed >>
                         ELSE << [pats |-> Promise!Patterns(t, start, colon - 1), cmd |-> text] >>
                                \o rules[stop]
              F(rules) == [p \in places |-> P(rules, p)]
              G(rules) == [p \in places |-> Reader!RulesAt(t, rules, p)]
  <2>1. \A rules, p : P(rules, p) = Reader!RulesAt(t, rules, p)
    BY <1>1, <1>2, <1>3, <1>6, ZenonT(60) DEF Reader!RulesAt
  <2>2. Promise!Rules(t) = (CHOOSE rules : rules = F(rules))[1]
    BY Zenon DEF Promise!Rules
  <2>3. Reader!Rules(t) = (CHOOSE rules : rules = G(rules))[1]
    BY Zenon DEF Reader!Rules, Reader!RulesAt
  <2>. HIDE DEF P
  <2>4. \A rules : F(rules) = G(rules)
    BY <2>1, Zenon
  <2>. HIDE DEF F, G
  <2>5. (CHOOSE rules : rules = F(rules)) = (CHOOSE rules : rules = G(rules))
    BY <2>4, Zenon
  <2>. QED
    BY <2>2, <2>3, <2>5, Zenon
<1>8. \A r : Promise!AllFormed(r) <=> Reader!AllFormed(r)
  BY <1>1, Zenon DEF Promise!AllFormed, Reader!AllFormed
<1>9. \A r, m : Promise!FirstHit(r, m) = Reader!FirstHit(r, m)
  BY <1>1, Zenon DEF Promise!FirstHit, Reader!FirstHit
<1>10. \A t : Promise!WellFormed(t) <=> Reader!WellFormed(t)
  BY <1>7, <1>8, Zenon DEF Promise!WellFormed, Reader!WellFormed
<1>11. \A t, m : Promise!FirstRule(t, m) = Reader!FirstRule(t, m)
  BY <1>7, <1>9, Zenon DEF Promise!FirstRule, Reader!FirstRule
<1>. QED
  BY <1>1, <1>10, <1>11, Zenon
-----------------------------------------------------------------------------
(* The search.                                                             *)

\* The rule that is to be chosen, and the string of the last token.
Chosen == Reader!FirstRule(Reader!Text, Matching)
Token  == Reader!Content(original, parser.token.str)

\* The first match is in what is left, these patterns included; among them.
On(pats)  == Reader!Known(pats) /\ Chosen = Reader!FirstHit(Reader!Left(pats), Matching)
Met(pats) == pats \cap Matching # {}

\* Between two tokens; at a pattern; at a command.
GoesOn ==
  IF parser.is_done THEN Chosen = Reader!Malformed
  ELSE \E pats : On(pats) /\ (found_match <=> Met(pats))
AtPattern ==
  /\ ~parser.is_done
  /\ \E pats, more : /\ more = pats \cup {Token}
                     /\ On(more) /\ (found_match <=> Met(pats))
AtCommand ==
  /\ ~parser.is_done
  /\ IF found_match THEN Chosen # Reader!Malformed /\ Chosen.cmd = Token ELSE On({})
AtToken ==
  /\ parser.token.kind = "TOK_PATTERN" => AtPattern
  /\ parser.token.kind = "TOK_CMD" => AtCommand
  /\ parser.token.kind \notin {"TOK_PATTERN", "TOK_CMD"} => GoesOn

\* What evaluate() has found so far is what it is to find.
Searching ==
  /\ pc = "load" => ~found_match
  /\ pc \in {"parse", "revert"} => GoesOn
  /\ pc \in {"token", "fnmatch"} => AtToken
  /\ pc = "fnmatch" => ~found_match
  /\ pc = "format" => Chosen # Reader!Malformed /\ Chosen.cmd = Token

\* There is a text as long as it is read, and a parser that judges it; and only
\* a malformed one makes it die, on the spot.
Judging ==
  /\ pc \in Reads => buf # << >> /\ Reader!Judged
  /\ report = Parser!AssertFails => pc = "token" /\ ~Reader!WellFormed(Reader!Text)

\* How evaluate() ends says why.
Ending ==
  /\ pc = "load" => err \in {"OK", "ERR_FILESYSTEM", "ERR_OUT_OF_MEMORY"}
  /\ pc \in {"deinit", "exit"} =>
       /\ load = "done" /\ fmt # "crash"
       /\ IF buf = << >> THEN err \in {"ERR_FILESYSTEM", "ERR_OUT_OF_MEMORY"}
          ELSE /\ got \in Texts
               /\ \/ err = "OK"
                  \/ err = "ERR_NO_MATCHES" /\ Chosen = Reader!Malformed
                  \/ err = "ERR_OUT_OF_MEMORY" /\ Chosen # Reader!Malformed
  /\ pc \in {"deinit", "exit"} /\ err = "ERR_NO_MATCHES" =>
       (parser.unexpected_token <=> ~Reader!WellFormed(Reader!Text))

Finds == Searching /\ Judging /\ Ending

\* What it has found stays so while it touches neither the file nor the parser.
LEMMA SearchStays ==
  ASSUME UNCHANGED <<got, parser>>
  PROVE  /\ Chosen' = Chosen /\ Token' = Token
         /\ \A pats : On(pats)' <=> On(pats)
         /\ \A pats : Met(pats)' <=> Met(pats)
         /\ Reader!Judged' <=> Reader!Judged
         /\ Reader!WellFormed(Reader!Text)' <=> Reader!WellFormed(Reader!Text)
<1>1. parser' = parser /\ original' = original
  BY Zenon DEF original
<1>2. Reader!Text' = Reader!Text
  BY <1>1, Zenon DEF Reader!Text
<1>3. Chosen' = Chosen /\ Token' = Token
  BY <1>1, <1>2, Zenon DEF Chosen, Token, Reader!Content
<1>4. \A pats : /\ Reader!Known(pats)' <=> Reader!Known(pats)
                /\ Reader!Left(pats)' = Reader!Left(pats)
  BY <1>1, <1>2, Zenon
     DEF Reader!Known, Reader!Left, Reader!Rest, Reader!At, Reader!Where, Reader!Ready,
         Reader!Solid, Reader!TextEnd, Reader!FullText
<1>5. \A pats : On(pats)' <=> On(pats)
  BY <1>3, <1>4, Zenon DEF On
<1>6. Reader!Judged' <=> Reader!Judged
  BY <1>1, <1>2, <1>4, Zenon DEF Reader!Judged
<1>. QED
  BY <1>2, <1>3, <1>5, <1>6, Zenon DEF Met

\* What the parser's proofs say of a call.
LEMMA ReaderLeaves ==
  ASSUME Reader!BufOK, Reader!Unread(parser.tail), Reader!Unread(parser'.tail),
         Reader!fnmar_parser_next, original' = original, NEW pats, Reader!Known(pats)
  PROVE  LET kind == parser'.token.kind
             tok  == Reader!Content(original, parser'.token.str)
         IN  /\ parser'.is_done <=> parser'.unexpected_token \/ kind = "TOK_EOF"
             /\ parser'.unexpected_token => Reader!Left(pats) = << Reader!Malformed >>
             /\ kind = "TOK_EOF" /\ ~parser'.unexpected_token => Reader!Left(pats) = << >>
             /\ kind \in {"TOK_PATTERN", "TOK_CMD"} => ~parser'.is_done
             /\ kind = "TOK_PATTERN" =>
                  \E more : /\ more = pats \cup {tok} /\ Reader!Known(more)'
                            /\ Reader!Left(pats) = Reader!Left(more)'
             /\ kind = "TOK_CMD" =>
                  \E rest \in Seq(Reader!Rule) :
                     /\ [pats |-> pats, cmd |-> tok] \in Reader!Rule /\ tok # << >>
                     /\ Reader!Known({})' /\ rest = Reader!Left({})'
                     /\ Reader!Left(pats) = << [pats |-> pats, cmd |-> tok] >> \o rest
             /\ kind \notin {"TOK_PATTERN", "TOK_CMD"} /\ ~parser'.is_done =>
                  Reader!Known(pats)' /\ Reader!Left(pats) = Reader!Left(pats)'
BY Reader!CallLeaves, Assumptions, Zenon DEF NUL, Reader!NUL

LEMMA ReaderJudges ==
  ASSUME Reader!IInv, Reader!Judged, Reader!fnmar_parser_next, original' = original
  PROVE  Reader!Judged'
BY Reader!NextJudged, Assumptions, Zenon DEF NUL, Reader!NUL

LEMMA ReaderStartsWithAll ==
  (Reader!Init => /\ ~parser.is_done /\ Reader!Known({}) /\ Reader!Judged
                  /\ Reader!Left({}) = Reader!Rules(Reader!Text))'
<1>1. Reader!Init => /\ ~parser.is_done /\ Reader!Known({}) /\ Reader!Judged
                     /\ Reader!Left({}) = Reader!Rules(Reader!Text)
  BY Reader!StartsWithAll, Reader!InitJudged, Assumptions, Zenon DEF NUL, Reader!NUL
<1>. QED
  BY <1>1, PTL

LEMMA ReaderAborts ==
  ASSUME Reader!fnmar_parser_next, report' = Reader!AssertFails
  PROVE  parser'.is_done /\ parser'.unexpected_token
BY Reader!AbortIsUnexpected, Assumptions, Zenon DEF NUL, Reader!NUL

LEMMA ReaderHits ==
  ASSUME NEW r, r \in Reader!Rule, NEW rest, rest \in Seq(Reader!Rule), NEW matching
  PROVE  Reader!FirstHit(<< r >> \o rest, matching) =
           IF r.pats \cap matching # {} THEN r ELSE Reader!FirstHit(rest, matching)
<1>. DEFINE Hits(a, b, m) ==
       Reader!FirstHit(<< a >> \o b, m) =
         IF a.pats \cap m # {} THEN a ELSE Reader!FirstHit(b, m)
<1>1. \A a \in Reader!Rule, b \in Seq(Reader!Rule) : \A m : Hits(a, b, m)
  BY Reader!HitOneMore, Assumptions, Zenon DEF NUL, Reader!NUL
<1>. HIDE DEF Hits
<1>2. Hits(r, rest, matching)
  BY <1>1, Zenon
<1>. QED
  BY <1>2, Zenon DEF Hits

LEMMA ReaderHitsNone ==
  \A matching : /\ Reader!FirstHit(<< >>, matching) = Reader!Malformed
                /\ Reader!FirstHit(<< Reader!Malformed >>, matching) = Reader!Malformed
BY Reader!HitAtEnd, Assumptions, Zenon DEF NUL, Reader!NUL

\* ... nor finds anything more.
LEMMA FoundStays ==
  ASSUME UNCHANGED <<got, parser, found_match>>
  PROVE  /\ Chosen' = Chosen /\ Token' = Token
         /\ GoesOn' <=> GoesOn
         /\ AtToken' <=> AtToken
         /\ Reader!Judged' <=> Reader!Judged
         /\ Reader!WellFormed(Reader!Text)' <=> Reader!WellFormed(Reader!Text)
<1>1. /\ Chosen' = Chosen /\ Token' = Token
      /\ \A pats : On(pats)' <=> On(pats)
      /\ \A pats : Met(pats)' <=> Met(pats)
      /\ Reader!Judged' <=> Reader!Judged
      /\ Reader!WellFormed(Reader!Text)' <=> Reader!WellFormed(Reader!Text)
  BY SearchStays
<1>2. /\ Reader!Malformed' = Reader!Malformed /\ parser' = parser
      /\ found_match' <=> found_match
  BY Zenon DEF Reader!Malformed
<1>a. \A pats, more : (On(more)' /\ (found_match' <=> Met(pats)'))
                        <=> (On(more) /\ (found_match <=> Met(pats)))
  BY <1>1, <1>2, Zenon
<1>3. GoesOn' <=> GoesOn
  <2>1. CASE parser.is_done
    BY <1>1, <1>2, <2>1, Zenon DEF GoesOn
  <2>2. CASE ~parser.is_done
    <3>1. GoesOn <=> \E pats : On(pats) /\ (found_match <=> Met(pats))
      BY <2>2, Zenon DEF GoesOn
    <3>2. GoesOn' <=> \E pats : On(pats)' /\ (found_match' <=> Met(pats)')
      BY <1>2, <2>2, Zenon DEF GoesOn
    <3>. QED
      BY <1>a, <3>1, <3>2, Zenon
  <2>. QED
    BY <2>1, <2>2
<1>4. AtPattern' <=> AtPattern
  <2>1. AtPattern <=> /\ ~parser.is_done
                      /\ \E pats, more : /\ more = pats \cup {Token}
                                         /\ On(more) /\ (found_match <=> Met(pats))
    BY Zenon DEF AtPattern
  <2>2. AtPattern' <=> /\ ~parser.is_done
                       /\ \E pats, more : /\ more = pats \cup {Token}
                                          /\ On(more)' /\ (found_match' <=> Met(pats)')
    BY <1>1, <1>2, Zenon DEF AtPattern
  <2>. QED
    BY <1>a, <2>1, <2>2, Zenon
<1>5. AtCommand' <=> AtCommand
  <2>1. CASE found_match
    BY <1>1, <1>2, <2>1, Zenon DEF AtCommand
  <2>2. CASE ~found_match
    BY <1>1, <1>2, <2>2, Zenon DEF AtCommand
  <2>. QED
    BY <2>1, <2>2
<1>6. AtToken' <=> AtToken
  BY <1>2, <1>3, <1>4, <1>5, Zenon DEF AtToken
<1>. QED
  BY <1>1, <1>3, <1>6

LEMMA InitFinds == Init => Finds
<1>. SUFFICES ASSUME Init PROVE Finds
  OBVIOUS
<1>1. pc = "load" /\ ~found_match /\ err = "OK" /\ report = Parser!NoReport
  BY Zenon DEF Init, Config!Init
<1>2. Parser!NoReport # Parser!AssertFails
  BY DEF Parser!NoReport, Parser!AssertFails
<1>. QED
  BY <1>1, <1>2, Zenon DEF Finds, Searching, Judging, Ending, Reads

LEMMA LoadFinds == Finds /\ Load => Finds'
<1>. SUFFICES ASSUME Finds, Load PROVE Finds'
  OBVIOUS
<1>1. pc = "load" /\ pc' = "load" /\ found_match' = found_match /\ report' = report
  BY Zenon DEF Load, parserVars
<1>2. err' \in {err, "ERR_FILESYSTEM", "ERR_OUT_OF_MEMORY"}
  BY Zenon DEF Load, Config!cstrbuf_init_from_file, Config!Open, Config!Size, Config!Alloc,
               Config!Read, Config!ReadEnds, Config!Edit
<1>3. report # Parser!AssertFails /\ Parser!AssertFails' = Parser!AssertFails
  BY <1>1, Zenon DEF Finds, Judging, Parser!AssertFails
<1>. QED
  BY <1>1, <1>2, <1>3, Zenon DEF Finds, Searching, Judging, Ending, Reads

LEMMA StartParserFinds == IInv /\ Finds /\ StartParser => Finds'
<1>. SUFFICES ASSUME IInv, Finds, StartParser PROVE Finds'
  OBVIOUS
<1>1. /\ pc = "load" /\ load = "done"
      /\ UNCHANGED <<load, got, buf, report, fmt, err, found_match>>
  BY Zenon DEF StartParser, configVars, formatVars
<1>2. Loader!IInv /\ fmt = "idle" /\ ~found_match
  BY <1>1, Zenon DEF IInv, Loading, Finds, Searching
<1>3. report' # Parser!AssertFails' /\ err \in {"OK", "ERR_FILESYSTEM", "ERR_OUT_OF_MEMORY"}
  BY <1>1, Zenon DEF Finds, Judging, Ending, Parser!AssertFails
<1>4. CASE err # "OK"
  <2>1. pc' = "deinit" /\ buf = << >>
    BY <1>1, <1>2, <1>4, Zenon DEF StartParser, Loader!IInv, Loader!OwnedIffOK
  <2>. QED
    BY <1>1, <1>2, <1>3, <1>4, <2>1, Zenon DEF Finds, Searching, Judging, Ending, Reads
<1>5. CASE err = "OK"
  <2>1. /\ Reader!Init' /\ pc' = "parse" /\ buf = original
        /\ got \in Texts
    BY <1>5, ReaderBegins, Zenon
  <2>2. /\ ~parser'.is_done /\ Reader!Known({})' /\ Reader!Judged'
        /\ Reader!Left({})' = Reader!Rules(Reader!Text)'
    BY <2>1, ReaderStartsWithAll, Zenon
  <2>3. buf' # << >>
    BY <1>1, <2>1, TextFacts, Zenon
  <2>4. On({})'
    BY <2>2, Zenon DEF On, Chosen, Reader!FirstRule
  <2>5. GoesOn'
    <3>1. ~Met({})'
      BY Zenon DEF Met
    <3>. QED
      BY <1>1, <1>2, <2>2, <2>4, <3>1, Zenon DEF GoesOn
  <2>. QED
    BY <1>3, <2>1, <2>2, <2>3, <2>5, Zenon DEF Finds, Searching, Judging, Ending, Reads
<1>. QED
  BY <1>4, <1>5

LEMMA NextTokenFinds == IInv /\ Finds /\ NextToken => Finds'
<1>. SUFFICES ASSUME IInv, Finds, NextToken PROVE Finds'
  OBVIOUS
<1>1. /\ pc = "parse" /\ pc' = "token"
      /\ UNCHANGED <<load, got, buf, fmt, err, found_match>>
  BY Zenon DEF NextToken, configVars, formatVars
<1>2. /\ got \in Texts /\ Reader!IInv /\ buf = original
      /\ buf # << >> /\ Reader!Judged /\ GoesOn
  BY <1>1, Zenon DEF IInv, Parsing, Patching, Finds, Judging, Searching, Reads
<1>3. original' = original
  BY <1>1, Zenon DEF original
<1>4. Reader!fnmar_parser_next
  BY <1>2, SameNext, Zenon DEF NextToken
<1>5. Reader!IInv' /\ Reader!Judged'
  BY <1>2, <1>3, <1>4, ReaderSteps, ReaderJudges, Zenon
<1>6. Reader!BufOK /\ Reader!Unread(parser.tail) /\ Reader!Unread(parser'.tail)
  <2>1. Reader!Unread(parser.tail)'
    BY <1>5, Zenon DEF Reader!IInv
  <2>2. Reader!Unread(parser'.tail)
    BY <1>3, <2>1, Zenon DEF Reader!Unread, Reader!Solid, Reader!TextEnd, Reader!FullText
  <2>. QED
    BY <1>2, <2>2, Zenon DEF Reader!IInv, Reader!TypeOK, Reader!BufOK
<1>7. ~parser.is_done
  BY <1>4, Zenon
     DEF Reader!fnmar_parser_next, Reader!LineStart, Reader!Pattern, Reader!PatternDelim,
         Reader!Command, Reader!In
<1>8. PICK pats : On(pats) /\ (found_match <=> Met(pats))
  BY <1>2, <1>7, Zenon DEF GoesOn
<1>. DEFINE kind == parser'.token.kind
            tok  == Reader!Content(original, parser'.token.str)
<1>9. /\ parser'.is_done <=> parser'.unexpected_token \/ kind = "TOK_EOF"
      /\ parser'.unexpected_token => Reader!Left(pats) = << Reader!Malformed >>
      /\ kind = "TOK_EOF" /\ ~parser'.unexpected_token => Reader!Left(pats) = << >>
      /\ kind \in {"TOK_PATTERN", "TOK_CMD"} => ~parser'.is_done
      /\ kind = "TOK_PATTERN" =>
           \E more : /\ more = pats \cup {tok} /\ Reader!Known(more)'
                     /\ Reader!Left(pats) = Reader!Left(more)'
      /\ kind = "TOK_CMD" =>
           \E rest \in Seq(Reader!Rule) :
              /\ [pats |-> pats, cmd |-> tok] \in Reader!Rule /\ tok # << >>
              /\ Reader!Known({})' /\ rest = Reader!Left({})'
              /\ Reader!Left(pats) = << [pats |-> pats, cmd |-> tok] >> \o rest
      /\ kind \notin {"TOK_PATTERN", "TOK_CMD"} /\ ~parser'.is_done =>
           Reader!Known(pats)' /\ Reader!Left(pats) = Reader!Left(pats)'
  <2>1. Reader!Known(pats)
    BY <1>8, Zenon DEF On
  <2>. QED
    BY <1>3, <1>4, <1>6, <2>1, ReaderLeaves
<1>10. /\ Token' = tok /\ Chosen' = Chosen /\ Reader!Text' = Reader!Text
       /\ Reader!Malformed' = Reader!Malformed
       /\ Chosen = Reader!FirstHit(Reader!Left(pats), Matching)
  BY <1>3, <1>8, Zenon DEF Token, Chosen, Reader!Content, Reader!Text, Reader!Malformed, On
<1>11. parser'.token.kind = kind
  OBVIOUS
<1>. HIDE DEF kind, tok
<1>12. parser'.is_done => Chosen' = Reader!Malformed'
  BY <1>9, <1>10, ReaderHitsNone, Zenon
<1>13. kind = "TOK_PATTERN" => AtPattern'
  <2>. SUFFICES ASSUME kind = "TOK_PATTERN" PROVE AtPattern'
    OBVIOUS
  <2>1. PICK more : /\ more = pats \cup {tok} /\ Reader!Known(more)'
                    /\ Reader!Left(pats) = Reader!Left(more)'
    BY <1>9
  <2>2. On(more)'
    BY <1>10, <2>1, Zenon DEF On
  <2>3. Met(pats)' <=> Met(pats)
    BY Zenon DEF Met
  <2>. QED
    BY <1>1, <1>8, <1>9, <1>10, <2>1, <2>2, <2>3, Zenon DEF AtPattern
<1>14. kind = "TOK_CMD" => AtCommand'
  <2>. SUFFICES ASSUME kind = "TOK_CMD" PROVE AtCommand'
    OBVIOUS
  <2>. DEFINE r == [pats |-> pats, cmd |-> tok]
  <2>1. PICK rest \in Seq(Reader!Rule) :
               /\ r \in Reader!Rule /\ tok # << >>
               /\ Reader!Known({})' /\ rest = Reader!Left({})'
               /\ Reader!Left(pats) = << r >> \o rest
    BY <1>9
  <2>2. r.pats = pats /\ r.cmd = tok /\ r # Reader!Malformed
    BY <2>1 DEF Reader!Malformed
  <2>. HIDE DEF r
  <2>3. Chosen = IF pats \cap Matching # {} THEN r ELSE Reader!FirstHit(rest, Matching)
    <3>1. Reader!FirstHit(<< r >> \o rest, Matching)
            = IF r.pats \cap Matching # {} THEN r ELSE Reader!FirstHit(rest, Matching)
      <4>1. r \in Reader!Rule /\ rest \in Seq(Reader!Rule)
        BY <2>1
      <4>. QED
        BY <4>1, ReaderHits
    <3>. QED
      BY <1>10, <2>1, <2>2, <3>1, Zenon
  <2>4. CASE found_match
    <3>1. Chosen = r
      BY <1>8, <2>3, <2>4, Zenon DEF Met
    <3>. QED
      BY <1>1, <1>9, <1>10, <2>2, <2>4, <3>1, Zenon DEF AtCommand
  <2>5. CASE ~found_match
    <3>1. Chosen = Reader!FirstHit(rest, Matching)
      BY <1>8, <2>3, <2>5, Zenon DEF Met
    <3>2. On({})'
      BY <1>10, <2>1, <3>1, Zenon DEF On
    <3>. QED
      BY <1>1, <1>9, <2>5, <3>2, Zenon DEF AtCommand
  <2>. QED
    BY <2>4, <2>5
<1>15. kind \notin {"TOK_PATTERN", "TOK_CMD"} => GoesOn'
  <2>. SUFFICES ASSUME kind \notin {"TOK_PATTERN", "TOK_CMD"}, ~parser'.is_done
                PROVE  \E more : On(more)' /\ (found_match' <=> Met(more)')
    BY <1>12, Zenon DEF GoesOn
  <2>1. On(pats)'
    BY <1>9, <1>10, Zenon DEF On
  <2>2. Met(pats)' <=> Met(pats)
    BY Zenon DEF Met
  <2>. QED
    BY <1>1, <1>8, <2>1, <2>2, Zenon
<1>16. AtToken'
  BY <1>11, <1>13, <1>14, <1>15, Zenon DEF AtToken
<1>17. ASSUME report' = Parser!AssertFails'
       PROVE  ~Reader!WellFormed(Reader!Text)'
  <2>1. report' = Reader!AssertFails
    BY <1>17, Zenon DEF Parser!AssertFails, Reader!AssertFails
  <2>2. parser'.is_done /\ parser'.unexpected_token
    BY <1>4, <2>1, ReaderAborts
  <2>. QED
    BY <1>5, <2>2, Zenon DEF Reader!Judged
<1>. QED
  BY <1>1, <1>2, <1>5, <1>16, <1>17, Zenon DEF Finds, Searching, Judging, Ending, Reads

\* A parser that judged the text goes on doing so while nothing touches either.
LEMMA StillJudging ==
  ASSUME Judging, pc \in Reads, report # Parser!AssertFails, buf' # << >>,
         UNCHANGED <<got, parser, report>>
  PROVE  Judging'
<1>1. Reader!Judged' /\ report' # Parser!AssertFails'
  BY SearchStays, Zenon DEF Judging, Parser!AssertFails
<1>. QED
  BY <1>1, Zenon DEF Judging

LEMMA NoMatchesFinds == IInv /\ Finds /\ NoMatches => Finds'
<1>. SUFFICES ASSUME IInv, Finds, NoMatches PROVE Finds'
  OBVIOUS
<1>1. /\ pc = "parse" /\ pc' = "deinit" /\ parser.is_done /\ err' = "ERR_NO_MATCHES"
      /\ UNCHANGED <<load, got, buf, parser, report, fmt, found_match>>
  BY Zenon DEF NoMatches, configVars, parserVars, formatVars
<1>2. /\ load = "done" /\ got \in Texts /\ fmt = "idle"
      /\ buf # << >> /\ GoesOn /\ report # Parser!AssertFails
  BY <1>1, Zenon DEF IInv, Parsing, Owning, Finds, Judging, Searching, Reads
<1>3. Chosen = Reader!Malformed /\ Chosen' = Reader!Malformed'
  BY <1>1, <1>2, FoundStays, Zenon DEF GoesOn, Reader!Malformed
<1>4. Judging'
  BY <1>1, <1>2, StillJudging, Zenon DEF Finds, Reads
<1>5. Ending'
  <2>1. parser'.unexpected_token <=> ~Reader!WellFormed(Reader!Text)'
    <3>1. parser.unexpected_token <=> ~Reader!WellFormed(Reader!Text)
      BY <1>1, Zenon DEF Finds, Judging, Reads, Reader!Judged
    <3>. QED
      BY <1>1, <3>1, FoundStays, Zenon
  <2>. QED
    BY <1>1, <1>2, <1>3, <2>1, Zenon DEF Ending
<1>6. Searching'
  BY <1>1, Zenon DEF Searching
<1>. QED
  BY <1>4, <1>5, <1>6, Zenon DEF Finds

LEMMA PatchedIsText == (IInv /\ pc = "fnmatch" => buf # << >>)'
<1>1. IInv /\ pc = "fnmatch" => buf # << >>
  <2>. SUFFICES ASSUME IInv, pc = "fnmatch", buf = << >> PROVE FALSE
    OBVIOUS
  <2>. DEFINE p == parser.token.str.ptr
              e == End(parser.token.str)
  <2>1. p \in Nat /\ e \in p .. Len(buf) - 1
    BY PatchedText, Zenon
  <2>. HIDE DEF p, e
  <2>. QED
    BY <2>1, SMT
<1>. QED
  BY <1>1, PTL

LEMMA IntoCstrFinds == IInv /\ IInv' /\ Finds /\ IntoCstr => Finds'
<1>. SUFFICES ASSUME IInv, IInv', Finds, IntoCstr PROVE Finds'
  OBVIOUS
<1>1. /\ pc = "token" /\ pc' = "fnmatch" /\ ~found_match /\ report # Parser!AssertFails
      /\ UNCHANGED <<got, parser, report, found_match>>
  BY Zenon DEF IntoCstr, TestPattern, Aborted, configVars, parserVars, formatVars
<1>2. AtToken'
  BY <1>1, FoundStays, Zenon DEF Finds, Searching
<1>3. buf' # << >>
  BY <1>1, PatchedIsText, Zenon
<1>4. Judging'
  BY <1>1, <1>3, StillJudging, Zenon DEF Finds, Reads
<1>. QED
  BY <1>1, <1>2, <1>4, Zenon DEF Finds, Searching, Ending

\* What fnmatch() is given is the pattern as it was read.
LEMMA SamePart ==
  ASSUME NEW Bytes, NEW b \in Seq(Bytes), NEW i \in 1 .. Len(b), NEW x \in Bytes, NEW p \in Nat
  PROVE  SubSeq([b EXCEPT ![i] = x], p + 1, i - 1) = SubSeq(b, p + 1, i - 1)
<1>. DEFINE c == [b EXCEPT ![i] = x]
            last == i - 1
            part == SubSeq(c, p + 1, last)
            was == SubSeq(b, p + 1, last)
<1>1. /\ c \in Seq(Bytes) /\ Len(c) = Len(b)
      /\ \A k \in 1 .. Len(b) : c[k] = IF k = i THEN x ELSE b[k]
  BY ExceptSeq
<1>2. last \in Int /\ p + 1 \in Int /\ i = last + 1 /\ last <= Len(b) /\ Len(b) \in Nat
  BY SMT
<1>. HIDE DEF c, last
<1>3. ASSUME NEW k \in p + 1 .. last
      PROVE  c[k] = b[k] /\ c[k] \in Bytes /\ b[k] \in Bytes
  <2>1. k \in 1 .. Len(b) /\ k # i
    BY <1>2, SMT
  <2>2. b[k] \in Bytes
    BY <2>1, ElementOfSeq
  <2>. QED
    BY <1>1, <2>1, <2>2, ElementOfSeq, Zenon
<1>4. /\ part \in Seq(Bytes) /\ Len(part) = (IF p + 1 <= last THEN last - (p + 1) + 1 ELSE 0)
      /\ \A n \in 1 .. last - (p + 1) + 1 : part[n] = c[(p + 1) + n - 1]
  BY <1>2, <1>3, SubSeqProperties
<1>5. /\ was \in Seq(Bytes) /\ Len(was) = (IF p + 1 <= last THEN last - (p + 1) + 1 ELSE 0)
      /\ \A n \in 1 .. last - (p + 1) + 1 : was[n] = b[(p + 1) + n - 1]
  BY <1>2, <1>3, SubSeqProperties
<1>. HIDE DEF part, was
<1>6. ASSUME NEW n \in 1 .. Len(part)
      PROVE  part[n] = was[n]
  <2>1. n \in 1 .. last - (p + 1) + 1 /\ (p + 1) + n - 1 \in p + 1 .. last
    BY <1>2, <1>4, SMT
  <2>. QED
    BY <1>3, <1>4, <1>5, <2>1, Zenon
<1>7. part = was
  BY <1>4, <1>5, <1>6, SeqEqual
<1>. QED
  BY <1>7, Zenon DEF part, was, c, last

LEMMA PatchedToken == ASSUME IInv, pc = "fnmatch" PROVE CStr(buf, parser.token.str.ptr) = Token
<1>. DEFINE t == parser.token.str
            p == t.ptr
            e == End(t)
<1>1. /\ got \in Texts /\ Reader!IInv
      /\ parser.token.kind = "TOK_PATTERN" /\ buf = [original EXCEPT ![e + 1] = NUL]
  BY Zenon DEF IInv, Parsing, Patching
<1>2. original \in Seq(STRING) /\ NUL \in STRING
  BY <1>1, TextFacts, Assumptions, Zenon
<1>3. p \in Nat /\ t.len \in Nat /\ e = p + t.len /\ e \in 0 .. Len(original) - 1
  BY <1>1, TokenFacts, Zenon
<1>4. CStr(buf, p) = SubSeq(buf, p + 1, e)
  BY PatchedText, CStrUpTo, Zenon
<1>5. Token = SubSeq(original, p + 1, e)
  BY <1>3, Zenon DEF Token, Reader!Content
<1>. HIDE DEF p, e, t
<1>6. e + 1 \in 1 .. Len(original) /\ (e + 1) - 1 = e
  BY <1>2, <1>3, SMT
<1>. HIDE DEF NUL
<1>7. SubSeq([original EXCEPT ![e + 1] = NUL], p + 1, e) = SubSeq(original, p + 1, e)
  <2>. DEFINE last == e + 1
  <2>. HIDE DEF last
  <2>1. SubSeq([original EXCEPT ![last] = NUL], p + 1, last - 1)
          = SubSeq(original, p + 1, last - 1)
    <3>1. original \in Seq(STRING) /\ last \in 1 .. Len(original) /\ NUL \in STRING /\ p \in Nat
      BY <1>2, <1>3, <1>6, Zenon DEF last
    <3>. QED
      BY <3>1, SamePart
  <2>2. SubSeq([original EXCEPT ![e + 1] = NUL], p + 1, (e + 1) - 1)
          = SubSeq(original, p + 1, (e + 1) - 1)
    BY <2>1, Zenon DEF last
  <2>. QED
    BY <1>6, <2>2, Zenon
<1>8. CStr(buf, p) = Token
  BY <1>1, <1>4, <1>5, <1>7, Zenon
<1>. QED
  BY <1>8, Zenon DEF p, t

LEMMA FnmatchFinds == IInv /\ Finds /\ Fnmatch => Finds'
<1>. SUFFICES ASSUME IInv, Finds, Fnmatch PROVE Finds'
  OBVIOUS
<1>1. /\ pc = "fnmatch" /\ pc' = "revert"
      /\ UNCHANGED <<got, buf, parser, report>>
      /\ found_match' <=> CStr(buf, parser.token.str.ptr) \in Matching
  BY Zenon DEF Fnmatch, configVars, parserVars, formatVars
<1>2. /\ parser.token.kind = "TOK_PATTERN" /\ AtToken /\ ~found_match
      /\ buf # << >> /\ report # Parser!AssertFails
  BY <1>1, Zenon DEF IInv, Patching, Finds, Searching, Judging, Reads
<1>3. PICK pats, more : /\ more = pats \cup {Token}
                        /\ On(more) /\ (found_match <=> Met(pats))
  BY <1>2, Zenon DEF AtToken, AtPattern
<1>4. found_match' <=> Met(more)'
  <2>1. found_match' <=> Token \in Matching
    BY <1>1, PatchedToken, Zenon
  <2>2. Met(more)' <=> Met(more)
    BY Zenon DEF Met
  <2>. QED
    BY <1>2, <1>3, <2>1, <2>2, Zenon DEF Met
<1>5. On(more)'
  BY <1>1, <1>3, SearchStays, Zenon
<1>6. GoesOn'
  <2>1. ~parser'.is_done
    BY <1>1, <1>2, Zenon DEF AtToken, AtPattern
  <2>. QED
    BY <1>4, <1>5, <2>1, Zenon DEF GoesOn
<1>7. Judging'
  BY <1>1, <1>2, StillJudging, Zenon DEF Finds, Reads
<1>. QED
  BY <1>1, <1>6, <1>7, Zenon DEF Finds, Searching, Ending

LEMMA RevertFinds == IInv /\ IInv' /\ Finds /\ RevertIntoCstr => Finds'
<1>. SUFFICES ASSUME IInv, IInv', Finds, RevertIntoCstr PROVE Finds'
  OBVIOUS
<1>1. /\ pc = "revert" /\ pc' = "parse"
      /\ UNCHANGED <<got, parser, report, found_match>>
  BY Zenon DEF RevertIntoCstr, configVars, parserVars, formatVars
<1>2. /\ got \in Texts /\ GoesOn /\ report # Parser!AssertFails
  BY <1>1, Zenon DEF IInv, Parsing, Finds, Searching, Judging
<1>3. buf' # << >>
  <2>1. buf' = original'
    BY <1>1, Zenon DEF IInv, Patching
  <2>2. original' = original
    BY <1>1, Zenon DEF original
  <2>. QED
    BY <1>2, <2>1, <2>2, TextFacts, Zenon
<1>4. GoesOn'
  BY <1>1, <1>2, FoundStays, Zenon
<1>5. Judging'
  BY <1>1, <1>2, <1>3, StillJudging, Zenon DEF Finds, Reads
<1>. QED
  BY <1>1, <1>4, <1>5, Zenon DEF Finds, Searching, Ending

LEMMA SkipTokenFinds == Finds /\ SkipToken => Finds'
<1>. SUFFICES ASSUME Finds, SkipToken PROVE Finds'
  OBVIOUS
<1>1. /\ pc = "token" /\ pc' = "parse" /\ report # Parser!AssertFails
      /\ UNCHANGED <<got, buf, parser, report, found_match>>
      /\ parser.token.kind = "TOK_PATTERN" => found_match
      /\ parser.token.kind = "TOK_CMD" => ~found_match
  BY Zenon DEF SkipToken, TestPattern, RunCommand, Aborted, configVars, parserVars, formatVars
<1>2. AtToken /\ buf # << >>
  BY <1>1, Zenon DEF Finds, Searching, Judging, Reads
<1>3. GoesOn
  <2>1. CASE parser.token.kind = "TOK_PATTERN"
    <3>1. ~parser.is_done /\ found_match
      BY <1>1, <1>2, <2>1, Zenon DEF AtToken, AtPattern
    <3>2. PICK pats, more : /\ more = pats \cup {Token}
                            /\ On(more) /\ (found_match <=> Met(pats))
      BY <1>2, <2>1, Zenon DEF AtToken, AtPattern
    <3>3. Met(more)
      BY <3>1, <3>2, Zenon DEF Met
    <3>. QED
      BY <3>1, <3>2, <3>3, Zenon DEF GoesOn
  <2>2. CASE parser.token.kind = "TOK_CMD"
    <3>1. ~parser.is_done /\ ~found_match /\ On({})
      BY <1>1, <1>2, <2>2, Zenon DEF AtToken, AtCommand
    <3>2. ~Met({})
      BY Zenon DEF Met
    <3>. QED
      BY <3>1, <3>2, Zenon DEF GoesOn
  <2>3. CASE parser.token.kind \notin {"TOK_PATTERN", "TOK_CMD"}
    BY <1>2, <2>3, Zenon DEF AtToken
  <2>. QED
    BY <2>1, <2>2, <2>3, Zenon
<1>4. GoesOn'
  BY <1>1, <1>3, FoundStays, Zenon
<1>5. Judging'
  BY <1>1, <1>2, StillJudging, Zenon DEF Finds, Reads
<1>. QED
  BY <1>1, <1>4, <1>5, Zenon DEF Finds, Searching, Ending

LEMMA StartCommandFinds == Finds /\ StartCommand => Finds'
<1>. SUFFICES ASSUME Finds, StartCommand PROVE Finds'
  OBVIOUS
<1>1. /\ pc = "token" /\ pc' = "format" /\ report # Parser!AssertFails
      /\ UNCHANGED <<got, buf, parser, report, found_match>>
      /\ parser.token.kind = "TOK_CMD" /\ found_match
  BY Zenon DEF StartCommand, RunCommand, Aborted, configVars, parserVars
<1>2. AtToken /\ buf # << >>
  BY <1>1, Zenon DEF Finds, Searching, Judging, Reads
<1>3. Chosen # Reader!Malformed /\ Chosen.cmd = Token
  BY <1>1, <1>2, Zenon DEF AtToken, AtCommand
<1>4. Chosen' # Reader!Malformed' /\ Chosen'.cmd = Token'
  BY <1>1, <1>3, FoundStays, Zenon DEF Reader!Malformed
<1>5. Judging'
  BY <1>1, <1>2, StillJudging, Zenon DEF Finds, Reads
<1>. QED
  BY <1>1, <1>4, <1>5, Zenon DEF Finds, Searching, Ending

LEMMA FormatFinds == Finds /\ FormatCommand => Finds'
<1>. SUFFICES ASSUME Finds, FormatCommand PROVE Finds'
  OBVIOUS
<1>1. /\ pc = "format" /\ pc' = "format"
      /\ UNCHANGED <<got, buf, parser, report, found_match>>
  BY Zenon
     DEF FormatCommand, configVars, parserVars, Format!format_and_run, Format!Piece,
         Format!InsertFilename, Format!Run, Format!Deinit
<1>2. /\ Chosen # Reader!Malformed /\ Chosen.cmd = Token
      /\ buf # << >> /\ report # Parser!AssertFails
  BY <1>1, Zenon DEF Finds, Searching, Judging, Reads
<1>3. Chosen' # Reader!Malformed' /\ Chosen'.cmd = Token'
  BY <1>1, <1>2, FoundStays, Zenon DEF Reader!Malformed
<1>4. Judging'
  BY <1>1, <1>2, StillJudging, Zenon DEF Finds, Reads
<1>. QED
  BY <1>1, <1>3, <1>4, Zenon DEF Finds, Searching, Ending

LEMMA CommandReturnsFinds == IInv /\ Finds /\ CommandReturns => Finds'
<1>. SUFFICES ASSUME IInv, Finds, CommandReturns PROVE Finds'
  OBVIOUS
<1>1. /\ pc = "format" /\ pc' = "deinit" /\ fmt = "done"
      /\ UNCHANGED <<load, got, buf, parser, report, fmt, found_match, err>>
  BY Zenon DEF CommandReturns, configVars, parserVars, formatVars
<1>2. /\ load = "done" /\ got \in Texts /\ Formatter!IInv
      /\ Chosen # Reader!Malformed /\ buf # << >> /\ report # Parser!AssertFails
  BY <1>1, Zenon DEF IInv, Parsing, Formatting, Finds, Searching, Judging, Reads
<1>3. err \in {"OK", "ERR_OUT_OF_MEMORY"}
  BY <1>1, <1>2, Zenon DEF Formatter!IInv, Formatter!Outcomes
<1>4. Chosen' # Reader!Malformed'
  BY <1>1, <1>2, FoundStays, Zenon DEF Reader!Malformed
<1>5. Judging'
  BY <1>1, <1>2, StillJudging, Zenon DEF Finds, Reads
<1>6. Ending'
  BY <1>1, <1>2, <1>3, <1>4, Zenon DEF Ending
<1>. QED
  BY <1>1, <1>5, <1>6, Zenon DEF Finds, Searching

\* The end stays as it is.
LEMMA EndingStays ==
  ASSUME Ending, UNCHANGED <<load, got, buf, parser, fmt, err, found_match>>,
         pc' = "load" => pc = "load", pc' \in {"deinit", "exit"} => pc \in {"deinit", "exit"}
  PROVE  Ending'
<1>1. Chosen' = Chosen /\ Reader!Malformed' = Reader!Malformed
  BY FoundStays, Zenon DEF Reader!Malformed
<1>2. /\ pc' = "load" => err' \in {"OK", "ERR_FILESYSTEM", "ERR_OUT_OF_MEMORY"}
      /\ pc' \in {"deinit", "exit"} => load' = "done" /\ fmt' # "crash"
      /\ pc' \in {"deinit", "exit"} /\ buf' = << >>
           => err' \in {"ERR_FILESYSTEM", "ERR_OUT_OF_MEMORY"}
      /\ pc' \in {"deinit", "exit"} /\ buf' # << >>
           => got' \in Texts
      /\ pc' \in {"deinit", "exit"} /\ err' = "ERR_NO_MATCHES"
           => (parser'.unexpected_token <=> ~Reader!WellFormed(Reader!Text)')
  BY FoundStays, Zenon DEF Ending
<1>3. ASSUME pc' \in {"deinit", "exit"}, buf' # << >>
      PROVE  \/ err' = "OK"
             \/ err' = "ERR_NO_MATCHES" /\ Chosen' = Reader!Malformed'
             \/ err' = "ERR_OUT_OF_MEMORY" /\ Chosen' # Reader!Malformed'
  BY <1>1, <1>3, Zenon DEF Ending
<1>. QED
  BY <1>2, <1>3, Zenon DEF Ending

LEMMA DeinitFinds == Finds /\ Deinit => Finds'
<1>. SUFFICES ASSUME Finds, Deinit PROVE Finds'
  OBVIOUS
<1>1. /\ pc = "deinit" /\ pc' = "exit"
      /\ UNCHANGED <<load, got, buf, parser, report, fmt, found_match, err>>
  BY Zenon DEF Deinit, configVars, parserVars, formatVars
<1>2. Ending'
  BY <1>1, EndingStays, Zenon DEF Finds
<1>3. report' # Parser!AssertFails'
  BY <1>1, Zenon DEF Finds, Judging, Parser!AssertFails
<1>. QED
  BY <1>1, <1>2, <1>3, Zenon DEF Finds, Searching, Judging, Reads

LEMMA StutterFinds == Finds /\ UNCHANGED vars => Finds'
<1>. SUFFICES ASSUME Finds, UNCHANGED vars PROVE Finds'
  OBVIOUS
<1>1. UNCHANGED <<load, got, buf, parser, report, fmt, pc, found_match, err>>
  BY Zenon DEF vars, configVars, parserVars, formatVars
<1>2. Ending'
  BY <1>1, EndingStays, Zenon DEF Finds
<1>3. /\ Chosen' = Chosen /\ Token' = Token /\ Reader!Malformed' = Reader!Malformed
      /\ GoesOn' <=> GoesOn
      /\ AtToken' <=> AtToken
      /\ Reader!Judged' <=> Reader!Judged
      /\ Reader!WellFormed(Reader!Text)' <=> Reader!WellFormed(Reader!Text)
      /\ Parser!AssertFails' = Parser!AssertFails
  BY <1>1, FoundStays, Zenon DEF Reader!Malformed, Parser!AssertFails
<1>4. Searching'
  BY <1>1, <1>3, Zenon DEF Finds, Searching
<1>5. Judging'
  BY <1>1, <1>3, Zenon DEF Finds, Judging
<1>. QED
  BY <1>2, <1>4, <1>5, Zenon DEF Finds

LEMMA FindsOn == IInv /\ IInv' /\ Finds /\ [Next]_vars => Finds'
BY LoadFinds, StartParserFinds, NextTokenFinds, NoMatchesFinds, IntoCstrFinds,
   FnmatchFinds, RevertFinds, SkipTokenFinds, StartCommandFinds, FormatFinds,
   CommandReturnsFinds, DeinitFinds, StutterFinds, Zenon
   DEF Next, Step, Ended

-----------------------------------------------------------------------------
(* evaluate() implements FirstMatch.                                       *)

\* The text of the promise is the one that the parser read.
LEMMA WithoutTerminator ==
  ASSUME NEW Bytes, NEW s \in Seq(Bytes), NEW x \in Bytes
  PROVE  SubSeq(Append(s, x), 1, Len(Append(s, x)) - 1) = s
<1>. DEFINE a == Append(s, x)
            n == Len(a) - 1
            front == SubSeq(a, 1, n)
<1>1. /\ a \in Seq(Bytes) /\ Len(a) = Len(s) + 1
      /\ \A i \in 1 .. Len(s) : a[i] = s[i]
  BY AppendProperties
<1>. HIDE DEF a
<1>2. n = Len(s) /\ n \in Nat
  BY <1>1, SMT
<1>. HIDE DEF n
<1>3. \A i \in 1 .. n : a[i] \in Bytes
  <2>. SUFFICES ASSUME NEW i \in 1 .. n PROVE a[i] \in Bytes
    OBVIOUS
  <2>1. i \in 1 .. Len(s)
    BY <1>2, Zenon
  <2>. QED
    BY <1>1, <2>1, ElementOfSeq, Zenon
<1>4. /\ front \in Seq(Bytes) /\ Len(front) = (IF 1 <= n THEN n - 1 + 1 ELSE 0)
      /\ \A i \in 1 .. n - 1 + 1 : front[i] = a[1 + i - 1]
  <2>1. 1 \in Int /\ n \in Int
    BY <1>2, SMT
  <2>. QED
    BY <1>3, <2>1, SubSeqProperties
<1>. HIDE DEF front
<1>5. Len(front) = Len(s)
  BY <1>2, <1>4, SMT
<1>6. ASSUME NEW i \in 1 .. Len(front)
      PROVE  front[i] = s[i]
  <2>1. i \in 1 .. n - 1 + 1 /\ i \in 1 .. Len(s) /\ 1 + i - 1 = i
    BY <1>2, <1>5, SMT
  <2>. QED
    BY <1>1, <1>4, <2>1, Zenon
<1>7. front = s
  BY <1>4, <1>5, <1>6, SeqEqual
<1>. QED
  BY <1>7, Zenon DEF front, n, a

LEMMA TextIs ==
  ASSUME buf # << >>, got \in Texts
  PROVE  /\ TextRead = Reader!Text /\ TextRead \in Texts /\ TextRead # Missing
         /\ Promise!Chosen = Chosen
         /\ Promise!WellFormed(TextRead) <=> Reader!WellFormed(Reader!Text)
<1>1. TextRead = got /\ got \in Seq(STRING)
  BY LoadedTexts, Zenon DEF TextRead
<1>2. Reader!Text = got
  <2>1. Reader!Text = SubSeq(original, 1, Len(original) - 1)
    BY Zenon DEF Reader!Text
  <2>2. original = Append(got, NUL)
    BY Zenon DEF original
  <2>. HIDE DEF NUL
  <2>. QED
    BY <1>1, <2>1, <2>2, WithoutTerminator, Assumptions, Zenon
<1>4. Promise!Chosen = Chosen
  <2>1. Promise!Chosen = Promise!FirstRule(TextRead, Matching)
    BY Zenon DEF Promise!Chosen
  <2>. QED
    BY <1>1, <1>2, <2>1, SameGrammar, Zenon DEF Chosen
<1>5. Promise!WellFormed(TextRead) <=> Reader!WellFormed(Reader!Text)
  <2>1. Promise!WellFormed(TextRead) <=> Reader!WellFormed(TextRead)
    BY SameGrammar, Zenon
  <2>. QED
    BY <1>1, <1>2, <2>1, Zenon
<1>. QED
  BY <1>1, <1>2, <1>4, <1>5, LoadedTexts, Zenon

LEMMA TextIsNext ==
  (buf # << >> /\ got \in Texts
     => TextRead \in Texts /\ TextRead # Missing)'
<1>1. buf # << >> /\ got \in Texts
        => TextRead \in Texts /\ TextRead # Missing
  BY TextIs, Zenon
<1>. QED
  BY <1>1, PTL

\* Once it is read it stays, patched or not.
LEMMA TextStays ==
  ASSUME UNCHANGED got, buf' = << >> <=> buf = << >>
  PROVE  TextRead' = TextRead
BY Zenon DEF TextRead

\* Where no callee can have ended the process.
LEMMA Alive ==
  ASSUME IInv, Finds, pc \in {"parse", "fnmatch", "revert", "deinit", "exit"}
  PROVE  ~Aborted
<1>1. report # Parser!AssertFails
  BY Zenon DEF Finds, Judging
<1>2. load # "abort" /\ fmt # "crash"
  <2>1. CASE pc \in {"parse", "fnmatch", "revert"}
    BY <2>1, Zenon DEF IInv, Parsing, Owning
  <2>2. CASE pc \in {"deinit", "exit"}
    BY <2>2, Zenon DEF Finds, Ending
  <2>. QED
    BY <2>1, <2>2, Zenon
<1>. QED
  BY <1>1, <1>2, Zenon DEF Aborted

LEMMA AliveNext ==
  (IInv /\ Finds /\ pc \in {"parse", "fnmatch", "revert", "deinit", "exit"} => ~Aborted)'
<1>1. IInv /\ Finds /\ pc \in {"parse", "fnmatch", "revert", "deinit", "exit"} => ~Aborted
  BY Alive
<1>. QED
  BY <1>1, PTL

\* A step that neither reads a file, nor runs a command, nor ends the program.
LEMMA NothingSeen ==
  ASSUME TextRead' = TextRead, ran' = ran, Result' = Result
  PROVE  [Promise!Next]_Promise!vars
BY Zenon DEF Promise!vars

LEMMA InitPromised == Init => Promise!Init
<1>. SUFFICES ASSUME Init PROVE Promise!Init
  OBVIOUS
<1>1. /\ pc = "load" /\ load = "open" /\ fmt = "idle" /\ buf = << >> /\ ran = << >>
      /\ report # Parser!AssertFails
  BY DEF Init, Config!Init, Parser!NoReport, Parser!AssertFails
<1>. QED
  BY <1>1, Zenon DEF Promise!Init, TextRead, Result, Aborted

\* The file is read, or cannot be, or changes in between.
LEMMA LoadPromised == IInv /\ IInv' /\ Load => [Promise!Next]_Promise!vars
<1>. SUFFICES ASSUME IInv, IInv', Load PROVE [Promise!Next]_Promise!vars
  OBVIOUS
<1>1. /\ pc = "load" /\ pc' = "load" /\ load \notin {"done", "abort"}
      /\ UNCHANGED <<fmt, ran, report>>
  BY Zenon DEF Load, parserVars, formatVars
<1>2. /\ Loader!IInv /\ Loader!IInv' /\ ran = << >> /\ fmt = "idle"
      /\ report = Parser!NoReport
  BY <1>1, Zenon DEF IInv, Loading
<1>3. report # Parser!AssertFails /\ Parser!AssertFails' = Parser!AssertFails
  BY <1>2 DEF Parser!NoReport, Parser!AssertFails
<1>4. TextRead = Missing /\ Result = "running"
  BY <1>1, <1>2, <1>3, Zenon DEF Loader!IInv, Loader!InProgress, TextRead, Result, Aborted
<1>5. Result' = IF load' = "abort" THEN "aborted" ELSE "running"
  BY <1>1, <1>2, <1>3, Zenon DEF Result, Aborted
<1>6. CASE buf' # << >>
  <2>1. got' \in Texts /\ load' = "done"
    BY <1>2, <1>6, LoadedTexts, Zenon DEF Loader!IInv, Loader!BytesInPlace, Loader!InProgress
  <2>2. TextRead' \in Texts /\ Result' = "running"
    BY <1>5, <1>6, <2>1, TextIsNext, Zenon
  <2>3. Promise!Read
    BY <1>1, <1>4, <2>2, Zenon DEF Promise!Read
  <2>. QED
    BY <2>3, Zenon DEF Promise!Next
<1>7. CASE buf' = << >> /\ load' = "abort"
  <2>1. TextRead' = Missing /\ Result' = "aborted"
    BY <1>5, <1>7, Zenon DEF TextRead
  <2>2. Promise!Abort
    BY <1>1, <1>2, <1>4, <2>1, Zenon DEF Promise!Abort, Promise!Report
  <2>. QED
    BY <2>2, Zenon DEF Promise!Next
<1>8. CASE buf' = << >> /\ load' # "abort"
  <2>1. TextRead' = Missing /\ Result' = "running"
    BY <1>5, <1>8, Zenon DEF TextRead
  <2>. QED
    BY <1>1, <1>4, <2>1, NothingSeen, Zenon
<1>. QED
  BY <1>6, <1>7, <1>8

LEMMA StartParserPromised == IInv /\ StartParser => [Promise!Next]_Promise!vars
<1>. SUFFICES ASSUME IInv, StartParser PROVE [Promise!Next]_Promise!vars
  OBVIOUS
<1>1. /\ pc = "load" /\ pc' \in {"deinit", "parse"}
      /\ UNCHANGED <<load, got, buf, fmt, ran, report>>
  BY Zenon DEF StartParser, configVars, formatVars
<1>2. TextRead' = TextRead
  BY <1>1, TextStays, Zenon
<1>3. Aborted' <=> Aborted
  BY <1>1, Zenon DEF Aborted, Parser!AssertFails
<1>4. Result' = Result
  BY <1>1, <1>3, Zenon DEF Result
<1>. QED
  BY <1>1, <1>2, <1>4, NothingSeen

\* The parser may die, but only of a malformed file.
LEMMA NextTokenPromised ==
  IInv /\ Finds /\ Finds' /\ NextToken => [Promise!Next]_Promise!vars
<1>. SUFFICES ASSUME IInv, Finds, Finds', NextToken PROVE [Promise!Next]_Promise!vars
  OBVIOUS
<1>1. /\ pc = "parse" /\ pc' = "token" /\ ~Aborted
      /\ UNCHANGED <<load, got, buf, fmt, ran>>
  BY Zenon DEF NextToken, configVars, formatVars
<1>2. /\ load = "done" /\ got \in Texts
      /\ fmt = "idle" /\ ran = << >> /\ buf # << >>
  BY <1>1, Zenon DEF IInv, Parsing, Owning, Finds, Judging, Reads
<1>3. TextRead' = TextRead /\ Result = "running"
  BY <1>1, TextStays, Zenon DEF Result
<1>4. CASE report' # Parser!AssertFails'
  <2>1. Result' = "running"
    BY <1>1, <1>2, <1>4, Zenon DEF Result, Aborted
  <2>. QED
    BY <1>1, <1>3, <2>1, NothingSeen, Zenon
<1>5. CASE report' = Parser!AssertFails'
  <2>1. Result' = "aborted"
    BY <1>5, Zenon DEF Result, Aborted
  <2>2. ~Reader!WellFormed(Reader!Text)
    <3>1. ~Reader!WellFormed(Reader!Text)'
      BY <1>5, Zenon DEF Finds, Judging
    <3>2. Reader!Text' = Reader!Text
      BY <1>1, Zenon DEF Reader!Text, original
    <3>. QED
      BY <3>1, <3>2, Zenon
  <2>3. ~Promise!WellFormed(TextRead)
    BY <1>2, <2>2, TextIs, Zenon
  <2>4. Promise!Abort
    BY <1>1, <1>2, <1>3, <2>1, <2>3, Zenon DEF Promise!Abort, Promise!Report
  <2>. QED
    BY <2>4, Zenon DEF Promise!Next
<1>. QED
  BY <1>4, <1>5

\* Steps of the search, none of which shows.
LEMMA SearchIsSilent ==
  ASSUME ~Aborted, pc # "exit", pc' # "exit", fmt' # "crash", buf # << >>, buf' # << >>,
         UNCHANGED <<load, got, report, ran>>
  PROVE  [Promise!Next]_Promise!vars
<1>1. TextRead' = TextRead
  BY TextStays, Zenon
<1>2. Result = "running"
  BY Zenon DEF Result
<1>3. ~Aborted'
  BY Zenon DEF Aborted, Parser!AssertFails
<1>4. Result' = "running"
  BY <1>3, Zenon DEF Result
<1>. QED
  BY <1>1, <1>2, <1>4, NothingSeen, Zenon

LEMMA SearchPromised ==
  /\ IInv /\ IInv' /\ Finds /\ Finds'
  /\ \/ NoMatches \/ IntoCstr \/ Fnmatch \/ RevertIntoCstr
     \/ SkipToken \/ StartCommand \/ CommandReturns
  => [Promise!Next]_Promise!vars
<1>. SUFFICES ASSUME IInv, IInv', Finds, Finds',
                     \/ NoMatches \/ IntoCstr \/ Fnmatch \/ RevertIntoCstr
                     \/ SkipToken \/ StartCommand \/ CommandReturns
              PROVE  [Promise!Next]_Promise!vars
  OBVIOUS
<1>1. /\ pc \in Reads /\ pc' \in {"parse", "fnmatch", "revert", "format", "deinit"}
      /\ UNCHANGED <<load, got, report, ran>>
      /\ pc' = "deinit" => buf' = buf
      /\ fmt' = fmt \/ fmt' = "piece"
  BY Zenon
     DEF NoMatches, IntoCstr, Fnmatch, RevertIntoCstr, SkipToken, StartCommand,
         CommandReturns, Format!Call, Reads, configVars, parserVars, formatVars
<1>2. buf # << >> /\ buf' # << >>
  <2>1. buf # << >>
    BY <1>1, Zenon DEF Finds, Judging
  <2>2. pc' \in Reads => buf' # << >>
    BY Zenon DEF Finds, Judging, Reads
  <2>. QED
    BY <1>1, <2>1, <2>2, Zenon DEF Reads
<1>3. ~Aborted
  <2>1. CASE NoMatches \/ IntoCstr \/ SkipToken \/ StartCommand
    BY <2>1, Zenon DEF NoMatches, IntoCstr, SkipToken, StartCommand
  <2>2. CASE Fnmatch \/ RevertIntoCstr
    BY <2>2, Alive, Zenon DEF Fnmatch, RevertIntoCstr
  <2>3. CASE CommandReturns
    <3>1. pc = "format" /\ fmt = "done"
      BY <2>3, Zenon DEF CommandReturns
    <3>2. load = "done" /\ report # Parser!AssertFails
      BY <3>1, Zenon DEF IInv, Parsing, Finds, Judging
    <3>. QED
      BY <3>1, <3>2, Zenon DEF Aborted
  <2>. QED
    BY <2>1, <2>2, <2>3
<1>4. fmt' # "crash" /\ pc # "exit" /\ pc' # "exit"
  BY <1>1, <1>3, Zenon DEF Aborted, Reads
<1>. QED
  BY <1>1, <1>2, <1>3, <1>4, SearchIsSilent, Zenon

\* The command that is run is that of the first rule that matches.
LEMMA FormatPromised ==
  IInv /\ IInv' /\ Finds /\ FormatCommand => [Promise!Next]_Promise!vars
<1>. SUFFICES ASSUME IInv, IInv', Finds, FormatCommand PROVE [Promise!Next]_Promise!vars
  OBVIOUS
<1>1. /\ pc = "format" /\ pc' = "format" /\ fmt \in {"piece", "filename", "run", "deinit"}
      /\ UNCHANGED <<load, got, buf, parser, report>>
      /\ \/ ran' = ran
         \/ fmt = "run" /\ fmt' = "deinit" /\ ran' = Append(ran, cmd.text)
      /\ fmt' = "crash" => fmt \in {"piece", "filename"} /\ ran' = ran
  BY Zenon
     DEF FormatCommand, configVars, parserVars, Format!format_and_run, Format!Piece,
         Format!InsertFilename, Format!Run, Format!Deinit
<1>2. /\ load = "done" /\ got \in Texts /\ Formatter!IInv
      /\ Chosen # Reader!Malformed /\ Chosen.cmd = Token
      /\ buf # << >> /\ report # Parser!AssertFails /\ buf = original
  BY <1>1, Zenon DEF IInv, Parsing, Patching, Formatting, Finds, Searching, Judging, Reads
<1>3. fmt \in {"piece", "filename", "run"} => ran = << >>
  BY <1>2, Zenon DEF Formatter!IInv, Formatter!Outcomes
<1>4. /\ TextRead' = TextRead /\ TextRead # Missing
      /\ Promise!Chosen # Promise!Malformed /\ Promise!Chosen.cmd = Token
  BY <1>1, <1>2, TextStays, TextIs, SameGrammar, Zenon
<1>5. /\ Result = "running"
      /\ Result' = IF fmt' = "crash" THEN "aborted" ELSE "running"
  BY <1>1, <1>2, Zenon DEF Result, Aborted, Parser!AssertFails
<1>6. CASE fmt' = "crash"
  <2>1. Promise!Abort
    BY <1>1, <1>3, <1>4, <1>5, <1>6, Zenon DEF Promise!Abort, Promise!Report
  <2>. QED
    BY <2>1, Zenon DEF Promise!Next
<1>7. CASE fmt' # "crash" /\ ran' = ran
  BY <1>4, <1>5, <1>7, NothingSeen, Zenon
<1>8. CASE fmt = "run" /\ fmt' = "deinit" /\ ran' = Append(ran, cmd.text)
  <2>1. ran = << >>
    BY <1>3, <1>8, Zenon
  <2>2. ran' = << Format!Expanded >>
    <3>1. Formatter!IInv'
      BY <1>1, Zenon DEF IInv, Formatting
    <3>2. Format!AllOrNothing'
      BY <3>1, FormatterMeansNext, Zenon DEF FormatPromise
    <3>3. Format!Expanded' = Format!Expanded
      BY <1>1, Zenon DEF Format!Expanded, Format!Command
    <3>4. ran' # << >>
      <4>1. \A x : Append(<< >>, x) # << >>
        BY SMT
      <4>. QED
        BY <1>8, <2>1, <4>1, Zenon
    <3>. QED
      BY <3>2, <3>3, <3>4, Zenon DEF Format!AllOrNothing
  <2>3. Format!Expanded = Promise!Expand(Promise!Chosen.cmd, Filename)
    <3>1. Format!Command = Token
      BY <1>2, Zenon DEF Format!Command, Format!Content, Token, Reader!Content
    <3>2. \A x, f : Format!Meaning(x, f) = Promise!Meaning(x, f)
      BY Zenon DEF Format!Meaning, Promise!Meaning
    <3>3. \A c, f : Format!Expand(c, f) = Promise!Expand(c, f)
      BY <3>2, Zenon DEF Format!Expand, Promise!Expand
    <3>. QED
      BY <1>4, <3>1, <3>3, Zenon DEF Format!Expanded
  <2>4. Promise!Run
    BY <1>4, <1>5, <1>8, <2>1, <2>2, <2>3, Zenon DEF Promise!Run
  <2>. QED
    BY <2>4, Zenon DEF Promise!Next
<1>. QED
  BY <1>1, <1>6, <1>7, <1>8, Zenon

\* What the program ends with is why.
LEMMA DeinitPromised ==
  IInv /\ IInv' /\ Finds /\ Finds' /\ Deinit => [Promise!Next]_Promise!vars
<1>. SUFFICES ASSUME IInv, IInv', Finds, Finds', Deinit PROVE [Promise!Next]_Promise!vars
  OBVIOUS
<1>1. /\ pc = "deinit" /\ pc' = "exit"
      /\ UNCHANGED <<got, buf, ran, err>>
  BY Zenon DEF Deinit, configVars, formatVars
<1>2. ~Aborted /\ ~Aborted' /\ Ending /\ Settled
  <2>1. ~Aborted'
    BY <1>1, AliveNext, Zenon
  <2>. QED
    BY <1>1, <2>1, Alive, Zenon DEF IInv, Owning, Finds
<1>3. TextRead' = TextRead /\ ran' = ran /\ Result = "running" /\ Result' = err
  BY <1>1, <1>2, TextStays, Zenon DEF Result
<1>4. \A error : error = err => Promise!Report(error)
  BY <1>3, Zenon DEF Promise!Report
<1>5. CASE buf = << >>
  <2>1. TextRead = Missing /\ err \in {"ERR_FILESYSTEM", "ERR_OUT_OF_MEMORY"}
    BY <1>1, <1>2, <1>5, Zenon DEF Ending, TextRead
  <2>2. Promise!CannotRead
    BY <1>4, <2>1, Zenon DEF Promise!CannotRead
  <2>. QED
    BY <2>2, Zenon DEF Promise!Next
<1>6. CASE buf # << >>
  <2>1. /\ got \in Texts
        /\ \/ err = "OK"
           \/ err = "ERR_NO_MATCHES" /\ Chosen = Reader!Malformed
           \/ err = "ERR_OUT_OF_MEMORY" /\ Chosen # Reader!Malformed
    BY <1>1, <1>2, <1>6, Zenon DEF Ending
  <2>2. /\ TextRead # Missing
        /\ Promise!Chosen = Promise!Malformed <=> Chosen = Reader!Malformed
    BY <1>6, <2>1, TextIs, SameGrammar, Zenon
  <2>3. CASE err = "OK"
    <3>1. ran # << >>
      <4>1. Len(ran) = 1
        BY <1>2, <2>3, Zenon DEF Settled
      <4>. QED
        BY <4>1, SMT
    <3>2. Promise!Succeed
      BY <1>4, <2>3, <3>1, Zenon DEF Promise!Succeed
    <3>. QED
      BY <3>2, Zenon DEF Promise!Next
  <2>4. CASE err = "ERR_NO_MATCHES" /\ Chosen = Reader!Malformed
    <3>1. Promise!NoMatch
      BY <1>4, <2>2, <2>4, Zenon DEF Promise!NoMatch
    <3>. QED
      BY <3>1, Zenon DEF Promise!Next
  <2>5. CASE err = "ERR_OUT_OF_MEMORY" /\ Chosen # Reader!Malformed
    <3>1. ran = << >>
      BY <1>2, <2>5, Zenon DEF Settled
    <3>2. Promise!CannotRun
      BY <1>4, <2>2, <2>5, <3>1, Zenon DEF Promise!CannotRun
    <3>. QED
      BY <3>2, Zenon DEF Promise!Next
  <2>. QED
    BY <2>1, <2>3, <2>4, <2>5
<1>. QED
  BY <1>5, <1>6

LEMMA StutterPromised == UNCHANGED vars => [Promise!Next]_Promise!vars
<1>. SUFFICES ASSUME UNCHANGED vars PROVE [Promise!Next]_Promise!vars
  OBVIOUS
<1>1. UNCHANGED <<load, got, buf, report, fmt, ran, pc, err>>
  BY Zenon DEF vars, configVars, parserVars, formatVars
<1>2. TextRead' = TextRead
  BY <1>1, TextStays, Zenon
<1>3. Aborted' <=> Aborted
  BY <1>1, Zenon DEF Aborted, Parser!AssertFails
<1>4. Result' = Result
  BY <1>1, <1>3, Zenon DEF Result
<1>. QED
  BY <1>1, <1>2, <1>4, NothingSeen, Zenon

LEMMA StepPromised == IInv /\ IInv' /\ Finds /\ Finds' /\ [Next]_vars => [Promise!Next]_Promise!vars
BY LoadPromised, StartParserPromised, NextTokenPromised, SearchPromised, FormatPromised,
   DeinitPromised, StutterPromised, Zenon
   DEF Next, Step, Ended

\* Whatever the file, the file name and fnmatch() are, and whoever edits the
\* file meanwhile: evaluate() reads the text once, runs the command of the first
\* rule with a pattern that matches the name, with the name for every '%', and
\* nothing else; and when it runs nothing, the error it returns says why.
THEOREM EvaluateKeepsPromise == Spec => KeepsPromise
<1>1. Spec => []Finds
  BY Invariance, InitFinds, FindsOn, PTL DEF Spec
<1>. QED
  BY <1>1, Invariance, InitPromised, StepPromised, PTL DEF Spec, KeepsPromise, Promise!Spec

\* What FirstMatch comes to, evaluate() comes to.
LEMMA FulfilledAtFirst == Promise!Init => Promise!Fulfilled
BY Zenon DEF Promise!Init, Promise!Fulfilled

LEMMA FulfilledStays == Promise!Fulfilled /\ [Promise!Next]_Promise!vars => Promise!Fulfilled'
<1>. SUFFICES ASSUME Promise!Fulfilled, [Promise!Next]_Promise!vars PROVE Promise!Fulfilled'
  OBVIOUS
<1>1. CASE Promise!Read
  <2>1. Result = "running" /\ TextRead = Missing /\ ran' = ran /\ Result' = Result
    BY <1>1, Zenon DEF Promise!Read
  <2>2. ran' = << >> /\ Result' = "running"
    BY <2>1, Zenon DEF Promise!Fulfilled
  <2>. QED
    BY <2>2, Zenon DEF Promise!Fulfilled
<1>2. CASE ~Promise!Read
  <2>1. TextRead' = TextRead
    BY <1>2, Zenon
       DEF Promise!Next, Promise!Run, Promise!Succeed, Promise!CannotRead, Promise!NoMatch,
           Promise!CannotRun, Promise!Abort, Promise!Report, Promise!vars
  <2>2. Promise!Chosen' = Promise!Chosen
    BY <2>1, Zenon DEF Promise!Chosen
  <2>3. \/ Promise!Run \/ UNCHANGED Promise!vars
        \/ /\ ran' = ran
           /\ \/ Result' = "OK" /\ ran # << >>
              \/ Result' = "ERR_NO_MATCHES" /\ TextRead # Missing /\ Promise!Chosen = Promise!Malformed
              \/ /\ Result' \in {"ERR_FILESYSTEM", "ERR_OUT_OF_MEMORY", "aborted"}
                 /\ ran = << >> \/ TextRead = Missing
    BY <1>2, Zenon
       DEF Promise!Next, Promise!Succeed, Promise!CannotRead, Promise!NoMatch,
           Promise!CannotRun, Promise!Abort, Promise!Report, Promise!vars
  <2>4. CASE Promise!Run
    BY <2>1, <2>2, <2>4, Zenon DEF Promise!Run, Promise!Fulfilled
  <2>5. CASE UNCHANGED Promise!vars
    BY <2>2, <2>5, Zenon DEF Promise!vars, Promise!Fulfilled
  <2>. QED
    BY <2>1, <2>2, <2>3, <2>4, <2>5, Zenon DEF Promise!Fulfilled
<1>. QED
  BY <1>1, <1>2

\* So whatever it is called with, the command it has run, if any, is that of the
\* first rule that matches, and it succeeds exactly if it has run one.
THEOREM EvaluateFulfils == Spec => []Promise!Fulfilled
<1>1. Spec => Promise!Spec
  BY EvaluateKeepsPromise DEF KeepsPromise
<1>. QED
  BY <1>1, FulfilledAtFirst, FulfilledStays, PTL DEF Promise!Spec
=============================================================================
