------------------------- MODULE FnmarParserGrammar -------------------------
(* What the parser of FnmarParser promises of a file, by ConfigGrammar.    *)
EXTENDS FnmarParser, ConfigGrammar

\* The text the parser was given: the file without the terminator.
Text == SubSeq(buf, 1, Len(buf) - 1)

(***************************************************************************)
(* The parser complains about a file exactly when the grammar has no       *)
(* reading of it: it neither accepts a malformed rule nor rejects a file   *)
(* for its comments, blank lines or runs of separators.                    *)
(***************************************************************************)
AcceptsExactlyTheGrammar ==
  parser.is_done => (parser.unexpected_token <=> ~WellFormed(Text))
=============================================================================
