--------------------------- MODULE EvaluatePromise ---------------------------
(* What evaluate() promises, by FirstMatch.                                *)
EXTENDS Evaluate

\* What may be read of a file: a mixture, if it is edited meanwhile.
Texts == Config!Mixtures

\* No text reads like that of a file that cannot be opened.
ASSUME TextsAssumption == Missing \notin Seq(STRING)

\* What evaluate() has read, and how it ends.
TextRead == IF buf = << >> THEN Missing ELSE got
Result   == IF Aborted THEN "aborted" ELSE IF pc = "exit" THEN err ELSE "running"

Promise ==
  INSTANCE FirstMatch WITH Unread <- Missing, text <- TextRead, outcome <- Result

(***************************************************************************)
(* evaluate() does what FirstMatch promises: the patterns it tries one by  *)
(* one, the rules it goes through and the pieces it puts together come to  *)
(* the first matching rule's command, with the file name in it.            *)
(***************************************************************************)
KeepsPromise == Promise!Spec
=============================================================================
