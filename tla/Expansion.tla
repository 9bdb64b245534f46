----------------------------- MODULE Expansion ------------------------------
(* What a command of the configuration file means: what fnmar is to run.   *)
EXTENDS Integers, Sequences

\* What a byte of it stands for.
Meaning(byte, filename) == IF byte = "%" THEN filename ELSE <<byte>>

\* The command, with the file name for every '%'.  (Not by a fold of the
\* community modules: tlapm cannot use these in an instance with parameters.)
Expand(cmd, filename) ==
  LET first[n \in 0 .. Len(cmd)] ==
        IF n = 0 THEN << >> ELSE first[n - 1] \o Meaning(cmd[n], filename)
  IN  first[Len(cmd)]
=============================================================================
