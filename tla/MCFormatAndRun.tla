--------------------------- MODULE MCFormatAndRun ---------------------------
(* Model checking FormatAndRun on every command of at most MaxLen bytes,   *)
(* in the middle of a line of the configuration file.                      *)
EXTENDS FormatAndRun

CONSTANTS Alphabet, MaxLen

MCFilename == <<"f", "i", "l", "e">>

Commands == UNION {[1 .. n -> Alphabet] : n \in 1 .. MaxLen}

MCInit ==
  /\ \E c \in Commands :
       /\ buf = <<"m", ":">> \o c \o <<"\n", NUL>>
       /\ cmd_pattern = [ptr |-> 2, len |-> Len(c)]
  /\ Init

MCSpec == MCInit /\ [][Next]_formatVars
=============================================================================
