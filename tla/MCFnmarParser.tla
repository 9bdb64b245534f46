---------------------------- MODULE MCFnmarParser ---------------------------
(* Model checking FnmarParser on every file of at most MaxLen bytes.       *)
EXTENDS FnmarParserGrammar

CONSTANT MaxLen

Alphabet == {"a", ";", ":", "#", " ", "\n", NUL}

MCFiles == UNION {[1 .. n -> Alphabet] : n \in 0 .. MaxLen}
=============================================================================
