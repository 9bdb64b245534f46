---------------------------- MODULE MCConfigFile ----------------------------
(* Model checking ConfigFile on files that tell whose byte is where: what  *)
(* an editor saves has no byte in common with what was there before, and   *)
(* no file has the same byte twice.                                        *)
EXTENDS ConfigFile

CONSTANT MaxLen

Prefixes(t) == {SubSeq(t, 1, n) : n \in 0 .. MaxLen}
MCSaves == Prefixes(<<"A", "B", "C", "D">>)
MCFiles == Prefixes(<<"a", "b", "c", "d">>) \cup MCSaves
=============================================================================
