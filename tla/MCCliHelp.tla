----------------------------- MODULE MCCliHelp ------------------------------
(* Model checking CliHelp on every table of at most MaxOptions options of  *)
(* different shapes, with short texts and with texts that do not fit, and  *)
(* on fnmar's table with enough options added to make its array grow.      *)
EXTENDS CliHelp

CONSTANT MaxOptions

Opt(name, short, kind, required, argname, text) ==
  [name |-> name, short |-> short, kind |-> kind, required |-> required,
   ident |-> "id", argname |-> argname, help |-> text]

Short == <<"s">>
Fits  == [k \in 1 .. N - 2 |-> "f"]
Full  == [k \in 1 .. N - 1 |-> "f"]      \* with the separator, what is reserved
Long  == [k \in 1 .. N |-> "l"]

Shapes ==
  { Opt(<< >>, NUL, "STRING", FALSE, << >>, Short),
    Opt(<<"pos">>, NUL, "STRING", FALSE, << >>, Full),
    Opt(<<"-", "-", "a">>, "a", "BOOL", FALSE, << >>, Long),
    Opt(<<"-", "-", "b">>, NUL, "INT", FALSE, << >>, Fits),
    Opt(<<"-", "-", "c">>, "c", "STRING", TRUE, Long, Short),
    Opt(<<"-", "-", "d">>, NUL, "STRING", TRUE, Full, Full),
    Opt(<< >>, "e", "BOOL", TRUE, << >>, << >>) }

Fnmar ==
  << Opt(<<"-", "-", "help">>, "h", "BOOL", FALSE, << >>, Short),
     Opt(<< >>, NUL, "STRING", FALSE, << >>, << >>),
     Opt(<<"-", "-", "config">>, "c", "STRING", FALSE, << >>, Short),
     Opt(<<"-", "-", "verbose">>, "v", "BOOL", FALSE, << >>, Short) >>

MCTables == UNION {[1 .. n -> Shapes] : n \in 1 .. MaxOptions}
              \cup {Fnmar \o [k \in 1 .. 7 |-> Fnmar[4]]}
=============================================================================
