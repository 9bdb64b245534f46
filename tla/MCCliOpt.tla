------------------------------ MODULE MCCliOpt ------------------------------
(* Model checking CliOpt on a table with what fnmar's lacks: two           *)
(* positionals, integers, and required options that are not positional.    *)
EXTENDS CliOpt

CONSTANT MaxArgs

Opt(name, short, kind, ident) ==
  [name |-> name, short |-> short, kind |-> kind, ident |-> ident,
   required |-> FALSE, sufficient |-> FALSE]

Table ==
  << [Opt(<<"-", "-", "help">>, "h", "BOOL", "help") EXCEPT !.sufficient = TRUE],
     Opt(<< >>, NUL, "STRING", "from"),
     [Opt(<< >>, "n", "INT", "count") EXCEPT !.required = TRUE],
     Opt(<<"to">>, NUL, "STRING", "to"),
     Opt(<<"-", "-", "size">>, NUL, "INT", "size") >>

MCNumerals == {<<"1">>}

MCArgs ==
  {<<"1">>, <<"x">>, <<"-">>, <<"-", "-">>,
   <<"-", "h">>, <<"-", "n">>, <<"-", "n", "1">>, <<"-", "n", "=", "x">>, <<"-", "h", "n">>,
   <<"-", "-", "help">>, <<"-", "-", "size">>, <<"-", "-", "size", "=">>,
   <<"-", "-", "size", "=", "1">>}

MCCommandLines == UNION {[1 .. n -> MCArgs] : n \in 0 .. MaxArgs}
=============================================================================
