------------------------------- MODULE CliOpt -------------------------------
(***************************************************************************)
(* The command-line parser of lib/krs/krs_cliopt.{h,c}: a pass over argv   *)
(* that sets each option of a table at most once, and the check for        *)
(* missing arguments after it.  One action is one turn of a loop.          *)
(*                                                                         *)
(* argv leaves out argv[0], so argv[i] is the C argv[i].  A char pointer   *)
(* into argv is [arg |-> i, off |-> o], the C &argv[i][o].                 *)
(***************************************************************************)
EXTENDS CliTable

CONSTANTS
  Options,       \* the table: a sequence of struct cliopt_meta
  Numerals,      \* the strings strtoll() reads to their end
  CommandLines   \* the argument vectors

\* What the debug checks of cliopt_parse_args require of the table.
ASSUME OptionsAssumption ==
  /\ Options \in Seq([name : Seq(STRING), short : STRING, ident : STRING,
                      kind : {"BOOL", "STRING", "INT"},
                      required : BOOLEAN, sufficient : BOOLEAN])
  /\ \A j \in DOMAIN Options :
       Options[j].short # NUL /\ Options[j].name # << >> => is_long_arg(Options[j])

\* The elements of argv are C strings: none has a NUL in it.
ASSUME CommandLinesAssumption == \A a \in CommandLines : a \in Seq(Seq(STRING \ {NUL}))

VARIABLES
  argv,
  i,                 \* the next element of argv
  positional_only,   \* a "--" was seen
  arg,               \* the rest of a cluster of short options
  used,              \* the options with `used` set
  output,            \* what each option's output pointer was given
  ok,
  pc                 \* "args", "cluster", "done" or "abort"

vars == <<argv, i, positional_only, arg, used, output, ok, pc>>

-----------------------------------------------------------------------------
opts == [j \in DOMAIN Options |-> Fixup(Options[j])]
Opts == DOMAIN Options

positionals        == {j \in Opts : is_positional_arg(opts[j])}
get_short(letter)  == {j \in Opts : opts[j].short = letter}
get_long(name)     == {j \in Opts : is_long_arg(opts[j]) /\ opts[j].name = name}

\* Seeded fault: the last free positional is taken, not the first.
LastPositional      == Max(positionals \ used)

get_next_positional == Min(positionals \ used)

\* Seeded fault: an option that was given before is accepted.
RefusesUnknown(matches) == matches = {}

\* The option that was looked up does not exist, or was given before.
Refused(matches) == matches = {} \/ Min(matches) \in used

-----------------------------------------------------------------------------
Ptr(a, o)  == [arg |-> a, off |-> o]
NoArg      == Ptr(0, 0)
Value(p)   == SubSeq(argv[p.arg], p.off + 1, Len(argv[p.arg]))   \* *p, as a C string

Unset == Ptr(-1, 0)      \* what the caller left in the output
True  == Ptr(-2, 0)

strtoll_ok(s) == s = << >> \/ s \in Numerals

\* parse_arg_value, and the step it goes on at.  A second value for an
\* option fails its assertion; the output is written even if it is no integer.
parse_arg_value(j, p, next) ==
  IF j \in used
  THEN pc' = "abort" /\ UNCHANGED <<used, output, ok>>
  ELSE /\ used' = used \cup {j}
       /\ output' = [output EXCEPT ![j] = IF opts[j].kind = "BOOL" THEN True ELSE p]
       /\ ok' = (opts[j].kind = "INT" => strtoll_ok(Value(p)))
       /\ pc' = next

Fail == ok' = FALSE /\ pc' = "args" /\ UNCHANGED <<used, output>>

\* Seeded fault: the value is not skipped, and is read again as an argument.
RereadValue(j, k) ==
  IF k <= Len(argv) THEN parse_arg_value(j, Ptr(k, 0), "args") /\ i' = k
                    ELSE Fail /\ i' = k

\* The value of option j is the next argument, argv[k].
separate_arg(j, k) ==
  IF k <= Len(argv) THEN parse_arg_value(j, Ptr(k, 0), "args") /\ i' = k + 1
                    ELSE Fail /\ i' = k

\* Seeded fault: the loop ends at the first option that is sufficient.
StopsAtSufficient ==
  pc = "args" /\ ok /\ i <= Len(argv) /\ ~\E j \in used : opts[j].sufficient

InLoop   == pc = "args" /\ ok /\ i <= Len(argv)
full_arg == argv[i]

\* Seeded fault: "--" does not end the options.
DashedAnywhere == full_arg # << >> /\ full_arg[1] = "-"

Dashed    == ~positional_only /\ full_arg # << >> /\ full_arg[1] = "-"
TwoDashes == Len(full_arg) > 1 /\ full_arg[2] = "-"

Positional ==
  /\ InLoop /\ ~Dashed
  /\ i' = i + 1
  /\ IF positionals \subseteq used
     THEN Fail
     ELSE parse_arg_value(get_next_positional, Ptr(i, 0), "args")
  /\ UNCHANGED <<argv, positional_only, arg>>

\* Seeded fault: the cluster's element is not stepped over.
StuckCluster ==
  /\ InLoop /\ Dashed /\ ~TwoDashes
  /\ arg' = Ptr(i, 1)
  /\ pc' = "cluster"
  /\ UNCHANGED <<argv, i, positional_only, used, output, ok>>

ShortCluster ==
  /\ InLoop /\ Dashed /\ ~TwoDashes
  /\ i' = i + 1
  /\ arg' = Ptr(i, 1)
  /\ pc' = "cluster"
  /\ UNCHANGED <<argv, positional_only, used, output, ok>>

\* One letter of a cluster.  An option that takes a value ends the cluster:
\* the value is the next argument, or what follows the letter or its '='.
ShortOption ==
  /\ pc = "cluster" /\ ok /\ Value(arg) # << >>
  /\ LET matches == get_short(Head(Value(arg)))
         j       == Min(matches)
         rest    == Ptr(arg.arg, arg.off + 1)
     IN  IF Refused(matches)
         THEN Fail /\ i' = i /\ arg' = NoArg
         ELSE IF ~expects_arg(opts[j])
         THEN parse_arg_value(j, rest, "cluster") /\ i' = i /\ arg' = rest
         ELSE /\ arg' = NoArg
              /\ IF Value(rest) # << >>
                 THEN /\ parse_arg_value(j, IF Head(Value(rest)) = "="
                                            THEN Ptr(rest.arg, rest.off + 1) ELSE rest,
                                         "args")
                      /\ i' = i
                 ELSE separate_arg(j, i)
  /\ UNCHANGED <<argv, positional_only>>

ClusterEnds ==
  /\ pc = "cluster" /\ Value(arg) = << >>
  /\ pc' = "args" /\ arg' = NoArg
  /\ UNCHANGED <<argv, i, positional_only, used, output, ok>>

PositionalSplit ==
  /\ InLoop /\ Dashed /\ full_arg = <<"-", "-">>
  /\ i' = i + 1
  /\ positional_only' = TRUE
  /\ UNCHANGED <<argv, arg, used, output, ok, pc>>

\* Seeded fault: the name ends at the last '='.
LastEquals(a) ==
  IF \E k \in 1 .. Len(a) : a[k] = "=" THEN Max({k \in 1 .. Len(a) : a[k] = "="}) - 1
                                       ELSE Len(a)

\* The length of the option name an argument begins with.
name_length(a) == Min({k \in 1 .. Len(a) : a[k] = "="} \cup {Len(a) + 1}) - 1

\* An '=' and what follows it is ignored after an option that takes no value.
LongOption ==
  /\ InLoop /\ Dashed /\ TwoDashes /\ full_arg # <<"-", "-">>
  /\ LET n       == name_length(full_arg)
         matches == get_long(SubSeq(full_arg, 1, n))
         j       == Min(matches)
     IN  IF Refused(matches)
         THEN Fail /\ i' = i + 1
         ELSE IF expects_arg(opts[j]) /\ n = Len(full_arg)
         THEN separate_arg(j, i + 1)
         ELSE parse_arg_value(j, Ptr(i, n + 1), "args") /\ i' = i + 1
  /\ UNCHANGED <<argv, positional_only, arg>>

\* The missing-argument check, once the loop is left.
Sufficient == \E j \in used : opts[j].sufficient

\* Seeded fault: the table is looked at as it was before the fixup.
MissingBeforeFixup == {j \in Opts : Options[j].required /\ j \notin used}

Missing    == {j \in Opts : opts[j].required /\ j \notin used}

Finish ==
  /\ pc = "args" /\ ~InLoop
  /\ ok' = (ok /\ (Sufficient \/ Missing = {}))
  /\ pc' = "done"
  /\ UNCHANGED <<argv, i, positional_only, arg, used, output>>

Returned == pc \in {"done", "abort"} /\ UNCHANGED vars

Init ==
  /\ argv \in CommandLines
  /\ i = 1
  /\ positional_only = FALSE
  /\ arg = NoArg
  /\ used = {}
  /\ output = [j \in Opts |-> Unset]
  /\ ok = TRUE
  /\ pc = "args"

Step     == Positional \/ ShortCluster \/ ShortOption \/ ClusterEnds
              \/ PositionalSplit \/ LongOption \/ Finish
Next     == Step \/ Returned
Spec     == Init /\ [][Next]_vars
FairSpec == Spec /\ WF_vars(Step)

-----------------------------------------------------------------------------
(* Properties.                                                             *)

Pointers == [arg : 1 .. Len(argv), off : Nat]

\* The type invariant: in particular every pointer is into its argument, up
\* to and including the terminator, and i never runs past the end of argv.
TypeOK ==
  /\ i \in 1 .. Len(argv) + 1
  /\ positional_only \in BOOLEAN /\ ok \in BOOLEAN
  /\ arg = NoArg \/ arg \in Pointers
  /\ used \subseteq Opts
  /\ DOMAIN output = Opts
  /\ \A j \in Opts : output[j] \in {Unset, True} \cup Pointers
  /\ \A p \in ({output[j] : j \in Opts} \cup {arg}) \cap Pointers : p.off <= Len(argv[p.arg])
  /\ pc \in {"args", "cluster", "done", "abort"}

(***************************************************************************)
(* parse_arg_value's assertion that the option is not used yet holds: each *)
(* of its callers, for positionals, letters and names, has seen to it.     *)
(***************************************************************************)
NeverSetTwice == pc # "abort"

(***************************************************************************)
(* An element of argv is at most one option's value: whichever of the six  *)
(* ways of writing a value is used, the element is not read again as an    *)
(* option, as a file name, or as the value of another option.              *)
(***************************************************************************)
NoElementReadTwice ==
  /\ \A j, k \in Opts : j # k /\ output[j] \in Pointers /\ output[k] \in Pointers
                        => output[j].arg # output[k].arg
  /\ \A j \in Opts : output[j] \in Pointers => output[j].arg < i

(***************************************************************************)
(* After "--" no argument sets an option that is not positional.           *)
(***************************************************************************)
SplitIsFinal ==
  [][positional_only => positional_only' /\ used' \ used \subseteq positionals]_vars

(***************************************************************************)
(* Positional outputs are filled in the order of the table, and with the   *)
(* arguments in the order of the command line.  (A flag can be positional, *)
(* too: it is set, but its output does not say by which argument.)         *)
(***************************************************************************)
PositionalsInOrder ==
  \A j, k \in positionals :
    j < k /\ k \in used =>
      /\ j \in used
      /\ expects_arg(opts[j]) /\ expects_arg(opts[k]) => output[j].arg < output[k].arg

(***************************************************************************)
(* The caller gets "ok" only for a command line read to its end, on which  *)
(* every required argument has a value, unless an option such as --help    *)
(* was given that makes up for them, and only if every integer option that *)
(* was given got an integer: its output is written before that is known.   *)
(***************************************************************************)
OkMeansComplete ==
  pc = "done" /\ ok =>
    /\ i = Len(argv) + 1
    /\ \A j \in used : opts[j].kind = "INT" => strtoll_ok(Value(output[j]))
    /\ \/ \E j \in Opts : opts[j].sufficient /\ output[j] # Unset
       \/ \A j \in Opts : opts[j].required => output[j] # Unset

\* The parser reads every command line to its end, or to its first mistake.
Terminates == <>(pc \in {"done", "abort"})

(***************************************************************************)
(* The comment on the missing-argument check (krs_cliopt.c:754-756): "Pass *)
(* if either condition is true: Any "sufficient" arg is used; Any          *)
(* "required" arg is not used".  The check does the opposite of the        *)
(* second: it fails when a required argument is not used.                  *)
(***************************************************************************)
CheckAsCommented ==
  pc = "done" /\ i = Len(argv) + 1 /\ Len(argv) = 0 => (ok <=> Sufficient \/ Missing # {})
=============================================================================
