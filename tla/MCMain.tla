------------------------------- MODULE MCMain -------------------------------
(***************************************************************************)
(* Model checking Main on fnmar's option table: on every command line of   *)
(* at most MaxArgs odd arguments, and on the command lines that say        *)
(* something.  For the latter `want` is what the user means, and the       *)
(* command line is one of the ways to write it.                            *)
(***************************************************************************)
EXTENDS SequencesExt, Main, ConfigGrammar

CONSTANTS MaxArgs, FileNames, ConfigNames, Nothing
VARIABLE want

-----------------------------------------------------------------------------
(* Command lines that may say anything.                                    *)

Letters == {<<c>> : c \in {"c", "v", "h", "x", "="}}
Names   == {<<c>> : c \in {"config", "verbose", "help", "x"}}
Upto2   == {<< >>} \cup Letters \cup {a \o b : a, b \in Letters}
Values  == {<< >>, <<"=">>, <<"=", "x">>}

\* The empty argument, a word, "-" with up to two letters, "--" and every
\* long option with and without a value.
MCArgs == {<< >>, <<"x">>, <<"-", "-">>}
            \cup {<<"-">> \o a : a \in Upto2}
            \cup {<<"-", "-">> \o a \o v : a \in Names, v \in Values}

Odd == UNION {[1 .. n -> MCArgs] : n \in 0 .. MaxArgs}

-----------------------------------------------------------------------------
(* Command lines that say something.                                       *)

MCFileNames   == {<< >>, <<"x">>, <<"-", "c">>, <<"-", "-">>}
MCConfigNames == {<< >>, <<"x">>, <<"=">>, <<"=", "x">>, <<"-", "v">>, <<"-", "-">>}

Wants == [file : FileNames, config : {{}} \cup {{v} : v \in ConfigNames}, verbose : BOOLEAN]

\* The ways to write a value v of an option: the letters up to it are `short`.
ShortStyles(short, v) ==
  {<<short, v>>, <<short \o <<"=">> \o v>>}
    \cup (IF v = << >> \/ Head(v) = "=" THEN {} ELSE {<<short \o v>>})
LongStyles(long, v) == {<<long, v>>, <<long \o <<"=">> \o v>>}

\* The sequences of groups of arguments that set the options as wanted.
Verbose(w) == IF w.verbose THEN {<< << <<"-", "v">> >> >>, << << <<"-", "-", "verbose">> >> >>}
                           ELSE {<< >>}
Config(w)  == {<<s>> : s \in UNION {ShortStyles(<<"-", "c">>, v)
                                     \cup LongStyles(<<"-", "-", "config">>, v) : v \in w.config}}
Fused(w)   == {<<s>> : s \in UNION {ShortStyles(<<"-", "v", "c">>, v) : v \in w.config}}
Groups(w) ==
  IF w.config = {} THEN Verbose(w)
  ELSE {a \o b : a \in Verbose(w), b \in Config(w)}
         \cup (IF w.verbose THEN Fused(w) ELSE {})

Orders(s) == {[k \in DOMAIN s |-> s[p[k]]] : p \in Permutations(DOMAIN s)}

Lines(w) ==
  {FlattenSeq(o) \o << <<"-", "-">>, w.file >> : o \in UNION {Orders(g) : g \in Groups(w)}}
    \cup (IF w.file # << >> /\ Head(w.file) = "-" THEN {}
          ELSE {FlattenSeq(o) : o \in UNION {Orders(Append(g, <<w.file>>)) : g \in Groups(w)}})

MCCommandLines == UNION ({Odd} \cup {Lines(w) : w \in Wants})

-----------------------------------------------------------------------------
(* The file system: no file, a pipe, or a rule in each file that names it, *)
(* with a malformed rule before it or after it.  Only the empty file name  *)
(* matches no pattern.                                                     *)

MCLogs   == {"unset", "critical", "error", "debug", "junk"}
MCStores == {"none", "pipe", "rule", "rule, bad", "bad, rule"}

Rule(name) == <<"m", ":">> \o name \o <<"%">>

MCStored(kind, name) ==
  CASE kind = "none"      -> NoFile
    [] kind = "pipe"      -> Pipe
    [] kind = "rule"      -> Rule(name)
    [] kind = "rule, bad" -> Rule(name) \o <<"\n", ";">>
    [] kind = "bad, rule" -> <<";", "\n">> \o Rule(name)

MCMatches(name) == IF name = << >> THEN {} ELSE {<<"m">>}

MCInit ==
  /\ \/ want = Nothing /\ argv \in Odd /\ LOG = "unset" /\ store = "rule"
     \/ want \in Wants /\ argv \in Lines(want)
  /\ MainInit
MCSpec == MCInit /\ [][MainNext /\ UNCHANGED want]_<<mainVars, want>>

-----------------------------------------------------------------------------
(***************************************************************************)
(* Whatever style and order the user writes the options in, evaluate() is  *)
(* called with the file name and configuration file that were meant, and   *)
(* logs everything if that was asked for, whatever LOG says.               *)
(***************************************************************************)
MeansWhatItSays ==
  want # Nothing /\ status \notin {"start", "args"} =>
    /\ call.filename # Unset /\ Value(call.filename) = want.file
    /\ IF want.config = {} THEN call.config = Unset
                           ELSE call.config # Unset /\ Value(call.config) \in want.config
    /\ log_level_printed = IF want.verbose THEN "DEBUG"
                           ELSE IF LOG \in DOMAIN Named THEN Named[LOG] ELSE "WARN"

Wanted == IF want.config = {} THEN DEFAULT_CONFIG_FILENAME ELSE CHOOSE v \in want.config : TRUE
Held   == Stored(store, Wanted)
Chosen == FirstRule(Held, MCMatches(want.file))

(***************************************************************************)
(* From the command line to the command: the process succeeds only if it   *)
(* ran the command of the first rule for the file that was meant, from the *)
(* configuration file that was meant or else the default one, and it says  *)
(* that there is no such file or no such rule only if there is none.       *)
(***************************************************************************)
Delivers ==
  want # Nothing /\ status \in Results =>
    /\ status = "ERR_FILESYSTEM" <=> Held = NoFile
    /\ status = "ERR_NO_MATCHES" => Chosen = Malformed
    /\ ran = IF status = "OK" THEN <<Expand(Chosen.cmd, want.file)>> ELSE << >>

(***************************************************************************)
(* The exit status is the same for a malformed file and for one with no    *)
(* rule for the name.  The log tells them apart: an error is logged for a  *)
(* malformed file, and for no other, if errors are logged at all.          *)
(***************************************************************************)
TellsApart ==
  want # Nothing /\ LOG \notin {"critical", "junk"} /\ status = "ERR_NO_MATCHES" =>
    ("ERROR" \in said <=> ~WellFormed(Held))
=============================================================================
