----------------------------- MODULE MainProofs -----------------------------
(***************************************************************************)
(* Proofs about main(), for every command line of C strings, every         *)
(* environment, file system and fnmatch().  Of the command line they use   *)
(* the invariant of the parser (CliOptProofs), for fnmar's own table.  The *)
(* first part needs no more of evaluate() than what it can change of its   *)
(* result; the second, what EvaluateProofs knows of a call, and shows what *)
(* the process runs, and what it says of the file, for the arguments that  *)
(* main() calls it with.                                                   *)
(***************************************************************************)
EXTENDS Main, CliOptProofs

\* The values of LOG that ask for less than warnings.
Quiet == LOG \in {"critical", "error"}

(***************************************************************************)
(* The inductive invariant.                                                *)
(***************************************************************************)
\* While the command line is read without a mistake, every argument so far is
\* accounted for, and the letters of a cluster that were read are flags.
ReadSoFar ==
  ok => /\ \A k \in 1 .. Fresh - 1 : Accounted(k)
        /\ pc = "cluster" =>
             /\ argv[arg.arg] # << >> /\ argv[arg.arg][1] = "-"
             /\ arg.off \in 1 .. Len(argv[arg.arg])
             /\ Flags(arg.arg, arg.off)

\* Nothing is opened or run before evaluate() is called, which happens only
\* once a correct command line was read and a file name found in it.
Calling ==
  /\ status \in {"start", "args", "evaluate"} \cup Final
  /\ status \in {"start", "args"} => load = "open" /\ ran = << >>
  /\ status = "evaluate" => Correct /\ call.filename \in Pointers

\* Fatal errors are always shown, and errors and warnings unless LOG forbids.
LevelOK ==
  /\ log_level_printed \in DOMAIN log_level
  /\ Quiet \/ "WARN" \in Shown(log_level_printed, DOMAIN log_level)

\* What has gone wrong so far has been logged, if the level allowed it.
Explained ==
  /\ err \in Results
  /\ err = "ERR_OUT_OF_MEMORY" => "FATAL" \in said
  /\ Quiet \/ (/\ ~ok => "ERROR" \in said
               /\ err = "ERR_NO_MATCHES" => "WARN" \in said)

MainIInv == IInv /\ ReadSoFar /\ Calling /\ LevelOK /\ Explained /\ MistakesComeFirst /\ NoSilentFailure

-----------------------------------------------------------------------------
(* The log.                                                                *)

LEMMA Levels ==
  /\ DOMAIN log_level = {"FATAL", "ERROR", "WARN", "INFO", "DEBUG"}
  /\ log_level["FATAL"] = 1 /\ log_level["ERROR"] = 2 /\ log_level["WARN"] = 3
  /\ log_level["INFO"] = 4 /\ log_level["DEBUG"] = 5
BY SMT DEF log_level

\* A fatal error is shown at every level, and what is more severe than a
\* warning is shown wherever warnings are.
LEMMA ShownAt ==
  ASSUME NEW level \in DOMAIN log_level, NEW severities
  PROVE  /\ "FATAL" \in severities => "FATAL" \in Shown(level, severities)
         /\ "WARN" \in Shown(level, DOMAIN log_level) =>
              /\ "ERROR" \in severities => "ERROR" \in Shown(level, severities)
              /\ "WARN" \in severities => "WARN" \in Shown(level, severities)
<1>1. log_level[level] \in 1 .. 5
  BY Levels, SMT
<1>2. log_level["FATAL"] <= log_level[level]
  BY <1>1, Levels, SMT
<1>3. log_level["WARN"] <= log_level[level] => log_level["ERROR"] <= log_level[level]
  BY <1>1, Levels, SMT
<1>. QED
  BY <1>2, <1>3, Zenon DEF Shown

\* The levels at which LOG may set the log, and the one it has by default.
LEMMA Settings ==
  /\ "WARN" \in Shown("WARN", DOMAIN log_level)
  /\ "WARN" \in Shown("DEBUG", DOMAIN log_level)
  /\ LOG \in DOMAIN Named =>
       /\ Named[LOG] \in DOMAIN log_level
       /\ Quiet \/ "WARN" \in Shown(Named[LOG], DOMAIN log_level)
<1>1. /\ 3 <= log_level["WARN"] /\ 3 <= log_level["INFO"] /\ 3 <= log_level["DEBUG"]
      /\ log_level["WARN"] = 3 /\ "WARN" \in DOMAIN log_level
  BY Levels, SMT
<1>2. LOG \in DOMAIN Named =>
        /\ Named[LOG] \in {"FATAL", "ERROR", "WARN", "INFO", "DEBUG"}
        /\ Quiet \/ Named[LOG] \in {"WARN", "INFO", "DEBUG"}
  BY SMT DEF Named, Quiet
<1>. QED
  BY <1>1, <1>2, Levels, Zenon DEF Shown

-----------------------------------------------------------------------------
(* The result of evaluate().                                               *)

\* A step of evaluate() leaves a result that evaluate() has.
LEMMA ResultOfStep ==
  ASSUME NEW name, Eval(name)!Step, err \in Results
  PROVE  err' \in Results
<1>1. CASE Eval(name)!Load
  <2>1. Eval(name)!Config!cstrbuf_init_from_file => err' = err \/ err' \in Results
    BY Zenon
       DEF Eval!Config!cstrbuf_init_from_file, Eval!Config!Open, Eval!Config!Size,
           Eval!Config!Alloc, Eval!Config!Read, Eval!Config!ReadEnds, Results
  <2>2. Eval(name)!Config!Edit => err' = err
    BY Zenon DEF Eval!Config!Edit
  <2>. QED
    BY <1>1, <2>1, <2>2, Zenon DEF Eval!Load
<1>2. CASE Eval(name)!NoMatches
  BY <1>2, Zenon DEF Eval!NoMatches, Results
<1>3. CASE Eval(name)!StartCommand
  BY <1>3, Zenon DEF Eval!StartCommand, Eval!Format!Call, Results
<1>4. CASE Eval(name)!FormatCommand
  BY <1>4, Zenon
     DEF Eval!FormatCommand, Eval!Format!format_and_run, Eval!Format!Piece,
         Eval!Format!InsertFilename, Eval!Format!Run, Eval!Format!Deinit,
         Eval!Format!Extend, Results
<1>5. CASE \/ Eval(name)!StartParser \/ Eval(name)!NextToken \/ Eval(name)!IntoCstr
           \/ Eval(name)!Fnmatch \/ Eval(name)!RevertIntoCstr \/ Eval(name)!SkipToken
           \/ Eval(name)!CommandReturns \/ Eval(name)!Deinit
  <2>1. err' = err
    BY <1>5, Zenon
       DEF Eval!StartParser, Eval!NextToken, Eval!IntoCstr, Eval!Fnmatch,
           Eval!RevertIntoCstr, Eval!SkipToken, Eval!CommandReturns, Eval!Deinit
  <2>. QED
    BY <2>1, Zenon
<1>. QED
  BY <1>1, <1>2, <1>3, <1>4, <1>5, Zenon DEF Eval!Step

-----------------------------------------------------------------------------
(* fnmar's option table.                                                   *)

LEMMA FnmarTable ==
  /\ Opts = {help, filename, config, verbose}
  /\ opts[help].kind = "BOOL" /\ opts[filename].kind = "STRING" /\ opts[config].kind = "STRING"
  /\ opts[filename].required
  /\ \A j \in Opts : opts[j].sufficient => j = help
  /\ \A j \in positionals : opts[j].kind # "BOOL"
<1>1. Opts = 1 .. 4 /\ Options = cli
  BY TableAssumption, SMT DEF TableAssumption, Opts, cli
<1>2. /\ Fixup(cli[1]).kind = "BOOL"
      /\ Fixup(cli[2]).kind = "STRING" /\ Fixup(cli[2]).required
      /\ Fixup(cli[3]).kind = "STRING"
      /\ Fixup(cli[2]).sufficient = FALSE /\ Fixup(cli[3]).sufficient = FALSE
      /\ Fixup(cli[4]).sufficient = FALSE
  BY SMT DEF cli, Cli, Fixup, NUL
<1>3. \A j \in Opts : opts[j] = Fixup(cli[j])
  BY <1>1, Zenon DEF opts, Opts
<1>4. Opts = {1, 2, 3, 4}
  BY <1>1, SMT
<1>5. ~is_positional_arg(Fixup(cli[1])) /\ ~is_positional_arg(Fixup(cli[4]))
  BY SMT DEF cli, Cli, Fixup, NUL, is_positional_arg
<1>6. \A j \in positionals : j \in {2, 3}
  BY <1>3, <1>4, <1>5, Zenon DEF positionals
<1>7. \A j \in positionals : opts[j].kind = "STRING"
  BY <1>2, <1>3, <1>4, <1>6, Zenon
<1>8. \A j \in positionals : opts[j].kind # "BOOL"
  BY <1>7, Zenon
<1>. QED
  BY <1>2, <1>3, <1>4, <1>8, Zenon DEF help, filename, config, verbose

\* A command line that is accepted and does not ask for help names a file.
LEMMA FileNamed ==
  ASSUME IInv, pc = "done", ok, output[help] # True
  PROVE  output[filename] \in Pointers
<1>1. OutputsOK /\ ReadToTheEnd
  BY Zenon DEF IInv
<1>2. OutputOf(help) /\ OutputOf(filename) /\ help \in Opts /\ filename \in Opts
  BY <1>1, FnmarTable, Zenon DEF OutputsOK
<1>3. output[help] = Unset
  BY <1>2, FnmarTable, Zenon DEF OutputOf
<1>4. \/ \E j \in Opts : opts[j].sufficient /\ output[j] # Unset
      \/ \A j \in Opts : opts[j].required => output[j] # Unset
  BY <1>1, Zenon DEF ReadToTheEnd
<1>5. output[filename] # Unset
  BY <1>2, <1>3, <1>4, FnmarTable, Zenon
<1>6. opts[filename].kind # "BOOL"
  BY FnmarTable, Zenon
<1>. QED
  BY <1>2, <1>5, <1>6, Zenon DEF OutputOf, InBounds

-----------------------------------------------------------------------------
(* What is accounted for.                                                  *)

\* The values that an output is given.
LEMMA NotUnset ==
  /\ True # Unset
  /\ \A k, n \in Int : 0 <= k => Ptr(k, n) # Unset
BY SMT DEF True, Unset, Ptr

\* What is accounted for stays so: an output that was set is not set again.
OutputsStay == \A j \in Opts : output[j] # Unset => output'[j] = output[j]

LEMMA FlagsStay ==
  ASSUME argv' = argv, OutputsStay, NEW k, NEW n, Flags(k, n)
  PROVE  Flags(k, n)'
<1>1. Opts' = Opts /\ \A letter : get_short(letter)' = get_short(letter)
  BY Zenon DEF Opts, get_short, opts
<1>2. \A letter : get_short(letter) \subseteq Opts
  BY Zenon DEF get_short
<1>3. ASSUME NEW m \in 2 .. n
      PROVE  \E j \in get_short(argv[k][m]) : output'[j] = True
  <2>1. PICK j \in get_short(argv[k][m]) : output[j] = True
    BY <1>3, Zenon DEF Flags
  <2>2. j \in Opts /\ output[j] # Unset
    BY <2>1, <1>2, NotUnset, Zenon
  <2>. QED
    BY <2>1, <2>2, Zenon DEF OutputsStay
<1>. QED
  BY <1>1, <1>3, Zenon DEF Flags, True, Ptr

LEMMA AccountedStays ==
  ASSUME argv' = argv, OutputsStay, argv \in Seq(Seq(Char)), NEW k \in 1 .. Len(argv), Accounted(k)
  PROVE  Accounted(k)'
<1>1. Opts' = Opts /\ (\A letter : get_short(letter)' = get_short(letter))
      /\ \A name : get_long(name)' = get_long(name)
  BY Zenon DEF Opts, get_short, get_long, opts
<1>2. (\A letter : get_short(letter) \subseteq Opts) /\ (\A name : get_long(name) \subseteq Opts)
  BY Zenon DEF get_short, get_long
<1>3. k \in Int /\ 0 <= k /\ k + 1 \in Int /\ 0 <= k + 1 /\ 0 \in Int
  BY SMT
<1>4. argv[k] \in Seq(Char) /\ Len(argv[k]) \in Int
  BY SMT
<1>5. CASE IsValue(k)
  <2>1. Ptr(k, 0) # Unset
    BY <1>3, NotUnset, Zenon
  <2>. QED
    BY <1>1, <1>5, <2>1, Zenon DEF IsValue, Accounted, OutputsStay, Ptr
<1>6. CASE IsSplit(k)
  BY <1>6, Zenon DEF IsSplit, Accounted
<1>7. CASE ByName(k)
  <2>. DEFINE n == name_length(argv[k])
              values == {True, IF n = Len(argv[k]) THEN Ptr(k + 1, 0) ELSE Ptr(k, n + 1)}
  <2>1. PICK j \in get_long(SubSeq(argv[k], 1, n)) : output[j] \in values
    BY <1>7, Zenon DEF ByName
  <2>2. n \in Int /\ n + 1 \in Int
    <3>1. n \in 0 .. Len(argv[k])
      BY <1>4, NameLength, Zenon
    <3>. QED
      BY <1>4, <3>1, SMT
  <2>3. \A x \in values : x # Unset
    BY <1>3, <2>2, NotUnset, Zenon
  <2>4. j \in Opts /\ output'[j] = output[j]
    BY <1>2, <2>1, <2>3, Zenon DEF OutputsStay
  <2>5. ByName(k)'
    BY <1>1, <2>1, <2>4, Zenon DEF ByName, True, Ptr, name_length, Min
  <2>. QED
    BY <2>5, Zenon DEF Accounted
<1>8. CASE ByLetters(k)
  <2>1. PICK n \in 1 .. Len(argv[k]) :
          /\ Flags(k, n)
          /\ \/ n = Len(argv[k])
             \/ \E j \in get_short(argv[k][n + 1]) :
                  output[j] \in {Ptr(k, n + 1), Ptr(k, n + 2), Ptr(k + 1, 0)}
    BY <1>8, Zenon DEF ByLetters
  <2>2. Flags(k, n)'
    BY <2>1, FlagsStay, Zenon
  <2>3. n + 1 \in Int /\ n + 2 \in Int
    BY <1>4, SMT
  <2>4. ASSUME NEW j \in get_short(argv[k][n + 1]),
               output[j] \in {Ptr(k, n + 1), Ptr(k, n + 2), Ptr(k + 1, 0)}
        PROVE  output'[j] = output[j]
    <3>1. output[j] # Unset
      BY <1>3, <2>3, <2>4, NotUnset, Zenon
    <3>. QED
      BY <1>2, <3>1, Zenon DEF OutputsStay
  <2>5. ByLetters(k)'
    BY <1>1, <1>8, <2>1, <2>2, <2>4, Zenon DEF ByLetters, Ptr
  <2>. QED
    BY <2>5, Zenon DEF Accounted
<1>. QED
  BY <1>5, <1>6, <1>7, <1>8, Zenon DEF Accounted

\* An option that was not used is set, and no other output changes.
LEMMA OnlySets ==
  ASSUME OutputsOK, NEW j \in Opts, j \notin used, NEW p, NEW next, parse_arg_value(j, p, next)
  PROVE  /\ OutputsStay /\ pc' = next
         /\ output'[j] = IF opts[j].kind = "BOOL" THEN True ELSE p
<1>1. /\ output' = [output EXCEPT ![j] = IF opts[j].kind = "BOOL" THEN True ELSE p]
      /\ pc' = next
  BY Zenon DEF parse_arg_value
<1>2. DOMAIN output = Opts /\ output[j] = Unset
  BY Zenon DEF OutputsOK, OutputOf
<1>. QED
  BY <1>1, <1>2, Zenon DEF OutputsStay

LEMMA BeforeOrSince ==
  ASSUME NEW m \in Nat, NEW n \in 1 .. m + 1, NEW f \in Int, NEW k \in 1 .. n - 1
  PROVE  k \in 1 .. m /\ (k \in 1 .. f - 1 \/ k \in f .. n - 1)
BY SMT

\* Back at the head of the loop, or at its end, what was read in this turn has
\* to be accounted for.
LEMMA TurnAccounted ==
  ASSUME IInv, ReadSoFar, ok, argv' = argv, OutputsStay, pc' # "cluster",
         i' \in 1 .. Len(argv) + 1, \A k \in Fresh .. i' - 1 : Accounted(k)'
  PROVE  ReadSoFar'
<1>1. ControlOK /\ argv \in Seq(Seq(Char)) /\ i \in 1 .. Len(argv) + 1 /\ Len(argv) \in Nat
  BY SMT DEF IInv, ControlOK
<1>2. Fresh \in Int /\ Fresh' = i'
  BY <1>1, SMT DEF Fresh
<1>3. ASSUME NEW k \in 1 .. i' - 1
      PROVE  Accounted(k)'
  <2>1. k \in 1 .. Len(argv) /\ (k \in 1 .. Fresh - 1 \/ k \in Fresh .. i' - 1)
    BY <1>1, <1>2, <1>3, BeforeOrSince, Zenon
  <2>2. k \in 1 .. Fresh - 1 => Accounted(k)'
    BY <1>1, <2>1, AccountedStays, Zenon DEF ReadSoFar
  <2>. QED
    BY <2>1, <2>2, Zenon
<1>. QED
  BY <1>2, <1>3, Zenon DEF ReadSoFar

\* What accounts for an argument: a value, and the option before it.
LEMMA ValueCounts ==
  ASSUME NEW k, NEW j \in Opts, output'[j] = Ptr(k, 0)
  PROVE  Accounted(k)'
BY Zenon DEF Accounted, IsValue, Opts, Ptr

LEMMA NameCounts ==
  ASSUME argv' = argv, NEW k,
         NEW n, n = name_length(argv[k]), NEW j \in get_long(SubSeq(argv[k], 1, n)),
         output'[j] \in {True, IF n = Len(argv[k]) THEN Ptr(k + 1, 0) ELSE Ptr(k, n + 1)}
  PROVE  Accounted(k)'
<1>1. \A name : get_long(name)' = get_long(name)
  BY Zenon DEF Opts, get_long, opts
<1>. QED
  BY <1>1, Zenon DEF Accounted, ByName, True, Ptr, name_length, Min

LEMMA LettersCount ==
  ASSUME argv' = argv, NEW k, NEW n \in 1 .. Len(argv[k]), argv[k] # << >>, argv[k][1] = "-",
         Flags(k, n)',
         \/ n = Len(argv[k])
         \/ \E j \in get_short(argv[k][n + 1]) :
              output'[j] \in {Ptr(k, n + 1), Ptr(k, n + 2), Ptr(k + 1, 0)}
  PROVE  Accounted(k)'
<1>1. \A letter : get_short(letter)' = get_short(letter)
  BY Zenon DEF Opts, get_short, opts
<1>. QED
  BY <1>1, Zenon DEF Accounted, ByLetters, Ptr

LEMMA PositionalRead ==
  ASSUME IInv, ReadSoFar, Positional
  PROVE  ReadSoFar'
<1>. SUFFICES ASSUME ok' PROVE ReadSoFar'
  BY Zenon DEF ReadSoFar
<1>1. /\ OutputsOK /\ ok /\ pc = "args" /\ Fresh = i /\ i \in 1 .. Len(argv)
      /\ i' = i + 1 /\ i' \in 1 .. Len(argv) + 1 /\ argv' = argv
  BY SMT DEF IInv, ControlOK, Positional, InLoop, Fresh
<1>. DEFINE j == get_next_positional
<1>2. /\ ~(positionals \subseteq used)
      /\ parse_arg_value(j, Ptr(i, 0), "args")
  BY Zenon DEF Positional, Fail
<1>3. j \in positionals /\ j \notin used /\ j \in Opts
  <2>1. positionals \ used \in SUBSET Nat /\ positionals \ used # {} /\ positionals \subseteq Opts
    BY <1>2, Table, Zenon DEF positionals
  <2>. QED
    BY <2>1, MinOfNaturals, Zenon DEF get_next_positional
<1>4. PICK o, e : o = j /\ e = i
  OBVIOUS
<1>. HIDE DEF j
<1>5. o \in Opts /\ OutputsStay /\ pc' = "args" /\ output'[o] = Ptr(e, 0)
  BY <1>1, <1>2, <1>3, <1>4, FnmarTable, OnlySets, Zenon
<1>6. \A k \in Fresh .. i' - 1 : k = e
  BY <1>1, <1>4, SMT
<1>7. Accounted(e)'
  BY <1>5, ValueCounts, Zenon
<1>. QED
  BY <1>1, <1>5, <1>6, <1>7, TurnAccounted, Zenon

\* The value of an option that is the next argument, argv[k].
LEMMA SeparateRead ==
  ASSUME OutputsOK, NEW j \in Opts, j \notin used, expects_arg(opts[j]),
         NEW k \in Nat, separate_arg(j, k), ok'
  PROVE  /\ k <= Len(argv) /\ i' = k + 1 /\ pc' = "args"
         /\ OutputsStay /\ output'[j] = Ptr(k, 0) /\ Accounted(k)'
<1>1. k <= Len(argv) /\ parse_arg_value(j, Ptr(k, 0), "args") /\ i' = k + 1
  BY Zenon DEF separate_arg, Fail
<1>2. opts[j].kind # "BOOL"
  BY Zenon DEF expects_arg
<1>3. OutputsStay /\ pc' = "args" /\ output'[j] = Ptr(k, 0)
  BY <1>1, <1>2, OnlySets, Zenon
<1>. QED
  BY <1>1, <1>3, ValueCounts, Zenon

\* An argument that begins a cluster.
LEMMA ClusterRead ==
  ASSUME IInv, ReadSoFar, ShortCluster
  PROVE  ReadSoFar'
<1>1. /\ argv \in Seq(Seq(Char)) /\ ok /\ pc = "args" /\ Fresh = i /\ i \in 1 .. Len(argv)
      /\ i' = i + 1 /\ arg' = Ptr(i, 1) /\ pc' = "cluster" /\ UNCHANGED <<argv, output>>
      /\ full_arg # << >> /\ full_arg[1] = "-"
  BY SMT DEF IInv, ControlOK, ShortCluster, InLoop, Dashed, Fresh
<1>2. argv[i] \in Seq(Char) /\ argv[i] # << >> /\ argv[i][1] = "-"
  BY <1>1, SMT DEF full_arg
<1>3. Fresh' = i /\ arg'.arg = i /\ arg'.off = 1
  BY <1>1, SMT DEF Fresh, Ptr
<1>4. 1 \in 1 .. Len(argv[i]) /\ 2 .. 1 = {}
  BY <1>2, SMT
<1>5. \A k \in 1 .. Fresh - 1 : k \in 1 .. Len(argv)
  BY <1>1, SMT
<1>6. OutputsStay
  BY <1>1, Zenon DEF OutputsStay
<1>7. \A k \in 1 .. Fresh' - 1 : Accounted(k)'
  BY <1>1, <1>3, <1>5, <1>6, AccountedStays, Zenon DEF ReadSoFar
<1>8. Flags(arg.arg, arg.off)'
  BY <1>3, <1>4, Zenon DEF Flags
<1>. QED
  BY <1>1, <1>2, <1>3, <1>4, <1>7, <1>8, Zenon DEF ReadSoFar

\* The end of a cluster of flags.
LEMMA ClusterEndRead ==
  ASSUME IInv, ReadSoFar, ClusterEnds
  PROVE  ReadSoFar'
<1>1. /\ ok /\ pc = "cluster" /\ InBounds(arg) /\ arg.arg = i - 1 /\ argv \in Seq(Seq(Char))
      /\ Value(arg) = << >> /\ pc' = "args" /\ UNCHANGED <<argv, i, output>>
      /\ i \in 1 .. Len(argv) + 1
  BY Zenon DEF IInv, ControlOK, ClusterEnds
<1>2. PICK e, n : e = arg.arg /\ n = arg.off
  OBVIOUS
<1>3. n = Len(argv[e])
  BY <1>1, <1>2, ValueIs, Zenon
<1>4. /\ argv[e] # << >> /\ argv[e][1] = "-" /\ n \in 1 .. Len(argv[e]) /\ Flags(e, n)
  BY <1>1, <1>2, Zenon DEF ReadSoFar
<1>5. OutputsStay
  BY <1>1, Zenon DEF OutputsStay
<1>6. Accounted(e)'
  BY <1>1, <1>3, <1>4, <1>5, FlagsStay, LettersCount, Zenon
<1>7. i' \in 1 .. Len(argv) + 1 /\ \A k \in Fresh .. i' - 1 : k = e
  BY <1>1, <1>2, SMT DEF Fresh
<1>. QED
  BY <1>1, <1>5, <1>6, <1>7, TurnAccounted, Zenon

\* A letter of a cluster: a flag, or an option with a value in one of three places.
LEMMA LetterRead ==
  ASSUME IInv, ReadSoFar, ShortOption
  PROVE  ReadSoFar'
<1>. SUFFICES ASSUME ok' PROVE ReadSoFar'
  BY Zenon DEF ReadSoFar
<1>1. /\ OutputsOK /\ ok /\ pc = "cluster" /\ InBounds(arg) /\ arg.arg = i - 1
      /\ argv \in Seq(Seq(Char)) /\ i \in 1 .. Len(argv) + 1 /\ Value(arg) # << >>
      /\ argv' = argv /\ Fresh = i - 1
  BY Zenon DEF IInv, ControlOK, ShortOption, Fresh
<1>2. PICK e, n : e = arg.arg /\ n = arg.off
  OBVIOUS
<1>3. /\ argv[e] # << >> /\ argv[e][1] = "-" /\ n \in 1 .. Len(argv[e]) /\ Flags(e, n)
      /\ \A k \in 1 .. Fresh - 1 : Accounted(k)
  BY <1>1, <1>2, Zenon DEF ReadSoFar
<1>4. /\ e = i - 1 /\ e \in 1 .. Len(argv) /\ argv[e] \in Seq(Char) /\ Len(argv[e]) \in Nat
      /\ n # Len(argv[e]) /\ i = e + 1
  <2>1. e \in 1 .. Len(argv) /\ e = i - 1 /\ i = e + 1
    BY <1>1, <1>2, SMT DEF InBounds, Pointers
  <2>2. n # Len(argv[e])
    BY <1>1, <1>2, ValueIs, Zenon
  <2>. QED
    BY <1>1, <2>1, <2>2, SMT
<1>5. /\ n \in Nat /\ n + 1 \in 1 .. Len(argv[e]) /\ n < Len(argv[e])
      /\ (n + 1) + 1 = n + 2
  BY <1>3, <1>4, SMT
<1>. DEFINE letter  == Head(Value(arg))
            matches == get_short(letter)
            rest    == Ptr(arg.arg, arg.off + 1)
<1>6. letter = argv[e][n + 1]
  <2>1. Value(arg) = SubSeq(argv[e], n + 1, Len(argv[e]))
    BY <1>2, Zenon DEF Value
  <2>. QED
    BY <1>4, <1>5, <2>1, SMT
<1>7. ~Refused(matches)
  BY Zenon DEF ShortOption, Fail
<1>8. PICK j : j = Min(matches)
  OBVIOUS
<1>9. j \in get_short(argv[e][n + 1]) /\ j \notin used /\ j \in Opts
  <2>1. matches \in SUBSET Opts
    BY Zenon DEF get_short
  <2>. QED
    BY <1>6, <1>7, <1>8, <2>1, NotRefused, Zenon
<1>10. rest = Ptr(e, n + 1) /\ rest.arg = e /\ rest.off = n + 1
  BY <1>2, SMT DEF Ptr
<1>11. CASE ~expects_arg(opts[j])
  <2>1. parse_arg_value(j, rest, "cluster") /\ i' = i /\ arg' = rest
    BY <1>7, <1>8, <1>11, Zenon DEF ShortOption
  <2>2. opts[j].kind = "BOOL"
    BY <1>9, <1>11, Table, Zenon DEF expects_arg
  <2>. HIDE DEF rest
  <2>3. OutputsStay /\ pc' = "cluster" /\ output'[j] = True
    BY <1>1, <1>9, <2>1, <2>2, OnlySets, Zenon
  <2>4. Flags(e, n)'
    BY <1>1, <1>3, <2>3, FlagsStay, Zenon
  <2>5. Flags(e, n + 1)'
    <3>1. \A letr : get_short(letr)' = get_short(letr)
      BY Zenon DEF Opts, get_short, opts
    <3>2. \A m \in 2 .. n + 1 : m \in 2 .. n \/ m = n + 1
      BY <1>5, SMT
    <3>. QED
      BY <1>1, <1>9, <2>3, <2>4, <3>1, <3>2, Zenon DEF Flags, True, Ptr
  <2>6. Fresh' = Fresh /\ arg'.arg = e /\ arg'.off = n + 1
    BY <1>1, <1>10, <2>1, <2>3, Zenon DEF Fresh
  <2>7. \A k \in 1 .. Fresh - 1 : k \in 1 .. Len(argv)
    BY <1>1, SMT
  <2>8. \A k \in 1 .. Fresh - 1 : Accounted(k)'
    BY <1>1, <1>3, <2>3, <2>7, AccountedStays, Zenon
  <2>9. Flags(arg.arg, arg.off)'
    BY <2>5, <2>6, Zenon DEF Flags
  <2>. QED
    BY <1>1, <1>3, <1>5, <2>6, <2>8, <2>9, Zenon DEF ReadSoFar
<1>12. CASE expects_arg(opts[j]) /\ Value(rest) # << >>
  <2>. DEFINE p == IF Head(Value(rest)) = "=" THEN Ptr(rest.arg, rest.off + 1) ELSE rest
  <2>1. parse_arg_value(j, p, "args") /\ i' = i
    BY <1>7, <1>8, <1>12, Zenon DEF ShortOption
  <2>2. p \in {Ptr(e, n + 1), Ptr(e, n + 2)}
    BY <1>5, <1>10, Zenon
  <2>3. opts[j].kind # "BOOL"
    BY <1>12, Zenon DEF expects_arg
  <2>. HIDE DEF p
  <2>4. OutputsStay /\ pc' = "args" /\ output'[j] = p
    BY <1>1, <1>9, <2>1, <2>3, OnlySets, Zenon
  <2>5. Accounted(e)'
    BY <1>1, <1>3, <1>9, <2>2, <2>4, FlagsStay, LettersCount, Zenon
  <2>6. i' \in 1 .. Len(argv) + 1 /\ \A k \in Fresh .. i' - 1 : k = e
    BY <1>1, <1>4, <2>1, SMT
  <2>. QED
    BY <1>1, <2>4, <2>5, <2>6, TurnAccounted, Zenon
<1>13. CASE expects_arg(opts[j]) /\ ~(Value(rest) # << >>)
  <2>1. separate_arg(j, e + 1)
    BY <1>4, <1>7, <1>8, <1>13, Zenon DEF ShortOption
  <2>2. e + 1 \in Nat
    BY <1>4, SMT
  <2>3. /\ e + 1 <= Len(argv) /\ i' = (e + 1) + 1 /\ pc' = "args"
        /\ OutputsStay /\ output'[j] = Ptr(e + 1, 0) /\ Accounted(e + 1)'
    BY <1>1, <1>9, <1>13, <2>1, <2>2, SeparateRead, Zenon
  <2>4. Accounted(e)'
    BY <1>1, <1>3, <1>9, <2>3, FlagsStay, LettersCount, Zenon
  <2>5. i' \in 1 .. Len(argv) + 1 /\ \A k \in Fresh .. i' - 1 : k = e \/ k = e + 1
    BY <1>1, <1>4, <2>3, SMT
  <2>. QED
    BY <1>1, <2>3, <2>4, <2>5, TurnAccounted, Zenon
<1>. QED
  BY <1>11, <1>12, <1>13

\* "--".
LEMMA SplitRead ==
  ASSUME IInv, ReadSoFar, PositionalSplit
  PROVE  ReadSoFar'
<1>1. /\ ok /\ pc = "args" /\ Fresh = i /\ i \in 1 .. Len(argv) /\ i' = i + 1
      /\ i' \in 1 .. Len(argv) + 1 /\ pc' = pc /\ UNCHANGED <<argv, output>>
      /\ argv[i] = <<"-", "-">>
  BY SMT DEF IInv, ControlOK, PositionalSplit, InLoop, Fresh, full_arg
<1>2. PICK e : e = i
  OBVIOUS
<1>3. Accounted(e)'
  BY <1>1, <1>2, Zenon DEF Accounted, IsSplit
<1>4. OutputsStay /\ \A k \in Fresh .. i' - 1 : k = e
  BY <1>1, <1>2, SMT DEF OutputsStay
<1>. QED
  BY <1>1, <1>3, <1>4, TurnAccounted, Zenon

\* An option by its name.
LEMMA NameRead ==
  ASSUME IInv, ReadSoFar, LongOption
  PROVE  ReadSoFar'
<1>. SUFFICES ASSUME ok' PROVE ReadSoFar'
  BY Zenon DEF ReadSoFar
<1>1. /\ OutputsOK /\ ok /\ pc = "args" /\ Fresh = i /\ i \in 1 .. Len(argv)
      /\ argv \in Seq(Seq(Char)) /\ argv' = argv /\ full_arg = argv[i]
  BY SMT DEF IInv, ControlOK, LongOption, InLoop, Fresh, full_arg
<1>. DEFINE matches == get_long(SubSeq(full_arg, 1, name_length(full_arg)))
<1>2. ~Refused(matches)
  BY Zenon DEF LongOption, Fail
<1>3. PICK e, n, j : e = i /\ n = name_length(full_arg) /\ j = Min(matches)
  OBVIOUS
<1>4. j \in get_long(SubSeq(argv[e], 1, n)) /\ j \notin used /\ j \in Opts
      /\ n = name_length(argv[e])
  <2>1. matches \in SUBSET Opts
    BY Zenon DEF get_long
  <2>. QED
    BY <1>1, <1>2, <1>3, <2>1, NotRefused, Zenon
<1>5. e + 1 \in Nat /\ e \in 1 .. Len(argv) /\ Len(argv) \in Nat
  BY <1>1, <1>3, SMT
<1>6. CASE expects_arg(opts[j]) /\ n = Len(argv[e])
  <2>1. separate_arg(j, e + 1)
    BY <1>1, <1>2, <1>3, <1>6, Zenon DEF LongOption
  <2>2. /\ e + 1 <= Len(argv) /\ i' = (e + 1) + 1 /\ pc' = "args"
        /\ OutputsStay /\ output'[j] = Ptr(e + 1, 0) /\ Accounted(e + 1)'
    BY <1>1, <1>4, <1>5, <1>6, <2>1, SeparateRead, Zenon
  <2>3. Accounted(e)'
    BY <1>1, <1>4, <1>6, <2>2, NameCounts, Zenon
  <2>4. i' \in 1 .. Len(argv) + 1 /\ \A k \in Fresh .. i' - 1 : k = e \/ k = e + 1
    BY <1>1, <1>3, <1>5, <2>2, SMT
  <2>. QED
    BY <1>1, <2>2, <2>3, <2>4, TurnAccounted, Zenon
<1>7. CASE ~(expects_arg(opts[j]) /\ n = Len(argv[e]))
  <2>1. parse_arg_value(j, Ptr(e, n + 1), "args") /\ i' = i + 1
    BY <1>1, <1>2, <1>3, <1>7, Zenon DEF LongOption
  <2>2. OutputsStay /\ pc' = "args"
        /\ output'[j] = IF opts[j].kind = "BOOL" THEN True ELSE Ptr(e, n + 1)
    BY <1>1, <1>4, <2>1, OnlySets, Zenon
  <2>3. opts[j].kind # "BOOL" => n # Len(argv[e])
    BY <1>4, <1>7, Table, Zenon DEF expects_arg
  <2>4. Accounted(e)'
    BY <1>1, <1>4, <2>2, <2>3, NameCounts, Zenon
  <2>5. i' \in 1 .. Len(argv) + 1 /\ \A k \in Fresh .. i' - 1 : k = e
    BY <1>1, <1>3, <2>1, SMT
  <2>. QED
    BY <1>1, <2>2, <2>4, <2>5, TurnAccounted, Zenon
<1>. QED
  BY <1>6, <1>7

\* The end of the loop.
LEMMA EndRead ==
  ASSUME IInv, ReadSoFar, Finish
  PROVE  ReadSoFar'
<1>. SUFFICES ASSUME ok' PROVE ReadSoFar'
  BY Zenon DEF ReadSoFar
<1>1. /\ ok /\ pc = "args" /\ i' = i /\ i \in 1 .. Len(argv) + 1 /\ Len(argv) \in Nat
      /\ pc' = "done" /\ UNCHANGED <<argv, output>> /\ Fresh = i
  BY SMT DEF IInv, ControlOK, Finish, Fresh
<1>2. OutputsStay /\ i' \in 1 .. Len(argv) + 1 /\ \A k \in Fresh .. i' - 1 : FALSE
  BY <1>1, SMT DEF OutputsStay
<1>. QED
  BY <1>1, <1>2, TurnAccounted, Zenon

LEMMA StepRead == IInv /\ ReadSoFar /\ Step => ReadSoFar'
BY PositionalRead, ClusterRead, LetterRead, ClusterEndRead, SplitRead, NameRead, EndRead, Zenon
   DEF Step

\* What is accounted for stays so as long as the parser does nothing.
LEMMA ReadingStays ==
  ASSUME IInv, UNCHANGED vars
  PROVE  (ReadSoFar => ReadSoFar') /\ (Correct => Correct')
<1>1. /\ UNCHANGED <<argv, i, positional_only, arg, used, output, ok, pc>>
      /\ argv \in Seq(Seq(Char)) /\ OutputsStay
  BY Zenon DEF vars, IInv, ControlOK, OutputsStay
<1>2. \A k \in 1 .. Len(argv) : Accounted(k) => Accounted(k)'
  BY <1>1, AccountedStays, Zenon
<1>3. ReadSoFar => ReadSoFar'
  <2>1. \A k \in 1 .. Fresh - 1 : k \in 1 .. Len(argv)
    BY SMT DEF IInv, ControlOK, Fresh
  <2>2. \A k, n : Flags(k, n) => Flags(k, n)'
    BY <1>1, FlagsStay, Zenon
  <2>3. Fresh' = Fresh /\ arg' = arg
    BY <1>1, Zenon DEF Fresh
  <2>4. Flags(arg.arg, arg.off) => Flags(arg.arg, arg.off)'
    <3>1. PICK e, n : e = arg.arg /\ n = arg.off
      OBVIOUS
    <3>2. Flags(e, n) => Flags(e, n)'
      BY <2>2, Zenon
    <3>. QED
      BY <2>3, <3>1, <3>2, Zenon DEF Flags
  <2>. QED
    BY <1>1, <1>2, <2>1, <2>3, <2>4, Zenon DEF ReadSoFar
<1>4. Correct => Correct'
  BY <1>1, <1>2, Zenon DEF Correct, True, Unset, Ptr, help, filename
<1>. QED
  BY <1>3, <1>4

\* A command line that is accepted is correct.
LEMMA AcceptedIsCorrect ==
  ASSUME IInv, ReadSoFar, pc = "done", ok
  PROVE  Correct
<1>1. OutputsOK /\ i = Len(argv) + 1 /\ Fresh = i
  BY Zenon DEF IInv, ReadToTheEnd, Fresh
<1>2. Fresh - 1 = Len(argv)
  <2>1. Len(argv) \in Nat
    BY SMT DEF IInv, ControlOK
  <2>. QED
    BY <1>1, <2>1, SMT
<1>3. output[help] = True \/ output[help] = Unset
  BY <1>1, FnmarTable, Zenon DEF OutputsOK, OutputOf
<1>4. output[help] # Unset \/ output[filename] # Unset
  BY FnmarTable, Zenon DEF IInv, ReadToTheEnd
<1>. QED
  BY <1>2, <1>3, <1>4, Zenon DEF Correct, ReadSoFar

-----------------------------------------------------------------------------
(* Every step keeps the invariant.                                         *)

LEMMA MainStarts == MainInit => MainIInv
<1>. SUFFICES ASSUME MainInit PROVE MainIInv
  OBVIOUS
<1>1. Init /\ ok /\ status = "start" /\ log_level_printed = "WARN" /\ said = {}
  BY Zenon DEF MainInit, Init
<1>2. load = "open" /\ ran = << >> /\ err = "OK"
  BY Zenon DEF MainInit, Eval!Init, Eval!Config!Init
<1>3. IInv
  BY <1>1, InitInvariant, Zenon
<1>4. LevelOK
  BY <1>1, Settings, Levels, Zenon DEF LevelOK
<1>5. Calling /\ MistakesComeFirst /\ NoSilentFailure
  BY <1>1, <1>2, Zenon DEF Calling, MistakesComeFirst, NoSilentFailure, Results
<1>6. Explained
  BY <1>1, <1>2, Zenon DEF Explained, Results
<1>7. ReadSoFar
  <2>1. pc = "args" /\ Fresh = 1 /\ \A k \in 1 .. Fresh - 1 : FALSE
    BY <1>1, SMT DEF Init, Fresh
  <2>. QED
    BY <2>1, Zenon DEF ReadSoFar
<1>. QED
  BY <1>3, <1>4, <1>5, <1>6, <1>7, Zenon DEF MainIInv

\* The command line's own invariant is kept by every step of main().
LEMMA CommandLineKept ==
  ASSUME IInv, ReadSoFar, UNCHANGED vars
  PROVE  /\ IInv' /\ ReadSoFar' /\ (Correct => Correct')
         /\ Pointers' = Pointers /\ UNCHANGED <<argv, i, ok, output, pc>>
BY StutterInvariant, ReadingStays, SamePointers, Zenon DEF vars

LEMMA LogSetupStep == MainIInv /\ log_setup_from_env => MainIInv'
<1>. SUFFICES ASSUME MainIInv, log_setup_from_env PROVE MainIInv'
  OBVIOUS
<1>1. /\ status = "start" /\ status' = "args" /\ UNCHANGED vars
      /\ UNCHANGED <<LOG, load, ran, err, call>>
  BY Zenon DEF log_setup_from_env, environment, evalVars
<1>2. IInv' /\ ReadSoFar' /\ (Correct => Correct') /\ Pointers' = Pointers /\ ok' = ok
  BY <1>1, CommandLineKept, Zenon DEF MainIInv
<1>3. LevelOK'
  <2>1. /\ \/ LOG \in DOMAIN Named /\ log_level_printed' = Named[LOG]
           \/ log_level_printed' = log_level_printed
        /\ LevelOK /\ (Quiet' <=> Quiet)
    BY <1>1, Zenon DEF log_setup_from_env, MainIInv, Quiet
  <2>2. LOG \in DOMAIN Named => /\ Named[LOG] \in DOMAIN log_level
                                /\ Quiet \/ "WARN" \in Shown(Named[LOG], DOMAIN log_level)
    BY Settings, Zenon
  <2>. QED
    BY <2>1, <2>2, Zenon DEF LevelOK, Shown, log_level
<1>4. said \subseteq said'
  BY Zenon DEF log_setup_from_env, klog
<1>5. Explained'
  BY <1>1, <1>2, <1>4, Zenon DEF MainIInv, Explained, Quiet, Results
<1>6. Calling' /\ MistakesComeFirst' /\ NoSilentFailure'
  BY <1>1, Zenon DEF MainIInv, Calling, MistakesComeFirst, NoSilentFailure, Results
<1>. QED
  BY <1>2, <1>3, <1>5, <1>6, Zenon DEF MainIInv

\* A mistake in the command line is logged by the step that finds it.
LEMMA CommandLineStep == MainIInv /\ cli_from_args => MainIInv'
<1>. SUFFICES ASSUME MainIInv, cli_from_args PROVE MainIInv'
  OBVIOUS
<1>1. /\ status = "args" /\ status' = "args" /\ Step
      /\ UNCHANGED <<LOG, log_level_printed, load, ran, err>>
  BY Zenon DEF cli_from_args, environment, evalVars
<1>2. IInv' /\ ReadSoFar'
  BY <1>1, Inductive, StepRead, Zenon DEF MainIInv, Next
<1>3. LevelOK /\ Explained
  BY Zenon DEF MainIInv
<1>. DEFINE new == IF ok /\ ~ok' THEN {"ERROR"} ELSE {}
<1>4. said' = said \cup Shown(log_level_printed, new)
  BY Zenon DEF cli_from_args, klog
<1>5. ok /\ ~ok' => Quiet \/ "ERROR" \in said'
  BY <1>3, <1>4, ShownAt, Zenon DEF LevelOK
<1>6. Explained'
  BY <1>1, <1>3, <1>4, <1>5, Zenon DEF Explained, Quiet, Results
<1>7. LevelOK'
  BY <1>1, <1>3, Zenon DEF LevelOK, Quiet, Shown, log_level
<1>8. Calling' /\ MistakesComeFirst' /\ NoSilentFailure'
  BY <1>1, Zenon DEF MainIInv, Calling, MistakesComeFirst, NoSilentFailure, Results
<1>. QED
  BY <1>2, <1>6, <1>7, <1>8, Zenon DEF MainIInv

\* The process ends with a result that has been explained, and shows the help
\* or ends evaluate() only after a whole command line.
LEMMA ExitStep ==
  ASSUME MainIInv, ArgsError \/ PrintHelp \/ MainReturns \/ MainAborts
  PROVE  MainIInv'
<1>1. /\ UNCHANGED vars /\ UNCHANGED <<LOG, log_level_printed, said, call, load, ran, err>>
      /\ status' \in Final
      /\ \/ status = "args" /\ pc = "done" /\ ~ok /\ status' \in {"ERR_ARGS", "abort"}
         \/ status = "args" /\ pc = "done" /\ ok /\ status' \in {"exit(0)", "abort"}
         \/ status = "evaluate" /\ (status' = err \/ status' = "abort")
  BY Zenon
     DEF ArgsError, PrintHelp, MainReturns, MainAborts, Exits, Parsed, environment, evalVars,
         MainIInv, Explained, Final
<1>2. IInv' /\ ReadSoFar' /\ (Correct => Correct') /\ Pointers' = Pointers /\ ok' = ok
  BY <1>1, CommandLineKept, Zenon DEF MainIInv
<1>3. IInv /\ ReadSoFar /\ Calling /\ LevelOK /\ Explained /\ MistakesComeFirst
  BY Zenon DEF MainIInv
<1>4. LevelOK' /\ Explained'
  BY <1>1, <1>2, <1>3, Zenon DEF LevelOK, Explained, Quiet, Shown, log_level, Results
<1>5. Calling'
  BY <1>1, Zenon DEF Calling, Final, Results
<1>6. status = "args" /\ pc = "done" /\ ok => Correct
  BY <1>3, AcceptedIsCorrect, Zenon
<1>7. MistakesComeFirst'
  BY <1>1, <1>2, <1>3, <1>6, Zenon DEF Calling, MistakesComeFirst, Results
<1>8. NoSilentFailure'
  BY <1>1, <1>3, Zenon DEF Explained, NoSilentFailure, Quiet, Results
<1>. QED
  BY <1>2, <1>3, <1>4, <1>5, <1>7, <1>8, Zenon DEF MainIInv

\* evaluate() is called with the file name of a whole command line.
LEMMA EvaluateStep == MainIInv /\ evaluate => MainIInv'
<1>. SUFFICES ASSUME MainIInv, evaluate PROVE MainIInv'
  OBVIOUS
<1>1. /\ status = "args" /\ status' = "evaluate" /\ pc = "done" /\ ok /\ output[help] # True
      /\ call'.filename = output[filename]
      /\ log_level_printed' \in {"DEBUG", log_level_printed}
      /\ UNCHANGED vars /\ UNCHANGED <<LOG, said, load, ran, err>>
  BY Zenon DEF evaluate, Parsed, environment
<1>2. IInv' /\ ReadSoFar' /\ (Correct => Correct') /\ Pointers' = Pointers /\ ok' = ok
  BY <1>1, CommandLineKept, Zenon DEF MainIInv
<1>3. IInv /\ ReadSoFar /\ Calling /\ LevelOK /\ Explained
  BY Zenon DEF MainIInv
<1>4. Correct /\ output[filename] \in Pointers
  BY <1>1, <1>3, FileNamed, AcceptedIsCorrect, Zenon
<1>5. Calling'
  BY <1>1, <1>2, <1>4, Zenon DEF Calling
<1>6. LevelOK'
  BY <1>1, <1>3, Settings, Levels, Zenon DEF LevelOK, Quiet, Shown, log_level
<1>7. Explained'
  BY <1>1, <1>2, <1>3, Zenon DEF Explained, Quiet, Results
<1>8. MistakesComeFirst' /\ NoSilentFailure'
  BY <1>1, <1>2, <1>4, Zenon DEF MistakesComeFirst, NoSilentFailure
<1>. QED
  BY <1>2, <1>5, <1>6, <1>7, <1>8, Zenon DEF MainIInv

\* A step of evaluate() that fails logs why.
LEMMA RunStep == MainIInv /\ RunEvaluate => MainIInv'
<1>. SUFFICES ASSUME MainIInv, RunEvaluate PROVE MainIInv'
  OBVIOUS
<1>1. /\ status = "evaluate" /\ status' = "evaluate"
      /\ UNCHANGED vars /\ UNCHANGED <<LOG, log_level_printed, call>>
      /\ \E name : Eval(name)!Step
  BY Zenon DEF RunEvaluate, environment
<1>2. PICK failed : said' = said \cup Shown(log_level_printed, EvaluateLogs \cup failed)
  BY Zenon DEF RunEvaluate, klog
<1>3. IInv' /\ ReadSoFar' /\ (Correct => Correct') /\ Pointers' = Pointers /\ ok' = ok
  BY <1>1, CommandLineKept, Zenon DEF MainIInv
<1>4. Calling /\ LevelOK /\ Explained
  BY Zenon DEF MainIInv
<1>5. err' \in Results
  BY <1>1, <1>4, ResultOfStep, Zenon DEF Explained
<1>. DEFINE new == EvaluateLogs \cup failed
<1>6. /\ err' = "ERR_OUT_OF_MEMORY" => "FATAL" \in new
      /\ err' = "ERR_NO_MATCHES" => "WARN" \in new
  BY Zenon DEF EvaluateLogs
<1>. HIDE DEF new
<1>7. /\ err' = "ERR_OUT_OF_MEMORY" => "FATAL" \in said'
      /\ Quiet \/ (err' = "ERR_NO_MATCHES" => "WARN" \in said')
  BY <1>2, <1>4, <1>6, ShownAt, Zenon DEF LevelOK, new
<1>8. Explained'
  BY <1>1, <1>2, <1>3, <1>4, <1>5, <1>7, Zenon DEF Explained, Quiet, Results
<1>9. LevelOK'
  BY <1>1, <1>4, Zenon DEF LevelOK, Quiet, Shown, log_level
<1>10. Calling' /\ MistakesComeFirst' /\ NoSilentFailure'
  BY <1>1, <1>3, <1>4, Zenon DEF Calling, MistakesComeFirst, NoSilentFailure
<1>. QED
  BY <1>3, <1>8, <1>9, <1>10, Zenon DEF MainIInv

LEMMA MainStutters == MainIInv /\ UNCHANGED mainVars => MainIInv'
<1>. SUFFICES ASSUME MainIInv, UNCHANGED mainVars PROVE MainIInv'
  OBVIOUS
<1>1. /\ UNCHANGED vars
      /\ UNCHANGED <<LOG, log_level_printed, said, call, load, ran, err, status>>
  BY Zenon DEF mainVars, environment, evalVars
<1>2. IInv' /\ ReadSoFar' /\ (Correct => Correct') /\ Pointers' = Pointers /\ ok' = ok
  BY <1>1, CommandLineKept, Zenon DEF MainIInv
<1>. QED
  BY <1>1, <1>2, Zenon
     DEF MainIInv, Calling, LevelOK, Explained, MistakesComeFirst, NoSilentFailure, Quiet,
         Shown, log_level, Results, Final

LEMMA MainInductive == MainIInv /\ [MainNext]_mainVars => MainIInv'
BY LogSetupStep, CommandLineStep, ExitStep, EvaluateStep, RunStep, MainStutters, Zenon
   DEF MainNext, Ended

THEOREM MainInvariance == MainSpec => []MainIInv
BY MainStarts, MainInductive, PTL DEF MainSpec

-----------------------------------------------------------------------------
(* The properties.                                                         *)

\* evaluate()'s assertion that it has a file name holds on every command line,
\* although struct cli does not say that the file name is required.
THEOREM FileAlwaysGiven == MainSpec => []EvaluateHasAFile
<1>1. MainIInv => EvaluateHasAFile
  BY Zenon DEF MainIInv, Calling, EvaluateHasAFile
<1>. QED
  BY <1>1, MainInvariance, PTL

\* No file is opened, no help is shown and no command is run over a command
\* line with a mistake anywhere in it.
THEOREM MistakesFirst == MainSpec => []MistakesComeFirst
<1>1. MainIInv => MistakesComeFirst
  BY Zenon DEF MainIInv
<1>. QED
  BY <1>1, MainInvariance, PTL

\* Every failure that the exit status tells of has been explained in the log,
\* as far as LOG allows, whatever the command line, the files and memory do.
THEOREM FailuresExplained == MainSpec => []NoSilentFailure
<1>1. MainIInv => NoSilentFailure
  BY Zenon DEF MainIInv
<1>. QED
  BY <1>1, MainInvariance, PTL

-----------------------------------------------------------------------------
(***************************************************************************)
(* What is run.  EvaluateProofs is about one call, with a file name that   *)
(* is a constant.  Let Name be any; what follows holds for each, of the    *)
(* processes that call evaluate() with it.                                 *)
(***************************************************************************)
CONSTANT Name

FileName == IF Name \in Seq(STRING) THEN Name ELSE << >>

Run ==
  INSTANCE EvaluateProofs WITH
    pc <- at, Filename <- FileName, Matching <- Matches(FileName), Missing <- NoFile,
    Files <- Contents, Saves <- {}, MaxEdits <- 0

-----------------------------------------------------------------------------
(* A step of the evaluate() that main() calls is one of it.                *)

\* The operators on views, for every file name, and what the lexers make of them.
ConstantsAgree(name) ==
  /\ Eval(name)!Parser!Space = Run!Parser!Space
  /\ Eval(name)!Parser!LineEnds = Run!Parser!LineEnds
  /\ Eval(name)!Parser!NUL = Run!Parser!NUL
  /\ Eval(name)!Parser!str_zero = Run!Parser!str_zero
  /\ Eval(name)!Parser!str_empty = Run!Parser!str_empty
ViewsAgree(name) ==
  /\ \A s, n : Eval(name)!Parser!Take(s, n) = Run!Parser!Take(s, n)
  /\ \A s, n : Eval(name)!Parser!Drop(s, n) = Run!Parser!Drop(s, n)
  /\ \A b, s, k : Eval(name)!Parser!Byte(b, s, k) = Run!Parser!Byte(b, s, k)
  /\ \A b, s, C : Eval(name)!Parser!FirstIn(b, s, C) = Run!Parser!FirstIn(b, s, C)
  /\ \A b, s, C : Eval(name)!Parser!FirstNotIn(b, s, C) = Run!Parser!FirstNotIn(b, s, C)
ScansAgree(name) ==
  /\ \A b, s, C : Eval(name)!Parser!sv_trim_left(b, s, C) = Run!Parser!sv_trim_left(b, s, C)
  /\ \A b, s, C : Eval(name)!Parser!sv_split_at_delims(b, s, C)
                    = Run!Parser!sv_split_at_delims(b, s, C)
  /\ \A b, s : Eval(name)!Parser!sv_trim_whitespace(b, s) = Run!Parser!sv_trim_whitespace(b, s)
LexersAgree(name) ==
  \A v : /\ Eval(name)!Parser!parse_line_start(v) = Run!Parser!parse_line_start(v)
         /\ Eval(name)!Parser!parse_pattern(v) = Run!Parser!parse_pattern(v)
         /\ Eval(name)!Parser!parse_pattern_delim(v) = Run!Parser!parse_pattern_delim(v)
         /\ Eval(name)!Parser!parse_command(v) = Run!Parser!parse_command(v)

LEMMA SameViews == ASSUME NEW name PROVE ConstantsAgree(name) /\ ViewsAgree(name)
<1>1. ConstantsAgree(name)
  BY Zenon
     DEF ConstantsAgree, Eval!Parser!Space, Run!Parser!Space, Eval!Parser!LineEnds,
         Run!Parser!LineEnds, Eval!Parser!NUL, Run!Parser!NUL, Eval!Parser!str_zero,
         Run!Parser!str_zero, Eval!Parser!str_empty, Run!Parser!str_empty,
         Eval!Parser!NullPtr, Run!Parser!NullPtr, Eval!Parser!Literal, Run!Parser!Literal
<1>2. ViewsAgree(name)
  BY Zenon
     DEF ViewsAgree, Eval!Parser!Take, Run!Parser!Take, Eval!Parser!Drop,
         Run!Parser!Drop, Eval!Parser!Byte, Run!Parser!Byte, Eval!Parser!FirstIn,
         Run!Parser!FirstIn, Eval!Parser!FirstNotIn, Run!Parser!FirstNotIn
<1>. QED
  BY <1>1, <1>2

LEMMA SameScans == ASSUME NEW name PROVE ScansAgree(name)
<1>1. ConstantsAgree(name) /\ ViewsAgree(name)
  BY SameViews, Zenon
<1>2. \A b, s, C : Eval(name)!Parser!sv_trim_left(b, s, C) = Run!Parser!sv_trim_left(b, s, C)
  BY <1>1, Zenon DEF ViewsAgree, Eval!Parser!sv_trim_left, Run!Parser!sv_trim_left
<1>3. \A b, s, C : Eval(name)!Parser!sv_split_at_delims(b, s, C)
                     = Run!Parser!sv_split_at_delims(b, s, C)
  BY <1>1, ZenonT(40)
     DEF ConstantsAgree, ViewsAgree, Eval!Parser!sv_split_at_delims,
         Run!Parser!sv_split_at_delims
<1>4. \A b, s : Eval(name)!Parser!sv_trim_right_whitespace(b, s)
                  = Run!Parser!sv_trim_right_whitespace(b, s)
  BY Zenon
     DEF Eval!Parser!sv_trim_right_whitespace, Run!Parser!sv_trim_right_whitespace,
         Eval!Parser!Take, Run!Parser!Take, Eval!Parser!Byte, Run!Parser!Byte,
         Eval!Parser!Space, Run!Parser!Space, Eval!Parser!LineEnds, Run!Parser!LineEnds
<1>5. \A b, s : Eval(name)!Parser!sv_trim_whitespace(b, s) = Run!Parser!sv_trim_whitespace(b, s)
  BY <1>1, <1>2, <1>4, Zenon
     DEF ConstantsAgree, Eval!Parser!sv_trim_whitespace, Run!Parser!sv_trim_whitespace
<1>. QED
  BY <1>2, <1>3, <1>5, Zenon DEF ScansAgree

LEMMA SameLexers == ASSUME NEW name PROVE LexersAgree(name)
<1>1. ConstantsAgree(name) /\ ViewsAgree(name) /\ ScansAgree(name)
  BY SameViews, SameScans, Zenon
<1>2. /\ \A a, b, c : Eval(name)!Parser!Lexed(a, b, c) = Run!Parser!Lexed(a, b, c)
      /\ \A c : Eval(name)!Parser!get_delim_kind(c) = Run!Parser!get_delim_kind(c)
  BY Zenon
     DEF Eval!Parser!Lexed, Run!Parser!Lexed, Eval!Parser!get_delim_kind,
         Run!Parser!get_delim_kind
<1>3. ASSUME NEW v
      PROVE  Eval(name)!Parser!parse_pattern_delim(v) = Run!Parser!parse_pattern_delim(v)
  BY <1>1, <1>2, SMT
     DEF ConstantsAgree, ViewsAgree, ScansAgree, Eval!Parser!parse_pattern_delim, Run!Parser!parse_pattern_delim
<1>4. ASSUME NEW v
      PROVE  Eval(name)!Parser!parse_line_start(v) = Run!Parser!parse_line_start(v)
  BY <1>1, <1>2, SMT
     DEF ConstantsAgree, ViewsAgree, ScansAgree, Eval!Parser!parse_line_start, Run!Parser!parse_line_start
<1>5. ASSUME NEW v
      PROVE  Eval(name)!Parser!parse_pattern(v) = Run!Parser!parse_pattern(v)
  <2>. DEFINE input == Run!Parser!sv_trim_left(buf, v, Run!Parser!Space)
              split == Run!Parser!sv_split_at_delims(buf, input, {";", ":"} \cup Run!Parser!LineEnds)
              str   == Run!Parser!sv_trim_whitespace(buf, split.head)
              input_ == Eval(name)!Parser!sv_trim_left(buf, v, Eval(name)!Parser!Space)
              split_ == Eval(name)!Parser!sv_split_at_delims(buf, input_, {";", ":"} \cup Eval(name)!Parser!LineEnds)
              str_   == Eval(name)!Parser!sv_trim_whitespace(buf, split_.head)
  <2>1. Run!Parser!parse_pattern(v) =
          (IF input.len = 0 THEN Run!Parser!Lexed("TOK_EOF", Run!Parser!str_zero, input)
                ELSE IF str.len > 0 THEN Run!Parser!Lexed("TOK_PATTERN", str, split.tail)
                     ELSE Run!Parser!parse_pattern_delim(input))
    BY Zenon DEF Run!Parser!parse_pattern
  <2>2. Eval(name)!Parser!parse_pattern(v) =
          (IF input_.len = 0 THEN Eval(name)!Parser!Lexed("TOK_EOF", Eval(name)!Parser!str_zero, input_)
                ELSE IF str_.len > 0 THEN Eval(name)!Parser!Lexed("TOK_PATTERN", str_, split_.tail)
                     ELSE Eval(name)!Parser!parse_pattern_delim(input_))
    BY Zenon DEF Eval!Parser!parse_pattern
  <2>3. input_ = input
    BY <1>1, Zenon DEF ConstantsAgree, ScansAgree
  <2>. HIDE DEF input, input_
  <2>4. split_ = split
    BY <1>1, <2>3, Zenon DEF ConstantsAgree, ScansAgree
  <2>. HIDE DEF split, split_
  <2>5. str_ = str
    BY <1>1, <2>4, Zenon DEF ScansAgree
  <2>. HIDE DEF str, str_
  <2>. QED
    BY <1>1, <1>2, <1>3, <2>1, <2>2, <2>3, <2>4, <2>5, SMTT(30) DEF ConstantsAgree
<1>6. ASSUME NEW v
      PROVE  Eval(name)!Parser!parse_command(v) = Run!Parser!parse_command(v)
  <2>. DEFINE input == Run!Parser!sv_trim_left(buf, v, {" "})
              split == Run!Parser!sv_split_at_delims(buf, input, Run!Parser!LineEnds)
              str   == Run!Parser!sv_trim_whitespace(buf, split.head)
              input_ == Eval(name)!Parser!sv_trim_left(buf, v, {" "})
              split_ == Eval(name)!Parser!sv_split_at_delims(buf, input_, Eval(name)!Parser!LineEnds)
              str_   == Eval(name)!Parser!sv_trim_whitespace(buf, split_.head)
  <2>1. Run!Parser!parse_command(v) =
          (IF input.len = 0 THEN Run!Parser!Lexed("TOK_EOF", Run!Parser!str_zero, input)
                ELSE Run!Parser!Lexed(IF str.len > 0 THEN "TOK_CMD" ELSE "TOK_NONE",
                                      str, split.tail))
    BY Zenon DEF Run!Parser!parse_command
  <2>2. Eval(name)!Parser!parse_command(v) =
          (IF input_.len = 0 THEN Eval(name)!Parser!Lexed("TOK_EOF", Eval(name)!Parser!str_zero, input_)
                ELSE Eval(name)!Parser!Lexed(IF str_.len > 0 THEN "TOK_CMD" ELSE "TOK_NONE",
                                      str_, split_.tail))
    BY Zenon DEF Eval!Parser!parse_command
  <2>3. input_ = input
    BY <1>1, Zenon DEF ConstantsAgree, ScansAgree
  <2>. HIDE DEF input, input_
  <2>4. split_ = split
    BY <1>1, <2>3, Zenon DEF ConstantsAgree, ScansAgree
  <2>. HIDE DEF split, split_
  <2>5. str_ = str
    BY <1>1, <2>4, Zenon DEF ScansAgree
  <2>. HIDE DEF str, str_
  <2>. QED
    BY <1>1, <1>2, <2>1, <2>2, <2>3, <2>4, <2>5, SMTT(30) DEF ConstantsAgree
<1>. QED
  BY <1>3, <1>4, <1>5, <1>6, Zenon DEF LexersAgree

LEMMA SameConsume ==
  ASSUME NEW name, NEW lex
  PROVE  Eval(name)!Parser!Consume(lex) => Run!Parser!Consume(lex)
BY Zenon
   DEF Eval!Parser!Consume, Run!Parser!Consume, Eval!Parser!Successors,
       Run!Parser!Successors, Eval!Parser!ParserState, Run!Parser!ParserState,
       Eval!Parser!Transition, Run!Parser!Transition, Eval!Parser!NoReport,
       Run!Parser!NoReport, Eval!Parser!ReportEof, Run!Parser!ReportEof,
       Eval!Parser!find_file_pos, Run!Parser!find_file_pos, Eval!Parser!FullText,
       Run!Parser!FullText, Eval!Parser!AssertFails, Run!Parser!AssertFails,
       Eval!Parser!Max, Run!Parser!Max, Eval!Parser!Cardinality, Run!Parser!Cardinality

LEMMA SameNext == 
  ASSUME NEW name, Eval(name)!Parser!fnmar_parser_next
  PROVE  Run!Parser!fnmar_parser_next
<1>1. LexersAgree(name)
  BY SameLexers, Zenon
<1>. QED
  BY <1>1, SameConsume, Zenon
     DEF LexersAgree, Eval!Parser!fnmar_parser_next, Run!Parser!fnmar_parser_next,
         Eval!Parser!LineStart, Run!Parser!LineStart, Eval!Parser!Pattern,
         Run!Parser!Pattern, Eval!Parser!PatternDelim, Run!Parser!PatternDelim,
         Eval!Parser!Command, Run!Parser!Command, Eval!Parser!In, Run!Parser!In

LEMMA SameLoad ==
  ASSUME NEW name
  PROVE  Eval(name)!Load => Run!Load
BY Zenon
   DEF Eval!Load, Run!Load, Eval!Config!cstrbuf_init_from_file, Eval!Config!Edit,
       Eval!Config!Open, Eval!Config!Size, Eval!Config!Alloc, Eval!Config!Read,
       Eval!Config!ReadEnds, Eval!Config!ftell, Eval!Config!readable,
       Eval!Config!bytes_read, Eval!Config!NUL, Run!Config!cstrbuf_init_from_file,
       Run!Config!Edit, Run!Config!Open, Run!Config!Size, Run!Config!Alloc,
       Run!Config!Read, Run!Config!ReadEnds, Run!Config!ftell, Run!Config!readable,
       Run!Config!bytes_read, Run!Config!NUL, Eval!parserVars, Run!parserVars, Eval!formatVars, Run!formatVars

LEMMA SameFormat ==
  Eval(FileName)!Format!format_and_run => Run!Format!format_and_run
<1>1. \A b, s, D : Eval(FileName)!Format!sv_split_delims(b, s, D) = Run!Format!sv_split_delims(b, s, D)
  <2>1. /\ \A b, s, C : Eval(FileName)!Format!FirstIn(b, s, C) = Run!Format!FirstIn(b, s, C)
        /\ \A s, n : Eval(FileName)!Format!Take(s, n) = Run!Format!Take(s, n)
        /\ \A s, n : Eval(FileName)!Format!Drop(s, n) = Run!Format!Drop(s, n)
        /\ Eval(FileName)!Format!NUL = Run!Format!NUL
        /\ Eval(FileName)!Format!str_empty = Run!Format!str_empty
    BY Zenon
       DEF Eval!Format!FirstIn, Run!Format!FirstIn, Eval!Format!Byte, Run!Format!Byte,
           Eval!Format!Take, Run!Format!Take, Eval!Format!Drop, Run!Format!Drop,
           Eval!Format!NUL, Run!Format!NUL, Eval!Format!str_empty, Run!Format!str_empty,
           Eval!Format!Literal, Run!Format!Literal
  <2>2. \A b, s, D : Eval(FileName)!Format!sv_split_at_delims(b, s, D)
                       = Run!Format!sv_split_at_delims(b, s, D)
    BY <2>1, Zenon DEF Eval!Format!sv_split_at_delims, Run!Format!sv_split_at_delims
  <2>. QED
    BY <2>1, <2>2, Zenon DEF Eval!Format!sv_split_delims, Run!Format!sv_split_delims
<1>2. \A str, next : Eval(FileName)!Format!Extend(str, next) => Run!Format!Extend(str, next)
  BY Zenon
     DEF Eval!Format!Extend, Run!Format!Extend, Eval!Format!cstrbuf_extend,
         Run!Format!cstrbuf_extend, Eval!Format!da_reserve, Run!Format!da_reserve,
         Eval!Format!new_cap, Run!Format!new_cap, Eval!Format!GROW_CAP,
         Run!Format!GROW_CAP, Eval!Format!MIN_CAP, Run!Format!MIN_CAP,
         Eval!Format!Failure, Run!Format!Failure, Eval!Format!Outcome, Run!Format!Outcome
<1>3. Eval(FileName)!Format!Piece => Run!Format!Piece
  BY <1>1, <1>2, Zenon
     DEF Eval!Format!Piece, Run!Format!Piece, Eval!Format!Content, Run!Format!Content
<1>4. Eval(FileName)!Format!InsertFilename => Run!Format!InsertFilename
  BY <1>2, Zenon DEF Eval!Format!InsertFilename, Run!Format!InsertFilename
<1>5. Eval(FileName)!Format!Run \/ Eval(FileName)!Format!Deinit => Run!Format!Run \/ Run!Format!Deinit
  BY Zenon
     DEF Eval!Format!Run, Run!Format!Run, Eval!Format!Deinit, Run!Format!Deinit
<1>. QED
  BY <1>3, <1>4, <1>5, Zenon DEF Eval!Format!format_and_run, Run!Format!format_and_run

LEMMA SameGroups ==
  ASSUME NEW name
  PROVE  /\ Eval(name)!configVars = Run!configVars /\ Eval(name)!parserVars = Run!parserVars
         /\ Eval(name)!formatVars = Run!formatVars
         /\ Eval(name)!TestPattern <=> Run!TestPattern
         /\ Eval(name)!RunCommand <=> Run!RunCommand
         /\ Eval(name)!Aborted <=> Run!Aborted
BY Zenon
   DEF Eval!configVars, Run!configVars, Eval!parserVars, Run!parserVars, Eval!formatVars,
       Run!formatVars, Eval!TestPattern, Run!TestPattern, Eval!RunCommand,
       Run!RunCommand, Eval!Aborted, Run!Aborted, Eval!Parser!AssertFails,
       Run!Parser!AssertFails

\* The steps that do not depend on the file name.
LEMMA SameSteps ==
  ASSUME NEW name
  PROVE  /\ Eval(name)!StartParser => Run!StartParser
         /\ Eval(name)!NextToken => Run!NextToken
         /\ Eval(name)!NoMatches => Run!NoMatches
         /\ Eval(name)!IntoCstr => Run!IntoCstr
         /\ Eval(name)!RevertIntoCstr => Run!RevertIntoCstr
         /\ Eval(name)!StartCommand => Run!StartCommand
         /\ Eval(name)!SkipToken => Run!SkipToken
         /\ Eval(name)!CommandReturns => Run!CommandReturns
         /\ Eval(name)!Deinit => Run!Deinit
<1>1. Eval(name)!StartParser => Run!StartParser
  <2>1. ConstantsAgree(name) /\ ScansAgree(name)
    BY SameViews, SameScans, Zenon
  <2>. QED
    BY <2>1, Zenon
     DEF ConstantsAgree, ScansAgree, Eval!StartParser, Run!StartParser, Eval!Parser!fnmar_parser_start,
         Run!Parser!fnmar_parser_start, Eval!configVars, Run!configVars,
         Eval!formatVars, Run!formatVars
<1>2. Eval(name)!NextToken => Run!NextToken
  BY SameNext, SameGroups, Zenon
     DEF Eval!NextToken, Run!NextToken, Eval!configVars, Run!configVars,
         Eval!formatVars, Run!formatVars
<1>3. Eval(name)!NoMatches => Run!NoMatches
  BY SameGroups, Zenon
     DEF Eval!NoMatches, Run!NoMatches, Eval!configVars, Run!configVars,
         Eval!formatVars, Run!formatVars, Eval!parserVars, Run!parserVars
<1>4. Eval(name)!IntoCstr => Run!IntoCstr
  BY SameGroups, Zenon
     DEF Eval!IntoCstr, Run!IntoCstr, Eval!configVars, Run!configVars, Eval!End, Run!End,
         Eval!str_into_cstr_unsafe, Run!str_into_cstr_unsafe, Eval!NUL, Run!NUL,
         Eval!formatVars, Run!formatVars, Eval!parserVars, Run!parserVars
<1>5. Eval(name)!RevertIntoCstr => Run!RevertIntoCstr
  BY SameGroups, Zenon
     DEF Eval!RevertIntoCstr, Run!RevertIntoCstr, Eval!configVars, Run!configVars,
         Eval!End, Run!End, Eval!str_revert_into_cstr_unsafe,
         Run!str_revert_into_cstr_unsafe, Eval!formatVars, Run!formatVars,
         Eval!parserVars, Run!parserVars
<1>6. Eval(name)!StartCommand => Run!StartCommand
  BY SameGroups, Zenon
     DEF Eval!StartCommand, Run!StartCommand, Eval!Format!Call, Run!Format!Call,
         Eval!Format!cstrbuf_zero, Run!Format!cstrbuf_zero, Eval!configVars,
         Run!configVars, Eval!parserVars, Run!parserVars
<1>7. Eval(name)!SkipToken => Run!SkipToken
  BY SameGroups, Zenon
     DEF Eval!SkipToken, Run!SkipToken, Eval!configVars, Run!configVars,
         Eval!formatVars, Run!formatVars, Eval!parserVars, Run!parserVars
<1>8. /\ Eval(name)!CommandReturns => Run!CommandReturns
      /\ Eval(name)!Deinit => Run!Deinit
  BY Zenon
     DEF Eval!CommandReturns, Run!CommandReturns, Eval!Deinit, Run!Deinit,
         Eval!configVars, Run!configVars, Eval!formatVars, Run!formatVars,
         Eval!parserVars, Run!parserVars
<1>. QED
  BY <1>1, <1>2, <1>3, <1>4, <1>5, <1>6, <1>7, <1>8, Zenon

LEMMA SameStep == Eval(FileName)!Step => Run!Step
<1>1. Eval(FileName)!Fnmatch => Run!Fnmatch
  BY Zenon
     DEF Eval!Fnmatch, Run!Fnmatch, Eval!configVars, Run!configVars, Eval!formatVars,
         Run!formatVars, Eval!parserVars, Run!parserVars, Eval!CStr, Run!CStr,
         Eval!Min, Run!Min, Eval!NUL, Run!NUL
<1>2. Eval(FileName)!FormatCommand => Run!FormatCommand
  BY SameFormat, Zenon
     DEF Eval!FormatCommand, Run!FormatCommand, Eval!configVars, Run!configVars,
         Eval!parserVars, Run!parserVars
<1>. QED
  BY <1>1, <1>2, SameLoad, SameSteps, Zenon DEF Eval!Step, Run!Step

-----------------------------------------------------------------------------
(* A call of evaluate() from beginning to end.                             *)

\* What EvaluateProofs knows of a call.
Knows == Run!IInv /\ Run!Finds /\ Run!Promise!Fulfilled

LEMMA RunAssumptions ==
  /\ Contents \subseteq Seq(STRING) /\ {} \subseteq Contents
  /\ NoFile \notin Contents /\ Pipe \notin Contents /\ Pipe # NoFile
  /\ SIZE_MAX \in Nat \ {0} /\ (\A f \in Contents : Len(f) < SIZE_MAX) /\ 0 \in Nat
  /\ FileName \in Seq(STRING) /\ Run!NUL \in STRING /\ NoFile \notin Seq(STRING)
<1>1. FileName \in Seq(STRING)
  <2>1. << >> \in Seq(STRING)
    BY SMT
  <2>. QED
    BY <2>1, Zenon DEF FileName
<1>2. Run!NUL \in STRING
  BY ByteAssumption, Zenon DEF Run!NUL, NUL, ByteAssumption
<1>3. 0 \in Nat
  BY SMTT(30)
<1>4. NoFile \notin Contents /\ Pipe \notin Contents
  BY SMT DEF Contents
<1>. QED
  BY <1>1, <1>2, <1>3, <1>4, ContentsAssumption, Zenon DEF ContentsAssumption

LEMMA CallBegins == (Run!Init => Knows)'
<1>1. Run!Init => Run!IInv
  BY Run!InitInvariant, RunAssumptions, Zenon
<1>2. Run!Init => Run!Finds
  BY Run!InitFinds, RunAssumptions, Zenon
<1>3. Run!Init => Run!Promise!Fulfilled
  BY Run!InitPromised, Run!FulfilledAtFirst, RunAssumptions, Zenon
<1>. QED
  BY <1>1, <1>2, <1>3, PTL DEF Knows

LEMMA CallGoesOn == Knows /\ [Run!Next]_Run!vars => Knows'
<1>. SUFFICES ASSUME Knows, [Run!Next]_Run!vars PROVE Knows'
  OBVIOUS
<1>1. Run!IInv /\ Run!Finds /\ Run!Promise!Fulfilled
  BY Zenon DEF Knows
<1>2. Run!IInv'
  BY <1>1, Run!Inductive, RunAssumptions, Zenon
<1>3. Run!Finds'
  BY <1>1, <1>2, Run!FindsOn, RunAssumptions, Zenon
<1>4. [Run!Promise!Next]_Run!Promise!vars
  BY <1>1, <1>2, <1>3, Run!StepPromised, RunAssumptions, Zenon
<1>5. Run!Promise!Fulfilled'
  BY <1>1, <1>4, Run!FulfilledStays, RunAssumptions, Zenon
<1>. QED
  BY <1>2, <1>3, <1>5, Zenon DEF Knows

LEMMA CallStays == Knows /\ UNCHANGED evalVars => Knows'
<1>1. UNCHANGED evalVars => UNCHANGED Run!vars
  BY Zenon
     DEF evalVars, Run!vars, Run!configVars, Run!parserVars, Run!formatVars
<1>. QED
  BY <1>1, CallGoesOn, Zenon

\* The file that is opened, that it is read whole, and that it is found.
Opened   == IF call.config = Unset THEN DEFAULT_CONFIG_FILENAME ELSE Value(call.config)
Whole    == at # "load" /\ buf # << >> => disk \in Contents /\ got = disk
NotFound ==
  IF disk = NoFile
  THEN \/ at = "load" /\ load = "open"
       \/ load = "done" /\ err = "ERR_FILESYSTEM" /\ at \in {"load", "deinit", "exit"}
  ELSE err # "ERR_FILESYSTEM"

LEMMA ContentsStay == Contents' = Contents
BY Zenon

LEMMA DiskStays ==
  ASSUME NEW name, Eval(name)!Step
  PROVE  disk' = disk
<1>1. CASE Eval(name)!Load
  <2>1. ~Eval(name)!Config!Edit
    BY Zenon DEF Eval!Config!Edit
  <2>2. Eval(name)!Config!cstrbuf_init_from_file
    BY <1>1, <2>1, Zenon DEF Eval!Load
  <2>. QED
    BY <2>2, Zenon
       DEF Eval!Config!cstrbuf_init_from_file, Eval!Config!Open, Eval!Config!Size,
           Eval!Config!Alloc, Eval!Config!Read, Eval!Config!ReadEnds
<1>2. CASE ~Eval(name)!Load
  BY <1>2, Zenon
     DEF Eval!Step, Eval!StartParser, Eval!NextToken, Eval!NoMatches, Eval!IntoCstr,
         Eval!Fnmatch, Eval!RevertIntoCstr, Eval!SkipToken, Eval!StartCommand,
         Eval!FormatCommand, Eval!CommandReturns, Eval!Deinit, Eval!configVars
<1>. QED
  BY <1>1, <1>2

\* Nobody edits the file: a text that is read is the whole of it.
LEMMA ReadsWhole ==
  ASSUME Knows, Whole, Run!Step, disk' = disk
  PROVE  Whole'
<1>1. CASE Run!StartParser
  <2>. SUFFICES ASSUME buf' # << >> PROVE disk' \in Contents /\ got' = disk'
    BY ContentsStay, Zenon DEF Whole
  <2>1. Run!Loading /\ at = "load" /\ buf' = buf /\ got' = got
    BY <1>1, Zenon DEF Knows, Run!IInv, Run!StartParser, Run!configVars
  <2>2. Run!Loader!IInv
    BY <2>1, Zenon DEF Run!Loading
  <2>3. edits = 0
    BY <2>2, SMT DEF Run!Loader!IInv, Run!Loader!TypeOK
  <2>4. disk \in Contents /\ buf = Append(disk, Run!Loader!NUL) /\ buf = Append(got, Run!Loader!NUL)
        /\ got \in Seq(STRING)
    BY <2>1, <2>2, <2>3, Zenon
       DEF Run!Loader!IInv, Run!Loader!TypeOK, Run!Loader!WholeUnlessEdited, Run!Loader!BytesInPlace
  <2>5. disk \in Seq(STRING)
    BY <2>4, RunAssumptions, Zenon
  <2>6. got = disk
    <3>1. Run!Loader!NUL \in STRING
      BY ByteAssumption, Zenon DEF Run!Loader!NUL, NUL, ByteAssumption
    <3>. HIDE DEF Run!Loader!NUL
    <3>2. /\ SubSeq(Append(got, Run!Loader!NUL), 1, Len(Append(got, Run!Loader!NUL)) - 1) = got
          /\ SubSeq(Append(disk, Run!Loader!NUL), 1, Len(Append(disk, Run!Loader!NUL)) - 1) = disk
      BY <2>4, <2>5, <3>1, Run!WithoutTerminator, RunAssumptions, Zenon
    <3>. QED
      BY <2>4, <3>2, Zenon
  <2>. QED
    BY <2>1, <2>4, <2>6, Zenon
<1>2. CASE Run!Load
  <2>1. at' = "load"
    BY <1>2, Zenon DEF Run!Load
  <2>. QED
    BY <2>1, Zenon DEF Whole
<1>3. CASE ~Run!StartParser /\ ~Run!Load
  <2>1. /\ at # "load" /\ got' = got
        /\ buf' = buf \/ at \in {"parse", "token", "fnmatch", "revert", "format"}
    BY <1>3, Zenon
       DEF Run!Step, Run!NextToken, Run!NoMatches, Run!IntoCstr, Run!Fnmatch,
           Run!RevertIntoCstr, Run!SkipToken, Run!StartCommand, Run!FormatCommand,
           Run!CommandReturns, Run!Deinit, Run!configVars
  <2>2. at \in {"parse", "token", "fnmatch", "revert", "format"} => buf # << >>
    BY Zenon DEF Knows, Run!Finds, Run!Judging, Run!Reads
  <2>. QED
    BY <2>1, <2>2, ContentsStay, Zenon DEF Whole
<1>. QED
  BY <1>1, <1>2, <1>3

LEMMA FindsFile ==
  ASSUME NEW name, Eval(name)!Step, disk' = disk, NotFound
  PROVE  NotFound'
<1>1. CASE Eval(name)!Load
  <2>1. ~Eval(name)!Config!Edit
    BY Zenon DEF Eval!Config!Edit
  <2>2. Eval(name)!Config!cstrbuf_init_from_file /\ at = "load" /\ at' = at /\ load # "done"
    BY <1>1, <2>1, Zenon DEF Eval!Load
  <2>3. CASE Eval(name)!Config!Open
    BY <2>2, <2>3, Zenon DEF NotFound, Eval!Config!Open
  <2>4. CASE ~Eval(name)!Config!Open
    <3>1. load # "open" /\ (err' = err \/ err' = "ERR_OUT_OF_MEMORY")
      BY <2>2, <2>4, Zenon
         DEF Eval!Config!cstrbuf_init_from_file, Eval!Config!Size, Eval!Config!Alloc,
             Eval!Config!Read, Eval!Config!ReadEnds
    <3>. QED
      BY <2>2, <3>1, Zenon DEF NotFound
  <2>. QED
    BY <2>3, <2>4
<1>2. CASE Eval(name)!StartParser \/ Eval(name)!Deinit
  BY <1>2, Zenon DEF NotFound, Eval!StartParser, Eval!Deinit, Eval!configVars
<1>3. CASE ~Eval(name)!Load /\ ~Eval(name)!StartParser /\ ~Eval(name)!Deinit
  <2>1. at \notin {"load", "deinit", "exit"}
    BY <1>3, Zenon
       DEF Eval!Step, Eval!NextToken, Eval!NoMatches, Eval!IntoCstr, Eval!Fnmatch,
           Eval!RevertIntoCstr, Eval!SkipToken, Eval!StartCommand, Eval!FormatCommand,
           Eval!CommandReturns
  <2>2. err' = err \/ err' \in {"OK", "ERR_NO_MATCHES", "ERR_OUT_OF_MEMORY"}
    <3>1. CASE Eval(name)!FormatCommand
      BY <3>1, Zenon
         DEF Eval!FormatCommand, Eval!Format!format_and_run, Eval!Format!Piece,
             Eval!Format!InsertFilename, Eval!Format!Run, Eval!Format!Deinit,
             Eval!Format!Extend
    <3>2. CASE ~Eval(name)!FormatCommand
      BY <1>3, <3>2, Zenon
         DEF Eval!Step, Eval!NextToken, Eval!NoMatches, Eval!IntoCstr, Eval!Fnmatch,
             Eval!RevertIntoCstr, Eval!SkipToken, Eval!StartCommand, Eval!Format!Call,
             Eval!CommandReturns
    <3>. QED
      BY <3>1, <3>2
  <2>. QED
    BY <2>1, <2>2, Zenon DEF NotFound
<1>. QED
  BY <1>1, <1>2, <1>3

-----------------------------------------------------------------------------
(* main() and its call.                                                    *)

\* Before the call: evaluate() has done nothing.
Waiting == call = NotCalled /\ Eval(<< >>)!Init

\* The call is for FileName.
ForName == call.filename # Unset /\ Value(call.filename) = FileName

\* During it and after it: the name is a text, and the file the one that was
\* given, or the default one; a call with FileName reads it whole, and does what
\* is known of one.
Called ==
  /\ status \in {"evaluate", "abort"} \cup Results
  /\ status \in Results => at = "exit" /\ status = err
  /\ Value(call.filename) \in Seq(STRING)
  /\ disk = Stored(store, Opened) /\ NotFound
  /\ ForName => Knows /\ Whole

CallIInv ==
  /\ argv \in CommandLines /\ store \in Stores
  /\ status \in {"start", "args"} => Waiting
  /\ status \in {"evaluate"} \cup Results \/ ran # << >> => call.filename # Unset
  /\ call.filename # Unset => Called

LEMMA OptionsKept == Step => argv' = argv
BY Zenon
   DEF Step, Positional, ShortCluster, ShortOption, ClusterEnds, PositionalSplit,
       LongOption, Finish

\* What main() takes from the command line is named by it.
LEMMA ValueIsPath ==
  ASSUME argv \in CommandLines, ControlOK, NEW p, InBounds(p)
  PROVE  Value(p) \in Paths
<1>1. /\ p.arg \in DOMAIN argv /\ p.off + 1 \in 1 .. Len(argv[p.arg]) + 1
  <2>1. argv \in Seq(Seq(Char)) /\ p.arg \in 1 .. Len(argv) /\ p.off \in Nat
        /\ p.off <= Len(argv[p.arg])
    BY SMT DEF ControlOK, InBounds, Pointers
  <2>2. Len(argv[p.arg]) \in Nat /\ p.arg \in DOMAIN argv
    BY <2>1, SMT
  <2>. QED
    BY <2>1, <2>2, SMT
<1>2. Value(p) \in TailsOf(argv[p.arg])
  BY <1>1, Zenon DEF Value, TailsOf
<1>3. TailsOf(argv[p.arg]) \in {TailsOf(argv[k]) : k \in DOMAIN argv}
  BY <1>1, Zenon
<1>4. Value(p) \in UNION {TailsOf(argv[k]) : k \in DOMAIN argv}
  BY <1>2, <1>3, Zenon
<1>. DEFINE U(a) == UNION {TailsOf(a[k]) : k \in DOMAIN a}
<1>. HIDE DEF U
<1>5. Value(p) \in UNION {U(a) : a \in CommandLines}
  BY <1>4, Zenon DEF U
<1>. QED
  BY <1>5, Zenon DEF Paths, U

LEMMA OpenedIsPath ==
  ASSUME argv \in CommandLines, IInv
  PROVE  output[config] = Unset \/ Value(output[config]) \in Paths
<1>1. OutputOf(config) /\ ControlOK
  BY FnmarTable, Zenon DEF IInv, OutputsOK
<1>. QED
  BY <1>1, FnmarTable, ValueIsPath, Zenon DEF OutputOf

LEMMA StoredIsContent ==
  ASSUME NEW s \in Stores, NEW path \in Paths
  PROVE  Stored(s, path) \in Contents \cup {NoFile, Pipe}
BY SMT DEF Contents

\* A step that leaves evaluate() and its arguments alone.
LEMMA CallUntouched ==
  ASSUME CallIInv, UNCHANGED <<argv, store, call, evalVars>>,
         status \in {"start", "args"} => status' \in {"start", "args", "ERR_ARGS", "exit(0)", "abort"},
         status \notin {"start", "args"} =>
           \/ status' \in {"abort", status}
           \/ status = "evaluate" /\ at = "exit" /\ status' = err /\ err \in Results
  PROVE  CallIInv'
<1>1. Value(call.filename)' = Value(call.filename) /\ Opened' = Opened
  BY Zenon DEF Value, Opened
<1>2. status \in {"start", "args"} => Waiting'
  <2>1. /\ UNCHANGED <<call, disk, edits, load, len, got, buf, parser, report, fmt, tail, cmd, ran>>
        /\ UNCHANGED <<at, found_match, removed_char, heap, err>>
    BY Zenon DEF evalVars
  <2>. QED
    BY <2>1, Zenon
       DEF CallIInv, Waiting, Eval!Init, Eval!Config!Init, Eval!parser_zero,
           Eval!str_zero, Eval!NullPtr, Eval!Parser!NoReport, Eval!Format!cstrbuf_zero,
           Eval!NUL, NotCalled, Unset, Ptr
<1>3. status \in {"start", "args"} => call.filename = Unset
  <2>1. NotCalled.filename = Unset
    BY SMT DEF NotCalled
  <2>. QED
    BY <2>1, Zenon DEF CallIInv, Waiting
<1>4. Called /\ status \notin {"start", "args"} => Called'
  <2>. SUFFICES ASSUME Called, status \notin {"start", "args"} PROVE Called'
    OBVIOUS
  <2>1. UNCHANGED <<disk, load, got, buf, at, err>>
    BY Zenon DEF evalVars
  <2>2. ForName' => Knows' /\ Whole'
    <3>1. Whole => Whole'
      BY <2>1, ContentsStay, Zenon DEF Whole
    <3>. QED
      BY <1>1, <3>1, CallStays, Zenon DEF Called, ForName
  <2>3. NotFound' /\ disk' = Stored(store', Opened')
    BY <1>1, <2>1, Zenon DEF Called, NotFound
  <2>4. status' \in {"evaluate", "abort"} \cup Results
    BY Zenon DEF Called
  <2>5. status' \in Results => at' = "exit" /\ status' = err'
    BY <2>1, Zenon DEF Called, Results
  <2>. QED
    BY <1>1, <2>2, <2>3, <2>4, <2>5, Zenon DEF Called
<1>5. status' \in {"start", "args"} => status \in {"start", "args"}
  BY Zenon DEF Results, CallIInv, Called
<1>6. status' \in {"evaluate"} \cup Results => status \in {"evaluate"} \cup Results
  BY Zenon DEF Results
<1>7. ran' = ran
  BY Zenon DEF evalVars
<1>. QED
  BY <1>2, <1>3, <1>4, <1>5, <1>6, <1>7, Zenon DEF CallIInv

LEMMA CallInit == MainInit => CallIInv
<1>1. NotCalled.filename = Unset
  BY SMT DEF NotCalled
<1>. QED
  BY <1>1, Zenon DEF MainInit, Init, CallIInv, Waiting, Results, Eval!Init

\* evaluate() is called with the arguments that were found, and begins.
LEMMA CallMade == MainIInv /\ CallIInv /\ evaluate => CallIInv'
<1>. SUFFICES ASSUME MainIInv, CallIInv, evaluate PROVE CallIInv'
  OBVIOUS
<1>1. /\ status = "args" /\ status' = "evaluate" /\ pc = "done" /\ ok /\ output[help] # True
      /\ argv' = argv /\ store' = store /\ IInv
      /\ call' = [filename |-> output[filename], config |-> output[config]]
      /\ disk' = Stored(store, config_filename)
      /\ UNCHANGED <<edits, load, len, got, buf, parser, report, fmt, tail, cmd, ran>>
      /\ UNCHANGED <<at, found_match, removed_char, heap, err>>
  BY Zenon DEF evaluate, Parsed, environment, vars, MainIInv
<1>2. call'.filename = output[filename] /\ call'.config = output[config]
  BY <1>1, SMT
<1>3. Waiting /\ store \in Stores /\ argv \in CommandLines
  BY <1>1, Zenon DEF CallIInv
<1>4. output[filename] # Unset /\ Value(output[filename]) \in Seq(STRING)
  <2>1. output[filename] \in Pointers /\ argv \in Seq(Seq(Char))
    BY <1>1, FileNamed, Zenon DEF IInv, ControlOK
  <2>2. /\ output[filename].arg \in 1 .. Len(argv) /\ output[filename].off \in Nat
        /\ output[filename] # Unset
    BY <2>1, SMT DEF Pointers, Unset, Ptr
  <2>3. argv[output[filename].arg] \in Seq(STRING)
    BY <2>1, <2>2, SMT DEF Char
  <2>. QED
    BY <2>2, <2>3, SMT DEF Value
<1>5. Opened' = config_filename
  BY <1>1, Zenon DEF Opened, Value, config_filename
<1>6. disk' \in Contents \cup {NoFile, Pipe}
  <2>1. config_filename \in Paths
    <3>1. DEFAULT_CONFIG_FILENAME \in Paths
      BY SMT DEF Paths
    <3>. QED
      BY <1>1, <1>2, <1>3, <3>1, OpenedIsPath, Zenon DEF config_filename
  <2>. QED
    BY <1>1, <1>3, <2>1, StoredIsContent, Zenon
<1>7. Run!Init'
  <2>1. /\ edits' = 0 /\ load' = "open" /\ len' = 0 /\ got' = << >> /\ buf' = << >> /\ heap' = {} /\ err' = "OK"
        /\ at' = "load"
    BY <1>1, <1>3, Zenon DEF Waiting, Eval!Init, Eval!Config!Init
  <2>2. Run!Config!Init'
    BY <1>6, <2>1, Zenon DEF Run!Config!Init
  <2>3. /\ parser' = Run!parser_zero /\ report' = Run!Parser!NoReport
        /\ fmt' = "idle" /\ tail' = Run!str_zero /\ cmd' = Run!Format!cstrbuf_zero
        /\ ran' = << >> /\ found_match' = FALSE /\ removed_char' = Run!NUL
    BY <1>1, <1>3, Zenon
       DEF Waiting, Eval!Init, Eval!parser_zero, Run!parser_zero, Eval!str_zero, Run!str_zero,
           Eval!NullPtr, Run!NullPtr, Eval!Parser!NoReport, Run!Parser!NoReport,
           Eval!Format!cstrbuf_zero, Run!Format!cstrbuf_zero, Eval!NUL, Run!NUL
  <2>. QED
    BY <2>1, <2>2, <2>3, Zenon
       DEF Run!Init, Run!parser_zero, Run!str_zero, Run!NullPtr, Run!Parser!NoReport,
           Run!Format!cstrbuf_zero, Run!NUL
<1>8. Knows'
  BY <1>7, CallBegins
<1>9. Whole' /\ NotFound'
  BY <1>1, <1>3, Zenon DEF Whole, NotFound, Waiting, Eval!Init, Eval!Config!Init
<1>10. Value(call.filename)' = Value(output[filename])
  BY <1>1, <1>2, Zenon DEF Value
<1>11. Called'
  BY <1>1, <1>4, <1>5, <1>8, <1>9, <1>10, Zenon DEF Called, Results
<1>. QED
  BY <1>1, <1>2, <1>3, <1>4, <1>11, Zenon DEF CallIInv

\* It goes on, whatever the name it was called with.
LEMMA CallSteps == CallIInv /\ RunEvaluate => CallIInv'
<1>. SUFFICES ASSUME CallIInv, RunEvaluate PROVE CallIInv'
  OBVIOUS
<1>1. status = "evaluate" /\ UNCHANGED <<status, argv, store, call>>
  BY Zenon DEF RunEvaluate, vars, environment
<1>2. PICK name : name = Value(call.filename) /\ Eval(name)!Step
  BY Zenon DEF RunEvaluate
<1>3. Called /\ call.filename # Unset
  BY <1>1, Zenon DEF CallIInv
<1>4. disk' = disk /\ NotFound'
  BY <1>2, <1>3, DiskStays, FindsFile, Zenon DEF Called
<1>5. /\ Opened' = Opened /\ (ForName' <=> ForName)
      /\ Value(call.filename)' = Value(call.filename)
  BY <1>1, Zenon DEF Opened, Value, ForName
<1>6. ForName => Knows' /\ Whole'
  <2>. SUFFICES ASSUME ForName PROVE Knows' /\ Whole'
    OBVIOUS
  <2>1. name = FileName
    BY <1>2, Zenon DEF ForName
  <2>2. Run!Step
    <3>1. name = FileName => (Eval(name)!Step <=> Eval(FileName)!Step)
      OBVIOUS
    <3>. QED
      BY <1>2, <2>1, <3>1, SameStep, Zenon
  <2>. QED
    BY <1>3, <1>4, <2>2, CallGoesOn, ReadsWhole, Zenon DEF Called, Run!Next
<1>7. Called'
  BY <1>1, <1>3, <1>4, <1>5, <1>6, Zenon DEF Called, Results
<1>. QED
  BY <1>1, <1>3, <1>7, Zenon DEF CallIInv, Results

LEMMA CallInductive == MainIInv /\ CallIInv /\ [MainNext]_mainVars => CallIInv'
<1>. SUFFICES ASSUME MainIInv, CallIInv, [MainNext]_mainVars PROVE CallIInv'
  OBVIOUS
<1>1. CASE log_setup_from_env
  <2>1. UNCHANGED <<argv, store, call, evalVars>> /\ status = "start" /\ status' = "args"
    BY <1>1, Zenon DEF log_setup_from_env, vars, environment
  <2>. QED
    BY <2>1, CallUntouched, Zenon
<1>2. CASE cli_from_args
  <2>1. UNCHANGED <<store, call, evalVars>> /\ status = "args" /\ status' = "args" /\ Step
    BY <1>2, Zenon DEF cli_from_args, environment
  <2>. QED
    BY <2>1, OptionsKept, CallUntouched, Zenon
<1>3. CASE ArgsError \/ PrintHelp
  <2>1. /\ UNCHANGED <<argv, store, call, evalVars>>
        /\ status = "args" /\ status' \in {"ERR_ARGS", "exit(0)", "abort"}
    BY <1>3, Zenon DEF ArgsError, PrintHelp, Parsed, Exits, vars, environment
  <2>. QED
    BY <2>1, CallUntouched, Zenon
<1>4. CASE MainReturns \/ MainAborts
  <2>1. /\ UNCHANGED <<argv, store, call, evalVars>> /\ status = "evaluate"
        /\ status' = "abort" \/ (at = "exit" /\ status' = err)
    BY <1>4, Zenon DEF MainReturns, MainAborts, Exits, vars, environment
  <2>2. err \in Results
    BY Zenon DEF MainIInv, Explained
  <2>. QED
    BY <2>1, <2>2, CallUntouched, Zenon
<1>5. CASE UNCHANGED mainVars
  <2>1. UNCHANGED <<argv, store, call, evalVars, status>>
    BY <1>5, Zenon DEF mainVars, vars, environment
  <2>. QED
    BY <2>1, CallUntouched, Zenon
<1>. QED
  BY <1>1, <1>2, <1>3, <1>4, <1>5, CallMade, CallSteps, Zenon DEF MainNext, Ended

THEOREM CallInvariance == MainSpec => []CallIInv
BY CallInit, CallInductive, MainInvariance, PTL DEF MainSpec

-----------------------------------------------------------------------------
(* The types of main() and of the call it makes.                           *)

\* Only severities are logged, the arguments of the call point into argv, and
\* without a call evaluate() is as it was at first, however the process ends.
Typed ==
  /\ said \subseteq DOMAIN log_level
  /\ call.filename \in {Unset} \cup Pointers /\ call.config \in {Unset} \cup Pointers
  /\ call.filename = Unset => Waiting

LEMMA OnlySeverities ==
  /\ EvaluateLogs \subseteq DOMAIN log_level
  /\ \A level, severities : Shown(level, severities) \subseteq severities
<1>1. EvaluateLogs \subseteq {"FATAL", "ERROR", "WARN", "INFO", "DEBUG"}
  BY Zenon DEF EvaluateLogs
<1>2. \A level, severities : Shown(level, severities) \subseteq severities
  BY Zenon DEF Shown
<1>. QED
  BY <1>1, <1>2, Levels, Zenon

LEMMA TypedInit == MainInit => Typed
<1>1. NotCalled.filename = Unset /\ NotCalled.config = Unset
  BY SMT DEF NotCalled
<1>. QED
  BY <1>1, Zenon DEF MainInit, Typed, Waiting

LEMMA WaitingStays == Waiting /\ UNCHANGED <<call, evalVars>> => Waiting'
BY Zenon
   DEF Waiting, evalVars, Eval!Init, Eval!Config!Init, Eval!parser_zero, Eval!str_zero,
       Eval!NullPtr, Eval!Parser!NoReport, Eval!Format!cstrbuf_zero, Eval!NUL, NotCalled,
       Unset, Ptr

LEMMA TypedInductive == MainIInv /\ CallIInv /\ Typed /\ [MainNext]_mainVars => Typed'
<1>. SUFFICES ASSUME MainIInv, CallIInv, Typed, [MainNext]_mainVars PROVE Typed'
  OBVIOUS
<1>1. CASE evaluate
  <2>1. /\ pc = "done" /\ ok /\ output[help] # True /\ IInv /\ argv' = argv /\ said' = said
        /\ call' = [filename |-> output[filename], config |-> output[config]]
    BY <1>1, Zenon DEF evaluate, Parsed, vars, environment, MainIInv
  <2>2. call'.filename = output[filename] /\ call'.config = output[config]
    BY <2>1, SMT
  <2>3. output[filename] \in Pointers
    BY <2>1, FileNamed, Zenon
  <2>4. output[config] \in {Unset} \cup Pointers
    <3>1. OutputOf(config) /\ opts[config].kind # "BOOL"
      BY <2>1, FnmarTable, Zenon DEF IInv, OutputsOK
    <3>. QED
      BY <3>1, Zenon DEF OutputOf, InBounds
  <2>5. output[filename] # Unset
    <3>1. output[filename].arg # -1
      BY <2>3, SMT DEF Pointers
    <3>2. Unset.arg = -1
      BY SMT DEF Unset, Ptr
    <3>. QED
      BY <3>1, <3>2, Zenon
  <2>6. Pointers' = Pointers /\ Unset' = Unset /\ DOMAIN log_level' = DOMAIN log_level
    BY <2>1, Zenon DEF Pointers, Unset, Ptr, log_level
  <2>. QED
    BY <2>1, <2>2, <2>3, <2>4, <2>5, <2>6, Zenon DEF Typed
<1>2. CASE ~evaluate
  <2>1. argv' = argv /\ call' = call
    BY <1>2, OptionsKept, Zenon
       DEF MainNext, log_setup_from_env, cli_from_args, ArgsError, PrintHelp, Exits,
           RunEvaluate, MainReturns, MainAborts, Ended, vars, mainVars
  <2>2. Pointers' = Pointers /\ Unset' = Unset /\ DOMAIN log_level' = DOMAIN log_level
    BY <2>1, Zenon DEF Pointers, Unset, Ptr, log_level
  <2>3. said' \subseteq DOMAIN log_level
    <3>1. \/ said' = said
          \/ \E severities \in SUBSET DOMAIN log_level :
               said' = said \cup Shown(log_level_printed, severities)
      <4>1. \A failed \in {{}, {"WARN"}} : EvaluateLogs \cup failed \in SUBSET DOMAIN log_level
        BY OnlySeverities, Levels, Zenon
      <4>2. {} \in SUBSET DOMAIN log_level /\ {"ERROR"} \in SUBSET DOMAIN log_level
        BY Levels, Zenon
      <4>3. CASE RunEvaluate
        <5>1. PICK failed \in {{}, {"WARN"}} :
                said' = said \cup Shown(log_level_printed, EvaluateLogs \cup failed)
          BY <4>3, Zenon DEF RunEvaluate, klog
        <5>. QED
          BY <4>1, <5>1, Zenon
      <4>4. CASE ~RunEvaluate
        BY <1>2, <4>2, <4>4, Zenon
           DEF MainNext, log_setup_from_env, cli_from_args, klog, ArgsError, PrintHelp, Exits,
               MainReturns, MainAborts, Ended, mainVars
      <4>. QED
        BY <4>3, <4>4
    <3>. QED
      BY <3>1, OnlySeverities, Zenon DEF Typed
  <2>4. CASE RunEvaluate
    <3>1. call.filename # Unset
      BY <2>4, Zenon DEF RunEvaluate, CallIInv
    <3>. QED
      BY <2>1, <2>2, <2>3, <3>1, Zenon DEF Typed
  <2>5. CASE ~RunEvaluate
    <3>1. UNCHANGED evalVars
      BY <1>2, <2>5, Zenon
         DEF MainNext, log_setup_from_env, cli_from_args, ArgsError, PrintHelp, Exits,
             MainReturns, MainAborts, Ended, mainVars
    <3>. QED
      BY <2>1, <2>2, <2>3, <3>1, WaitingStays, Zenon DEF Typed
  <2>. QED
    BY <2>4, <2>5
<1>. QED
  BY <1>1, <1>2

LEMMA SameTypes == Run!TypeOK => Eval(<< >>)!TypeOK
<1>1. Eval(<< >>)!Parser!Parser = Run!Parser!Parser
  BY Zenon
     DEF Eval!Parser!Parser, Run!Parser!Parser, Eval!Parser!Token, Run!Parser!Token,
         Eval!Parser!TokenKind, Run!Parser!TokenKind, Eval!Parser!ParserState,
         Run!Parser!ParserState, Eval!Parser!View, Run!Parser!View
<1>2. Eval(<< >>)!Format!TypeOK <=> Run!Format!TypeOK
  BY Zenon DEF Eval!Format!TypeOK, Run!Format!TypeOK, Eval!Format!View, Run!Format!View
<1>3. Eval(<< >>)!Config!Error = Run!Config!Error
  BY Zenon DEF Eval!Config!Error, Run!Config!Error
<1>. QED
  BY <1>1, <1>2, <1>3, Zenon DEF Eval!TypeOK, Run!TypeOK

LEMMA WaitingTypes == Waiting => Run!TypeOK
<1>. SUFFICES ASSUME Waiting PROVE Run!TypeOK
  OBVIOUS
<1>1. Run!Init
  BY Zenon
     DEF Waiting, Run!Init, Eval!Init, Eval!Config!Init, Run!Config!Init, Eval!parser_zero,
         Run!parser_zero, Eval!str_zero, Run!str_zero, Eval!NullPtr, Run!NullPtr,
         Eval!Parser!NoReport, Run!Parser!NoReport, Eval!Format!cstrbuf_zero,
         Run!Format!cstrbuf_zero, Eval!NUL, Run!NUL
<1>. QED
  BY <1>1, Run!InitInvariant, RunAssumptions, Zenon DEF Run!IInv

LEMMA TypesHold ==
  MainIInv /\ CallIInv /\ Typed => ((call.filename # Unset => ForName) => MainTypeOK)
<1>. SUFFICES ASSUME MainIInv, CallIInv, Typed, call.filename # Unset => ForName
              PROVE  MainTypeOK
  OBVIOUS
<1>1. Run!TypeOK
  <2>1. CASE call.filename = Unset
    BY <2>1, WaitingTypes, Zenon DEF Typed
  <2>2. CASE call.filename # Unset
    BY <2>2, Zenon DEF CallIInv, Called, Knows, Run!IInv
  <2>. QED
    BY <2>1, <2>2
<1>2. TypeOK
  BY TypesOfState, Zenon DEF MainIInv
<1>3. \E name \in {<< >>} : Eval(name)!TypeOK
  BY <1>1, SameTypes, Zenon
<1>. QED
  BY <1>2, <1>3, Zenon DEF MainTypeOK, Typed, MainIInv, LevelOK, Calling

\* The types of main(), and of the call it makes of evaluate(), for every name
\* that it calls it with.
THEOREM TypesOfMain == MainSpec => []((call.filename # Unset => ForName) => MainTypeOK)
<1>1. MainSpec => []Typed
  BY TypedInit, TypedInductive, MainInvariance, CallInvariance, PTL DEF MainSpec
<1>. QED
  BY <1>1, TypesHold, MainInvariance, CallInvariance, PTL

-----------------------------------------------------------------------------
(* What the log tells of a file.                                           *)

\* The values of LOG that mean something, and do not forbid errors.
Telling == LOG \in (DOMAIN Named \cup {"unset"}) \ {"critical"}

\* What the parser finds unexpected is the end of it.
Noted ==
  /\ at = "load" => ~parser.unexpected_token
  /\ parser.unexpected_token => parser.is_done

\* An error is logged exactly if the parser finds something unexpected, and is
\* not killed by it.
Told ==
  /\ Noted
  /\ Telling => log_level_printed \in DOMAIN log_level \ {"FATAL"}
  /\ Telling /\ status \in {"start", "args"} /\ ok => "ERROR" \notin said
  /\ Telling /\ status \in {"evaluate"} \cup Results =>
       /\ "ERROR" \in said => parser.unexpected_token
       /\ parser.unexpected_token /\ ~Eval(<< >>)!Aborted => "ERROR" \in said

LEMMA ErrorsShown ==
  ASSUME NEW level \in DOMAIN log_level \ {"FATAL"}, NEW severities
  PROVE  "ERROR" \in Shown(level, severities) <=> "ERROR" \in severities
<1>1. log_level["ERROR"] <= log_level[level]
  BY Levels, SMT
<1>. QED
  BY <1>1, Zenon DEF Shown

LEMMA MistakeStays == Step /\ ok' => ok
BY Zenon
   DEF Step, Positional, ShortCluster, ShortOption, ClusterEnds, PositionalSplit,
       LongOption, Finish, InLoop

LEMMA NotedStays ==
  ASSUME NEW name, Eval(name)!Step, Noted
  PROVE  Noted' /\ (parser.unexpected_token => parser'.unexpected_token)
<1>1. CASE Eval(name)!StartParser
  <2>1. at' \in {"deinit", "parse"} /\ at = "load"
    BY <1>1, Zenon DEF Eval!StartParser
  <2>2. parser' = parser \/ parser' = Eval(name)!Parser!fnmar_parser_start(buf)
    BY <1>1, Zenon DEF Eval!StartParser
  <2>3. ~Eval(name)!Parser!fnmar_parser_start(buf).unexpected_token
    BY SMT DEF Eval!Parser!fnmar_parser_start
  <2>. QED
    BY <2>1, <2>2, <2>3, Zenon DEF Noted
<1>2. CASE Eval(name)!NextToken
  <2>1. at' = "token" /\ ~parser.is_done
    BY <1>2, Zenon
       DEF Eval!NextToken, Eval!Parser!fnmar_parser_next, Eval!Parser!LineStart,
           Eval!Parser!Pattern, Eval!Parser!PatternDelim, Eval!Parser!Command, Eval!Parser!In
  <2>2. parser'.unexpected_token => parser'.is_done
    <3>1. ASSUME NEW lex, Eval(name)!Parser!Consume(lex)
          PROVE  parser'.unexpected_token => parser'.is_done
      <4>. DEFINE none  == Eval(name)!Parser!Successors(parser.state, lex.kind) = {}
                  state == IF none THEN parser.state
                           ELSE CHOOSE s \in Eval(name)!Parser!Successors(parser.state, lex.kind) : TRUE
      <4>1. parser' = [state |-> state,
                       token |-> [kind |-> lex.kind, str |-> lex.str],
                       tail  |-> lex.tail,
                       unexpected_token |-> none,
                       is_done |-> lex.kind = "TOK_EOF" \/ none]
        BY <3>1, Zenon DEF Eval!Parser!Consume
      <4>. HIDE DEF none, state
      <4>2. /\ parser'.unexpected_token <=> none
            /\ parser'.is_done <=> lex.kind = "TOK_EOF" \/ none
        BY <4>1, Zenon
      <4>. QED
        BY <4>2, Zenon
    <3>. QED
      BY <1>2, <3>1, Zenon
         DEF Eval!NextToken, Eval!Parser!fnmar_parser_next, Eval!Parser!LineStart,
             Eval!Parser!Pattern, Eval!Parser!PatternDelim, Eval!Parser!Command
  <2>. QED
    BY <2>1, <2>2, Zenon DEF Noted
<1>3. CASE ~Eval(name)!StartParser /\ ~Eval(name)!NextToken
  <2>1. parser' = parser /\ (at' = "load" => at = "load")
    BY <1>3, Zenon
       DEF Eval!Step, Eval!Load, Eval!NoMatches, Eval!IntoCstr, Eval!Fnmatch,
           Eval!RevertIntoCstr, Eval!SkipToken, Eval!StartCommand, Eval!FormatCommand,
           Eval!CommandReturns, Eval!Deinit, Eval!parserVars
  <2>. QED
    BY <2>1, Zenon DEF Noted
<1>. QED
  BY <1>1, <1>2, <1>3

LEMMA ToldInit == MainInit => Told
<1>. SUFFICES ASSUME MainInit PROVE Told
  OBVIOUS
<1>1. status = "start" /\ log_level_printed = "WARN" /\ said = {}
  BY Zenon DEF MainInit
<1>2. ~Eval(<< >>)!parser_zero.unexpected_token
  BY SMT DEF Eval!parser_zero
<1>3. Noted
  BY <1>2, Zenon DEF MainInit, Eval!Init, Noted
<1>. QED
  BY <1>1, <1>3, Levels, Zenon DEF Told, Results

\* What is not told of by a step: it leaves the log, the parser and the mistakes
\* in the command line as they are.
LEMMA NothingToTell ==
  ASSUME Told, UNCHANGED <<LOG, at, load, parser, report, fmt>>,
         ok' => ok \/ status' \notin {"start", "args"},
         "ERROR" \in said' <=> "ERROR" \in said,
         Telling => log_level_printed' \in DOMAIN log_level \ {"FATAL"},
         \/ status' \notin {"start", "args", "evaluate"} \cup Results
         \/ status' \in {"start", "args"} /\ status \in {"start", "args"}
         \/ status' \in {"evaluate"} \cup Results /\ status \in {"evaluate"} \cup Results
  PROVE  Told'
<1>1. /\ Telling' <=> Telling
      /\ Noted' /\ (Eval(<< >>)!Aborted' <=> Eval(<< >>)!Aborted)
      /\ DOMAIN log_level' = DOMAIN log_level
  BY Zenon DEF Told, Telling, Noted, Named, Eval!Aborted, Eval!Parser!AssertFails, log_level
<1>. QED
  BY <1>1, Zenon DEF Told, Results

LEMMA ToldOfRun == MainIInv /\ Told /\ RunEvaluate => Told'
<1>. SUFFICES ASSUME MainIInv, Told, RunEvaluate PROVE Told'
  OBVIOUS
<1>1. status = "evaluate" /\ UNCHANGED <<status, LOG, log_level_printed>>
  BY Zenon DEF RunEvaluate, environment
<1>2. PICK name : Eval(name)!Step
  BY Zenon DEF RunEvaluate
<1>3. Noted' /\ (parser.unexpected_token => parser'.unexpected_token)
  BY <1>2, NotedStays, Zenon DEF Told
<1>4. PICK failed \in {{}, {"WARN"}} : said' = said \cup Shown(log_level_printed, EvaluateLogs \cup failed)
  BY Zenon DEF RunEvaluate, klog
<1>5. "ERROR" \in EvaluateLogs <=> parser'.unexpected_token /\ ~Eval(<< >>)!Aborted'
  BY Zenon DEF EvaluateLogs
<1>6. ("ERROR" \in EvaluateLogs \cup failed) <=> "ERROR" \in EvaluateLogs
  BY <1>4, Zenon
<1>7. (Telling' <=> Telling) /\ DOMAIN log_level' = DOMAIN log_level
  BY <1>1, Zenon DEF Telling, Named, log_level
<1>8. ASSUME Telling
      PROVE  "ERROR" \in said' <=> "ERROR" \in said \/ "ERROR" \in EvaluateLogs
  <2>1. log_level_printed \in DOMAIN log_level \ {"FATAL"}
    BY <1>8, Zenon DEF Told
  <2>. QED
    BY <1>4, <1>6, <2>1, ErrorsShown, Zenon
<1>9. Telling => ("ERROR" \in said => parser.unexpected_token)
  BY <1>1, Zenon DEF Told
<1>. QED
  BY <1>1, <1>3, <1>5, <1>7, <1>8, <1>9, Zenon DEF Told

LEMMA ToldInductive == MainIInv /\ CallIInv /\ Told /\ [MainNext]_mainVars => Told'
<1>. SUFFICES ASSUME MainIInv, CallIInv, Told, [MainNext]_mainVars PROVE Told'
  OBVIOUS
<1>0. Telling => log_level_printed \in DOMAIN log_level \ {"FATAL"}
  BY Zenon DEF Told
<1>1. CASE log_setup_from_env
  <2>1. /\ status = "start" /\ status' = "args" /\ ok' = ok
        /\ UNCHANGED <<LOG, at, load, parser, report, fmt>>
    BY <1>1, Zenon DEF log_setup_from_env, vars, environment, evalVars
  <2>2. CASE ~Telling
    BY <2>1, <2>2, Zenon DEF Told, Telling, Noted, Named, Results
  <2>3. CASE Telling
    <3>1. /\ \/ LOG \in DOMAIN Named /\ log_level_printed' = Named[LOG] /\ said' = said
             \/ LOG = "unset" /\ log_level_printed' = log_level_printed
                /\ said' = said \cup Shown(log_level_printed, {})
      BY <1>1, <2>3, Zenon DEF log_setup_from_env, Telling, klog
    <3>2. LOG \in DOMAIN Named => Named[LOG] \in DOMAIN log_level \ {"FATAL"}
      BY <2>3, Levels, SMT DEF Telling, Named
    <3>3. log_level_printed' \in DOMAIN log_level \ {"FATAL"}
      BY <1>0, <2>3, <3>1, <3>2, Zenon
    <3>4. "ERROR" \in said' <=> "ERROR" \in said
      BY <3>1, Zenon DEF Shown
    <3>. QED
      BY <2>1, <3>3, <3>4, NothingToTell, Zenon
  <2>. QED
    BY <2>2, <2>3
<1>2. CASE cli_from_args
  <2>1. /\ status = "args" /\ status' = "args" /\ Step
        /\ UNCHANGED <<LOG, log_level_printed, at, load, parser, report, fmt>>
        /\ said' = said \cup Shown(log_level_printed, IF ok /\ ~ok' THEN {"ERROR"} ELSE {})
    BY <1>2, Zenon DEF cli_from_args, environment, evalVars, klog
  <2>2. CASE ok'
    <3>1. "ERROR" \in said' <=> "ERROR" \in said
      BY <2>1, <2>2, Zenon DEF Shown
    <3>. QED
      BY <1>0, <2>1, <2>2, <3>1, MistakeStays, NothingToTell, Zenon
  <2>3. CASE ~ok'
    <3>1. /\ Noted' /\ (Telling' <=> Telling) /\ DOMAIN log_level' = DOMAIN log_level
      BY <2>1, Zenon DEF Told, Noted, Telling, Named, log_level
    <3>. QED
      BY <1>0, <2>1, <2>3, <3>1, Zenon DEF Told, Results
  <2>. QED
    BY <2>2, <2>3
<1>3. CASE ArgsError \/ PrintHelp \/ MainReturns \/ MainAborts \/ UNCHANGED mainVars
  <2>1. /\ UNCHANGED <<LOG, log_level_printed, said, at, load, parser, report, fmt, ok>>
        /\ \/ status' \in {"ERR_ARGS", "exit(0)", "abort"}
           \/ status = "evaluate" /\ status' = err
           \/ status' = status
    BY <1>3, Zenon
       DEF ArgsError, PrintHelp, MainReturns, MainAborts, Exits, Parsed, vars, mainVars,
           environment, evalVars
  <2>2. err \in Results
    BY Zenon DEF MainIInv, Explained
  <2>. QED
    BY <1>0, <2>1, <2>2, NothingToTell, Zenon DEF Results
<1>4. CASE evaluate
  <2>1. /\ status = "args" /\ status' = "evaluate" /\ ok
        /\ UNCHANGED <<LOG, said, at, load, parser, report, fmt>>
        /\ log_level_printed' \in {log_level_printed, "DEBUG"}
    BY <1>4, Zenon DEF evaluate, Parsed, environment
  <2>2. /\ Noted' /\ (Telling' <=> Telling) /\ DOMAIN log_level' = DOMAIN log_level
    BY <2>1, Zenon DEF Told, Noted, Telling, Named, log_level
  <2>3. ~parser.unexpected_token
    BY <2>1, Zenon DEF CallIInv, Waiting, Eval!Init, Told, Noted
  <2>4. Telling => log_level_printed' \in DOMAIN log_level \ {"FATAL"}
    BY <1>0, <2>1, Levels, Zenon
  <2>. QED
    BY <2>1, <2>2, <2>3, <2>4, Zenon DEF Told, Results
<1>. QED
  BY <1>1, <1>2, <1>3, <1>4, ToldOfRun, Zenon DEF MainNext, Ended

THEOREM ToldInvariance == MainSpec => []Told
BY ToldInit, ToldInductive, MainInvariance, CallInvariance, PTL DEF MainSpec

-----------------------------------------------------------------------------
(* From the command line to the command.                                   *)

Held   == Stored(store, Opened)
Chosen == Run!Promise!FirstRule(Held, Matches(FileName))

\* The process runs no command but that of the first rule for the file that was
\* given, with its name in it, of the whole file that was given or else the
\* default one.  It succeeds exactly if it has run that, and says that there is
\* no such file or no such rule only if there is none; the log tells a malformed
\* file from one that has none, unless LOG forbids errors or is wrong itself.
Obeyed ==
  /\ ran # << >> \/ status \in Results =>
       call.filename # Unset /\ Value(call.filename) \in Seq(STRING)
  /\ ForName =>
       /\ ran # << >> => /\ Held \in Contents /\ Chosen # Run!Promise!Malformed
                         /\ ran = <<Run!Promise!Expand(Chosen.cmd, FileName)>>
       /\ status \in Results =>
            /\ status = "OK" <=> ran # << >>
            /\ status = "ERR_FILESYSTEM" <=> Held = NoFile
            /\ status = "ERR_NO_MATCHES" =>
                 /\ Held \in Contents /\ Chosen = Run!Promise!Malformed
                 /\ Telling => ("ERROR" \in said <=> ~Run!Promise!WellFormed(Held))

\* Once a command was run or evaluate() came to its end, what it has read is
\* the whole file, unless nothing was read.
LEMMA ReadWhole ==
  ASSUME Called, Knows, Whole, ran # << >> \/ at = "exit"
  PROVE  \/ Held \in Contents /\ Run!TextRead = Held /\ Run!TextRead # NoFile
         \/ Run!TextRead = NoFile /\ ran = << >> /\ err # "OK"
<1>1. Run!Loading /\ Run!Owning /\ Run!Ending
  BY Zenon DEF Knows, Run!IInv, Run!Finds
<1>2. at \in {"format", "deinit", "exit"}
  <2>1. at \in {"load", "parse", "token", "fnmatch", "revert", "format", "deinit", "exit"}
    BY Zenon DEF Knows, Run!IInv, Run!TypeOK
  <2>. QED
    BY <1>1, <2>1, Zenon DEF Run!Loading, Run!Owning
<1>3. CASE at \in {"deinit", "exit"} /\ buf = << >>
  <2>1. err \in {"ERR_FILESYSTEM", "ERR_OUT_OF_MEMORY"}
    BY <1>1, <1>3, Zenon DEF Run!Ending
  <2>2. ran = << >>
    BY <1>1, <1>3, <2>1, Zenon DEF Run!Owning, Run!Settled
  <2>. QED
    BY <1>3, <2>1, <2>2, Zenon DEF Run!TextRead
<1>4. CASE at = "format" \/ buf # << >>
  <2>1. buf # << >>
    BY <1>4, Zenon DEF Knows, Run!Finds, Run!Judging, Run!Reads
  <2>2. disk \in Contents /\ got = disk
    BY <1>2, <2>1, Zenon DEF Whole
  <2>3. Run!TextRead = got
    BY <2>1, Zenon DEF Run!TextRead
  <2>4. disk # NoFile
    BY <2>2, RunAssumptions, Zenon
  <2>. QED
    BY <2>2, <2>3, <2>4, Zenon DEF Called, Held
<1>. QED
  BY <1>2, <1>3, <1>4, Zenon

LEMMA CallObeys == MainIInv /\ CallIInv /\ Told => Obeyed
<1>0. CallIInv => (ran # << >> \/ status \in Results =>
                     call.filename # Unset /\ Value(call.filename) \in Seq(STRING))
  BY Zenon DEF CallIInv, Called
<1>. SUFFICES ASSUME MainIInv, CallIInv, Told, ForName
              PROVE  /\ ran # << >> => /\ Held \in Contents /\ Chosen # Run!Promise!Malformed
                                       /\ ran = <<Run!Promise!Expand(Chosen.cmd, FileName)>>
                     /\ status \in Results =>
                          /\ status = "OK" <=> ran # << >>
                          /\ status = "ERR_FILESYSTEM" <=> Held = NoFile
                          /\ status = "ERR_NO_MATCHES" =>
                               /\ Held \in Contents /\ Chosen = Run!Promise!Malformed
                               /\ Telling => ("ERROR" \in said <=> ~Run!Promise!WellFormed(Held))
  BY <1>0, Zenon DEF Obeyed
<1>1. Called /\ Knows /\ Whole
  BY Zenon DEF CallIInv, Called, ForName
<1>2. Run!Promise!Fulfilled
  BY <1>1, Zenon DEF Knows
<1>3. Run!Promise!Chosen = Run!Promise!FirstRule(Run!TextRead, Matches(FileName))
  BY Zenon DEF Run!Promise!Chosen
<1>4. ran # << >> => /\ Held \in Contents /\ Chosen # Run!Promise!Malformed
                     /\ ran = <<Run!Promise!Expand(Chosen.cmd, FileName)>>
  BY <1>1, <1>2, <1>3, ReadWhole, Zenon DEF Run!Promise!Fulfilled, Chosen
<1>5. ASSUME status \in Results
      PROVE  /\ status = "OK" <=> ran # << >>
             /\ status = "ERR_FILESYSTEM" <=> Held = NoFile
             /\ status = "ERR_NO_MATCHES" =>
                  /\ Held \in Contents /\ Chosen = Run!Promise!Malformed
                  /\ Telling => ("ERROR" \in said <=> ~Run!Promise!WellFormed(Held))
  <2>1. at = "exit" /\ status = err /\ disk = Held
    BY <1>1, <1>5, Zenon DEF Called, Held
  <2>2. Run!Result = err
    <3>1. ~Run!Aborted
      BY <1>1, <2>1, Run!Alive, RunAssumptions, Zenon DEF Knows
    <3>. QED
      BY <2>1, <3>1, Zenon DEF Run!Result
  <2>3. err \in Results
    BY <1>5, <2>1, Zenon
  <2>4. status = "OK" <=> ran # << >>
    BY <1>2, <2>1, <2>2, <2>3, Zenon DEF Run!Promise!Fulfilled, Results
  <2>5. status = "ERR_FILESYSTEM" <=> Held = NoFile
    BY <1>1, <2>1, Zenon DEF Called, NotFound
  <2>6. status = "ERR_NO_MATCHES" => Held \in Contents /\ Chosen = Run!Promise!Malformed
    BY <1>1, <1>2, <1>3, <2>1, <2>2, ReadWhole, Zenon DEF Run!Promise!Fulfilled, Chosen
  <2>7. ASSUME status = "ERR_NO_MATCHES"
        PROVE  parser.unexpected_token <=> ~Run!Promise!WellFormed(Held)
    <3>1. Run!TextRead = Held /\ Run!TextRead # NoFile
      <4>1. Run!TextRead # NoFile
        BY <1>2, <2>2, <2>1, <2>7, Zenon DEF Run!Promise!Fulfilled
      <4>. QED
        BY <1>1, <2>1, <4>1, ReadWhole, Zenon
    <3>2. /\ buf # << >> /\ got \in Run!Texts
          /\ parser.unexpected_token <=> ~Run!Reader!WellFormed(Run!Reader!Text)
      <4>1. Run!Ending /\ buf # << >>
        BY <1>1, <3>1, Zenon DEF Knows, Run!Finds, Run!TextRead
      <4>. QED
        BY <2>1, <2>7, <4>1, Zenon DEF Run!Ending
    <3>3. Run!Promise!WellFormed(Run!TextRead) <=> Run!Reader!WellFormed(Run!Reader!Text)
      BY <3>2, Run!TextIs, RunAssumptions, Zenon
    <3>. QED
      BY <3>1, <3>2, <3>3, Zenon
  <2>8. Telling /\ status = "ERR_NO_MATCHES" => ("ERROR" \in said <=> parser.unexpected_token)
    <3>1. ~Eval(<< >>)!Aborted
      <4>1. ~Run!Aborted
        BY <1>1, <2>1, Run!Alive, RunAssumptions, Zenon DEF Knows
      <4>2. \A name : Eval(name)!Aborted <=> Run!Aborted
        BY SameGroups, Zenon
      <4>. QED
        BY <4>1, <4>2, Zenon
    <3>. QED
      BY <1>5, <3>1, Zenon DEF Told
  <2>. QED
    BY <2>4, <2>5, <2>6, <2>7, <2>8, Zenon
<1>. QED
  BY <1>4, <1>5, Zenon

\* Whatever the command line, the files, the environment and fnmatch(), for
\* every name that evaluate() is called with.
THEOREM CommandLineObeyed == MainSpec => []Obeyed
BY CallObeys, MainInvariance, CallInvariance, ToldInvariance, PTL
=============================================================================
