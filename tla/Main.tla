-------------------------------- MODULE Main --------------------------------
(***************************************************************************)
(* main() of src/main.c, from the start of the process to its end: the log *)
(* level is taken from the environment (krs_log.c), the command line is    *)
(* parsed (CliOpt) with the option table of struct cli, and evaluate()     *)
(* (Evaluate) is called with what was found in it.                         *)
(***************************************************************************)
EXTENDS CliOpt

CONSTANTS
  Logs,              \* the values of the environment variable LOG
  Stores,            \* the states the file system may be in
  Stored(_, _),      \* the content of the file of a given name
  NoFile, Pipe, SIZE_MAX,
  Matches(_)         \* the patterns fnmatch() matches a file name with

VARIABLES
  LOG, store,
  log_level_printed, said,      \* krs_log: the level, and what was printed
  call,                         \* the arguments evaluate() was called with
  disk, edits, load, len, got, buf, parser, report, fmt, tail, cmd, ran,
  at, found_match, removed_char, heap, err,               \* see Evaluate
  status                        \* where main() is, or how the process ended

environment == <<LOG, store>>
evalVars    == <<disk, edits, load, len, got, buf, parser, report, fmt, tail, cmd, ran,
                 at, found_match, removed_char, heap, err>>
mainVars    == <<vars, environment, log_level_printed, said, call, evalVars, status>>

\* Nobody edits the configuration file here.
Eval(name) ==
  INSTANCE Evaluate WITH
    pc <- at, Filename <- name, Matching <- Matches(name), Missing <- NoFile,
    Files <- {}, Saves <- {}, MaxEdits <- 0

-----------------------------------------------------------------------------
(* The option table.                                                       *)

Cli(name, short, kind, ident, sufficient) ==
  [name |-> name, short |-> short, kind |-> kind, ident |-> ident,
   required |-> FALSE, sufficient |-> sufficient]

help     == 1
filename == 2
config   == 3
verbose  == 4

\* --help comes from cliopt_from_args_impl, the others from struct cli.
cli == << Cli(<<"-", "-", "help">>, "h", "BOOL", "help", TRUE),
          Cli(<< >>, NUL, "STRING", "filename", FALSE),
          Cli(<<"-", "-", "config">>, "c", "STRING", "config_filename", FALSE),
          Cli(<<"-", "-", "verbose">>, "v", "BOOL", "verbose", FALSE) >>

ASSUME TableAssumption == Options = cli

DEFAULT_CONFIG_FILENAME == <<"fnmar.txt">>

\* The names of files that a command line can hold, and what is in the files.
TailsOf(s) == {SubSeq(s, n, Len(s)) : n \in 1 .. Len(s) + 1}
Paths ==
  {DEFAULT_CONFIG_FILENAME}
    \cup UNION {UNION {TailsOf(a[k]) : k \in DOMAIN a} : a \in CommandLines}
Contents == {Stored(s, path) : s \in Stores, path \in Paths} \ {NoFile, Pipe}

\* They are files that fit into memory, and no text reads like a missing one.
ASSUME ContentsAssumption ==
  /\ SIZE_MAX \in Nat \ {0} /\ Pipe # NoFile
  /\ \A f \in Contents : f \in Seq(STRING) /\ Len(f) < SIZE_MAX
  /\ NoFile \notin Seq(STRING)

-----------------------------------------------------------------------------
(* The log.                                                                *)

log_level == [FATAL |-> 1, ERROR |-> 2, WARN |-> 3, INFO |-> 4, DEBUG |-> 5]
Named     == [critical |-> "FATAL", error |-> "ERROR", warn |-> "WARN",
              info |-> "INFO", debug |-> "DEBUG"]

\* klog: what is added to the log at a given level.
Shown(level, severities) == {s \in severities : log_level[s] <= log_level[level]}
klog(severities) == said' = said \cup Shown(log_level_printed, severities)

\* Seeded fault: a value of LOG that has no meaning turns the log off.
SetupSilences ==
  /\ status = "start"
  /\ log_level_printed' = IF LOG \in DOMAIN Named THEN Named[LOG] ELSE "FATAL"
  /\ said' = said
  /\ status' = "args"
  /\ UNCHANGED <<vars, environment, call, evalVars>>

log_setup_from_env ==
  /\ status = "start"
  /\ IF LOG \in DOMAIN Named
     THEN log_level_printed' = Named[LOG] /\ UNCHANGED said
     ELSE /\ klog(IF LOG = "unset" THEN {} ELSE {"ERROR"})
          /\ UNCHANGED log_level_printed
  /\ status' = "args"
  /\ UNCHANGED <<vars, environment, call, evalVars>>

\* Seeded fault: what the parser finds unexpected is not logged.
EvaluateLogsLess ==
  (IF err' = "ERR_OUT_OF_MEMORY" THEN {"FATAL"} ELSE {})
    \cup (IF err' = "ERR_NO_MATCHES" THEN {"WARN"} ELSE {})
    \cup (IF fmt = "run" THEN {"INFO"} ELSE {})

\* What a step of evaluate() logs.  The parser logs the error it reports, if
\* working out the position did not kill it.  A file that cannot be opened
\* is reported whatever the level.
EvaluateLogs ==
  (IF err' = "ERR_OUT_OF_MEMORY" THEN {"FATAL"} ELSE {})
    \cup (IF err' = "ERR_NO_MATCHES" THEN {"WARN"} ELSE {})
    \cup (IF parser'.unexpected_token /\ ~Eval(<< >>)!Aborted' THEN {"ERROR"} ELSE {})
    \cup (IF at' = "token" \/ at = "fnmatch" THEN {"DEBUG"} ELSE {})
    \cup (IF fmt = "run" THEN {"INFO"} ELSE {})

-----------------------------------------------------------------------------
NotCalled == [filename |-> Unset, config |-> Unset]

MainInit ==
  /\ Init
  /\ LOG \in Logs /\ store \in Stores
  /\ log_level_printed = "WARN" /\ said = {}
  /\ call = NotCalled
  /\ Eval(<< >>)!Init /\ disk = NoFile
  /\ status = "start"

\* Every mistake in the command line is logged.
cli_from_args ==
  /\ status = "args" /\ Step
  /\ klog(IF ok /\ ~ok' THEN {"ERROR"} ELSE {})
  /\ UNCHANGED <<environment, log_level_printed, call, evalVars, status>>

Exits(how) ==
  /\ status' \in how
  /\ UNCHANGED <<vars, environment, log_level_printed, said, call, evalVars>>

Parsed == status = "args" /\ pc = "done"

\* Seeded fault: the help is shown as soon as it is asked for.
HelpDespiteMistakes == Parsed /\ output[help] = True /\ Exits({"exit(0)", "abort"})

\* Both print to stdout, and may die for want of memory (see CliHelp).
\* cli_from_args does not return from the second.
ArgsError == Parsed /\ ~ok /\ Exits({"ERR_ARGS", "abort"})
PrintHelp == Parsed /\ ok /\ output[help] = True /\ Exits({"exit(0)", "abort"})

\* Seeded fault: the default is taken for an empty name, too.
DefaultIfEmpty ==
  IF call'.config = Unset THEN DEFAULT_CONFIG_FILENAME
  ELSE IF Value(call'.config) = << >> THEN DEFAULT_CONFIG_FILENAME
  ELSE Value(call'.config)

\* config_filename keeps its default if the option is not given.
config_filename ==
  IF call'.config = Unset THEN DEFAULT_CONFIG_FILENAME ELSE Value(call'.config)

evaluate ==
  /\ Parsed /\ ok /\ output[help] # True
  /\ call' = [filename |-> output[filename], config |-> output[config]]
  /\ disk' = Stored(store, config_filename)
  /\ IF output[verbose] = True THEN log_level_printed' = "DEBUG"
                               ELSE UNCHANGED log_level_printed
  /\ status' = "evaluate"
  /\ UNCHANGED <<vars, environment, said, edits, load, len, got, buf, parser, report, fmt,
                 tail, cmd, ran, at, found_match, removed_char, heap, err>>

\* A command that fails is logged, besides; its exit code is not returned.
RunEvaluate ==
  /\ status = "evaluate"
  /\ \E name \in {Value(call.filename)} : Eval(name)!Step
  /\ \E failed \in IF fmt = "run" THEN {{}, {"WARN"}} ELSE {{}} :
       klog(EvaluateLogs \cup failed)
  /\ UNCHANGED <<vars, environment, log_level_printed, call, status>>

MainReturns == status = "evaluate" /\ at = "exit" /\ Exits({err})
MainAborts  == status = "evaluate" /\ Eval(<< >>)!Aborted /\ Exits({"abort"})

Results == {"OK", "ERR_NO_MATCHES", "ERR_FILESYSTEM", "ERR_OUT_OF_MEMORY"}
Final   == Results \cup {"ERR_ARGS", "exit(0)", "abort"}
Ended   == status \in Final /\ UNCHANGED mainVars

MainNext == \/ log_setup_from_env \/ cli_from_args \/ ArgsError \/ PrintHelp
            \/ evaluate \/ RunEvaluate \/ MainReturns \/ MainAborts \/ Ended
MainSpec == MainInit /\ [][MainNext]_mainVars

-----------------------------------------------------------------------------
(* Properties.                                                             *)

\* The type invariant of main and of the calls it makes.
MainTypeOK ==
  /\ TypeOK
  /\ log_level_printed \in DOMAIN log_level /\ said \subseteq DOMAIN log_level
  /\ call.filename \in {Unset} \cup Pointers /\ call.config \in {Unset} \cup Pointers
  /\ \E name \in {<< >>} : Eval(name)!TypeOK
  /\ status \in {"start", "args", "evaluate"} \cup Final

(***************************************************************************)
(* assert(filename) (main.c:499): evaluate() is never called without one,  *)
(* although nothing in struct cli says that the file name is required.     *)
(***************************************************************************)
EvaluateHasAFile ==
  status = "evaluate" => call.filename \in Pointers

\* How an argument can have been read: as the value of an option, or the file
\* name; as "--"; by its name, with the value after it; as letters, which are
\* flags up to one that has a value.
IsValue(k) == \E j \in Opts : output[j] = Ptr(k, 0)
IsSplit(k) == argv[k] = <<"-", "-">>
ByName(k) ==
  LET n == name_length(argv[k])
  IN  \E j \in get_long(SubSeq(argv[k], 1, n)) :
        output[j] \in {True, IF n = Len(argv[k]) THEN Ptr(k + 1, 0) ELSE Ptr(k, n + 1)}
Flags(k, n) == \A m \in 2 .. n : \E j \in get_short(argv[k][m]) : output[j] = True
ByLetters(k) ==
  /\ argv[k] # << >> /\ argv[k][1] = "-"
  /\ \E n \in 1 .. Len(argv[k]) :
       /\ Flags(k, n)
       /\ \/ n = Len(argv[k])
          \/ \E j \in get_short(argv[k][n + 1]) :
               output[j] \in {Ptr(k, n + 1), Ptr(k, n + 2), Ptr(k + 1, 0)}
Accounted(k) == IsValue(k) \/ IsSplit(k) \/ ByName(k) \/ ByLetters(k)

\* There is a file name or --help, and every argument has been taken for something.
Correct ==
  /\ ok /\ (output[help] = True \/ output[filename] # Unset)
  /\ \A k \in 1 .. Len(argv) : Accounted(k)

(***************************************************************************)
(* A command line with a mistake anywhere in it, before or after --help,   *)
(* ends in ERR_ARGS: no file is opened, no help is shown and no command is *)
(* run unless there is a file name or --help, and every argument has been  *)
(* taken for something.  None is unknown or superfluous, none lacks its    *)
(* value, and none gives an option a second value.  (The outputs do not    *)
(* tell how often a flag was given.)                                       *)
(***************************************************************************)
MistakesComeFirst ==
  status \in {"exit(0)", "evaluate"} \cup Results \/ load # "open" \/ ran # << >> => Correct

(***************************************************************************)
(* A failure is explained, unless LOG asks for less than warnings: running *)
(* out of memory in any case, a bad command line and a file without a      *)
(* match if the level is WARN or more, as it is with a LOG that is not set *)
(* or makes no sense.  (A file that cannot be opened is always explained.) *)
(***************************************************************************)
NoSilentFailure ==
  /\ status = "ERR_OUT_OF_MEMORY" => "FATAL" \in said
  /\ LOG \notin {"critical", "error"} =>
       /\ status = "ERR_ARGS" => "ERROR" \in said
       /\ status = "ERR_NO_MATCHES" => "WARN" \in said
=============================================================================
