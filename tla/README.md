# A verification project for fnmar

`fnmar` ("File Name MAtch and Run") is a C program that reads a configuration
file of rules, `patterns : command`, finds the first rule with a pattern that
matches the file name on its command line, and runs that rule's command with
the name in place of every `%`. This directory holds TLA+ models of it, the TLC
configurations that check them on small instances, and proofs, checked by
TLAPS, of what holds for every instance.

Paths below are relative to the repository. `PROJECT.json` maps every
definition to the lines it translates.

## The system

The program is one sequential process. What makes it hard is not threads but

* a hand-written parser whose lexers hand each other views of one buffer, that
  is at times patched in place;
* memory that can run out at any allocation, and cleanup code for each case;
* a configuration file that others may rewrite while it is being read;
* a command-line parser in which the meaning of an argument depends on those
  before it;
* sizes computed in `size_t`, from a `ftell` that may fail and capacities that
  may be near the end of the address space.

| Part | Source | State | Operations | What makes it correct |
|---|---|---|---|---|
| string views | `lib/krs/krs_str.{h,c}` | none; views of one buffer | split, trim, patch a terminator in and back | views stay in the buffer, nothing is lost between head and tail |
| configuration parser | `src/main.c:89-441` | `struct fnmar_parser`: state, token, unread tail, two flags | `fnmar_parser_start`, `fnmar_parser_next` with four lexers | reads every byte once, accepts exactly the rules, ends, reports the right place |
| configuration loading | `src/main.c:45-87` | the buffer, the file on disk | open, measure, allocate, read | a terminated text or an error, never both, never a leak; every byte from the file, all of them unless it is edited |
| growing string | `krs_str.c:158-234`, `krs_str.h:141-179` | ptr, len, cap | extend, reserve, snprintf, free | text and terminator fit; a failure changes nothing |
| dynamic array, vector | `krs_dynamic_array.c`, `krs_vec.inc.h` | ptr, len, cap, all `size_t` | reserve, extend, append, push, pop | no size wraps unnoticed; growth ends, and is in proportion |
| command formatting | `src/main.c:443-492` | the command so far, the rest of its pattern | extend piece by piece, `system()` | the whole command is run, or none |
| `evaluate()` | `src/main.c:494-555` | `found_match`, the parser, the text | load, parse, `fnmatch`, run, free | the first matching rule's command, once; no leak |
| command-line parser | `lib/krs/krs_cliopt.{h,c}` | `i`, `positional_only`, `used` flags, outputs | positionals, clusters of letters, long options, `--`, missing check | every element of `argv` has one meaning; ok means complete |
| help and usage output | `krs_cliopt.c:233-513` | two arrays of growing strings | build a line per option, print, free | every option has its line; no leak on any failure |
| log | `krs_log.{h,c}` | the level | set from `LOG`, set by `--verbose`, print | a failure is explained, unless that was declined |
| `main()` | `src/main.c:557-608`, `main_prexy.h` | `struct cli` | log setup, options, help, `evaluate()` | the command that was meant is run, from the file that was meant |
| `krs_span` | `lib/krs` | | | not modelled: not used by fnmar |
| `prexy`, types, build files | `lib/krs/prexy.h`, ... | | | not modelled: no behaviour at run time |

How they interact: `main()` calls `cli_from_args()`, which calls
`cliopt_parse_args()` and ends the process itself for `--help`; then
`evaluate()`, which owns the text. The parser holds views of that text, and its
tokens are views too. `evaluate()` patches a terminator behind a pattern token
for `fnmatch()` and puts the old byte back before it calls the parser again;
a command token is passed to `format_and_run()`, which builds a string of its
own. There are no callbacks, and the only state shared with another process is
the configuration file.

The hazards of this code, each at its line with the properties that look for
it, are listed in `PROJECT.json` under `hazards`.

## Modules

| Module | Models | Correspondence |
|---|---|---|
| `KrsStr` | string views | a view is `[ptr, len]` with `ptr` an offset into the buffer; the literal `""` and `NULL` are negative pointers; a byte is a one-character string and `"NUL"` the byte zero |
| `FnmarParser` | the parser | `parser` is the struct, `report` what it logs; one action per parser state, each the whole of one call of `fnmar_parser_next`: lexer, transition, `is_done`, diagnostics. `Transition` is the `switch` of `src/main.c:341-416` as a table |
| `ConfigGrammar` | (reference) | what a configuration file means, on the text as a whole: its rules from each position on, as one recursive function; shares nothing with the lexers |
| `FnmarParserGrammar` | (promise) | `FnmarParser`, and what it promises by `ConfigGrammar` |
| `ConfigFile` | `cstrbuf_init_from_file` | one action per library call, and one per byte that `fread` takes (`got`), since it makes as many reads as it likes; a read may end early, at the end of the file or by an error; `Edit` is another process that rewrites the file, between any two reads; a pipe is a file whose size is `SIZE_MAX` |
| `CstrBuf` | `cstrbuf`, growth policy | operators: the set of outcomes of each function, on natural numbers |
| `DynArray` | `da_reserve_`, `da_extend_*`, `krs_vec` | the same growth modulo `SIZE_MAX + 1`, one action per turn of the growth loop; an array is where its elements lie, not what they are |
| `FormatAndRun` | `format_and_run` | called with any text and any view `cmd_pattern` of it without a NUL; one action per extension, `system()` and the cleanup; every extension that needs memory may fail |
| `Expansion` | (reference) | what a command stands for: the file name for every `%` |
| `Evaluate` | `evaluate()` | composes the three modules above over shared variables (`INSTANCE`); one action per statement that changes state |
| `FirstMatch` | (abstract) | what fnmar promises: read, run the first match's command once, or say why not |
| `EvaluatePromise` | (promise) | `Evaluate` as `FirstMatch`: the refinement mapping |
| `CliTable` | `struct cliopt_meta`, the fixup | operators on one entry of the option table |
| `CliOpt` | `cliopt_parse_args` | one action per turn of the argument loop or of the inner loop over a cluster; a pointer into `argv` is `[arg, off]`; a string is a sequence whose bytes may stand for whole option names |
| `CliHelp` | `cliopt_print_usage`, `cliopt_print_help` | what is built for one option is a script of calls on growing strings, each of which may fail; one action per call, the printing loops, and the cleanup |
| `Main` | `main()`, `cli_from_args`, `krs_log` | `CliOpt` with fnmar's table, and `Evaluate` from its call to its return (`Eval(name) == INSTANCE Evaluate WITH ...`, the file name being known only then); `said` is the set of severities printed |
| `MC*` | | give the constants small values, and state the properties that need a reference definition |
| `*Proofs` | | theorems about the module of that name (`KrsStrProofs` about `KrsStr` and `CstrBuf`), see below |

An assertion of the code that fails ends the process: asserts are compiled in,
since the standard build of the project README does not define `NDEBUG`. It is a
state of the model (`report = AssertFails`, `load = "abort"`, `fmt = "crash"`,
`pc = "abort"`, `pc = "assert"`), so the properties say whether it is reached.

Outside the modules: `fnmatch()` is the membership of the pattern's bytes, as
read up to the first NUL, in a set `Matching`; `system()` appends to `ran` and
its exit status is ignored, as in the code; `strtoll()` is the set `Numerals`;
`isspace()` is the set `Space`, in which `"\t"` stands for tab, vertical tab and
form feed. File contents are arbitrary, NUL bytes included.

Definitions under a comment "Seeded fault" are not part of the model. Each is
what a definition next to it would be after a plausible mistake in the code
(a dropped guard, an off-by-one, a missing cleanup). Put in its place, it makes
TLC report the property that `PROJECT.json` pairs it with under `mutants`.

## Runs

`tlc -config X.cfg M`; none of the passing ones takes much more than a minute.

| Run | Configuration | Bounds | Shows |
|---|---|---|---|
| `parser` | `MCFnmarParser` | every file of up to 5 bytes over `a ; : # space newline NUL` | views in bounds, no byte dropped, tokens well-formed, `AcceptsExactlyTheGrammar`, reported line, `Progress` |
| `parser_assert` | `MCFnmarParserAssert` | up to 4 bytes | finding: `find_file_pos` asserts on a file that ends in a misplaced separator |
| `config_file` | `MCConfigFile` | contents of up to 4 bytes, all different, up to 2 rewrites between any two bytes, a read error at any, a pipe, no file | ownership; every byte of the text is one the file held at that place (`BytesInPlace`); it is the whole file unless somebody edits it, and no pipe is taken for a file (`WholeUnlessEdited`) |
| `config_file_assert` | `MCConfigFileAssert` | same | finding: `assert(bytes_read == len)` |
| `format_and_run` | `MCFormatAndRun` | every command of up to 5 bytes over `a space %`, failure at each allocation | text fits, `NothingLost`, `AllOrNothing` |
| `format_and_run_assert` | `MCFormatAndRunAssert` | same | finding: NULL dereference in the assertion after a failed first allocation |
| `evaluate` | `MCEvaluate` | up to 3 of 8 fragments of rules, one rewrite between any two reads | implements `FirstMatch`; the patch is invisible and in bounds; clean exit; always returns |
| `dyn_array` | `MCDynArray` | `size_t` of 6 bits; bytes up to the end of the address space, and elements of 1 and 2 bytes in a third of it | `ArrayOK`: sizes never wrap unnoticed, there is room for what was asked for; the capacity is the one `CstrBuf` computes; growth is in proportion and ends |
| `cliopt` | `MCCliOpt` | up to 4 of 13 arguments; a table with two positionals, integers, required options | pointers in bounds, no element read twice, order of positionals, `--`, completeness, termination |
| `help` | `MCCliHelp` | every table of up to 3 of 7 shapes of options, and fnmar's with 7 more; room for 6 bytes instead of 200 | complete and clean help, or none; what a text that is too long does |
| `main` | `MCMain` | every pair of 47 odd arguments; 4 file names, 6 configuration names, every style and order of writing them, with 5 values of `LOG` and 5 states of the file system | help and `evaluate()` only on a command line every argument of which is accounted for (`MistakesComeFirst`); `Delivers` from the command line to the command run; `NoSilentFailure`, `TellsApart` |
| `main_comment` | `MCMainComment` | same | finding: the comment on the missing-argument check says the opposite of the code |

`StringsOK` of `CliHelp` and `ArrayOK` of `DynArray` are conjunctions of parts
with a name and a comment of their own. `MainTypeOK` includes the type
invariants of `CliOpt`, `Evaluate` and `FormatAndRun`.

Why the bounds are enough. The parser's behaviour depends on a byte's class
only, and every class is in the alphabet except carriage return and tab, which
differ from newline and space only in the line count and after a `:`. Every pair
of consecutive lexer calls happens in a file of 3 bytes, and a whole rule with a
comment or a second rule's beginning in 5. The theorems below cover every
length. `evaluate` uses whole rules as fragments, so that 3 of them are enough
for a rule that does not match, then one with two patterns or an error after the
match. An editor saves nothing, half a rule or a rule that matches, so that the
file shrinks, grows, is cut off, and is read as part of one content and part of
another. Capacity growth in `format_and_run` happens at 8 and 12 bytes, which 5
`%` with a name of 4 bytes exceed. Two rewrites are enough to shrink a file and
to grow it back, and to mix three contents in a text of 4 bytes; what is saved
has no byte in common with what was there, so that a byte tells which content
and which place it comes from. Six bits let an array of bytes grow through five
capacities, past `CAP_LIMIT`, to where the next one would wrap; the arithmetic
is the same for any width (`SIZE_MAX` is a constant). In `help` texts of one
byte less than the room, of exactly the room and of one more tell apart the
three outcomes of `cstrbuf_snprintf`; the longer table makes the array of lines
itself be reallocated. Four arguments let an option with a separate value, `--`
and two positionals meet.

What the environment is assumed to do. In `DynArray` (`RequestAssumption`) the
array and what is added to it are in memory at the same time and together take
at most two thirds of the address space; or else it is an array of bytes to
which at most half of `MIN_CAP` are added at a time. Without that a sum of
lengths wraps; no 64-bit system can violate it. An element is no larger than an
eighth of the address space (`KindsAssumption`): the first allocation, of
`MIN_CAP` elements, is made without a check. In `Main` the file system does not
change while the process runs; `evaluate` and `config_file` cover the case that
it does.

Fairness. `evaluate`, `cliopt` and `dyn_array` assume weak fairness of the
program's own step, and of nothing else: a sequential process that can take a
step is eventually run by the operating system, `fnmatch` and `system` return,
and whoever writes to a pipe closes it. In `dyn_array` that is the steps of a
call under way; nobody has to make calls. The editor that rewrites the file is
not fair, and the number of its rewrites is bounded by `MaxEdits`; the program
reads the file once, so further rewrites change nothing. `CHECK_DEADLOCK` is on
everywhere: a state in which the process has ended stutters explicitly, so a
state in which `main()` waits for a call that never returns would be reported.

## Proofs

Each `*Proofs` module states its inductive invariant (`IInv`), one lemma per
action that the action preserves it, and the theorems that follow. Where the
runs can reach it, TLC checked the invariant before it was proved.

| Module | Proves | For every |
|---|---|---|
| `KrsStrProofs` | contracts of split, trim, `extend`, `reserve`, `snprintf`; the growth loop ends after finitely many rounds | buffer, view, string |
| `FnmarParserProofs` | `TypeOK`, `TailIsSuffix`, `TokensWellFormed`, `AbortsOnlyAtFinalDelim`, `ReportedLine`, `AcceptsExactlyTheGrammar`; `Progress`, `ReadsEveryByte` | file |
| `ConfigFileProofs` | `OwnedIffOK`, `BytesInPlace`, `WholeUnlessEdited` | file, number and place of rewrites and read errors, `SIZE_MAX` |
| `FormatAndRunProofs` | `CmdFits`, `NothingLost`, `AllOrNothing` | text, command, file name |
| `EvaluateProofs` | `PatchInBounds`, `PatchIsInvisible`, `CleanExit`; `CmdFits` and `AllOrNothing` in the composition; `KeepsPromise`, the refinement of `FirstMatch`, and what it comes to | file, file name, `fnmatch()` |
| `DynArrayProofs` | `ArrayOK`, `GrowsInProportion`, `AgreesWithCstrBuf` | `SIZE_MAX`, size of element, sequence of calls |
| `CliOptProofs` | `TypeOK`, `NeverSetTwice`, `NoElementReadTwice`, `PositionalsInOrder`, `OkMeansComplete`, `SplitIsFinal` | option table, command line |
| `MainProofs` | `EvaluateHasAFile`, `MistakesComeFirst`, `NoSilentFailure`, `MainTypeOK`; `Obeyed`, from the command line to the command | command line, environment, file system, `fnmatch()` |

### Views and growing strings

The view operators are defined with `CHOOSE`, not with recursion; their
contracts (`SplitContract`, `TrimContract`) rest on the least and greatest
elements of finite sets of naturals. The capacity that the growth loop arrives
at, `new_cap`, is a recursive function. That its equation has a solution
(`GrowthSolved`) is not enough, because where a capacity does not grow, any
value solves it. So `GrowthEnds` says that there is a run of the loop
(`Rounds`), from the capacity it starts with, each round growing one that is too
small, that ends after finitely many rounds, at `new_cap`; and `EnoughRoom` that
this is enough. `ExtendContract`, `ReserveContract` and `PrintContract` then say
that text and terminator fit after every outcome, the failures included.

### The parser

Each lexer has a contract (`LineStartContract`, `PatternContract`,
`DelimContract`, `CommandContract`): given an unread view it returns a token
whose bytes, with whitespace, cover exactly what was read, and an unread view
again. `ConsumeFacts` carries a contract through the transition table, and
`EveryStep` collects what every call does. The invariant adds to the stated ones
that the unread view is `Unread`: the literal `""`, or a view that ends where
the text with its trailing blanks removed ends, whose last byte, if any, is no
blank. Without the last part the induction fails: `parse_command` could find a
line with nothing but blanks up to the end of the text, return `TOK_NONE` with
the literal `""` as the rest, and the position that is then reported would be
that of no byte at all. For `ReportedLine`, the position passed to
`find_file_pos` is `Anchored`: there is a byte that is no blank at or before it,
with no newline in between. In `PS_COMMAND`, where there may be no such token,
that byte is the rule's `:` (`AfterColon`).

`AcceptsExactlyTheGrammar` relates a parser that goes on token by token to a
grammar that cuts rules out of the text as a whole. That the recursive function
`Rules` has a solution (`RulesEquation`) is proved by least counterexample, from
the end of the text. `Rest` says which rules are left where a parser in a given
state reads on: at the start of a line those from there on; in a header and
after its `:` also the rule at hand, with the patterns `pats` read of it so far.
`CallMeans` is what one call does to them: it takes a pattern or a whole rule off
what is left (`Left`), or nothing, or complains that what is left is malformed.
The invariant `Judged` then says that until the parser is done, the text is
well-formed exactly if what is left of it is.

### Loading

The properties speak of the end of a call, so the invariant says what the steps
before it know: that the measured length is the file's or the file has been
rewritten since (`Measured`), who owns the buffer and that nothing has been
returned yet (`InProgress`), and where the bytes taken so far come from
(`Taken`): from the file as it was at first and from what was saved since, each
from its own place, and from the file as it is if it was never rewritten. An
edit between two reads is why the text need not be any one content the file has
had; a read error is why it takes the assertion of `src/main.c:72` to keep part
of a file from being returned as a whole.

### Formatting and running

`NothingLost` says, at every step, that what was put together, followed by what
the rest of the command stands for, is what the whole command stands for. It is
preserved because a command cut at its first `%` means what its parts mean
(`ExpandSplit`), which follows from `SplitContract` and from `Expand` being a
homomorphism (`ExpandConcat`). `Expand` is a recursive function; that its
equation has a solution, and that it distributes over concatenation, is proved
by least counterexample.

### `evaluate()`

The proof is composed of the three above by `INSTANCE`. While the file is loaded
the loader's invariant holds (`Loading`), and what `FirstMatch` calls a text is
a mixture of the file's contents (`Mixtures`): the promise is about what was
read. From then on the parser's invariant holds, not of the buffer, which is
patched, but of `original`, the text as it was read (`Parsing`); `Patching` says
how the two differ: nowhere, or in the one byte that `removed_char` remembers.
While a command is formatted the invariant of `format_and_run` holds. Its
assumption about its argument, a view in the text without a NUL in it, is
established by `TokensSafe`, so `RunsItWhole` has no such assumption. `Settled`:
a call ends with `OK` and one command run, or with an error and none.

`KeepsPromise` needs to know besides what has been found (`Finds`). The rule
that `FirstMatch` chooses is the first hit in what is left of the rules, the
patterns read of the rule at hand included (`On`), and `found_match` is set
exactly if one of these matches (`Met`); so the command that is then formatted is
the chosen rule's (`Searching`). `Judging` carries the parser's `Judged` along,
and says that only a malformed file kills the parser; `Ending` says what each end
of a call means. Every step is then a stutter or the step of `FirstMatch` it
stands for (`StepPromised`): the loader's last step is `Read`, `system()` is
`Run`, the return is a report of the result, and a failed assertion is `Abort`.
`EvaluateFulfils` follows from `FirstMatch` alone: a command that was run is the
first matching rule's, one was run if the outcome is `OK` and none if it is
anything else, and `ERR_NO_MATCHES` means that there is no such rule.

### Arrays in `size_t`

The invariant is the chain of facts that keeps a wrapped size from going
unnoticed: the block is the array's and one that exists (`BlockOK`); the request
fits, so the target does not wrap; the loop has not passed half as much again as
the target, so the new size in bytes does not wrap (`GrowOK`). An array of bytes
that may fill the address space is there in one step of the loop. The bounds on
an element's size and on such an array's requests were found by the attempt:
without the first the size of the first block can wrap, and without the second
the loop can take a second step past the end.
`AgreesWithCstrBuf` needs the loop's invariant `LoopOK`: from the capacity
reached so far, the loop on natural numbers leads where it leads from the start.

### The command line

`ControlOK` says where the two loops are, `OutputsOK` how the `used` flags and
the outputs go together. The part that carries `NoElementReadTwice` is
`Below(output, Fresh)`: every value given out comes from before the element
being read, or from before the cluster whose letters are being read. A value
that is attached to its letter ends the cluster, so it may lie in that element.

That an integer option was given an integer when the caller is told ok
(`OkMeansComplete`) needs one more fact of every earlier state, that until a
mistake is found all of them were (`NumbersRead`); it is kept apart, because no
other property rests on it.

`MainProofs` uses the invariant for fnmar's table (`FnmarTable`), which has to
be checked entry by entry: `help` is its only sufficient option and `filename`
is required, so a command line that is accepted and does not ask for help names
a file (`FileNamed`). `MistakesFirst` needs more: `ReadSoFar` says that until a
mistake is found every argument before `Fresh` is accounted for, as a value, as
`--`, as the name of an option whose output shows it, or as a cluster of letters
whose outputs show them; and so are the letters read of a cluster under way. An
output that was set is not changed again, so what was accounted for stays so
(`AccountedStays`), and at the end `Fresh` is past the last argument. Of
`evaluate()` the properties about mistakes and failures need no more than which
results each step can leave (`ResultOfStep`).

`CommandLineObeyed` is about the whole process. The file name that `evaluate()`
is called with is known only at run time, while `EvaluateProofs` is about a
constant. So `MainProofs` has a constant `Name` of which nothing is assumed, and
what it says of the processes that call `evaluate()` with it (`ForName`) holds
for every one: a process makes at most one call. A step of `Eval(name)` is one
of `Run`, the instance of `EvaluateProofs` for that name (`SameStep`: operator
by operator the two are the same). The invariant `CallIInv` says that before the
call `evaluate()` is untouched, and that from then on the file that was opened
is the one that was named, or the default one, that it is read whole, since
nobody edits it here, and that what `EvaluateProofs` knows of a call holds.
`Told` ties the log to the parser: an error is logged exactly if there was an
unexpected token, as long as `LOG` makes sense and does not hide errors. Together
(`Obeyed`): the process runs nothing but the command of the first rule for the
file, with its name in it; it exits with `OK` exactly if it has run that, with
`ERR_FILESYSTEM` exactly if there is no such configuration file, with
`ERR_NO_MATCHES` only if no rule matches, and then the log shows an error exactly
if the file is malformed. `TypesOfMain` states `MainTypeOK` under the same
hypothesis about the name.

### Assumptions

TLC evaluates every one of them in each run that uses the module.

* A file is a sequence of bytes smaller than the address space
  (`FilesAssumption`, `SizeAssumption`, `SizesAssumption`), a file name is a
  sequence of bytes (`FilenameAssumption`), and the terminator is a byte
  (`ByteAssumption`, true of every string, but no prover knows it).
* The option table has the types of `struct cliopt_meta` and passes the debug
  checks of `cliopt_parse_args` (`OptionsAssumption`); in `Main` it is fnmar's
  (`TableAssumption`). The elements of `argv` are C strings
  (`CommandLinesAssumption`).
* No file reads like one that cannot be opened: `Missing`, which stands for
  that, is no sequence of bytes (`TextsAssumption`; `ContentsAssumption` in
  `Main`).
* What `DynArray` assumes is under Runs.
* `FormatAndRun!Init` takes a view that lies in the text and has no NUL.

### Only model-checked

* `MeansWhatItSays`, `Delivers`, `TellsApart`: they quantify over the ways a
  command line can be written (`want`), which only the run enumerates. What
  `Delivers` and `TellsApart` say is `CommandLineObeyed` with what was meant in
  place of the arguments of the call; that these are the same
  (`MeansWhatItSays`) is what only the run shows.
* `CleanReturn`, `HelpIsComplete`, `StringsOK` of `CliHelp`: its script is a
  sequence of calls flattened from nested ones, and what is still to be made of
  it would have to be related to every line printed.
* Liveness (`Returns`, `CallReturns`, `Terminates`), which is out of TLAPS's
  reach. For the parser, `ParserProgresses` is the safety half of termination:
  a natural number cannot decrease forever.


## Findings

1. `find_file_pos` (`src/main.c:259`) asserts that the position is inside the
   text, but is given the input after the unexpected token. A file whose last
   byte is a `;` or `:` where a pattern must stand aborts instead of being
   reported. `AbortsOnlyAtFinalDelim`, a theorem, says that nothing else does.
2. `cstrbuf_extend_cstrn` (`krs_str.c:206`) asserts on the text after a failed
   extension too, and dereferences NULL if that was the first.
3. `assert(bytes_read == len)` (`src/main.c:72`) fails for a file that has no
   size, such as a pipe, if the file shrinks while it is read, and upon a read
   error: the process aborts where it could report the error.
4. The comment at `krs_cliopt.c:754-756` says that the check passes if a
   required argument is *not* used.

Observations without a doc or an assertion to hold them against:

* the vector's `append` (`krs_vec.inc.h:146`) copies `n` bytes, not `n`
  elements. `ElementsIntact` says when that is harmless; fnmar has no vector;
* `cstrbuf_snprintf` (`krs_str.h:175`) adds the length that `snprintf` wanted to
  write. A text of 200 bytes leaves a NUL inside the line, and the help text is
  cut off there; with a longer one the assertion after it reads bytes nobody
  wrote. `StringsOK` says that this is the only case;
* `cstrbuf_reserve` (`krs_str.c:231`) dereferences NULL after a failed first
  allocation like `cstrbuf_extend_cstrn` does (`pc = "crash"` in `CliHelp`);
* `span_remove_left_n_` (`krs_span.c`) moves the pointer and leaves the length;
* with `LOG=critical` a file without a matching rule is not explained.

## Not modelled, and why

* The wording of log, usage and help, and the widths of their columns.
* `isspace()` on bytes over 127: undefined behaviour for a signed `char`; the
  models' bytes are ASCII.
* A directory in place of the configuration file: what `ftell` says of one is
  the file system's business.
* `VEC_OPT_INFALLIBLE`, `krs_span`, the debug printers, `da_at`: not used, or
  without state.
* The debug checks of the option table (`krs_cliopt.c:553-604`): they are the
  assumption `OptionsAssumption`.
* The Windows variant of `fnmatch`.

## Plan

Done, in this order: `KrsStr`, `FnmarParser` with its grammar and proofs,
`ConfigFile`, `FormatAndRun`, `Evaluate` with `FirstMatch`, `CliOpt`,
`CliHelp`, `DynArray`, and `Main`, which composes all but the two before it;
then the proofs about each of them but `CliHelp`.

Next:

1. `CliHelp`: `CleanReturn`, from an invariant that ties the heap to the lines
   and to the script still to run.
2. `MeansWhatItSays` for each way of writing an option, as a lemma about the
   turns of the argument loop that read it.
