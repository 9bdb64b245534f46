------------------------------- MODULE CliHelp -------------------------------
(***************************************************************************)
(* cliopt_print_usage() and cliopt_print_help() of lib/krs/krs_cliopt.c.   *)
(* Both put texts together in growing strings, the second one string per   *)
(* option in two growing arrays, and print and free them at the end.  Any  *)
(* allocation may fail, and a text may be too long for its cstrbuf_snprintf.*)
(*                                                                         *)
(* What a function builds for one option is a script of calls.  A string   *)
(* is the last one of its array; `usage` is an array of one.  The layout   *)
(* of what is printed is left out.                                         *)
(***************************************************************************)
EXTENDS CliTable, CstrBuf, SequencesExt

CONSTANTS
  Tables,    \* option tables
  N          \* the room each cstrbuf_snprintf reserves

ASSUME NAssumption == N \in Nat \ {0}

VARIABLES
  table,     \* opts, as cliopt_parse_args leaves it
  fn,        \* which of the two functions is called
  script,    \* the calls still to be made
  lines,     \* the strings of each array
  cap,       \* the capacity of each array
  heap,      \* the live heap objects: arrays (0) and their strings
  printed,   \* what was printed
  ok,
  pc         \* "build", "deinit", "done", or how the process died

vars == <<table, fn, script, lines, cap, heap, printed, ok, pc>>

-----------------------------------------------------------------------------
(* The scripts.                                                            *)

SEP == "SEP"

Emplace(to)        == [call |-> "emplace", to |-> to, text |-> << >>]
Extend(to, text)   == [call |-> "extend", to |-> to, text |-> text]
Snprintf(to, text) == [call |-> "snprintf", to |-> to, text |-> text]
When(test, calls)  == IF test THEN calls ELSE << >>

Letter(opt) == <<"-", opt.short>>

\* Optional options are not in the usage line one by one.
UsageScript(opt) ==
  IF is_positional_arg(opt)
  THEN << Snprintf("usage", IF opt.required THEN opt.name \o <<" ">>
                            ELSE <<"[">> \o opt.name \o <<"]", " ">>) >>
  ELSE When(opt.required,
            << Snprintf("usage", (IF opt.short # NUL THEN Letter(opt) ELSE opt.name)
                                   \o <<" ">>) >>
              \o When(expects_arg(opt), << Snprintf("usage", opt.argname \o <<" ">>) >>))

HelpScript(opt) ==
  IF is_positional_arg(opt)
  THEN << Emplace("pos"), Extend("pos", opt.name), Snprintf("pos", <<SEP>> \o opt.help) >>
  ELSE << Emplace("opt") >>
         \o When(opt.short # NUL, << Snprintf("opt", Letter(opt)) >>)
         \o When(opt.short # NUL /\ opt.name # << >>, << Extend("opt", <<",", " ">>) >>)
         \o When(opt.name # << >>, << Extend("opt", opt.name) >>)
         \o When(expects_arg(opt), << Snprintf("opt", <<" ">> \o opt.argname) >>)
         \o << Snprintf("opt", <<SEP>> \o opt.help) >>

Script(f, tab) ==
  FlattenSeq([j \in DOMAIN tab |-> IF f = "usage" THEN UsageScript(tab[j])
                                                  ELSE HelpScript(tab[j])])

\* What the fixup leaves for an option that has no argname.
Defaults(opt) == [Fixup(opt) EXCEPT !.argname = IF @ = << >> THEN <<"VAL">> ELSE @]

Init ==
  /\ \E tab \in Tables : table = [j \in DOMAIN tab |-> Defaults(tab[j])]
  /\ fn \in {"usage", "help"}
  /\ script = Script(fn, table)
  /\ lines = [usage |-> <<cstrbuf_zero>>, pos |-> << >>, opt |-> << >>]
  /\ cap = [pos |-> 0, opt |-> 0]
  /\ heap = {}
  /\ printed = << >>
  /\ ok = TRUE
  /\ pc = "build"

-----------------------------------------------------------------------------
Building(call) == pc = "build" /\ script # << >> /\ Head(script).call = call

Succeed == pc' = "build" /\ UNCHANGED ok
Fail    == pc' = "deinit" /\ ok' = FALSE

Object(to, k) == <<to, k>>

\* A new line at the end of its array, with no buffer yet.
EmplaceLine ==
  /\ Building("emplace")
  /\ LET to == Head(script).to
     IN  \E c \in da_reserve(cap[to], Len(lines[to]) + 1) :
           IF c = 0
           THEN Fail /\ UNCHANGED <<lines, cap, heap>>
           ELSE /\ Succeed
                /\ cap' = [cap EXCEPT ![to] = c]
                /\ lines' = [lines EXCEPT ![to] = Append(@, cstrbuf_zero)]
                /\ heap' = heap \cup {Object(to, 0)}
  /\ script' = Tail(script)
  /\ UNCHANGED <<table, fn, printed>>

\* A call on the last string of an array, with one of the given outcomes.
OnLine(to, outcomes) ==
  /\ \E r \in outcomes :
       /\ lines' = [lines EXCEPT ![to] = Append(Front(@), r.buf)]
       /\ heap' = IF r.buf.cap > 0 THEN heap \cup {Object(to, Len(lines[to]))} ELSE heap
       /\ CASE r.result = "true"  -> Succeed
            [] r.result = "false" -> Fail
            [] OTHER              -> pc' = r.result /\ UNCHANGED ok
  /\ script' = Tail(script)
  /\ UNCHANGED <<table, fn, cap, printed>>

ExtendLine ==
  /\ Building("extend")
  /\ LET c == Head(script) IN OnLine(c.to, cstrbuf_extend(Last(lines[c.to]), c.text))

SnprintfLine ==
  /\ Building("snprintf")
  /\ LET c == Head(script) IN OnLine(c.to, cstrbuf_snprintf(Last(lines[c.to]), N, c.text))

\* printf is given usage.ptr, which is NULL if the string is still empty.
PrintUsage ==
  /\ pc = "build" /\ script = << >> /\ fn = "usage"
  /\ printed' = lines.usage
  /\ pc' = "deinit"
  /\ UNCHANGED <<table, fn, script, lines, cap, heap, ok>>

\* str_split_delims of a line by SEP; like strchr, it also splits at a NUL.
SplitLine(text) ==
  LET k == Min({j \in DOMAIN text : text[j] \in {SEP, NUL}})
  IN  [head |-> SubSeq(text, 1, k - 1), tail |-> SubSeq(text, k + 1, Len(text))]
Splits(text) == \E j \in DOMAIN text : text[j] \in {SEP, NUL}

\* Every line is split, first to measure it; an assertion says that it can be.
PrintHelp ==
  /\ pc = "build" /\ script = << >> /\ fn = "help"
  /\ LET all == lines.pos \o lines.opt
     IN  IF \A j \in DOMAIN all : Splits(all[j].text)
         THEN printed' = [j \in DOMAIN all |-> SplitLine(all[j].text)] /\ pc' = "deinit"
         ELSE pc' = "assert" /\ UNCHANGED printed
  /\ UNCHANGED <<table, fn, script, lines, cap, heap, ok>>

\* Seeded fault: the strings of an array go with the array.
ArraysOnly == {Object(to, 0) : to \in DOMAIN lines} \cup {Object("usage", 1)}

\* What the loops and da_deinit at the end of the two functions free.
Owned == UNION {{Object(to, k) : k \in 0 .. Len(lines[to])} : to \in DOMAIN lines}

Deinit ==
  /\ pc = "deinit"
  /\ heap' = heap \ Owned
  /\ pc' = "done"
  /\ UNCHANGED <<table, fn, script, lines, cap, printed, ok>>

Returned == pc \notin {"build", "deinit"} /\ UNCHANGED vars

Step == EmplaceLine \/ ExtendLine \/ SnprintfLine \/ PrintUsage \/ PrintHelp \/ Deinit
Next == Step \/ Returned
Spec == Init /\ [][Next]_vars

-----------------------------------------------------------------------------
(* Properties.                                                             *)

\* The lengths of the texts that are formatted, and not just appended.
Lengths == {Len(c.text) : c \in {d \in Range(Script(fn, table)) : d.call = "snprintf"}}

\* The type invariant: every string and its terminator fit its buffer.
TypeOK ==
  /\ fn \in {"usage", "help"} /\ ok \in BOOLEAN
  /\ pc \in {"build", "deinit", "done", "crash", "undefined", "assert"}
  /\ \A to \in DOMAIN lines : \A k \in DOMAIN lines[to] :
       LET b == lines[to][k] IN IF b.cap = 0 THEN b.text = << >> ELSE Len(b.text) < b.cap
  /\ \A to \in DOMAIN cap : Len(lines[to]) <= cap[to]

(***************************************************************************)
(* Wherever an allocation fails, the functions return with nothing left on *)
(* the heap, and with nothing printed of a text that is not complete.      *)
(***************************************************************************)
CleanReturn == pc = "done" => heap = {} /\ (printed = << >> <=> ~ok)

(***************************************************************************)
(* The help has one line for every option, positionals first and otherwise *)
(* in the order of the table: taking the lines apart again at the          *)
(* separator gives the label and the help text they were made of, if none  *)
(* of these is longer than what is reserved for it.                        *)
(***************************************************************************)
Label(opt) ==
  IF is_positional_arg(opt) THEN opt.name
  ELSE When(opt.short # NUL, Letter(opt))
         \o When(opt.short # NUL /\ opt.name # << >>, <<",", " ">>)
         \o opt.name \o When(expects_arg(opt), <<" ">> \o opt.argname)

HelpIsComplete ==
  fn = "help" /\ pc = "done" /\ ok /\ (\A n \in Lengths : n < N) =>
    LET order == SelectSeq(table, is_positional_arg)
                   \o SelectSeq(table, LAMBDA opt : ~is_positional_arg(opt))
    IN  printed = [j \in DOMAIN order |-> [head |-> Label(order[j]), tail |-> order[j].help]]

(***************************************************************************)
(* No string is read past what was written: not by the assertion at the    *)
(* end of cstrbuf_snprintf, unless the text was longer than the room asked *)
(* for; not for a separator, which every line has even if it was cut off;  *)
(* and not through the NULL of a string with no text, which printf gets    *)
(* only for a table with nothing positional or required, unlike fnmar's.   *)
(***************************************************************************)
UndefinedOnlyIfTooLong == pc = "undefined" => \E n \in Lengths : n > N
LinesSplit             == pc # "assert"
UsageHasText ==
  fn = "usage" /\ printed # << >> /\ printed[1].cap = 0 =>
    \A j \in DOMAIN table : ~is_positional_arg(table[j]) /\ ~table[j].required

StringsOK == TypeOK /\ UndefinedOnlyIfTooLong /\ LinesSplit /\ UsageHasText
=============================================================================
