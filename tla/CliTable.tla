------------------------------ MODULE CliTable -------------------------------
(***************************************************************************)
(* The option table of lib/krs/krs_cliopt.{h,c}, shared by the parser      *)
(* (CliOpt) and the help output (CliHelp): what kind of argument an entry  *)
(* describes.  A string is a sequence of bytes, a whole option name        *)
(* standing for one byte; << >> is also the NULL of a name left out, and   *)
(* NUL the short_name of an option without one.                            *)
(***************************************************************************)
EXTENDS KrsStr

\* Seeded fault: the test is inverted.
InvertedExpectsArg(opt) == opt.kind = "BOOL"

expects_arg(opt)       == opt.kind \in {"STRING", "INT"}
is_positional_arg(opt) == opt.name # << >> /\ opt.name[1] # "-" /\ opt.short = NUL
is_long_arg(opt)       == Len(opt.name) > 2 /\ opt.name[1] = "-" /\ opt.name[2] = "-"

\* A table entry with neither name nor letter is a required positional.
Fixup(opt) == IF opt.name = << >> /\ opt.short = NUL
              THEN [opt EXCEPT !.name = <<opt.ident>>, !.required = TRUE]
              ELSE opt
=============================================================================
