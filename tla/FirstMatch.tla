----------------------------- MODULE FirstMatch -----------------------------
(***************************************************************************)
(* What fnmar promises: it reads the configuration file, finds the first   *)
(* rule with a pattern that matches the file name, and runs that rule's    *)
(* command, once, with the name in place of every '%'.  When it cannot, it *)
(* runs nothing and says why.                                              *)
(***************************************************************************)
EXTENDS ConfigGrammar

CONSTANTS
  Texts,      \* the texts that may be read of a configuration file
  Unread,     \* no text
  Filename,   \* the file name
  Matching    \* the patterns that match it

VARIABLES
  text,       \* the configuration file's text, once it is read
  ran,        \* the commands run
  outcome     \* "running", "aborted" or the error the program ends with

vars == <<text, ran, outcome>>

Chosen == FirstRule(text, Matching)

Init == text = Unread /\ ran = << >> /\ outcome = "running"

Read ==
  /\ outcome = "running" /\ text = Unread
  /\ text' \in Texts
  /\ UNCHANGED <<ran, outcome>>

Run ==
  /\ outcome = "running" /\ text # Unread /\ ran = << >>
  /\ Chosen # Malformed
  /\ ran' = <<Expand(Chosen.cmd, Filename)>>
  /\ UNCHANGED <<text, outcome>>

Report(error) == outcome = "running" /\ outcome' = error /\ UNCHANGED <<text, ran>>

Succeed    == ran # << >> /\ Report("OK")
CannotRead == text = Unread /\ \/ Report("ERR_FILESYSTEM")
                               \/ Report("ERR_OUT_OF_MEMORY")
NoMatch    == text # Unread /\ Chosen = Malformed /\ Report("ERR_NO_MATCHES")
CannotRun  == text # Unread /\ ran = << >> /\ Chosen # Malformed /\ Report("ERR_OUT_OF_MEMORY")

\* The crashes the code admits: over a file that shrinks while it is read, has
\* no size or cannot be read to its end, over the last token of a malformed
\* file, and for want of memory.
Abort ==
  /\ ran = << >>
  /\ text # Unread => Chosen # Malformed \/ ~WellFormed(text)
  /\ Report("aborted")

Next == Read \/ Run \/ Succeed \/ CannotRead \/ NoMatch \/ CannotRun \/ Abort

Spec == Init /\ [][Next]_vars

\* What it comes to: a command that was run is the chosen rule's, one is run
\* exactly if the outcome is success, and "no matches" means that there is none.
Fulfilled ==
  /\ ran # << >> => /\ text # Unread /\ Chosen # Malformed
                    /\ ran = <<Expand(Chosen.cmd, Filename)>>
  /\ outcome = "OK" => ran # << >>
  /\ outcome \notin {"running", "OK"} => ran = << >>
  /\ outcome = "ERR_NO_MATCHES" => text # Unread /\ Chosen = Malformed
=============================================================================
