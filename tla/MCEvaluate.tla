----------------------------- MODULE MCEvaluate -----------------------------
(* Model checking Evaluate on every file of at most MaxLen fragments.      *)
EXTENDS EvaluatePromise, SequencesExt

CONSTANTS Fragments, MaxLen

\* Fragments of rules, chosen so that a few of them make several rules.
Lines == { <<"m">>, <<";">>, <<":">>, <<"\n">>, <<"#">>, <<"NUL">>,
           <<"a", ":", "a", "\n">>, <<"m", ":", "a", "%", "%">> }

\* What an editor saves: nothing, half a rule, and a rule that matches.
MCSaves == { << >>, <<"m">>, <<"m", ":", "a", "%", "%">> }

MCFiles    == { FlattenSeq(s) : s \in UNION {[1 .. n -> Fragments] : n \in 0 .. MaxLen} }
MCFilename == <<"f", "i", "l", "e">>
MCMatching == { <<"m">> }
=============================================================================
