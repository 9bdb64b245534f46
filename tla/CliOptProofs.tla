---------------------------- MODULE CliOptProofs ----------------------------
(***************************************************************************)
(* Proofs about CliOpt, for every option table that passes the debug       *)
(* checks of cliopt_parse_args, and every command line of C strings.       *)
(***************************************************************************)
EXTENDS CliOpt, KrsStrProofs

Char == STRING \ {NUL}

\* A pointer into an argument, up to and including its terminator.
InBounds(p) == p \in Pointers /\ p.off <= Len(argv[p.arg])

(***************************************************************************)
(* The inductive invariant.  Its parts say what the parser's loop relies   *)
(* on: where it is in a cluster, how `used` and the outputs go together,   *)
(* and that nothing from the element Fresh on has been given out as a      *)
(* value: in a cluster that is the element the letters come from.          *)
(***************************************************************************)
Fresh == IF pc = "cluster" THEN i - 1 ELSE i

ControlOK ==
  /\ argv \in Seq(Seq(Char))
  /\ i \in 1 .. Len(argv) + 1
  /\ positional_only \in BOOLEAN /\ ok \in BOOLEAN
  /\ pc \in {"args", "cluster", "done"}
  /\ arg = NoArg \/ InBounds(arg)
  /\ pc = "cluster" => /\ ok /\ ~positional_only
                       /\ InBounds(arg) /\ arg.arg = i - 1

\* What each option's output is, given that the option is used or not.
OutputOf(j) ==
  IF j \notin used THEN output[j] = Unset
  ELSE IF opts[j].kind = "BOOL" THEN output[j] = True
  ELSE InBounds(output[j])

\* No two options share a value.
Distinct ==
  \A j, k \in Opts : j # k /\ output[j] \in Pointers /\ output[k] \in Pointers
                       => output[j].arg # output[k].arg

OutputsOK == /\ used \subseteq Opts /\ DOMAIN output = Opts
             /\ \A j \in Opts : OutputOf(j)
             /\ Distinct
             /\ PositionalsInOrder

\* The outputs out are pointers to elements before n.
Below(out, n) == \A j \in Opts : out[j] \in Pointers => out[j].arg < n

\* What success says, but for the integers.
ReadToTheEnd ==
  pc = "done" /\ ok =>
    /\ i = Len(argv) + 1
    /\ \/ \E j \in Opts : opts[j].sufficient /\ output[j] # Unset
       \/ \A j \in Opts : opts[j].required => output[j] # Unset

IInv == ControlOK /\ OutputsOK /\ Below(output, Fresh) /\ ReadToTheEnd

-----------------------------------------------------------------------------
(* The operators of the model.                                             *)

\* The least element of a nonempty set of naturals.
LEMMA MinOfNaturals ==
  ASSUME NEW S \in SUBSET Nat, S # {}
  PROVE  Min(S) \in S /\ \A k \in S : Min(S) <= k
<1>1. PICK m \in S : \A k \in S : m <= k
  BY LeastNatural
<1>. QED
  BY <1>1, Zenon DEF Min

\* The table: its indices are numbers, and Fixup does not change the kinds.
LEMMA Table ==
  /\ Opts \subseteq Nat
  /\ \A j \in Opts : opts[j].kind \in {"BOOL", "STRING", "INT"}
<1>. DEFINE Meta == [name : Seq(STRING), short : STRING, ident : STRING,
                    kind : {"BOOL", "STRING", "INT"},
                    required : BOOLEAN, sufficient : BOOLEAN]
<1>1. Options \in Seq(Meta)
  BY OptionsAssumption, Zenon DEF OptionsAssumption
<1>2. ASSUME NEW o \in Meta PROVE Fixup(o).kind \in {"BOOL", "STRING", "INT"}
  <2>1. [o EXCEPT !.name = <<o.ident>>, !.required = TRUE].kind = o.kind
    BY SMT
  <2>2. Fixup(o).kind = o.kind
    BY <2>1, Zenon DEF Fixup
  <2>. QED
    BY <2>2, SMT
<1>. HIDE DEF Meta
<1>3. Opts \subseteq Nat /\ \A j \in Opts : Options[j] \in Meta
  BY <1>1, SMT DEF Opts
<1>4. \A j \in Opts : opts[j] = Fixup(Options[j])
  BY Zenon DEF opts, Opts
<1>. QED
  BY <1>2, <1>3, <1>4, Zenon

\* No positional is found by its letter or by its name.
LEMMA PositionalsApart ==
  /\ \A letter \in Char : get_short(letter) \cap positionals = {}
  /\ \A name : get_long(name) \cap positionals = {}
BY Zenon DEF Char, get_short, get_long, positionals, is_positional_arg, is_long_arg

\* What *p is: the rest of its argument.
LEMMA ValueIs ==
  ASSUME argv \in Seq(Seq(Char)), NEW p, InBounds(p)
  PROVE  /\ Value(p) = << >> <=> p.off = Len(argv[p.arg])
         /\ Value(p) # << >> => Head(Value(p)) \in Char
<1>. DEFINE a == argv[p.arg]
<1>1. a \in Seq(Char) /\ p.off \in 0 .. Len(a)
  BY SMT DEF InBounds, Pointers
<1>2. Value(p) = SubSeq(a, p.off + 1, Len(a))
  BY Zenon DEF Value
<1>. HIDE DEF a
<1>3. /\ Value(p) \in Seq(Char)
      /\ Len(Value(p)) = Len(a) - p.off
  BY <1>1, <1>2, SMT
<1>4. Value(p) # << >> => Head(Value(p)) \in Char
  BY <1>3, SMT
<1>5. Value(p) = << >> <=> p.off = Len(a)
  BY <1>1, <1>3, SMT
<1>. QED
  BY <1>4, <1>5 DEF a

\* The name an argument begins with is no longer than the argument.
LEMMA NameLength ==
  ASSUME NEW a \in Seq(Char)
  PROVE  name_length(a) \in 0 .. Len(a)
<1>. DEFINE S == {k \in 1 .. Len(a) : a[k] = "="} \cup {Len(a) + 1}
<1>1. Len(a) \in Nat
  BY SMT
<1>2. S \in SUBSET Nat /\ S # {} /\ S \subseteq 1 .. Len(a) + 1
  BY <1>1, SMT
<1>. DEFINE m == Min(S)
<1>3. m \in 1 .. Len(a) + 1
  BY <1>2, MinOfNaturals, Zenon
<1>4. name_length(a) = m - 1
  BY Zenon DEF name_length
<1>. HIDE DEF m
<1>. QED
  BY <1>1, <1>3, <1>4, SMT

\* The sentinels are no pointers.
LEMMA Sentinels == Unset \notin Pointers /\ True \notin Pointers /\ Unset # True
<1>1. Unset.arg = -1 /\ True.arg = -2
  BY SMT DEF Unset, True, Ptr
<1>2. \A p \in Pointers : p.arg >= 1
  BY SMT DEF Pointers
<1>. HIDE DEF Unset, True, Pointers
<1>. QED
  BY <1>1, <1>2, SMT

-----------------------------------------------------------------------------
(* What setting an option does to the outputs.                             *)

\* With the same argv, pointers point to the same places.
LEMMA SamePointers ==
  ASSUME argv' = argv
  PROVE  /\ Pointers' = Pointers
         /\ \A p : InBounds(p)' <=> InBounds(p)
         /\ \A p : Value(p)' = Value(p)
BY DEF Pointers, InBounds, Value

\* Nothing changes if no option is set.
LEMMA NothingSet ==
  ASSUME OutputsOK, argv' = argv, UNCHANGED <<used, output>>
  PROVE  OutputsOK' /\ \A n \in Int : Below(output, n) => Below(output', n)
<1>1. Pointers' = Pointers /\ \A p : InBounds(p)' <=> InBounds(p)
  BY SamePointers, Zenon
<1>2. Opts' = Opts /\ opts' = opts /\ positionals' = positionals
  BY DEF Opts, opts, positionals
<1>3. \A j \in Opts : OutputOf(j)'
  BY <1>1, <1>2, Zenon DEF OutputsOK, OutputOf
<1>4. Distinct' /\ PositionalsInOrder'
  BY <1>1, <1>2, Zenon DEF OutputsOK, Distinct, PositionalsInOrder
<1>5. \A n \in Int : Below(output, n) => Below(output', n)
  BY <1>1, <1>2, Zenon DEF Below
<1>. QED
  BY <1>2, <1>3, <1>4, <1>5, Zenon DEF OutputsOK

(***************************************************************************)
(* An unused option j is given p, a pointer to an element from `low` on.   *)
(* No other option has been given one of those yet, and if j is positional *)
(* those before it have been set.                                          *)
(***************************************************************************)
LEMMA OptionSet ==
  ASSUME ControlOK, OutputsOK, argv' = argv,
         NEW low \in Int, Below(output, low),
         NEW j \in Opts, j \notin used, NEW p, NEW next,
         opts[j].kind = "BOOL" \/ (InBounds(p) /\ low <= p.arg),
         \A k \in positionals : j \in positionals /\ k < j => k \in used,
         parse_arg_value(j, p, next)
  PROVE  /\ OutputsOK' /\ ok' \in BOOLEAN /\ pc' = next
         /\ opts[j].kind = "BOOL" => ok' /\ Below(output', low)
         /\ \A n \in Int : low <= n /\ p.arg < n => Below(output', n)
         /\ used' = used \cup {j}
<1>1. /\ used' = used \cup {j} /\ pc' = next
      /\ output' = [output EXCEPT ![j] = IF opts[j].kind = "BOOL" THEN True ELSE p]
      /\ ok' = (opts[j].kind = "INT" => strtoll_ok(Value(p)))
  BY Zenon DEF parse_arg_value
<1>2. ok' \in BOOLEAN /\ (opts[j].kind = "BOOL" => ok')
  <2>1. opts[j].kind = "BOOL" => opts[j].kind # "INT"
    BY Zenon
  <2>. QED
    BY <1>1, <2>1, Zenon DEF strtoll_ok
<1>3. /\ used \subseteq Opts /\ DOMAIN output = Opts /\ \A k \in Opts : OutputOf(k)
      /\ Distinct /\ PositionalsInOrder
  BY Zenon DEF OutputsOK
<1>4. Pointers' = Pointers /\ \A x : InBounds(x)' <=> InBounds(x)
  BY SamePointers, Zenon
<1>5. Opts' = Opts /\ opts' = opts /\ positionals' = positionals /\ positionals \subseteq Opts
  BY DEF Opts, opts, positionals
<1>6. /\ DOMAIN output' = Opts
      /\ output'[j] = IF opts[j].kind = "BOOL" THEN True ELSE p
      /\ \A k \in Opts : k # j => output'[k] = output[k]
  BY <1>1, <1>3, Zenon
<1>7. opts[j].kind # "BOOL" => InBounds(p) /\ p \in Pointers /\ low <= p.arg
  BY DEF InBounds
<1>8. \A k \in Opts : OutputOf(k)'
  BY <1>1, <1>3, <1>4, <1>5, <1>6, <1>7, Zenon DEF OutputOf
<1>9. output'[j] \in Pointers => output'[j] = p /\ low <= p.arg
  BY <1>6, <1>7, Sentinels, Zenon
<1>10. \A k \in Opts : k # j /\ output'[k] \in Pointers => output'[k].arg < low
  BY <1>6, Zenon DEF Below
<1>11. \A x \in Pointers : x.arg \in Int
  BY <1>4, SMT DEF ControlOK, Pointers
<1>. HIDE DEF Pointers
<1>12. Distinct'
  <2>1. ASSUME NEW k \in Opts, k # j, output'[k] \in Pointers, output'[j] \in Pointers
        PROVE  output'[k].arg # output'[j].arg
    BY <2>1, <1>9, <1>10, <1>11, SMT
  <2>2. ASSUME NEW k \in Opts, NEW l \in Opts, k # j, l # j, k # l,
               output'[k] \in Pointers, output'[l] \in Pointers
        PROVE  output'[k].arg # output'[l].arg
    BY <2>2, <1>3, <1>6, Zenon DEF Distinct
  <2>. QED
    BY <1>4, <1>5, <2>1, <2>2, Zenon DEF Distinct
<1>13. PositionalsInOrder'
  <2>1. ASSUME NEW k \in positionals, NEW l \in positionals, k < l, l \in used'
        PROVE  k \in used' /\ (l # j => k \in used /\ k # j)
    BY <2>1, <1>1, <1>3, Zenon DEF PositionalsInOrder
  <2>2. ASSUME NEW k \in positionals, j \in positionals, k < j,
               expects_arg(opts[k]), expects_arg(opts[j])
        PROVE  output'[k].arg < output'[j].arg
    <3>1. opts[k].kind # "BOOL" /\ opts[j].kind # "BOOL"
      BY <2>2 DEF expects_arg
    <3>2. k \in used /\ k \in Opts /\ k # j
      BY <2>2, <1>5, Zenon
    <3>3. output[k] \in Pointers
      BY <3>1, <3>2, <1>3, Zenon DEF OutputOf, InBounds
    <3>4. output'[k] = output[k] /\ output'[j] = p /\ low <= p.arg /\ p \in Pointers
      BY <3>1, <3>2, <1>6, <1>7, Zenon
    <3>. QED
      BY <3>2, <3>3, <3>4, <1>10, <1>11, SMT
  <2>3. ASSUME NEW k \in positionals, NEW l \in positionals, k < l, l \in used', l # j,
               expects_arg(opts[k]), expects_arg(opts[l])
        PROVE  output'[k].arg < output'[l].arg
    <3>1. l \in used /\ k # j /\ k \in Opts /\ l \in Opts
      BY <2>1, <2>3, <1>1, <1>5, Zenon
    <3>2. output[k].arg < output[l].arg
      BY <3>1, <2>3, <1>3, Zenon DEF PositionalsInOrder
    <3>. QED
      BY <3>1, <3>2, <2>3, <1>6, Zenon
  <2>. QED
    BY <1>5, <2>1, <2>2, <2>3, Zenon DEF PositionalsInOrder
<1>14. OutputsOK'
  BY <1>1, <1>3, <1>5, <1>6, <1>8, <1>12, <1>13, Zenon DEF OutputsOK
<1>15. opts[j].kind = "BOOL" => Below(output', low)
  BY <1>4, <1>5, <1>6, <1>10, Sentinels, Zenon DEF Below
<1>16. \A n \in Int : low <= n /\ p.arg < n => Below(output', n)
  <2>1. ASSUME NEW n \in Int, low <= n, p.arg < n, NEW k \in Opts, output'[k] \in Pointers
        PROVE  output'[k].arg < n
    <3>1. CASE k = j
      BY <2>1, <3>1, <1>9, Zenon
    <3>2. CASE k # j
      <4>1. output'[k].arg < low /\ output'[k].arg \in Int
        BY <2>1, <3>2, <1>10, <1>11, Zenon
      <4>. QED
        BY <2>1, <4>1, SMT
    <3>. QED
      BY <3>1, <3>2
  <2>. QED
    BY <2>1, <1>4, <1>5, Zenon DEF Below
<1>. QED
  BY <1>1, <1>2, <1>14, <1>15, <1>16, Zenon

-----------------------------------------------------------------------------
(* What an action has to show.                                             *)

LEMMA BelowGrows ==
  ASSUME ControlOK, NEW m \in Int, NEW n \in Int, m <= n, Below(output, m)
  PROVE  Below(output, n)
<1>1. \A x \in Pointers : x.arg \in Int
  BY SMT DEF ControlOK, Pointers
<1>. HIDE DEF Pointers
<1>. QED
  BY <1>1, SMT DEF Below

\* A step that goes back to the head of the loop.
LEMMA BackInLoop ==
  ASSUME ControlOK, argv' = argv, positional_only' \in BOOLEAN, ok' \in BOOLEAN,
         pc' = "args", i' \in 1 .. Len(argv) + 1, arg' = NoArg \/ arg' = arg,
         OutputsOK', Below(output', i')
  PROVE  IInv'
<1>1. \A p : InBounds(p)' <=> InBounds(p)
  BY SamePointers, Zenon
<1>2. arg' = NoArg' \/ InBounds(arg)'
  BY <1>1, Zenon DEF ControlOK, NoArg, Ptr
<1>3. ControlOK'
  BY <1>2, Zenon DEF ControlOK
<1>4. Fresh' = i' /\ ReadToTheEnd'
  BY Zenon DEF Fresh, ReadToTheEnd
<1>5. Pointers' = Pointers /\ Opts' = Opts
  BY SamePointers, Zenon DEF Opts
<1>6. Below(output, Fresh)'
  BY <1>4, <1>5, Zenon DEF Below
<1>. QED
  BY <1>3, <1>4, <1>6, Zenon DEF IInv

\* An option that is not refused exists, and was not given before.
LEMMA NotRefused ==
  ASSUME NEW matches \in SUBSET Opts, ~Refused(matches)
  PROVE  Min(matches) \in matches /\ Min(matches) \notin used
<1>1. matches \in SUBSET Nat /\ matches # {} /\ Min(matches) \notin used
  BY Table, Zenon DEF Refused
<1>. QED
  BY <1>1, MinOfNaturals, Zenon

\* The value of an option that is not positional is the next argument.
LEMMA SeparateArg ==
  ASSUME IInv, argv' = argv, NEW k \in 1 .. Len(argv) + 1, Fresh <= k,
         NEW j \in Opts, j \notin used, j \notin positionals, separate_arg(j, k)
  PROVE  /\ OutputsOK' /\ ok' \in BOOLEAN /\ pc' = "args"
         /\ i' \in k .. Len(argv) + 1 /\ Below(output', i')
<1>1. ControlOK /\ OutputsOK /\ Below(output, Fresh) /\ Fresh \in Int /\ Len(argv) \in Nat
  BY SMT DEF IInv, ControlOK, Fresh
<1>2. CASE k <= Len(argv)
  <2>. DEFINE p == Ptr(k, 0)
  <2>1. parse_arg_value(j, p, "args") /\ i' = k + 1
    BY <1>2, Zenon DEF separate_arg
  <2>2. p.arg = k /\ p.off = 0 /\ p \in Pointers /\ Len(argv[k]) \in Nat
    BY <1>1, <1>2, SMT DEF Ptr, Pointers, ControlOK
  <2>3. InBounds(p)
    BY <2>2, SMT DEF InBounds
  <2>. HIDE DEF p
  <2>4. /\ OutputsOK' /\ ok' \in BOOLEAN /\ pc' = "args"
        /\ \A n \in Int : Fresh <= n /\ p.arg < n => Below(output', n)
    BY <1>1, <2>1, <2>2, <2>3, OptionSet, Zenon
  <2>5. k + 1 \in Int /\ Fresh <= k + 1 /\ k < k + 1 /\ k + 1 \in k .. Len(argv) + 1
    BY <1>1, <1>2, SMT
  <2>. QED
    BY <2>1, <2>2, <2>4, <2>5, Zenon
<1>3. CASE ~(k <= Len(argv))
  <2>1. ok' = FALSE /\ pc' = "args" /\ UNCHANGED <<used, output>> /\ i' = k
    BY <1>3, Zenon DEF separate_arg, Fail
  <2>2. OutputsOK' /\ \A n \in Int : Below(output, n) => Below(output', n)
    BY <1>1, <2>1, NothingSet, Zenon
  <2>3. Below(output, k) /\ k \in Int /\ k \in k .. Len(argv) + 1
    <3>1. k \in Int /\ k \in k .. Len(argv) + 1
      BY <1>1, SMT
    <3>. QED
      BY <1>1, <3>1, BelowGrows, Zenon
  <2>. QED
    BY <2>1, <2>2, <2>3, Zenon
<1>. QED
  BY <1>2, <1>3

-----------------------------------------------------------------------------
(* The actions.                                                            *)

LEMMA InitInvariant == Init => IInv
<1>. SUFFICES ASSUME Init PROVE IInv
  OBVIOUS
<1>1. argv \in Seq(Seq(Char)) /\ Len(argv) \in Nat
  BY CommandLinesAssumption, SMT DEF CommandLinesAssumption, Init, Char
<1>2. ControlOK
  <2>1. 1 \in 1 .. Len(argv) + 1 /\ TRUE \in BOOLEAN /\ FALSE \in BOOLEAN
    BY <1>1, SMT
  <2>. QED
    BY <1>1, <2>1, Zenon DEF Init, ControlOK
<1>3. /\ used = {} /\ DOMAIN output = Opts
      /\ \A j \in Opts : output[j] = Unset /\ output[j] \notin Pointers
  BY Sentinels, Zenon DEF Init
<1>4. OutputsOK
  BY <1>3, Zenon DEF OutputsOK, OutputOf, Distinct, PositionalsInOrder
<1>5. Below(output, Fresh) /\ ReadToTheEnd
  BY <1>3 DEF Below, ReadToTheEnd, Init
<1>. QED
  BY <1>2, <1>4, <1>5, Zenon DEF IInv

LEMMA PositionalInvariant ==
  ASSUME IInv, Positional
  PROVE  IInv' /\ used' \ used \subseteq positionals
<1>1. /\ ControlOK /\ OutputsOK /\ Below(output, Fresh) /\ Fresh = i /\ pc = "args"
      /\ i \in 1 .. Len(argv) /\ i + 1 \in 1 .. Len(argv) + 1 /\ i \in Int
  BY SMT DEF IInv, ControlOK, Positional, InLoop, Fresh
<1>2. argv' = argv /\ positional_only' = positional_only /\ arg' = arg /\ i' = i + 1
  BY Zenon DEF Positional
<1>3. i + 1 \in Int /\ i <= i + 1 /\ i < i + 1
  BY <1>1, SMT
<1>4. CASE positionals \subseteq used
  <2>1. ok' = FALSE /\ pc' = "args" /\ UNCHANGED <<used, output>>
    BY <1>4, Zenon DEF Positional, Fail
  <2>2. OutputsOK' /\ Below(output', i + 1)
    BY <1>1, <1>2, <1>3, <2>1, NothingSet, BelowGrows, Zenon
  <2>3. IInv'
    BY <1>1, <1>2, <2>1, <2>2, BackInLoop, Zenon DEF ControlOK
  <2>. QED
    BY <2>1, <2>3, Zenon
<1>5. CASE ~(positionals \subseteq used)
  <2>. DEFINE S == positionals \ used
              j == get_next_positional
              p == Ptr(i, 0)
  <2>1. S \in SUBSET Nat /\ S # {} /\ positionals \subseteq Opts
    BY <1>5, Table, Zenon DEF positionals
  <2>2. j \in S /\ \A k \in S : j <= k
    BY <2>1, MinOfNaturals, Zenon DEF get_next_positional
  <2>3. j \in Opts /\ j \notin used /\ j \in positionals
    BY <2>1, <2>2, Zenon
  <2>4. \A k \in positionals : k < j => k \in used
    <3>1. \A k \in S : ~(k < j)
      BY <2>1, <2>2, SMT
    <3>. QED
      BY <3>1, Zenon
  <2>5. p.arg = i /\ p.off = 0 /\ p \in Pointers /\ Len(argv[i]) \in Nat
    BY <1>1, SMT DEF Ptr, Pointers, ControlOK
  <2>6. InBounds(p)
    BY <2>5, SMT DEF InBounds
  <2>7. parse_arg_value(j, p, "args")
    BY <1>5, Zenon DEF Positional
  <2>. HIDE DEF p, j
  <2>8. i <= p.arg
    BY <1>1, <2>5, SMT
  <2>9. /\ OutputsOK' /\ ok' \in BOOLEAN /\ pc' = "args" /\ used' = used \cup {j}
        /\ \A n \in Int : i <= n /\ p.arg < n => Below(output', n)
    BY <1>1, <1>2, <2>3, <2>4, <2>6, <2>7, <2>8, OptionSet, Zenon
  <2>10. Below(output', i')
    BY <1>2, <1>3, <2>5, <2>9, Zenon
  <2>11. IInv'
    BY <1>1, <1>2, <2>9, <2>10, BackInLoop, Zenon DEF ControlOK
  <2>. QED
    BY <2>3, <2>9, <2>11, Zenon
<1>. QED
  BY <1>4, <1>5

LEMMA ShortClusterInvariant ==
  ASSUME IInv, ShortCluster
  PROVE  IInv' /\ UNCHANGED used
<1>1. /\ ControlOK /\ OutputsOK /\ Below(output, i) /\ Dashed /\ ok
      /\ i \in 1 .. Len(argv) /\ i \in Int
  BY SMT DEF IInv, ControlOK, ShortCluster, InLoop, Fresh
<1>2. /\ argv' = argv /\ i' = i + 1 /\ arg' = Ptr(i, 1) /\ pc' = "cluster"
      /\ UNCHANGED <<positional_only, used, output, ok>>
  BY Zenon DEF ShortCluster
<1>3. OutputsOK' /\ Below(output', i)
  BY <1>1, <1>2, NothingSet, Zenon
<1>4. i' \in 1 .. Len(argv) + 1 /\ i' - 1 = i
  BY <1>1, <1>2, SMT
<1>. DEFINE p == Ptr(i, 1)
<1>5. p.arg = i /\ p.off = 1 /\ p \in Pointers
  BY <1>1, SMT DEF Ptr, Pointers
<1>6. full_arg \in Seq(Char) /\ full_arg # << >> /\ full_arg = argv[i]
  BY <1>1, SMT DEF ControlOK, Dashed, full_arg
<1>7. p.off <= Len(argv[i])
  BY <1>5, <1>6, SMT
<1>8. InBounds(p)
  BY <1>5, <1>7, Zenon DEF InBounds
<1>. HIDE DEF p
<1>9. InBounds(arg)' /\ arg'.arg = i' - 1
  BY <1>2, <1>4, <1>5, <1>8, SamePointers, Zenon DEF p
<1>10. ControlOK'
  BY <1>1, <1>2, <1>4, <1>9, Zenon DEF ControlOK, Dashed
<1>11. Below(output, Fresh)' /\ ReadToTheEnd'
  <2>1. Pointers' = Pointers /\ Opts' = Opts
    BY <1>2, SamePointers, Zenon DEF Opts
  <2>2. Fresh' = i /\ ReadToTheEnd'
    BY <1>2, <1>4, Zenon DEF Fresh, ReadToTheEnd
  <2>3. Below(output, Fresh)'
    BY <1>3, <2>1, <2>2, Zenon DEF Below
  <2>. QED
    BY <2>2, <2>3, Zenon
<1>. QED
  BY <1>2, <1>3, <1>10, <1>11, Zenon DEF IInv

LEMMA ClusterEndsInvariant ==
  ASSUME IInv, ClusterEnds
  PROVE  IInv' /\ UNCHANGED used
<1>1. /\ ControlOK /\ OutputsOK /\ Below(output, i - 1)
      /\ i \in 1 .. Len(argv) + 1 /\ i \in Int /\ i - 1 \in Int /\ i - 1 <= i
  BY SMT DEF IInv, ControlOK, ClusterEnds, Fresh
<1>2. /\ argv' = argv /\ i' = i /\ arg' = NoArg /\ pc' = "args"
      /\ UNCHANGED <<positional_only, used, output, ok>>
  BY Zenon DEF ClusterEnds
<1>3. OutputsOK' /\ Below(output', i)
  BY <1>1, <1>2, BelowGrows, NothingSet, Zenon
<1>. QED
  BY <1>1, <1>2, <1>3, BackInLoop, Zenon DEF ControlOK

LEMMA PositionalSplitInvariant ==
  ASSUME IInv, PositionalSplit
  PROVE  IInv' /\ UNCHANGED used
<1>1. /\ ControlOK /\ OutputsOK /\ Below(output, i) /\ pc = "args"
      /\ i \in Int /\ i + 1 \in Int /\ i <= i + 1 /\ i + 1 \in 1 .. Len(argv) + 1
  BY SMT DEF IInv, ControlOK, PositionalSplit, InLoop, Fresh
<1>2. /\ argv' = argv /\ i' = i + 1 /\ positional_only' = TRUE
      /\ UNCHANGED <<arg, used, output, ok, pc>>
  BY Zenon DEF PositionalSplit
<1>3. OutputsOK' /\ Below(output', i + 1)
  BY <1>1, <1>2, BelowGrows, NothingSet, Zenon
<1>. QED
  BY <1>1, <1>2, <1>3, BackInLoop, Zenon DEF ControlOK

\* The letters of a cluster, and the three ways a value can follow one.
LEMMA ShortOptionInvariant ==
  ASSUME IInv, ShortOption
  PROVE  IInv' /\ ~positional_only
<1>1. /\ ControlOK /\ OutputsOK /\ Below(output, i - 1) /\ Fresh = i - 1
      /\ InBounds(arg) /\ arg.arg = i - 1 /\ ~positional_only /\ pc = "cluster"
  BY Zenon DEF IInv, ControlOK, ShortOption, Fresh
<1>2. /\ i \in 1 .. Len(argv) + 1 /\ i - 1 \in Int /\ i \in Int
      /\ i - 1 <= i /\ i - 1 < i /\ Len(argv) \in Nat
  BY <1>1, SMT DEF ControlOK
<1>3. argv' = argv /\ positional_only' = positional_only /\ Value(arg) # << >>
  BY Zenon DEF ShortOption
<1>. DEFINE letter  == Head(Value(arg))
            matches == get_short(letter)
            j       == Min(matches)
            rest    == Ptr(arg.arg, arg.off + 1)
<1>4. letter \in Char /\ arg.off # Len(argv[arg.arg])
  BY <1>1, <1>3, ValueIs, Zenon DEF ControlOK
<1>5. rest.arg = i - 1 /\ InBounds(rest) /\ rest.off = arg.off + 1 /\ rest.off \in Nat
  <2>1. arg.off \in Nat /\ Len(argv[arg.arg]) \in Nat /\ arg.off <= Len(argv[arg.arg])
        /\ arg.arg \in 1 .. Len(argv)
    BY <1>1, <1>2, SMT DEF InBounds, Pointers, ControlOK
  <2>2. arg.off + 1 <= Len(argv[arg.arg]) /\ arg.off + 1 \in Nat
    BY <1>4, <2>1, SMT
  <2>3. rest.arg = arg.arg /\ rest.off = arg.off + 1 /\ rest \in Pointers
    BY <2>1, <2>2, SMT DEF Ptr, Pointers
  <2>. QED
    BY <1>1, <2>2, <2>3, Zenon DEF InBounds
<1>6. CASE Refused(matches)
  <2>1. /\ ok' = FALSE /\ pc' = "args" /\ UNCHANGED <<used, output>>
        /\ i' = i /\ arg' = NoArg
    BY <1>6, Zenon DEF ShortOption, Fail
  <2>2. OutputsOK' /\ Below(output', i)
    BY <1>1, <1>2, <1>3, <2>1, BelowGrows, NothingSet, Zenon
  <2>3. IInv'
    BY <1>1, <1>2, <1>3, <2>1, <2>2, BackInLoop, Zenon DEF ControlOK
  <2>. QED
    BY <1>1, <2>3, Zenon
<1>7. CASE ~Refused(matches)
  <2>1. j \in matches /\ j \notin used /\ j \in Opts /\ j \notin positionals
    <3>1. matches \in SUBSET Opts
      BY Zenon DEF get_short
    <3>2. j \in matches /\ j \notin used
      BY <1>7, <3>1, NotRefused, Zenon
    <3>. QED
      BY <1>4, <3>1, <3>2, PositionalsApart, Zenon
  <2>2. CASE ~expects_arg(opts[j])
    <3>1. parse_arg_value(j, rest, "cluster") /\ i' = i /\ arg' = rest
      BY <1>7, <2>2, Zenon DEF ShortOption
    <3>2. opts[j].kind = "BOOL"
      BY <2>1, <2>2, Table, Zenon DEF expects_arg
    <3>. HIDE DEF rest, matches, letter, j
    <3>3. /\ OutputsOK' /\ ok' /\ ok' \in BOOLEAN /\ pc' = "cluster"
          /\ Below(output', i - 1)
      BY <1>1, <1>2, <1>3, <2>1, <3>1, <3>2, OptionSet, Zenon
    <3>4. InBounds(arg)' /\ arg'.arg = i' - 1 /\ Pointers' = Pointers
      BY <1>3, <1>5, <3>1, SamePointers, Zenon
    <3>5. ControlOK'
      BY <1>1, <1>3, <3>1, <3>3, <3>4, Zenon DEF ControlOK
    <3>6. Fresh' = i - 1 /\ ReadToTheEnd' /\ Opts' = Opts
      BY <3>1, <3>3, Zenon DEF Fresh, ReadToTheEnd, Opts
    <3>7. Below(output, Fresh)'
      BY <3>3, <3>4, <3>6, Zenon DEF Below
    <3>. QED
      BY <1>1, <3>3, <3>5, <3>6, <3>7, Zenon DEF IInv
  <2>3. CASE expects_arg(opts[j]) /\ Value(rest) # << >>
    <3>. DEFINE p == IF Head(Value(rest)) = "=" THEN Ptr(rest.arg, rest.off + 1) ELSE rest
    <3>1. parse_arg_value(j, p, "args") /\ i' = i /\ arg' = NoArg
      BY <1>7, <2>3, Zenon DEF ShortOption
    <3>2. rest.off # Len(argv[rest.arg])
      BY <1>1, <1>5, <2>3, ValueIs, Zenon DEF ControlOK
    <3>3. /\ rest.off \in Nat /\ Len(argv[rest.arg]) \in Nat
          /\ rest.off <= Len(argv[rest.arg]) /\ rest.arg \in 1 .. Len(argv)
      BY <1>1, <1>2, <1>5, SMT DEF InBounds, Pointers, ControlOK
    <3>. HIDE DEF rest, matches, letter, j
    <3>. DEFINE q == Ptr(rest.arg, rest.off + 1)
    <3>4. q.arg = rest.arg /\ q.off = rest.off + 1 /\ q \in Pointers
      BY <3>3, SMT DEF Ptr, Pointers
    <3>5. rest.off + 1 <= Len(argv[rest.arg])
      BY <3>2, <3>3, SMT
    <3>6. InBounds(p) /\ p.arg = i - 1
      BY <1>5, <3>4, <3>5, Zenon DEF InBounds
    <3>. HIDE DEF p
    <3>7. i - 1 <= p.arg /\ p.arg < i
      BY <1>2, <3>6, SMT
    <3>8. OutputsOK' /\ ok' \in BOOLEAN /\ pc' = "args" /\ Below(output', i)
      BY <1>1, <1>2, <1>3, <2>1, <3>1, <3>6, <3>7, OptionSet, Zenon
    <3>9. IInv'
      BY <1>1, <1>2, <1>3, <3>1, <3>8, BackInLoop, Zenon DEF ControlOK
    <3>. QED
      BY <1>1, <3>9, Zenon
  <2>4. CASE expects_arg(opts[j]) /\ ~(Value(rest) # << >>)
    <3>1. separate_arg(j, i) /\ arg' = NoArg
      BY <1>7, <2>4, Zenon DEF ShortOption
    <3>. HIDE DEF rest, matches, letter, j
    <3>2. OutputsOK' /\ ok' \in BOOLEAN /\ pc' = "args"
          /\ i' \in i .. Len(argv) + 1 /\ Below(output', i')
      BY <1>1, <1>2, <1>3, <2>1, <3>1, SeparateArg, Zenon
    <3>3. i' \in 1 .. Len(argv) + 1
      BY <1>2, <3>2, SMT
    <3>4. IInv'
      BY <1>1, <1>3, <3>1, <3>2, <3>3, BackInLoop, Zenon DEF ControlOK
    <3>. QED
      BY <1>1, <3>4, Zenon
  <2>. QED
    BY <2>2, <2>3, <2>4
<1>. QED
  BY <1>6, <1>7

\* An option by its name, and the two ways its value can follow.
LEMMA LongOptionInvariant ==
  ASSUME IInv, LongOption
  PROVE  IInv' /\ ~positional_only
<1>1. /\ ControlOK /\ OutputsOK /\ Below(output, i) /\ Fresh = i /\ pc = "args"
      /\ ~positional_only /\ i <= Len(argv)
  BY Zenon DEF IInv, LongOption, InLoop, Dashed, Fresh
<1>2. /\ i \in 1 .. Len(argv) /\ i + 1 \in 1 .. Len(argv) + 1 /\ i + 1 \in Int /\ i \in Int
      /\ i <= i + 1 /\ i < i + 1 /\ Len(argv) \in Nat
  BY <1>1, SMT DEF ControlOK
<1>3. argv' = argv /\ positional_only' = positional_only /\ arg' = arg
  BY Zenon DEF LongOption
<1>. DEFINE n       == name_length(full_arg)
            matches == get_long(SubSeq(full_arg, 1, n))
            j       == Min(matches)
<1>4. full_arg \in Seq(Char) /\ full_arg = argv[i]
  BY <1>1, <1>2, SMT DEF ControlOK, full_arg
<1>5. n \in 0 .. Len(full_arg) /\ Len(full_arg) \in Nat
  <2>1. n \in 0 .. Len(full_arg)
    BY <1>4, NameLength, Zenon
  <2>2. Len(full_arg) \in Nat
    BY <1>4, SMT
  <2>. QED
    BY <2>1, <2>2
<1>6. CASE Refused(matches)
  <2>1. ok' = FALSE /\ pc' = "args" /\ UNCHANGED <<used, output>> /\ i' = i + 1
    BY <1>6, Zenon DEF LongOption, Fail
  <2>2. OutputsOK' /\ Below(output', i + 1)
    BY <1>1, <1>2, <1>3, <2>1, BelowGrows, NothingSet, Zenon
  <2>3. IInv'
    BY <1>1, <1>2, <1>3, <2>1, <2>2, BackInLoop, Zenon DEF ControlOK
  <2>. QED
    BY <1>1, <2>3, Zenon
<1>7. CASE ~Refused(matches)
  <2>1. j \in matches /\ j \notin used /\ j \in Opts /\ j \notin positionals
    <3>1. matches \in SUBSET Opts
      BY Zenon DEF get_long
    <3>2. j \in matches /\ j \notin used
      BY <1>7, <3>1, NotRefused, Zenon
    <3>. QED
      BY <3>1, <3>2, PositionalsApart, Zenon
  <2>2. CASE expects_arg(opts[j]) /\ n = Len(full_arg)
    <3>1. separate_arg(j, i + 1)
      BY <1>7, <2>2, Zenon DEF LongOption
    <3>. HIDE DEF matches, j, n
    <3>2. OutputsOK' /\ ok' \in BOOLEAN /\ pc' = "args"
          /\ i' \in i + 1 .. Len(argv) + 1 /\ Below(output', i')
      BY <1>1, <1>2, <1>3, <2>1, <3>1, SeparateArg, Zenon
    <3>3. i' \in 1 .. Len(argv) + 1
      BY <1>2, <3>2, SMT
    <3>4. IInv'
      BY <1>1, <1>3, <3>2, <3>3, BackInLoop, Zenon DEF ControlOK
    <3>. QED
      BY <1>1, <3>4, Zenon
  <2>3. CASE ~(expects_arg(opts[j]) /\ n = Len(full_arg))
    <3>. DEFINE p == Ptr(i, n + 1)
    <3>1. parse_arg_value(j, p, "args") /\ i' = i + 1
      BY <1>7, <2>3, Zenon DEF LongOption
    <3>. HIDE DEF matches, j, n
    <3>2. p.arg = i /\ p.off = n + 1 /\ p \in Pointers
      BY <1>2, <1>5, SMT DEF Ptr, Pointers
    <3>3. n # Len(full_arg) => p.off <= Len(argv[i])
      BY <1>4, <1>5, <3>2, SMT
    <3>4. opts[j].kind # "BOOL" => expects_arg(opts[j])
      BY <2>1, Table, Zenon DEF expects_arg
    <3>. HIDE DEF p
    <3>5. opts[j].kind = "BOOL" \/ (InBounds(p) /\ i <= p.arg)
      <4>1. i <= p.arg
        BY <1>2, <3>2, SMT
      <4>. QED
        BY <2>3, <3>2, <3>3, <3>4, <4>1, Zenon DEF InBounds
    <3>6. OutputsOK' /\ ok' \in BOOLEAN /\ pc' = "args" /\ Below(output', i + 1)
      BY <1>1, <1>2, <1>3, <2>1, <3>1, <3>2, <3>5, OptionSet, Zenon
    <3>7. IInv'
      BY <1>1, <1>2, <1>3, <3>1, <3>6, BackInLoop, Zenon DEF ControlOK
    <3>. QED
      BY <1>1, <3>7, Zenon
  <2>. QED
    BY <2>2, <2>3
<1>. QED
  BY <1>6, <1>7

\* The missing-argument check.
LEMMA FinishInvariant ==
  ASSUME IInv, Finish
  PROVE  IInv' /\ UNCHANGED used
<1>1. /\ ControlOK /\ OutputsOK /\ Below(output, i) /\ pc = "args" /\ i \in Int
      /\ (ok => i = Len(argv) + 1)
  BY SMT DEF IInv, ControlOK, Finish, InLoop, Fresh
<1>2. /\ ok' = (ok /\ (Sufficient \/ Missing = {})) /\ pc' = "done"
      /\ UNCHANGED <<argv, i, positional_only, arg, used, output>>
  BY Zenon DEF Finish
<1>3. /\ Pointers' = Pointers /\ \A p : InBounds(p)' <=> InBounds(p)
      /\ Opts' = Opts /\ opts' = opts /\ Fresh' = i
  BY <1>2, SamePointers, Zenon DEF Opts, opts, Fresh
<1>4. OutputsOK' /\ Below(output', i)
  BY <1>1, <1>2, NothingSet, Zenon
<1>5. Below(output, Fresh)'
  BY <1>3, <1>4, Zenon DEF Below
<1>6. ok' \in BOOLEAN
  BY <1>2, Zenon
<1>7. arg' = NoArg' \/ InBounds(arg)'
  BY <1>1, <1>2, <1>3, Zenon DEF ControlOK, NoArg, Ptr
<1>8. ControlOK'
  BY <1>1, <1>2, <1>6, <1>7, Zenon DEF ControlOK
<1>9. \A k \in Opts : k \in used => output[k] # Unset
  BY <1>1, Sentinels, Zenon DEF OutputsOK, OutputOf, InBounds
<1>10. ReadToTheEnd'
  <2>1. ok' => i = Len(argv) + 1 /\ (Sufficient \/ Missing = {})
    BY <1>1, <1>2, Zenon
  <2>2. Sufficient => \E k \in Opts : opts[k].sufficient /\ output[k] # Unset
    BY <1>1, <1>9, Zenon DEF Sufficient, OutputsOK
  <2>3. Missing = {} => \A k \in Opts : opts[k].required => output[k] # Unset
    BY <1>9, Zenon DEF Missing
  <2>. QED
    BY <1>2, <1>3, <2>1, <2>2, <2>3, Zenon DEF ReadToTheEnd, Unset, Ptr
<1>. QED
  BY <1>2, <1>4, <1>5, <1>8, <1>10, Zenon DEF IInv

LEMMA StutterInvariant ==
  ASSUME IInv, UNCHANGED vars
  PROVE  IInv'
<1>1. UNCHANGED <<argv, i, positional_only, arg, used, output, ok, pc>>
  BY Zenon DEF vars
<1>. QED
  BY <1>1, Zenon DEF IInv, ControlOK, OutputsOK, Below, ReadToTheEnd, InBounds, Pointers,
     NoArg, Ptr, Unset, True, Fresh, OutputOf, Distinct, PositionalsInOrder, Opts, opts,
     positionals

LEMMA Inductive == IInv /\ [Next]_vars => IInv'
BY PositionalInvariant, ShortClusterInvariant, ShortOptionInvariant, ClusterEndsInvariant,
   PositionalSplitInvariant, LongOptionInvariant, FinishInvariant, StutterInvariant, Zenon
   DEF Next, Step, Returned

THEOREM Invariance == Spec => []IInv
BY InitInvariant, Inductive, PTL DEF Spec

-----------------------------------------------------------------------------
(* The properties.                                                         *)

LEMMA TypesOfState == IInv => TypeOK
<1>. SUFFICES ASSUME IInv PROVE TypeOK
  OBVIOUS
<1>1. ControlOK /\ OutputsOK
  BY Zenon DEF IInv
<1>2. \A j \in Opts : output[j] \in {Unset, True} \cup Pointers
                     /\ (output[j] \in Pointers => InBounds(output[j]))
  BY <1>1, Sentinels, Zenon DEF OutputsOK, OutputOf, InBounds
<1>3. NoArg \notin Pointers
  <2>1. NoArg.arg = 0
    BY SMT DEF NoArg, Ptr
  <2>2. \A p \in Pointers : p.arg # 0
    BY SMT DEF Pointers
  <2>. QED
    BY <2>1, <2>2, Zenon
<1>4. \A p \in ({output[j] : j \in Opts} \cup {arg}) \cap Pointers : p.off <= Len(argv[p.arg])
  BY <1>1, <1>2, <1>3, Zenon DEF ControlOK, InBounds
<1>. QED
  BY <1>1, <1>2, <1>4, Zenon DEF TypeOK, ControlOK, OutputsOK, InBounds

\* Every pointer the parser keeps or gives out is into its argument, up to
\* the terminator, and i stays within argv, on every command line.
THEOREM TypeCorrect == Spec => []TypeOK
BY TypesOfState, Invariance, PTL

\* The assertion of parse_arg_value that the option is unused never fails.
THEOREM SetOnce == Spec => []NeverSetTwice
<1>1. IInv => NeverSetTwice
  BY Zenon DEF IInv, ControlOK, NeverSetTwice
<1>. QED
  BY <1>1, Invariance, PTL

\* In whatever style the options are written, no element of argv is read
\* both as a value and as something else, or as two values.
THEOREM ReadOnce == Spec => []NoElementReadTwice
<1>1. IInv => NoElementReadTwice
  <2>. SUFFICES ASSUME IInv PROVE NoElementReadTwice
    OBVIOUS
  <2>1. ControlOK /\ Below(output, Fresh) /\ Distinct /\ i \in Int /\ Fresh \in Int /\ Fresh <= i
    BY SMT DEF IInv, OutputsOK, ControlOK, Fresh
  <2>2. Below(output, i)
    BY <2>1, BelowGrows, Zenon
  <2>. QED
    BY <2>1, <2>2, Zenon DEF NoElementReadTwice, Distinct, Below
<1>. QED
  BY <1>1, Invariance, PTL

\* Positional arguments fill the positional options of any table in order.
THEOREM PositionalsOrdered == Spec => []PositionalsInOrder
<1>1. IInv => PositionalsInOrder
  BY Zenon DEF IInv, OutputsOK
<1>. QED
  BY <1>1, Invariance, PTL

\* Until there is a mistake, whatever integers were given are integers.
NumbersRead == ok => \A j \in used : opts[j].kind = "INT" => strtoll_ok(Value(output[j]))

\* A step sets an option while all is well, or finds a mistake, or neither.
LEMMA SetsOrFails ==
  ASSUME [Next]_vars
  PROVE  /\ argv' = argv
         /\ \/ ok /\ \E j, p, next : parse_arg_value(j, p, next)
            \/ ~ok'
            \/ UNCHANGED <<used, output>> /\ (ok' => ok)
<1>1. CASE Positional
  BY <1>1, Zenon DEF Positional, InLoop, Fail
<1>2. CASE ShortCluster
  BY <1>2, Zenon DEF ShortCluster
<1>3. CASE ShortOption
  BY <1>3, Zenon DEF ShortOption, separate_arg, Fail
<1>4. CASE ClusterEnds
  BY <1>4, Zenon DEF ClusterEnds
<1>5. CASE PositionalSplit
  BY <1>5, Zenon DEF PositionalSplit
<1>6. CASE LongOption
  BY <1>6, Zenon DEF LongOption, InLoop, separate_arg, Fail
<1>7. CASE Finish
  BY <1>7, Zenon DEF Finish
<1>8. CASE UNCHANGED vars
  BY <1>8, Zenon DEF vars
<1>. QED
  BY <1>1, <1>2, <1>3, <1>4, <1>5, <1>6, <1>7, <1>8, Zenon DEF Next, Step, Returned

LEMMA NumbersStay ==
  ASSUME IInv, NumbersRead, [Next]_vars
  PROVE  NumbersRead'
<1>1. used' \subseteq Opts /\ DOMAIN output = Opts /\ opts' = opts
  BY Inductive, Zenon DEF IInv, OutputsOK, opts, Opts
<1>2. argv' = argv /\ \A p : Value(p)' = Value(p)
  BY SetsOrFails, Zenon DEF Value
<1>3. ASSUME ok, NEW j, NEW p, NEW next, parse_arg_value(j, p, next), ok',
             NEW k \in used', opts[k].kind = "INT"
      PROVE  strtoll_ok(Value(output'[k]))
  <2>1. CASE j \in used \/ k # j
    <3>1. k \in used /\ output'[k] = output[k]
      BY <1>1, <1>3, <2>1, Zenon DEF parse_arg_value
    <3>. QED
      BY <1>3, <3>1, Zenon DEF NumbersRead
  <2>2. CASE j \notin used /\ k = j
    <3>1. /\ output' = [output EXCEPT ![j] = IF opts[j].kind = "BOOL" THEN True ELSE p]
          /\ ok' = (opts[j].kind = "INT" => strtoll_ok(Value(p)))
      BY <1>3, <2>2, Zenon DEF parse_arg_value
    <3>2. j \in Opts /\ opts[j].kind = "INT" /\ opts[j].kind # "BOOL"
      BY <1>1, <1>3, <2>2, Zenon
    <3>3. output'[j] = p
      BY <1>1, <3>1, <3>2, Zenon
    <3>. QED
      BY <1>3, <2>2, <3>1, <3>2, <3>3, Zenon
  <2>. QED
    BY <2>1, <2>2
<1>4. CASE UNCHANGED <<used, output>> /\ (ok' => ok)
  BY <1>1, <1>2, <1>4, Zenon DEF NumbersRead, strtoll_ok
<1>. QED
  BY <1>1, <1>2, <1>3, <1>4, SetsOrFails, Zenon DEF NumbersRead, strtoll_ok

\* A caller that is told "ok" has a value for everything it requires, unless
\* an option that makes up for the rest was given, and integers for integers.
THEOREM OkIsComplete == Spec => []OkMeansComplete
<1>1. Init => NumbersRead
  BY Zenon DEF Init, NumbersRead
<1>2. IInv /\ NumbersRead /\ [Next]_vars => NumbersRead'
  BY NumbersStay
<1>3. IInv /\ NumbersRead => OkMeansComplete
  BY Zenon DEF IInv, ReadToTheEnd, NumbersRead, OkMeansComplete
<1>. QED
  BY <1>1, <1>2, <1>3, Invariance, PTL DEF Spec

\* After "--" only positional options are set, and there is no way back.
THEOREM SplitStaysFinal == Spec => SplitIsFinal
<1>1. ASSUME IInv, Next, ~UNCHANGED vars, positional_only
      PROVE  positional_only' /\ used' \ used \subseteq positionals
  <2>1. CASE Positional
    BY <1>1, <2>1, PositionalInvariant, Zenon DEF Positional
  <2>2. CASE ShortCluster
    BY <1>1, <2>2, Zenon DEF ShortCluster, Dashed
  <2>3. CASE ShortOption
    BY <1>1, <2>3, ShortOptionInvariant, Zenon
  <2>4. CASE ClusterEnds
    BY <1>1, <2>4, Zenon DEF ClusterEnds
  <2>5. CASE PositionalSplit
    BY <1>1, <2>5, Zenon DEF PositionalSplit
  <2>6. CASE LongOption
    BY <1>1, <2>6, LongOptionInvariant, Zenon
  <2>7. CASE Finish
    BY <1>1, <2>7, Zenon DEF Finish
  <2>. QED
    BY <1>1, <2>1, <2>2, <2>3, <2>4, <2>5, <2>6, <2>7, Zenon DEF Next, Step, Returned
<1>2. IInv /\ [Next]_vars =>
        [positional_only => positional_only' /\ used' \ used \subseteq positionals]_vars
  BY <1>1, Zenon
<1>. QED
  BY <1>2, Invariance, PTL DEF Spec, SplitIsFinal
=============================================================================
