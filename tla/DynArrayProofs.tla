--------------------------- MODULE DynArrayProofs ---------------------------
(***************************************************************************)
(* Proofs about DynArray, for a size_t of any width, elements of any size  *)
(* and any sequence of calls: the arithmetic of the growing arrays.        *)
(***************************************************************************)
EXTENDS DynArray, KrsStr, TLAPS

(***************************************************************************)
(* The inductive invariant.  In wrapping arithmetic a room that is counted *)
(* right is the end of a chain: the request fits the address space, so the *)
(* target length does not wrap; so the capacity the loop has arrived at is *)
(* within half of what is needed; so its size in bytes does not wrap.      *)
(***************************************************************************)
Naturals == {len, cap, block, n, new_cap} \subseteq Nat

\* The block is the array's, and it is one that malloc can give.
BlockOK ==
  /\ len <= cap /\ cap * kind.elem <= block /\ block <= kind.heap
  /\ cap = 0 \/ cap = MIN_CAP \/ cap >= MIN_CAP + MIN_CAP \div 2

\* A capacity that can be allocated: its size in bytes is a size.
Allocatable(c) == c * kind.elem \in Size

\* How the new capacity, on its way up, is related to the old one and to
\* what is asked for.
Proportionate ==
  /\ 2 * new_cap >= 3 * cap - 3
  /\ new_cap = MIN_CAP \/ 2 * new_cap <= 3 * (len + n)

\* An array that may fill the address space is there in one step.
GrowOK ==
  /\ new_cap >= MIN_CAP /\ Allocatable(new_cap) /\ Proportionate
  /\ new_cap = MIN_CAP \/ new_cap >= MIN_CAP + MIN_CAP \div 2
  /\ kind.heap + kind.most * kind.elem <= CAP_LIMIT \/ len + n <= new_cap

IInv ==
  /\ TypeOK /\ Naturals /\ BlockOK /\ ElementsIntact
  /\ pc # "idle" => n <= kind.most
  /\ pc = "grow" => GrowOK
  /\ pc = "fit" => len + n <= cap

-----------------------------------------------------------------------------
(* Arithmetic.                                                             *)

\* In range, size_t arithmetic is arithmetic.
LEMMA WrapSmall ==
  ASSUME NEW x \in Size
  PROVE  Wrap(x) = x
BY SizeAssumption, SMT DEF SizeAssumption, Size, Wrap

\* The capacity limit leaves room for another half.
LEMMA Limit ==
  /\ SIZE_MAX \in Nat /\ SIZE_MAX >= 16
  /\ CAP_LIMIT \in Nat /\ 3 * CAP_LIMIT <= 2 * SIZE_MAX
<1>1. SIZE_MAX \in Nat /\ SIZE_MAX >= 16
  BY SizeAssumption, SMT DEF SizeAssumption, MIN_CAP
<1>. QED
  BY <1>1, SMT DEF CAP_LIMIT

\* The growth factor.
LEMMA HalfAsMuchAgain ==
  ASSUME NEW c \in Nat
  PROVE  /\ (c \div 2) * 3 \in Nat
         /\ 2 * ((c \div 2) * 3) <= 3 * c
         /\ 2 * ((c \div 2) * 3) >= 3 * c - 3
BY SMT

LEMMA TimesMonotone ==
  ASSUME NEW a \in Nat, NEW b \in Nat, NEW e \in Nat, a <= b
  PROVE  a * e <= b * e /\ a * e \in Nat /\ b * e \in Nat
BY SMT

\* The factor by which bytes outnumber elements.
LEMMA TimesAtLeastOne ==
  ASSUME NEW a \in Nat, NEW e \in Nat \ {0}
  PROVE  a <= a * e
BY SMT

\* What an array may be, and be asked for.
LEMMA KindFacts ==
  ASSUME NEW k \in Kinds
  PROVE  /\ k.lib \in {"da", "vec"}
         /\ k.elem \in Nat \ {0} /\ MIN_CAP * k.elem <= SIZE_MAX
         /\ k.heap \in Nat /\ k.heap <= SIZE_MAX
         /\ k.most \in Nat \ {0} /\ k.most <= SIZE_MAX /\ k.most * k.elem \in Nat
         /\ \/ k.heap + k.most * k.elem <= CAP_LIMIT
            \/ k.elem = 1 /\ k.most <= 4 /\ k.heap + k.most <= SIZE_MAX
<1>1. k \in [lib : {"da", "vec"}, elem : 1 .. SIZE_MAX \div MIN_CAP, heap : Size,
             most : Size \ {0}]
  BY KindsAssumption, Zenon DEF KindsAssumption
<1>2. /\ k.lib \in {"da", "vec"} /\ k.elem \in 1 .. SIZE_MAX \div 8
      /\ k.heap \in 0 .. SIZE_MAX /\ k.most \in 0 .. SIZE_MAX /\ k.most # 0
  BY <1>1, SMT DEF Size, MIN_CAP
<1>3. k.elem \in Nat \ {0} /\ 8 * k.elem <= SIZE_MAX
  BY <1>2, Limit, SMT
<1>4. k.most * k.elem \in Nat
  BY <1>2, <1>3, Limit, SMT
<1>5. \/ k.heap + k.most * k.elem <= CAP_LIMIT
      \/ k.elem = 1 /\ k.most <= 4 /\ k.heap + k.most <= SIZE_MAX
  BY RequestAssumption, SMT DEF RequestAssumption, MIN_CAP
<1>. QED
  BY <1>2, <1>3, <1>4, <1>5, Limit, SMT DEF MIN_CAP

\* Half as much again as fits a request in two thirds of the address space
\* has a size in bytes, and is a size itself.
LEMMA HalfAgainFits ==
  ASSUME NEW c \in Nat, NEW e \in Nat \ {0}, NEW t \in Nat,
         2 * c <= 3 * t, t * e <= CAP_LIMIT
  PROVE  c * e \in Size /\ c \in Size
<1>1. c * e \in Nat /\ t * e \in Nat
  BY SMT
<1>2. 2 * (c * e) <= 3 * (t * e)
  <2>1. (2 * c) * e <= (3 * t) * e
    BY TimesMonotone, SMT
  <2>. QED
    BY <2>1, SMT
<1>3. c * e <= SIZE_MAX
  BY <1>1, <1>2, Limit, SMT
<1>4. c <= c * e
  BY TimesAtLeastOne
<1>. QED
  BY <1>1, <1>3, <1>4, Limit, SMT DEF Size

-----------------------------------------------------------------------------
(* The steps.                                                              *)

\* What every call asks for is a size, and in bytes as well unless the array
\* is one of bytes that may fill the address space.
LEMMA TargetFits ==
  ASSUME IInv, pc # "idle"
  PROVE  /\ len + n \in Size /\ target_len = len + n
         /\ kind.heap + kind.most * kind.elem <= CAP_LIMIT
              => (len + n) * kind.elem <= CAP_LIMIT
<1>1. /\ kind \in Kinds /\ len \in Nat /\ n \in Nat /\ cap \in Nat /\ block \in Nat
      /\ len <= cap /\ cap * kind.elem <= block /\ block <= kind.heap /\ n <= kind.most
  BY SMT DEF IInv, TypeOK, Naturals, BlockOK
<1>. DEFINE e == kind.elem
<1>2. /\ e \in Nat \ {0} /\ kind.heap \in Nat /\ kind.most \in Nat /\ kind.most * e \in Nat
      /\ \/ kind.heap + kind.most * e <= CAP_LIMIT
         \/ e = 1 /\ kind.heap + kind.most <= SIZE_MAX
  BY <1>1, KindFacts, Zenon
<1>. HIDE DEF e
<1>3. /\ len * e <= cap * e /\ n * e <= kind.most * e
      /\ len * e \in Nat /\ n * e \in Nat /\ cap * e \in Nat
  BY <1>1, <1>2, TimesMonotone, SMT
<1>4. (len + n) * e = len * e + n * e
  BY <1>1, <1>2, SMT
<1>5. (len + n) * e <= kind.heap + kind.most * e
  BY <1>1, <1>2, <1>3, <1>4, SMT DEF e
<1>6. len + n \in Nat /\ len + n <= (len + n) * e
  BY <1>1, <1>2, TimesAtLeastOne, SMT
<1>7. len + n <= SIZE_MAX
  <2>1. CASE kind.heap + kind.most * e <= CAP_LIMIT
    BY <2>1, <1>2, <1>3, <1>4, <1>5, <1>6, Limit, SMT
  <2>2. CASE e = 1 /\ kind.heap + kind.most <= SIZE_MAX
    <3>1. (len + n) * e = len + n /\ kind.most * e = kind.most
      BY <2>2, <1>1, <1>2, SMT
    <3>. QED
      BY <3>1, <2>2, <1>2, <1>5, <1>6, Limit, SMT
  <2>. QED
    BY <1>2, <2>1, <2>2
<1>8. len + n \in Size
  BY <1>6, <1>7, Limit, SMT DEF Size
<1>9. target_len = len + n
  BY <1>8, WrapSmall, Zenon DEF target_len
<1>10. kind.heap + kind.most * e <= CAP_LIMIT => (len + n) * e <= CAP_LIMIT
  BY <1>2, <1>3, <1>4, <1>5, Limit, SMT
<1>. QED
  BY <1>8, <1>9, <1>10 DEF e

LEMMA InitInvariant == Init => IInv
<1>. SUFFICES ASSUME Init PROVE IInv
  OBVIOUS
<1>1. kind \in Kinds /\ kind.elem \in Nat \ {0} /\ kind.heap \in Nat
  BY KindFacts, Zenon DEF Init
<1>2. TypeOK
  BY <1>1, Limit, SMT DEF Init, TypeOK, Size
<1>3. Naturals /\ BlockOK
  BY <1>1, SMT DEF Init, Naturals, BlockOK
<1>. QED
  BY <1>2, <1>3, SMT DEF Init, IInv, ElementsIntact

LEMMA CallInvariant ==
  ASSUME IInv, NEW f \in {"reserve", "extend_uninit", "extend", "push"}, Call(f)
  PROVE  IInv'
<1>1. /\ pc = "idle" /\ op' = f /\ pc' = "reserve"
      /\ n' \in IF f = "push" THEN {1} ELSE 0 .. kind.most
      /\ UNCHANGED <<kind, len, cap, block, intact, new_cap>>
  BY Zenon DEF Call
<1>2. /\ kind \in Kinds /\ kind.most \in Nat \ {0} /\ kind.most <= SIZE_MAX
  BY KindFacts, Zenon DEF IInv, TypeOK
<1>3. n' \in Nat /\ n' <= kind.most /\ n' \in Size
  BY <1>1, <1>2, Limit, SMT DEF Size
<1>4. TypeOK'
  BY <1>1, <1>3, Zenon DEF IInv, TypeOK, Size
<1>5. Naturals' /\ BlockOK' /\ ElementsIntact'
  BY <1>1, <1>3, Zenon DEF IInv, Naturals, BlockOK, ElementsIntact
<1>. QED
  BY <1>1, <1>3, <1>4, <1>5, Zenon DEF IInv

\* What the first step up is when it does not wrap.
FirstStep(c) == IF c < MIN_CAP THEN MIN_CAP ELSE (c \div 2) * 3

\* The first step up, from 0 to MIN_CAP or by half.
LEMMA ReserveInvariant ==
  ASSUME IInv, Reserve
  PROVE  IInv' /\ (pc' = "grow" => new_cap' = FirstStep(cap))
<1>1. pc = "reserve" /\ UNCHANGED <<kind, len, cap, block, intact, op, n>>
  BY Zenon DEF Reserve
<1>2. /\ kind \in Kinds /\ len \in Nat /\ n \in Nat /\ cap \in Nat /\ new_cap \in Size
      /\ len <= cap /\ n <= kind.most /\ (cap = 0 \/ cap = 8 \/ cap >= 12)
  BY <1>1, SMT DEF IInv, TypeOK, Naturals, BlockOK, MIN_CAP
<1>3. /\ len + n \in Size /\ target_len = len + n
      /\ kind.heap + kind.most * kind.elem <= CAP_LIMIT
           => (len + n) * kind.elem <= CAP_LIMIT
  BY <1>1, TargetFits, SMT
<1>4. /\ kind.elem \in Nat \ {0} /\ 8 * kind.elem <= SIZE_MAX
      /\ kind.heap + kind.most * kind.elem <= CAP_LIMIT \/ (kind.elem = 1 /\ kind.most <= 4)
      /\ kind.most \in Nat
  BY <1>2, KindFacts, SMT DEF MIN_CAP
<1>5. ASSUME new_cap' \in Size, pc' \in {"fit", "fail", "grow"},
             pc' = "fit" => len + n <= cap,
             pc' = "grow" => GrowOK' /\ new_cap' = FirstStep(cap)
      PROVE  IInv' /\ (pc' = "grow" => new_cap' = FirstStep(cap))
  <2>1. new_cap' \in Nat
    BY <1>5, Limit, SMT DEF Size
  <2>2. TypeOK' /\ Naturals' /\ BlockOK' /\ ElementsIntact'
    BY <1>1, <1>5, <2>1, Zenon DEF IInv, TypeOK, Naturals, BlockOK, ElementsIntact
  <2>. QED
    BY <1>1, <1>2, <1>5, <2>2, Zenon DEF IInv
<1>6. CASE len + n <= cap
  BY <1>1, <1>2, <1>3, <1>5, <1>6, Zenon DEF Reserve
<1>7. CASE ~(len + n <= cap) /\ cap >= CAP_LIMIT
  BY <1>1, <1>2, <1>3, <1>5, <1>7, Zenon DEF Reserve
<1>8. CASE ~(len + n <= cap) /\ ~(cap >= CAP_LIMIT)
  <2>1. pc' = "grow" /\ new_cap' = IF cap < MIN_CAP THEN MIN_CAP ELSE GROW_CAP(cap)
    BY <1>3, <1>8, Zenon DEF Reserve
  <2>2. CASE cap = 0
    <3>1. new_cap' = 8 /\ new_cap' \in Size /\ 8 * kind.elem \in Size
      BY <2>1, <2>2, <1>4, Limit, SMT DEF MIN_CAP, Size
    <3>2. GrowOK'
      BY <1>1, <1>2, <1>4, <2>2, <3>1, SMT DEF GrowOK, Allocatable, Proportionate, MIN_CAP, Size
    <3>3. new_cap' = FirstStep(cap)
      BY <2>2, <3>1, SMT DEF FirstStep, MIN_CAP
    <3>. QED
      BY <1>5, <2>1, <3>1, <3>2, <3>3, Zenon
  <2>3. CASE cap >= 8
    <3>. DEFINE c == (cap \div 2) * 3
    <3>1. c \in Nat /\ 2 * c <= 3 * cap /\ 2 * c >= 3 * cap - 3 /\ (cap = 8 => c = 12)
      BY <1>2, HalfAsMuchAgain, SMT
    <3>2. GROW_CAP(cap) = Wrap(c)
      BY Zenon DEF GROW_CAP
    <3>. HIDE DEF c
    <3>3. 2 * c <= 3 * (len + n) /\ c >= 12 /\ len + n \in Nat
      BY <1>2, <1>8, <2>3, <3>1, SMT
    <3>4. c * kind.elem \in Size /\ c \in Size
      <4>1. CASE kind.heap + kind.most * kind.elem <= CAP_LIMIT
        BY <1>3, <1>4, <3>1, <3>3, <4>1, HalfAgainFits, Zenon
      <4>2. CASE kind.elem = 1 /\ kind.most <= 4
        <5>1. c <= SIZE_MAX
          BY <1>2, <1>8, <3>1, Limit, SMT
        <5>. QED
          BY <3>1, <4>2, <5>1, Limit, SMT DEF Size
      <4>. QED
        BY <1>4, <4>1, <4>2
    <3>5. new_cap' = c
      BY <1>2, <2>1, <2>3, <3>2, <3>4, WrapSmall, SMT DEF MIN_CAP
    <3>6. kind.most <= 4 => len + n <= c
      BY <1>2, <1>4, <2>3, <3>1, SMT
    <3>7. GrowOK'
      <4>1. new_cap' >= MIN_CAP /\ new_cap' >= MIN_CAP + MIN_CAP \div 2
        BY <3>1, <3>3, <3>5, SMT DEF MIN_CAP
      <4>2. Allocatable(new_cap)' /\ Proportionate'
        BY <1>1, <3>1, <3>3, <3>4, <3>5, Zenon DEF Allocatable, Proportionate, Size
      <4>3. kind'.heap + kind'.most * kind'.elem <= CAP_LIMIT \/ len' + n' <= new_cap'
        BY <1>1, <1>4, <3>5, <3>6, Zenon
      <4>. QED
        BY <4>1, <4>2, <4>3, Zenon DEF GrowOK
    <3>8. FirstStep(cap) = c
      BY <1>2, <2>3, SMT DEF FirstStep, MIN_CAP, c
    <3>. QED
      BY <1>5, <2>1, <3>4, <3>5, <3>7, <3>8, Zenon
  <2>. QED
    BY <1>2, <2>2, <2>3, SMT
<1>. QED
  BY <1>6, <1>7, <1>8

\* Every other step up, by half.
LEMMA GrowInvariant ==
  ASSUME IInv, Grow
  PROVE  IInv' /\ new_cap' = (new_cap \div 2) * 3
<1>1. /\ pc = "grow" /\ new_cap' = GROW_CAP(new_cap)
      /\ UNCHANGED <<kind, len, cap, block, intact, pc, op, n>>
  BY Zenon DEF Grow
<1>2. /\ kind \in Kinds /\ len \in Nat /\ n \in Nat /\ cap \in Nat /\ new_cap \in Nat
      /\ n <= kind.most /\ GrowOK
  BY <1>1, SMT DEF IInv, TypeOK, Naturals
<1>3. target_len = len + n /\ new_cap < target_len
  BY <1>1, TargetFits, Zenon DEF Grow
<1>4. /\ (new_cap = 8 \/ new_cap >= 12) /\ 2 * new_cap >= 3 * cap - 3
      /\ kind.heap + kind.most * kind.elem <= CAP_LIMIT
  BY <1>2, <1>3, SMT DEF GrowOK, Proportionate, MIN_CAP
<1>5. (len + n) * kind.elem <= CAP_LIMIT /\ kind.elem \in Nat \ {0}
  BY <1>1, <1>2, <1>4, TargetFits, KindFacts, Zenon
<1>. DEFINE c == (new_cap \div 2) * 3
<1>6. /\ c \in Nat /\ 2 * c <= 3 * new_cap /\ 2 * c >= 3 * new_cap - 3
      /\ (new_cap = 8 => c = 12)
  BY <1>2, HalfAsMuchAgain, SMT
<1>7. GROW_CAP(new_cap) = Wrap(c)
  BY Zenon DEF GROW_CAP
<1>. HIDE DEF c
<1>8. 2 * c <= 3 * (len + n) /\ c >= 12 /\ 2 * c >= 3 * cap - 3 /\ len + n \in Nat
  BY <1>2, <1>3, <1>4, <1>6, SMT
<1>9. c * kind.elem \in Size /\ c \in Size
  BY <1>5, <1>6, <1>8, HalfAgainFits, Zenon
<1>10. new_cap' = c
  BY <1>1, <1>7, <1>9, WrapSmall, Zenon
<1>11. GrowOK'
  <2>1. new_cap' >= MIN_CAP /\ new_cap' >= MIN_CAP + MIN_CAP \div 2
    BY <1>6, <1>8, <1>10, SMT DEF MIN_CAP
  <2>2. Allocatable(new_cap)' /\ Proportionate'
    BY <1>1, <1>8, <1>9, <1>10, Zenon DEF Allocatable, Proportionate, Size
  <2>3. kind'.heap + kind'.most * kind'.elem <= CAP_LIMIT
    BY <1>1, <1>4, Zenon
  <2>. QED
    BY <2>1, <2>2, <2>3, Zenon DEF GrowOK
<1>12. TypeOK' /\ Naturals' /\ BlockOK' /\ ElementsIntact'
  BY <1>1, <1>6, <1>9, <1>10, Zenon DEF IInv, TypeOK, Naturals, BlockOK, ElementsIntact
<1>. QED
  BY <1>1, <1>2, <1>10, <1>11, <1>12, Zenon DEF IInv, c

\* realloc is asked for the bytes of the new capacity, without wrapping.
LEMMA ReallocInvariant ==
  ASSUME IInv, Realloc
  PROVE  IInv' /\ (cap' # cap => cap' = new_cap /\ Proportionate)
<1>1. /\ pc = "grow" /\ new_cap >= target_len
      /\ UNCHANGED <<kind, len, intact, op, n, new_cap>>
  BY Zenon DEF Realloc
<1>2. /\ kind \in Kinds /\ len \in Nat /\ n \in Nat /\ new_cap \in Nat
      /\ n <= kind.most /\ GrowOK /\ new_cap \in Size
  BY <1>1, SMT DEF IInv, TypeOK, Naturals
<1>3. target_len = len + n
  BY <1>1, TargetFits, SMT
<1>4. len + n <= new_cap /\ len <= new_cap
  BY <1>1, <1>2, <1>3, SMT
<1>5. bytes = new_cap * kind.elem /\ bytes \in Size /\ bytes \in Nat
  <2>1. bytes = new_cap * kind.elem /\ bytes \in Size
    BY <1>2, WrapSmall, Zenon DEF bytes, GrowOK, Allocatable
  <2>. QED
    BY <2>1, Limit, SMT DEF Size
<1>6. CASE /\ bytes <= kind.heap
           /\ block' = bytes /\ cap' = new_cap /\ pc' = "fit"
  <2>1. BlockOK'
    <3>1. new_cap * kind.elem <= new_cap * kind.elem
      BY <1>5, SMT
    <3>. QED
      BY <1>1, <1>2, <1>4, <1>5, <1>6, <3>1, Zenon DEF BlockOK, GrowOK
  <2>2. TypeOK' /\ Naturals' /\ ElementsIntact'
    BY <1>1, <1>2, <1>5, <1>6, Zenon DEF IInv, TypeOK, Naturals, ElementsIntact
  <2>3. IInv'
    BY <1>1, <1>2, <1>4, <1>6, <2>1, <2>2, Zenon DEF IInv
  <2>. QED
    BY <1>2, <1>6, <2>3, Zenon DEF GrowOK
<1>7. CASE pc' = "fail" /\ UNCHANGED <<block, cap>>
  <2>1. TypeOK' /\ Naturals' /\ BlockOK' /\ ElementsIntact'
    BY <1>1, <1>7, Zenon DEF IInv, TypeOK, Naturals, BlockOK, ElementsIntact
  <2>. QED
    BY <1>1, <1>2, <1>7, <2>1, Zenon DEF IInv
<1>. QED
  BY <1>6, <1>7, Zenon DEF Realloc

LEMMA FitInvariant == IInv /\ Fit => IInv'
<1>. SUFFICES ASSUME IInv, Fit PROVE IInv'
  OBVIOUS
<1>1. pc = "fit" /\ pc' = "idle" /\ UNCHANGED <<kind, cap, block, op, n, new_cap>>
  BY Zenon DEF Fit
<1>2. /\ len + n \in Size /\ Wrap(len + n) = len + n /\ len + n <= cap /\ n \in Nat
  BY <1>1, TargetFits, WrapSmall, SMT DEF IInv, Naturals
<1>3. len + n \in Nat
  BY <1>2, Limit, SMT DEF Size
<1>4. CASE op = "reserve"
  BY <1>1, <1>4, Zenon
     DEF Fit, IInv, TypeOK, Naturals, BlockOK, ElementsIntact
<1>5. CASE op # "reserve"
  <2>1. /\ len' = len + n
        /\ intact' = (intact /\ (op = "extend_uninit" \/ copied >= n * kind.elem))
    BY <1>2, <1>5, Zenon DEF Fit
  <2>2. TypeOK' /\ Naturals' /\ BlockOK'
    BY <1>1, <1>2, <1>3, <2>1, Zenon DEF IInv, TypeOK, Naturals, BlockOK
  <2>3. kind.elem \in Nat
    BY KindFacts, SMT DEF IInv, TypeOK
  <2>4. kind.lib = "da" \/ kind.elem = 1 => copied >= n * kind.elem
    BY <1>2, <2>3, SMT DEF copied
  <2>5. ElementsIntact'
    BY <1>1, <2>1, <2>4, Zenon DEF IInv, ElementsIntact
  <2>. QED
    BY <1>1, <2>2, <2>5, Zenon DEF IInv
<1>. QED
  BY <1>4, <1>5

LEMMA FailedCallInvariant == IInv /\ FailedCall => IInv'
<1>. SUFFICES ASSUME IInv, FailedCall PROVE IInv'
  OBVIOUS
<1>1. pc' = "idle" /\ UNCHANGED <<kind, len, cap, block, intact, op, n, new_cap>>
  BY Zenon DEF FailedCall
<1>2. TypeOK' /\ Naturals' /\ BlockOK' /\ ElementsIntact'
  BY <1>1, Zenon DEF IInv, TypeOK, Naturals, BlockOK, ElementsIntact
<1>. QED
  BY <1>1, <1>2, Zenon DEF IInv

LEMMA PopInvariant == IInv /\ Pop => IInv'
<1>. SUFFICES ASSUME IInv, Pop PROVE IInv'
  OBVIOUS
<1>1. /\ len' = len - 1 /\ pc = "idle" /\ len > 0 /\ len \in Nat /\ len \in Size
      /\ len <= cap /\ cap \in Nat
      /\ UNCHANGED <<kind, cap, block, intact, pc, op, n, new_cap>>
  BY SMT DEF Pop, IInv, Naturals, TypeOK, BlockOK
<1>2. len' \in Nat /\ len' \in Size /\ len' <= cap
  BY <1>1, Limit, SMT DEF Size
<1>3. TypeOK' /\ Naturals' /\ BlockOK' /\ ElementsIntact'
  BY <1>1, <1>2, Zenon DEF IInv, TypeOK, Naturals, BlockOK, ElementsIntact
<1>. QED
  BY <1>1, <1>3, Zenon DEF IInv

LEMMA StutterInvariant == IInv /\ UNCHANGED vars => IInv'
<1>. SUFFICES ASSUME IInv, UNCHANGED vars PROVE IInv'
  OBVIOUS
<1>1. UNCHANGED <<kind, len, cap, block, intact, pc, op, n, new_cap>>
  BY Zenon DEF vars
<1>2. TypeOK' /\ Naturals' /\ BlockOK' /\ ElementsIntact'
  BY <1>1, Zenon DEF IInv, TypeOK, Naturals, BlockOK, ElementsIntact
<1>3. GrowOK' = GrowOK
  BY <1>1 DEF GrowOK, Allocatable, Proportionate, Size
<1>. QED
  BY <1>1, <1>2, <1>3, Zenon DEF IInv

\* The only step that changes the capacity is the reallocation.
LEMMA NextInvariant ==
  ASSUME IInv, Next
  PROVE  IInv' /\ (cap' # cap => cap' = new_cap /\ Proportionate /\ UNCHANGED <<len, n>>)
<1>1. CASE \E f \in {"reserve", "extend_uninit", "extend", "push"} : Call(f)
  BY <1>1, CallInvariant, Zenon DEF Call
<1>2. CASE Pop
  BY <1>2, PopInvariant, Zenon DEF Pop
<1>3. CASE Reserve
  BY <1>3, ReserveInvariant, Zenon DEF Reserve
<1>4. CASE Grow
  BY <1>4, GrowInvariant, Zenon DEF Grow
<1>5. CASE Realloc
  BY <1>5, ReallocInvariant, Zenon DEF Realloc
<1>6. CASE Fit
  BY <1>6, FitInvariant, Zenon DEF Fit
<1>7. CASE FailedCall
  BY <1>7, FailedCallInvariant, Zenon DEF FailedCall
<1>. QED
  BY <1>1, <1>2, <1>3, <1>4, <1>5, <1>6, <1>7, Zenon DEF Next, DaCall, VecCall, Running

THEOREM Invariance == Spec => []IInv
<1>1. IInv /\ [Next]_vars => IInv'
  BY NextInvariant, StutterInvariant, Zenon
<1>. QED
  BY <1>1, InitInvariant, PTL DEF Spec

-----------------------------------------------------------------------------
(* The properties.                                                         *)

\* When reserve returns true there is room for what was asked for, counted
\* without wrapping, and the elements are as their owner gave them: for every
\* width of size_t, at the end of the address space too.
THEOREM ArraySafe == Spec => []ArrayOK
<1>1. IInv => ArrayOK
  <2>. SUFFICES ASSUME IInv PROVE ArrayOK
    OBVIOUS
  <2>1. /\ kind \in Kinds /\ {len, cap, block, n} \subseteq Nat /\ BlockOK
        /\ (pc = "fit" => len + n <= cap)
    BY SMT DEF IInv, TypeOK, Naturals
  <2>2. kind.elem \in Nat
    BY <2>1, KindFacts, SMT
  <2>3. pc = "fit" => (len + n) * kind.elem <= block
    <3>. SUFFICES ASSUME pc = "fit" PROVE (len + n) * kind.elem <= block
      OBVIOUS
    <3>1. len + n \in Nat /\ cap \in Nat /\ len + n <= cap
      BY <2>1, SMT
    <3>2. (len + n) * kind.elem <= cap * kind.elem /\ (len + n) * kind.elem \in Nat
          /\ cap * kind.elem \in Nat
      BY <2>2, <3>1, TimesMonotone, Zenon
    <3>. QED
      BY <2>1, <3>2, SMT DEF BlockOK
  <2>. QED
    BY <2>1, <2>3, Zenon DEF IInv, ArrayOK, RoomIsThere, BlockOK
<1>. QED
  BY <1>1, Invariance, PTL

\* The capacity grows by half at least, and to half more than is needed at
\* most, whatever the width of size_t.
THEOREM GrowthProportionate == Spec => GrowsInProportion
<1>1. ASSUME IInv, Next, cap' # cap
      PROVE  /\ 2 * cap' >= 3 * cap - 3
             /\ cap' = MIN_CAP \/ 2 * cap' <= 3 * (len + n)
  BY <1>1, NextInvariant, Zenon DEF Proportionate
<1>2. IInv /\ [Next]_vars =>
        [cap' # cap => /\ 2 * cap' >= 3 * cap - 3
                       /\ cap' = MIN_CAP \/ 2 * cap' <= 3 * (len + n)]_vars
  BY <1>1, Zenon
<1>. QED
  BY <1>2, Invariance, PTL DEF Spec, GrowsInProportion

-----------------------------------------------------------------------------
(* The loop, in size_t arithmetic and without.                             *)

Growing == INSTANCE KrsStrProofs

\* Where the loop of CstrBuf leads, as a function of where it stands.
Loop(t) ==
  LET grow[c \in Nat] == IF c < t THEN grow[Growth!GROW_CAP(c)] ELSE c
  IN  grow

\* It leads to the same capacity from here as from the start of the loop.
LoopOK == pc = "grow" => Loop(len + n)[new_cap] = Growth!new_cap(cap, len + n)

\* Its equation: this is where the existence of a solution is needed.
LEMMA LoopEquation ==
  ASSUME NEW t \in Nat, NEW c \in Nat
  PROVE  Loop(t)[c] = IF c < t THEN Loop(t)[(c \div 2) * 3] ELSE c
<1>1. \E g : Growing!Grows(g, t)
  BY ByteAssumption, Growing!GrowthSolved, Zenon DEF ByteAssumption, NUL, Growing!NUL
<1>2. \E g : g = [d \in Nat |-> IF d < t THEN g[(d \div 2) * 3] ELSE d]
  BY <1>1, Zenon DEF Growing!Grows, Growing!GROW_CAP
<1>3. Loop(t) = [d \in Nat |-> IF d < t THEN Loop(t)[(d \div 2) * 3] ELSE d]
  BY <1>2, Zenon DEF Loop, Growth!GROW_CAP
<1>. QED
  BY <1>3, Zenon

\* The loop starts where the other one does.
LEMMA LoopStart ==
  ASSUME NEW t \in Nat, NEW c \in Nat
  PROVE  Growth!new_cap(c, t) = Loop(t)[FirstStep(c)]
BY Zenon DEF Growth!new_cap, Loop, FirstStep, MIN_CAP, Growth!MIN_CAP, Growth!GROW_CAP

LEMMA LoopInvariant == IInv /\ LoopOK /\ [Next]_vars => LoopOK'
<1>. SUFFICES ASSUME IInv, LoopOK, [Next]_vars, pc' = "grow"
              PROVE  Loop(len' + n')[new_cap'] = Growth!new_cap(cap', len' + n')
  BY Zenon DEF LoopOK
<1>1. /\ len \in Nat /\ n \in Nat /\ cap \in Nat /\ new_cap \in Nat
      /\ len + n \in Nat
  BY SMT DEF IInv, Naturals
<1>2. CASE Reserve
  <2>1. new_cap' = FirstStep(cap) /\ UNCHANGED <<len, n, cap>>
    BY <1>2, ReserveInvariant, Zenon DEF Reserve
  <2>. QED
    BY <1>1, <2>1, LoopStart, Zenon
<1>3. CASE Grow
  <2>1. /\ new_cap' = (new_cap \div 2) * 3 /\ UNCHANGED <<len, n, cap>>
        /\ pc = "grow" /\ new_cap < len + n
    BY <1>3, GrowInvariant, TargetFits, Zenon DEF Grow
  <2>2. Loop(len + n)[new_cap] = Loop(len + n)[(new_cap \div 2) * 3]
    BY <1>1, <2>1, LoopEquation, Zenon
  <2>. QED
    BY <2>1, <2>2, Zenon DEF LoopOK
<1>4. CASE UNCHANGED vars
  BY <1>4, Zenon DEF LoopOK, vars
<1>. QED
  BY <1>2, <1>3, <1>4, Zenon
     DEF Next, DaCall, VecCall, Call, Pop, Running, Realloc, Fit, FailedCall

\* Wherever the loop stops, it is at the capacity that CstrBuf, and all that is
\* built on it, computes without a size_t: for every width of size_t.
THEOREM LoopAgrees == Spec => []AgreesWithCstrBuf
<1>1. IInv /\ LoopOK => AgreesWithCstrBuf
  <2>. SUFFICES ASSUME IInv, LoopOK, pc = "grow", new_cap >= target_len
                PROVE  new_cap = Growth!new_cap(cap, len + n)
    BY Zenon DEF AgreesWithCstrBuf
  <2>1. len + n \in Nat /\ new_cap \in Nat
    BY SMT DEF IInv, Naturals
  <2>2. ~(new_cap < len + n)
    BY <2>1, TargetFits, SMT
  <2>. QED
    BY <2>1, <2>2, LoopEquation, Zenon DEF LoopOK
<1>2. Init => LoopOK
  BY Zenon DEF Init, LoopOK
<1>. QED
  BY <1>1, <1>2, LoopInvariant, Invariance, PTL DEF Spec
=============================================================================
