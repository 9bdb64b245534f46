------------------------------ MODULE DynArray -------------------------------
(***************************************************************************)
(* The growing arrays of lib/krs: da_reserve_ and da_extend_ of            *)
(* krs_dynamic_array.c, in size_t arithmetic and with the growth loop step *)
(* by step, and krs_vec.inc.h, which has the same reserve, copies          *)
(* differently, and has a pop.                                             *)
(*                                                                         *)
(* Elements are anonymous: what is kept is where they lie.                 *)
(***************************************************************************)
EXTENDS Integers, FiniteSets

CONSTANTS
  SIZE_MAX,
  Kinds       \* the arrays: library, size of an element, bytes malloc can
              \* give, and the most elements a call asks for

Size == 0 .. SIZE_MAX

MIN_CAP   == 8
CAP_LIMIT == (SIZE_MAX \div 3) * 2

ASSUME SizeAssumption  == SIZE_MAX \in Nat /\ SIZE_MAX >= 2 * MIN_CAP
ASSUME KindsAssumption ==
  Kinds \subseteq [lib : {"da", "vec"}, elem : 1 .. SIZE_MAX \div MIN_CAP, heap : Size,
                  most : Size \ {0}]

(***************************************************************************)
(* Nothing asks for sizes that do not exist.  The array and the elements   *)
(* to be added are in memory together, in two thirds of the address space; *)
(* or else it is an array of bytes that grows little by little.            *)
(***************************************************************************)
ASSUME RequestAssumption ==
  \A k \in Kinds :
    \/ k.heap + k.most * k.elem <= CAP_LIMIT
    \/ k.elem = 1 /\ k.most <= MIN_CAP \div 2 /\ k.heap + k.most <= SIZE_MAX

VARIABLES
  kind,     \* the array's kind, which is fixed
  len, cap,
  block,    \* the size of the allocation at ptr, 0 for NULL
  intact,   \* every element up to len is whole, as its owner gave it
  pc,       \* "idle", "reserve", "grow", "fit" or "fail"
  op, n,    \* the call under way, and what it asks for
  new_cap

vars == <<kind, len, cap, block, intact, pc, op, n, new_cap>>

Wrap(x) == x % (SIZE_MAX + 1)

\* Seeded fault: the capacity doubles.
Doubled(c) == Wrap(c * 2)

GROW_CAP(c) == Wrap((c \div 2) * 3)
target_len  == Wrap(len + n)

Init ==
  /\ kind \in Kinds
  /\ len = 0 /\ cap = 0 /\ block = 0 /\ intact = TRUE
  /\ pc = "idle" /\ op = "reserve" /\ n = 0 /\ new_cap = 0

-----------------------------------------------------------------------------
Call(f) ==
  /\ pc = "idle"
  /\ op' = f
  /\ n' \in IF f = "push" THEN {1} ELSE 0 .. kind.most
  /\ pc' = "reserve"
  /\ UNCHANGED <<kind, len, cap, block, intact, new_cap>>

\* Seeded fault: an array that cannot grow any more is not refused.
ReserveUnlimited ==
  /\ pc = "reserve"
  /\ IF target_len <= cap
     THEN pc' = "fit" /\ UNCHANGED new_cap
     ELSE pc' = "grow" /\ new_cap' = IF cap < MIN_CAP THEN MIN_CAP ELSE GROW_CAP(cap)
  /\ UNCHANGED <<kind, len, cap, block, intact, op, n>>

Reserve ==
  /\ pc = "reserve"
  /\ IF target_len <= cap THEN pc' = "fit" /\ UNCHANGED new_cap
     ELSE IF cap >= CAP_LIMIT THEN pc' = "fail" /\ UNCHANGED new_cap
     ELSE pc' = "grow" /\ new_cap' = IF cap < MIN_CAP THEN MIN_CAP ELSE GROW_CAP(cap)
  /\ UNCHANGED <<kind, len, cap, block, intact, op, n>>

Grow ==
  /\ pc = "grow" /\ new_cap < target_len
  /\ new_cap' = GROW_CAP(new_cap)
  /\ UNCHANGED <<kind, len, cap, block, intact, pc, op, n>>

\* Seeded fault: the size is that of the elements, not of the capacity.
bytes_of_target == Wrap(target_len * kind.elem)

bytes == Wrap(new_cap * kind.elem)

\* Seeded fault: the capacity is recorded as what was asked for.
ReallocExact ==
  /\ pc = "grow" /\ new_cap >= target_len
  /\ \/ /\ bytes <= kind.heap
        /\ block' = bytes /\ cap' = target_len /\ pc' = "fit"
     \/ pc' = "fail" /\ UNCHANGED <<block, cap>>
  /\ UNCHANGED <<kind, len, intact, op, n, new_cap>>

\* realloc gives what is asked for, or fails and leaves the block alone.
Realloc ==
  /\ pc = "grow" /\ new_cap >= target_len
  /\ \/ /\ bytes <= kind.heap
        /\ block' = bytes /\ cap' = new_cap /\ pc' = "fit"
     \/ pc' = "fail" /\ UNCHANGED <<block, cap>>
  /\ UNCHANGED <<kind, len, intact, op, n, new_cap>>

\* da_extend_ copies n elements; the vec's append copies n bytes.
copied == IF kind.lib = "da" THEN n * kind.elem ELSE n

\* The elements are there from now on, though nothing was copied to them.
Fit ==
  /\ pc = "fit"
  /\ IF op = "reserve" THEN UNCHANGED <<len, intact>>
     ELSE /\ len' = Wrap(len + n)
          /\ intact' = (intact /\ (op = "extend_uninit" \/ copied >= n * kind.elem))
  /\ pc' = "idle"
  /\ UNCHANGED <<kind, cap, block, op, n, new_cap>>

\* The call returns false.
FailedCall ==
  /\ pc = "fail"
  /\ pc' = "idle"
  /\ UNCHANGED <<kind, len, cap, block, intact, op, n, new_cap>>

\* The vec's pop; cstrbuf_extend_cstrn takes its terminator back likewise.
Pop ==
  /\ pc = "idle" /\ len > 0
  /\ len' = len - 1
  /\ UNCHANGED <<kind, cap, block, intact, pc, op, n, new_cap>>

DaCall  == kind.lib = "da" /\ \E f \in {"reserve", "extend_uninit", "extend"} : Call(f)
VecCall == kind.lib = "vec" /\ \E f \in {"reserve", "extend", "push"} : Call(f)

Running  == Reserve \/ Grow \/ Realloc \/ Fit \/ FailedCall
Next     == DaCall \/ VecCall \/ Pop \/ Running
Spec     == Init /\ [][Next]_vars
FairSpec == Spec /\ WF_vars(Running)

-----------------------------------------------------------------------------
(* Properties.                                                             *)

Growth == INSTANCE CstrBuf

TypeOK ==
  /\ kind \in Kinds
  /\ {len, cap, block, n, new_cap} \subseteq Size /\ intact \in BOOLEAN
  /\ pc \in {"idle", "reserve", "grow", "fit", "fail"}
  /\ op \in {"reserve", "extend_uninit", "extend", "push"}

(***************************************************************************)
(* When reserve returns true there is room in the block for the elements   *)
(* asked for, counted without wrapping; and at all times the block holds   *)
(* every element the array says it has room for.                           *)
(***************************************************************************)
RoomIsThere ==
  /\ pc = "fit" => (len + n) * kind.elem <= block
  /\ len <= cap /\ cap * kind.elem <= block

(***************************************************************************)
(* The elements are what their owner gave: always with da_extend, but with *)
(* the vec's append only if an element is one byte.                        *)
(***************************************************************************)
ElementsIntact == kind.lib = "da" \/ kind.elem = 1 => intact

(***************************************************************************)
(* Whatever is asked of an array that RequestAssumption admits, its sizes  *)
(* are sizes, its elements have room, and except in a vec of elements      *)
(* larger than a byte they are what they were.                             *)
(***************************************************************************)
ArrayOK == TypeOK /\ RoomIsThere /\ ElementsIntact

(***************************************************************************)
(* The block grows in proportion: by about a half at least, so that adding *)
(* elements one by one costs a constant number of copies each, and to no   *)
(* more than half as much again as is needed.                              *)
(***************************************************************************)
GrowsInProportion ==
  [][cap' # cap => /\ 2 * cap' >= 3 * cap - 3
                   /\ cap' = MIN_CAP \/ 2 * cap' <= 3 * (len + n)]_vars

(***************************************************************************)
(* The capacity the loop arrives at in size_t arithmetic is the one that   *)
(* CstrBuf, and the modules built on it, compute with natural numbers.     *)
(***************************************************************************)
AgreesWithCstrBuf ==
  pc = "grow" /\ new_cap >= target_len => new_cap = Growth!new_cap(cap, len + n)

\* Every call returns: the growth loop never goes round in circles.
CallReturns == pc # "idle" ~> pc = "idle"
=============================================================================
