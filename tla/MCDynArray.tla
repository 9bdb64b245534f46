----------------------------- MODULE MCDynArray -----------------------------
(* Model checking DynArray with a size_t of six bits: an array of bytes  *)
(* that may fill the address space, and arrays that share it with what is  *)
(* added to them.                                                          *)
EXTENDS DynArray

Third == SIZE_MAX \div 3

Kind(lib, elem, heap, most) == [lib |-> lib, elem |-> elem, heap |-> heap, most |-> most]

MCKinds == {Kind("da", 1, SIZE_MAX - 4, 4)}
             \cup {Kind(lib, elem, Third, Third \div elem) : lib \in {"da", "vec"}, elem \in {1, 2}}
=============================================================================
