------------------------------ MODULE MCLinks ------------------------------
(* A slice of two links and a field with one: the first and the last lead to  *)
(* one child.  Each child is new or already stored, one link left empty.      *)
EXTENDS Links

CONSTANTS p, c1, c2

OneTwice == <<c1, c2, c1>>
SliceAndField == <<1, 1, 2>>

ApartOrShared == {{1, 2}, {1, 3}}
NoneOrAll == {{}, {1, 2, 3}}
=============================================================================
