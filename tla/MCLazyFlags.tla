----------------------------- MODULE MCLazyFlags -----------------------------
(***************************************************************************)
(* Instances of LazyFlags for TLC, on words of two bits: the smallest with *)
(* a value for every combination of sign, carry and overflow.              *)
(***************************************************************************)
EXTENDS LazyFlags

Every(b) == [S |-> b, Z |-> b, C |-> b, O |-> b]

MCClobbers == {Every(FALSE), Every(TRUE)}

MCImms == {[N |-> FALSE, Z |-> TRUE, C |-> FALSE, V |-> FALSE],
           [N |-> TRUE, Z |-> FALSE, C |-> TRUE, V |-> TRUE]}
=============================================================================
