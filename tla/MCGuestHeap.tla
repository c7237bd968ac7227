----------------------------- MODULE MCGuestHeap -----------------------------
(***************************************************************************)
(* An instance of GuestHeap for TLC: grains of two cells, a heap of four   *)
(* grains, an object of two cells in the image before it, words of six    *)
(* bits.                                                                   *)
(***************************************************************************)
EXTENDS GuestHeap

MCTexts == {<<1, 1>>, <<>>}
=============================================================================
