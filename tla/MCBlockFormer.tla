---------------------------- MODULE MCBlockFormer ----------------------------
(***************************************************************************)
(* An instance of BlockFormer for TLC: a window of three instructions, an  *)
(* address behind it, a host function, blocks of at most three             *)
(* instructions, and every program made of the instructions below.         *)
(***************************************************************************)
EXTENDS BlockFormer

MCAddr    == 0 .. 4
MCWindow  == 0 .. 2

MCInsns == [op : {"b"}, to : Addr] \cup [op : {"bcond"}, to : {0, 2, 4}]
           \cup [op : {"bl"}, to : {1, 4}]
           \cup [op : {"plain", "br", "blr", "ret", "svc", "bad"}]

MCPrograms == [Window -> MCInsns]
=============================================================================
