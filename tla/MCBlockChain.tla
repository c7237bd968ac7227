---------------------------- MODULE MCBlockChain ----------------------------
(***************************************************************************)
(* Instances of BlockChain for TLC: three blocks in the window (4, 8, 12), *)
(* one address outside it (20), one host function (100), and a two-slot    *)
(* DMC in which 4, 12 and 20 collide.                                      *)
(***************************************************************************)
EXTENDS BlockChain

MCWindow == {4, 8, 12}
MCAddr   == MCWindow \cup {20, 100}
ZeroAddr == MCAddr \cup {0}

\* 12's code was placed out of rel32 reach of 4's, and only of 4's.
MCNear  == (Addr \X Addr) \ {<<4, 12>>, <<12, 4>>}
AllNear == Addr \X Addr

Ends(exits, term, to, next) ==
  [exits |-> exits, term |-> term, to |-> to, next |-> next]

Branch(exits)      == Ends(exits, "branch", 4, 4)
Bl(exits, to, ra)  == Ends(exits, "bl", to, ra)
Br(exits)          == Ends(exits, "br", 4, 4)
Blr(exits, ra)     == Ends(exits, "blr", 4, ra)
Ret(exits)         == Ends(exits, "ret", 4, 4)
Svc(exits, next)   == Ends(exits, "svc", 4, next)
Bad(exits, at)     == Ends(exits, "bad", 4, at)
RunsOff(exits, at) == Ends(exits, "fault", 4, at)

\* A caller, a block in the middle and a callee, in every combination.
MCPrograms ==
  [Window -> {Branch({4, 8}), Branch({8, 12}), Branch({4, 20, 100}),
              Bl({}, 8, 12), Br({}), Blr({4}, 8), Ret({12}), Svc({}, 12)}]
  \cup {[a \in Window |-> CASE a = 4  -> s
                            [] a = 8  -> Bl({4}, 100, 12)
                            [] a = 12 -> Ret({8})] :
          s \in {Bad({8, 12}, 8), RunsOff({8, 12}, 20), Blr({8, 12}, 8)}}

\* Loops and calls by direct branches only.
DirectPrograms ==
  [Window -> {Branch({4}), Branch({8}), Branch({12}), Branch({4, 8}),
              Branch({8, 12}), Branch({4, 12}), Bl({}, 8, 12), Bl({4}, 12, 8)}]

\* A call or a tail call through a null function pointer.
NullBranches ==
  {[a \in Window |-> CASE a = 4  -> Branch({8, 12})
                       [] a = 8  -> s
                       [] a = 12 -> Ret({8})] : s \in {Br({}), Blr({}, 12)}}

DirectOrNull == DirectPrograms \cup NullBranches
=============================================================================
