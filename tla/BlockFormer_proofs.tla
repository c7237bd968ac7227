------------------------- MODULE BlockFormer_proofs -------------------------
(***************************************************************************)
(* Blocks are formed soundly for any program, any window and any limit on  *)
(* the length of a block: a block always ends in an exit, and its host     *)
(* code does what the guest's instructions do, one after the other.        *)
(***************************************************************************)
EXTENDS BlockFormer, TLAPS

Last(s) == s[Len(s)]

\* Operations that may be followed by another.
Inner(op) == op.op \in {"plain", "bcond"}

\* An operation is the instruction it was translated from.
Faithful(op) ==
  CASE op.op \in {"bcond", "bl"} ->
         op.at \in Window /\ code[op.at].op = op.op /\ code[op.at].to = op.to
    [] op.op \in {"plain", "br", "blr", "ret", "svc"} ->
         op.at \in Window /\ code[op.at].op = op.op
    [] op.op = "undef" -> op.at \in Window /\ code[op.at].op = "bad"
    [] op.op = "fault" -> op.at \notin Window /\ ~IsThunk(op.at)
    [] op.op = "exit"  -> TRUE

\* Each operation is where branches alone lead from the one before, and the
\* first where they lead from the start of the block.
Linked(ops) ==
  /\ Len(ops) > 0 => ops[1].at \in Flow!Through(pc)
  /\ \A k \in 1 .. Len(ops) - 1 : ops[k + 1].at \in Flow!Through(ops[k].at + 1)

\* Where the host is when it has executed ops.
EndOf(ops, a) ==
  IF Len(ops) = 0 THEN a \in Flow!Through(pc)
  ELSE a \in Flow!Through(Last(ops).at + 1)

Partial ==
  /\ n < MaxInsns
  /\ ~IsThunk(next_pc)
  /\ \A k \in 1 .. Len(emitted) : Inner(emitted[k]) /\ Faithful(emitted[k])
  /\ Linked(emitted) /\ EndOf(emitted, next_pc)

Complete ==
  /\ Len(emitted) >= 1 /\ ip \in 1 .. Len(emitted)
  /\ ~Inner(Last(emitted))
  /\ \A k \in 1 .. Len(emitted) : Faithful(emitted[k])
  /\ Linked(emitted)

IInv ==
  /\ TypeOK
  /\ phase # "host" => status = "running" /\ ~svc
  /\ phase = "build" => ~IsThunk(pc) /\ ip = 1 /\ Partial
  /\ phase = "block" => Complete

----------------------------------------------------------------------------
(* Branches alone.                                                         *)

LEMMA ThroughSelf == \A a \in Addr : a \in Flow!Through(a)
BY DEF Flow!Through

\* A branch at the end of the way leads one further.
LEMMA ThroughStep ==
  ASSUME NEW a, NEW c \in Flow!Through(a), c \in Window, code[c].op = "b",
         code[c].to \in Addr
  PROVE  code[c].to \in Flow!Through(a)
<1> SUFFICES ASSUME NEW S \in SUBSET Addr, a \in S, Flow!Closed(S)
             PROVE  code[c].to \in S
  BY DEF Flow!Through
<1>1. c \in S
  BY DEF Flow!Through
<1> QED BY <1>1 DEF Flow!Closed

\* Where there is no branch the way ends at once.
LEMMA ThroughFirst ==
  ASSUME NEW a \in Addr, NEW c \in Flow!Through(a), c # a
  PROVE  a \in Window /\ code[a].op = "b"
<1> SUFFICES ASSUME ~(a \in Window /\ code[a].op = "b") PROVE FALSE
  OBVIOUS
<1>1. Flow!Closed({a})
  BY DEF Flow!Closed
<1>2. c \in {a}
  BY <1>1 DEF Flow!Through
<1> QED BY <1>2

\* The program does not change, nor do the ways through its branches.
LEMMA SameWays ==
  ASSUME code' = code
  PROVE  /\ \A a : Flow!Through(a)' = Flow!Through(a)
         /\ \A op : Faithful(op)' <=> Faithful(op)
BY DEF Flow!Through, Flow!Closed, Faithful

LEMMA InsnFacts ==
  ASSUME TypeOK, NEW a \in Window
  PROVE  /\ code[a] \in Flow!Insns
         /\ a \in Addr /\ a + 1 \in Addr /\ ~IsThunk(a) /\ ~IsThunk(a + 1)
         /\ code[a].op \in {"b", "bcond", "bl"} => code[a].to \in Addr
<1>1. code \in [Window -> Flow!Insns]
  BY ProgramAssumption DEF TypeOK
<1>2. code[a] \in Flow!Insns
  BY <1>1
<1>3. code[a].op \in {"b", "bcond", "bl"} => code[a].to \in Addr
  BY <1>2 DEF Flow!Insns
<1> QED BY <1>2, <1>3, AddrAssumption

----------------------------------------------------------------------------
(* The builder.                                                            *)

\* One operation more.
LEMMA LinkedAppend ==
  ASSUME NEW s \in Seq(Ops), NEW op \in Ops, Linked(s), EndOf(s, op.at)
  PROVE  /\ Append(s, op) \in Seq(Ops) /\ Len(Append(s, op)) = Len(s) + 1
         /\ Last(Append(s, op)) = op
         /\ \A k \in 1 .. Len(s) : Append(s, op)[k] = s[k]
         /\ Linked(Append(s, op))
<1> DEFINE t == Append(s, op)
<1>1. /\ t \in Seq(Ops) /\ Len(t) = Len(s) + 1 /\ Len(s) \in Nat
      /\ t[Len(s) + 1] = op /\ \A k \in 1 .. Len(s) : t[k] = s[k]
  OBVIOUS
<1> HIDE DEF t
<1>2. Last(t) = op
  BY <1>1 DEF Last
<1>3. t[1].at \in Flow!Through(pc)
  <2>1. CASE Len(s) = 0
    BY <1>1, <2>1 DEF EndOf
  <2>2. CASE Len(s) > 0
    BY <1>1, <2>2 DEF Linked
  <2> QED BY <1>1, <2>1, <2>2
<1>4. ASSUME NEW k \in 1 .. Len(t) - 1
      PROVE  t[k + 1].at \in Flow!Through(t[k].at + 1)
  <2>1. CASE k = Len(s)
    BY <1>1, <1>4, <2>1 DEF EndOf, Last
  <2>2. CASE k < Len(s)
    <3>1. k \in 1 .. Len(s) - 1 /\ k \in 1 .. Len(s) /\ k + 1 \in 1 .. Len(s)
      BY <1>1, <2>2
    <3> QED BY <1>1, <3>1 DEF Linked
  <2> QED BY <1>1, <2>1, <2>2
<1>5. Linked(t)
  BY <1>3, <1>4 DEF Linked
<1> QED BY <1>1, <1>2, <1>5 DEF t

\* The block is finished with an operation that leaves it.
LEMMA FinishKeeps ==
  ASSUME IInv, phase = "build", NEW op \in Ops, ~Inner(op), Faithful(op),
         EndOf(emitted, op.at), emitted' = Append(emitted, op), phase' = "block",
         next_pc' \in Addr, n' \in 0 .. MaxInsns, UNCHANGED <<guest, ip>>
  PROVE  IInv'
<1>1. TypeOK /\ Partial /\ ip = 1 /\ status = "running" /\ ~svc
  BY DEF IInv
<1>2. code' = code /\ pc' = pc /\ lr' = lr /\ svc' = svc /\ status' = status /\ ip' = ip
  BY DEF guest
<1>3. /\ emitted' \in Seq(Ops) /\ Len(emitted') = Len(emitted) + 1
      /\ Len(emitted) \in Nat
      /\ Last(emitted') = op /\ Linked(emitted')
      /\ \A k \in 1 .. Len(emitted) : emitted'[k] = emitted[k]
  BY <1>1, LinkedAppend DEF TypeOK, Partial
<1>4. \A k \in 1 .. Len(emitted') : Faithful(emitted'[k])
  BY <1>1, <1>3 DEF Partial, Last
<1>5. (\A a : Flow!Through(a)' = Flow!Through(a))
      /\ (\A o : Faithful(o)' <=> Faithful(o))
  BY <1>2, SameWays
<1>6. TypeOK'
  BY <1>1, <1>2, <1>3 DEF TypeOK
<1>7. Linked(emitted)'
  BY <1>2, <1>3, <1>5 DEF Linked
<1>8. Complete'
  <2>1. ~Inner(Last(emitted))'
    BY <1>3 DEF Inner, Last
  <2>2. (\A k \in 1 .. Len(emitted) : Faithful(emitted[k]))'
    BY <1>2, <1>4 DEF Faithful
  <2> QED BY <1>1, <1>2, <1>3, <1>7, <2>1, <2>2 DEF Complete
<1> QED BY <1>1, <1>2, <1>6, <1>8 DEF IInv

\* Translation goes on at a, or the block is cut there.
LEMMA ContinueKeeps ==
  ASSUME IInv, phase = "build", NEW ops \in Seq(Ops), NEW a \in Addr, ~IsThunk(a),
         Linked(ops), EndOf(ops, a), a \in Flow!Through(a),
         \A k \in 1 .. Len(ops) : Inner(ops[k]) /\ Faithful(ops[k]),
         Continue(a, ops), UNCHANGED <<guest, ip>>
  PROVE  IInv'
<1> DEFINE op == [op |-> "exit", at |-> a]
<1>1. TypeOK /\ Partial /\ ip = 1 /\ status = "running" /\ ~svc /\ ~IsThunk(pc)
      /\ n \in Nat /\ n < MaxInsns /\ MaxInsns \in Nat
  BY LimitAssumption DEF IInv, TypeOK, Partial
<1>2. code' = code /\ pc' = pc /\ lr' = lr /\ svc' = svc /\ status' = status /\ ip' = ip
  BY DEF guest
<1>3. next_pc' = a /\ n' = n + 1
  BY DEF Continue
<1>4. CASE n = MaxInsns - 1
  <2>1. op \in Ops /\ ~Inner(op) /\ Faithful(op) /\ op.at = a
    BY DEF Ops, Inner, Faithful
  <2>2. emitted' = Append(ops, op) /\ phase' = "block"
    BY <1>1, <1>3, <1>4 DEF Continue, Cuts, IsOver
  <2> HIDE DEF op
  <2>3. /\ emitted' \in Seq(Ops) /\ Len(emitted') = Len(ops) + 1 /\ Len(ops) \in Nat
        /\ Last(emitted') = op /\ Linked(emitted')
        /\ \A k \in 1 .. Len(ops) : emitted'[k] = ops[k]
    BY <2>1, <2>2, LinkedAppend
  <2>4. \A k \in 1 .. Len(emitted') : Faithful(emitted'[k])
    BY <2>1, <2>3 DEF Last
  <2>5. (\A k \in 1 .. Len(emitted) : Faithful(emitted[k]))'
    BY <1>2, <2>4 DEF Faithful
  <2>6. \A c : Flow!Through(c)' = Flow!Through(c)
    BY <1>2, SameWays
  <2>7. Linked(emitted)'
    BY <1>2, <2>3, <2>6 DEF Linked
  <2>8. ~Inner(Last(emitted))'
    BY <2>1, <2>3 DEF Inner, Last
  <2>9. Complete'
    BY <1>1, <1>2, <2>3, <2>5, <2>7, <2>8 DEF Complete
  <2>10. TypeOK'
    BY <1>1, <1>2, <1>3, <2>2, <2>3 DEF TypeOK
  <2> QED BY <1>1, <1>2, <2>2, <2>9, <2>10 DEF IInv
<1>5. CASE n < MaxInsns - 1
  <2>1. emitted' = ops /\ phase' = "build"
    BY <1>1, <1>3, <1>5 DEF Continue, Cuts, IsOver
  <2>2. \A c : Flow!Through(c)' = Flow!Through(c)
    BY <1>2, SameWays
  <2>3. Linked(emitted)' /\ EndOf(emitted, next_pc)'
    BY <1>2, <1>3, <2>1, <2>2 DEF Linked, EndOf, Last
  <2>4. (\A k \in 1 .. Len(emitted) : Inner(emitted[k]) /\ Faithful(emitted[k]))'
    BY <1>2, <2>1 DEF Faithful, Inner
  <2>5. Partial' /\ ~IsThunk(pc)'
    BY <1>1, <1>2, <1>3, <1>5, <2>3, <2>4 DEF Partial, IsThunk
  <2>6. TypeOK'
    BY <1>1, <1>2, <1>3, <1>5, <2>1 DEF TypeOK
  <2> QED BY <1>1, <1>2, <2>1, <2>5, <2>6 DEF IInv
<1> QED BY <1>1, <1>4, <1>5

LEMMA BuildOK == ASSUME IInv, Build PROVE IInv'
<1>1. /\ phase = "build" /\ UNCHANGED <<guest, ip>>
      /\ TypeOK /\ Partial /\ next_pc \in Addr /\ n \in 0 .. MaxInsns
      /\ emitted \in Seq(Ops) /\ ~IsThunk(next_pc)
      /\ Linked(emitted) /\ EndOf(emitted, next_pc)
      /\ \A k \in 1 .. Len(emitted) : Inner(emitted[k]) /\ Faithful(emitted[k])
  BY DEF Build, FetchFault, Unknown, Straight, SideExit, Jump, Ending, Fetching,
         Building, IInv, TypeOK, Partial
<1>2. ASSUME NEW op \in Ops, Finish(op), op.at = next_pc, ~Inner(op), Faithful(op)
      PROVE  IInv'
  BY <1>1, <1>2, FinishKeeps DEF Finish
<1>3. ASSUME next_pc \in Window,
             NEW op \in Ops, op.at = next_pc, Inner(op), Faithful(op),
             Continue(next_pc + 1, Append(emitted, op))
      PROVE  IInv'
  <2>1. next_pc + 1 \in Addr /\ ~IsThunk(next_pc + 1)
    BY <1>1, <1>3, InsnFacts
  <2>2. next_pc + 1 \in Flow!Through(next_pc + 1)
    BY <2>1, ThroughSelf
  <2> DEFINE ops == Append(emitted, op)
  <2>3. /\ ops \in Seq(Ops) /\ Len(ops) = Len(emitted) + 1 /\ Len(emitted) \in Nat
        /\ Last(ops) = op /\ Linked(ops)
        /\ \A k \in 1 .. Len(emitted) : ops[k] = emitted[k]
    BY <1>1, <1>3, LinkedAppend
  <2>4. Continue(next_pc + 1, ops)
    BY <1>3
  <2> HIDE DEF ops
  <2>5. \A k \in 1 .. Len(ops) : Inner(ops[k]) /\ Faithful(ops[k])
    BY <1>1, <1>3, <2>3 DEF Last
  <2>6. EndOf(ops, next_pc + 1)
    BY <1>3, <2>2, <2>3 DEF EndOf
  <2> QED BY <1>1, <2>1, <2>2, <2>3, <2>4, <2>5, <2>6, ContinueKeeps
<1>4. CASE FetchFault
  <2>1. next_pc \notin Window /\ Finish([op |-> "fault", at |-> next_pc])
    BY <1>4 DEF FetchFault
  <2> QED BY <1>1, <1>2, <2>1 DEF Ops, Inner, Faithful
<1>5. CASE Unknown
  <2>1. /\ next_pc \in Window /\ code[next_pc].op = "bad"
        /\ Finish([op |-> "undef", at |-> next_pc])
    BY <1>5 DEF Unknown, Fetching, Insn
  <2> QED BY <1>1, <1>2, <2>1 DEF Ops, Inner, Faithful
<1>6. CASE Straight
  <2> DEFINE op == [op |-> "plain", at |-> next_pc]
  <2>1. /\ next_pc \in Window /\ code[next_pc].op = "plain"
        /\ Continue(next_pc + 1, Append(emitted, op))
    BY <1>6 DEF Straight, Fetching, Insn
  <2>2. op \in Ops /\ op.at = next_pc /\ Inner(op) /\ Faithful(op)
    BY <1>1, <2>1 DEF Ops, Inner, Faithful
  <2> HIDE DEF op
  <2> QED BY <1>3, <2>1, <2>2
<1>7. CASE SideExit
  <2> DEFINE op == [op |-> "bcond", at |-> next_pc, to |-> code[next_pc].to]
  <2>1. /\ next_pc \in Window /\ code[next_pc].op = "bcond"
        /\ Continue(next_pc + 1, Append(emitted, op))
    BY <1>7 DEF SideExit, Fetching, Insn
  <2>2. code[next_pc].to \in Addr
    BY <1>1, <2>1, InsnFacts
  <2>3. op \in Ops /\ op.at = next_pc /\ Inner(op) /\ Faithful(op)
    BY <1>1, <2>1, <2>2 DEF Ops, Inner, Faithful
  <2> HIDE DEF op
  <2> QED BY <1>3, <2>1, <2>3
<1>8. CASE Jump
  <2>1. next_pc \in Window /\ code[next_pc].op = "b"
    BY <1>8 DEF Jump, Fetching, Insn
  <2> DEFINE to == code[next_pc].to
  <2>2. to \in Addr
    BY <1>1, <2>1, InsnFacts
  <2>3. EndOf(emitted, to)
    <3>1. CASE Len(emitted) = 0
      <4>1. next_pc \in Flow!Through(pc)
        BY <1>1, <3>1 DEF EndOf
      <4>2. to \in Flow!Through(pc)
        BY <2>1, <2>2, <4>1, ThroughStep
      <4> QED BY <3>1, <4>2 DEF EndOf
    <3>2. CASE Len(emitted) # 0
      <4>1. next_pc \in Flow!Through(Last(emitted).at + 1)
        BY <1>1, <3>2 DEF EndOf
      <4>2. to \in Flow!Through(Last(emitted).at + 1)
        BY <2>1, <2>2, <4>1, ThroughStep
      <4> QED BY <3>2, <4>2 DEF EndOf
    <3> QED BY <3>1, <3>2
  <2>4. CASE Follows(to)
    <3>1. Continue(to, emitted) /\ ~IsThunk(to)
      BY <1>8, <2>4 DEF Jump, Followed, Follows, Insn
    <3>2. to \in Flow!Through(to)
      BY <2>2, ThroughSelf
    <3> HIDE DEF to
    <3> QED BY <1>1, <2>2, <2>3, <3>1, <3>2, ContinueKeeps
  <2>5. CASE ~Follows(to)
    <3>1. Finish([op |-> "exit", at |-> to])
      BY <1>8, <2>5 DEF Jump, Insn
    <3> DEFINE op == [op |-> "exit", at |-> to]
    <3>2. op \in Ops /\ ~Inner(op) /\ Faithful(op) /\ op.at = to
      BY <2>2 DEF Ops, Inner, Faithful
    <3>3. emitted' = Append(emitted, op) /\ phase' = "block" /\ next_pc' = next_pc /\ n' = n
      BY <3>1 DEF Finish
    <3> HIDE DEF op
    <3> QED BY <1>1, <2>3, <3>2, <3>3, FinishKeeps
  <2> QED BY <2>4, <2>5
<1>9. CASE Ending
  <2>1. CASE Fetching("bl") /\ Finish([op |-> "bl", at |-> next_pc, to |-> Insn.to])
    <3>1. next_pc \in Window /\ code[next_pc].op = "bl"
      BY <2>1 DEF Fetching, Insn
    <3>2. code[next_pc].to \in Addr
      BY <1>1, <3>1, InsnFacts
    <3> QED BY <1>1, <1>2, <2>1, <3>1, <3>2 DEF Ops, Inner, Faithful, Insn
  <2>2. ASSUME NEW o \in {"br", "blr", "ret", "svc"},
               Fetching(o), Finish([op |-> o, at |-> next_pc])
        PROVE  IInv'
    <3>1. next_pc \in Window /\ code[next_pc].op = o
      BY <2>2 DEF Fetching, Insn
    <3> QED BY <1>1, <1>2, <2>2, <3>1 DEF Ops, Inner, Faithful
  <2> QED BY <1>9, <2>1, <2>2 DEF Ending
<1> QED BY <1>4, <1>5, <1>6, <1>7, <1>8, <1>9 DEF Build

----------------------------------------------------------------------------
(* The host code of a block.                                               *)

\* In a block the host is at one of its operations, which is the instruction
\* there; if it stays in the block it comes to where that one leads.
LEMMA BlockFacts ==
  ASSUME IInv, phase = "block"
  PROVE  /\ TypeOK /\ Complete /\ status = "running" /\ ~svc
         /\ ip \in 1 .. Len(emitted) /\ Len(emitted) \in Nat
         /\ Op \in Ops /\ Op.at \in Addr /\ Faithful(Op) /\ At = Op.at
         /\ Inner(Op) => /\ ip + 1 \in 1 .. Len(emitted)
                         /\ emitted[ip + 1].at \in Flow!Through(Op.at + 1)
<1>1. /\ TypeOK /\ Complete /\ status = "running" /\ ~svc
      /\ emitted \in Seq(Ops) /\ ip \in 1 .. Len(emitted)
  BY DEF IInv, TypeOK, Complete
<1>2. Op \in Ops /\ Len(emitted) \in Nat
  BY <1>1 DEF Op
<1>3. Op.at \in Addr
  BY <1>2 DEF Ops
<1>4. Faithful(Op) /\ At = Op.at
  BY <1>1 DEF Complete, Op, At
<1>5. ASSUME Inner(Op)
      PROVE  /\ ip + 1 \in 1 .. Len(emitted)
             /\ emitted[ip + 1].at \in Flow!Through(Op.at + 1)
  <2>1. ip # Len(emitted)
    BY <1>1, <1>5 DEF Complete, Last, Op
  <2>2. ip \in 1 .. Len(emitted) - 1
    BY <1>1, <1>2, <2>1
  <2> QED BY <1>1, <1>2, <2>2 DEF Complete, Linked, Op
<1> QED BY <1>1, <1>2, <1>3, <1>4, <1>5

LEMMA RunOK == ASSUME IInv, RunBlock PROVE IInv'
<1>1. phase = "block" /\ code' = code /\ UNCHANGED builder
  BY DEF RunBlock, RunPlain, RunSideExit, RunExit, RunCall, RunIndirect, RunSvc,
         RunFault, Running
<1>2. /\ TypeOK /\ Complete /\ status = "running" /\ ~svc
      /\ ip \in 1 .. Len(emitted) /\ Len(emitted) \in Nat
      /\ Op \in Ops /\ Op.at \in Addr /\ Faithful(Op)
      /\ Inner(Op) => ip + 1 \in 1 .. Len(emitted)
  BY <1>1, BlockFacts
<1>3. \A o : Faithful(o)' <=> Faithful(o)
  BY <1>1, SameWays
<1>4. next_pc' = next_pc /\ n' = n /\ emitted' = emitted
  BY <1>1 DEF builder
<1>5. ASSUME NEW a \in Addr, Leave(a), lr' \in Addr, svc' \in BOOLEAN,
             status' \in {"running", "undef", "fault"}
      PROVE  IInv'
  <2>1. phase' = "host" /\ pc' = a /\ ip' = ip
    BY <1>5 DEF Leave
  <2> QED BY <1>1, <1>2, <1>4, <1>5, <2>1 DEF IInv, TypeOK
<1>6. ASSUME Stay, Inner(Op), UNCHANGED <<lr, svc, status>>
      PROVE  IInv'
  <2>1. ip' = ip + 1 /\ pc' = pc /\ phase' = "block"
    BY <1>1, <1>6 DEF Stay
  <2>2. \A a : Flow!Through(a)' = Flow!Through(a)
    BY <1>1, SameWays
  <2>3. Linked(emitted)'
    BY <1>2, <1>4, <2>1, <2>2 DEF Complete, Linked
  <2>4. (\A k \in 1 .. Len(emitted) : Faithful(emitted[k]))'
    BY <1>1, <1>2, <1>4 DEF Complete, Faithful
  <2>5. Complete'
    BY <1>2, <1>4, <1>6, <2>1, <2>3, <2>4 DEF Complete, Inner, Last
  <2>6. TypeOK'
    BY <1>1, <1>2, <1>4, <1>6, <2>1 DEF TypeOK
  <2> QED BY <1>2, <1>6, <2>1, <2>5, <2>6 DEF IInv
<1>7. Op.op \in {"bcond", "bl"} => Op.to \in Addr
  BY <1>2 DEF Ops
<1>8. Op.op \in {"bl", "blr", "svc"} => Op.at + 1 \in Addr
  BY <1>2, InsnFacts DEF Faithful
<1>9. lr \in Addr /\ svc \in BOOLEAN
  BY <1>2 DEF TypeOK
<1>10. CASE RunPlain
  BY <1>6, <1>10 DEF RunPlain, Running, Inner
<1>11. CASE RunSideExit
  <2>1. CASE Stay
    BY <1>6, <1>11, <2>1 DEF RunSideExit, Running, Inner
  <2>2. CASE Leave(Op.to)
    BY <1>2, <1>5, <1>7, <1>9, <1>11, <2>2 DEF RunSideExit, Running
  <2> QED BY <1>11, <2>1, <2>2 DEF RunSideExit
<1>12. CASE RunExit
  BY <1>2, <1>5, <1>9, <1>12 DEF RunExit, Running
<1>13. CASE RunCall
  BY <1>2, <1>5, <1>7, <1>8, <1>9, <1>13 DEF RunCall, Running
<1>14. CASE RunIndirect
  BY <1>2, <1>5, <1>8, <1>9, <1>14 DEF RunIndirect, Running
<1>15. CASE RunSvc
  BY <1>2, <1>5, <1>8, <1>9, <1>15 DEF RunSvc, Running
<1>16. CASE RunFault
  BY <1>2, <1>5, <1>9, <1>16 DEF RunFault, Running
<1> QED BY <1>10, <1>11, <1>12, <1>13, <1>14, <1>15, <1>16 DEF RunBlock

LEMMA DispatchOK == ASSUME IInv, Dispatch PROVE IInv'
<1>1. TypeOK /\ phase = "host" /\ status = "running" /\ code' = code
  BY DEF IInv, Dispatch, HandleSyscall, HandleThunk, BeginBuild, Dispatching, guest
<1>2. CASE HandleSyscall
  BY <1>1, <1>2 DEF HandleSyscall, builder, IInv, TypeOK
<1>3. CASE HandleThunk
  BY <1>1, <1>3 DEF HandleThunk, builder, IInv, TypeOK
<1>4. CASE BeginBuild
  <2>1. /\ pc' = pc /\ lr' = lr /\ svc' = svc /\ status' = status /\ ~svc
        /\ phase' = "build" /\ next_pc' = pc /\ n' = 0 /\ emitted' = <<>> /\ ip' = 1
        /\ ~IsThunk(pc)
    BY <1>4 DEF BeginBuild, guest
  <2>2. pc \in Flow!Through(pc)
    BY <1>1, ThroughSelf DEF TypeOK
  <2>7. \A a : Flow!Through(a)' = Flow!Through(a)
    BY <1>1, SameWays
  <2>3. (pc \in Flow!Through(pc))'
    BY <2>1, <2>2, <2>7
  <2>4. Linked(emitted)' /\ EndOf(emitted, next_pc)'
    BY <2>1, <2>3 DEF Linked, EndOf
  <2>5. Partial' /\ ~IsThunk(pc)'
    BY <2>1, <2>4, LimitAssumption DEF Partial, IsThunk
  <2>6. TypeOK'
    BY <1>1, <2>1, LimitAssumption DEF TypeOK
  <2> QED BY <1>1, <2>1, <2>5, <2>6 DEF IInv
<1> QED BY <1>2, <1>3, <1>4 DEF Dispatch

LEMMA InitOK == Init => IInv
<1> SUFFICES ASSUME Init PROVE IInv
  OBVIOUS
<1>1. pc \in Addr /\ lr \in Addr /\ phase = "host" /\ n = 0 /\ next_pc = pc
      /\ emitted = <<>> /\ ip = 1 /\ svc = FALSE /\ status = "running" /\ code \in Programs
  BY AddrAssumption DEF Init
<1>2. 0 \in 0 .. MaxInsns /\ emitted \in Seq(Ops)
  BY <1>1, LimitAssumption
<1>3. /\ ip \in Nat \ {0} /\ n \in 0 .. MaxInsns /\ next_pc \in Addr
  <2>1. ip \in Nat \ {0}
    BY <1>1
  <2>2. n \in 0 .. MaxInsns
    BY <1>1, <1>2
  <2> QED BY <1>1, <2>1, <2>2
<1>5. svc \in BOOLEAN
  BY <1>1
<1>4. TypeOK
  BY <1>1, <1>2, <1>3, <1>5 DEF TypeOK
<1> QED BY <1>1, <1>4 DEF IInv

LEMMA SameOK == IInv /\ UNCHANGED vars => IInv'
<1> SUFFICES ASSUME IInv, UNCHANGED vars PROVE IInv'
  OBVIOUS
<1>1. /\ code' = code /\ pc' = pc /\ lr' = lr /\ svc' = svc /\ status' = status
      /\ phase' = phase /\ next_pc' = next_pc /\ n' = n /\ emitted' = emitted /\ ip' = ip
  BY DEF vars
<1>2. \A a : Flow!Through(a)' = Flow!Through(a)
  BY <1>1, SameWays
<1>3. Linked(emitted)' <=> Linked(emitted)
  BY <1>1, <1>2 DEF Linked
<1>4. EndOf(emitted, next_pc)' <=> EndOf(emitted, next_pc)
  BY <1>1, <1>2 DEF EndOf, Last
<1>5. Partial' <=> Partial
  BY <1>1, <1>3, <1>4 DEF Partial, IsThunk, Inner, Faithful
<1>6. Complete' <=> Complete
  BY <1>1, <1>3 DEF Complete, IsThunk, Inner, Faithful, Last
<1> QED BY <1>1, <1>5, <1>6 DEF IInv, TypeOK, IsThunk

LEMMA Invariance == Spec => []IInv
<1>1. IInv /\ [Next]_vars => IInv'
  BY DispatchOK, BuildOK, RunOK, SameOK DEF Next, Stopped
<1> QED BY <1>1, InitOK, PTL DEF Spec

----------------------------------------------------------------------------
(* The theorems.                                                           *)

\* The builder stays inside its limit, and nothing but operations with
\* addresses of the guest comes into a block.
THEOREM TypeCorrect == Spec => []TypeOK
<1>1. IInv => TypeOK
  BY DEF IInv
<1> QED BY <1>1, Invariance, PTL

\* For any program and any limit, a block is left by its last operation at the
\* latest.
THEOREM BlocksEndInExit == Spec => []EndsInExit
<1>1. IInv => EndsInExit
  BY DEF IInv, EndsInExit, Complete, Inner, Last
<1> QED BY <1>1, Invariance, PTL

----------------------------------------------------------------------------
(* The refinement.  The guest is at the address of the operation the host  *)
(* is about to execute, or else at the dispatcher's pc.                    *)

\* From where the guest is to anywhere branches alone lead it, or not at all.
LEMMA Moves ==
  ASSUME TypeOK, At \in Addr, At' \in Flow!Through(At), status = "running", ~svc,
         UNCHANGED <<code, lr, svc, status>>
  PROVE  [Flow!FlowNext]_(Flow!flowVars)
<1>1. CASE At' = At
  BY <1>1 DEF Flow!flowVars
<1>2. CASE At' # At
  <2>1. At \in Window /\ code[At].op = "b"
    BY <1>2, ThroughFirst
  <2>2. Flow!Branch
    BY <2>1 DEF Flow!Branch, Flow!Executing, Flow!GoTo
  <2> QED BY <2>2 DEF Flow!FlowNext
<1> QED BY <1>1, <1>2

LEMMA DispatchMaps ==
  ASSUME IInv, Dispatch
  PROVE  [Flow!FlowNext]_(Flow!flowVars)
<1>1. TypeOK /\ phase = "host" /\ status = "running" /\ At = pc /\ code' = code
      /\ pc \in Addr /\ lr \in Addr
  BY DEF IInv, Dispatch, HandleSyscall, HandleThunk, BeginBuild, Dispatching, At, guest,
         TypeOK
<1>2. pc \in Flow!Through(pc) /\ lr \in Flow!Through(lr)
  BY <1>1, ThroughSelf
<1>3. CASE HandleSyscall
  <2>1. At' = pc /\ svc /\ svc' = FALSE /\ lr' = lr /\ status' \in {"running", "exited"}
    BY <1>1, <1>3 DEF HandleSyscall, At
  <2>2. Flow!ServeTrap \/ Flow!Exit
    BY <1>1, <1>2, <2>1 DEF Flow!ServeTrap, Flow!Exit, Flow!GoTo
  <2> QED BY <2>2 DEF Flow!FlowNext
<1>4. CASE HandleThunk
  <2>1. /\ IsThunk(pc) /\ ~svc /\ svc' = svc /\ lr' = lr /\ At' = pc'
        /\ \/ pc' = lr /\ status' = status
           \/ status' = "exited" /\ pc' = pc
    BY <1>1, <1>4 DEF HandleThunk, At
  <2>2. Flow!Library \/ Flow!Exit
    BY <1>1, <1>2, <2>1, SMT DEF Flow!Library, Flow!Exit, Flow!GoTo, Flow!IsThunk, IsThunk, TypeOK
  <2> QED BY <2>2 DEF Flow!FlowNext
<1>5. CASE BeginBuild
  <2>1. At' = pc /\ lr' = lr /\ svc' = svc /\ status' = status
    BY <1>5 DEF BeginBuild, guest, At
  <2> QED BY <1>1, <2>1 DEF Flow!flowVars
<1> QED BY <1>3, <1>4, <1>5 DEF Dispatch

LEMMA BuildMaps ==
  ASSUME IInv, Build, IInv'
  PROVE  [Flow!FlowNext]_(Flow!flowVars)
<1>1. /\ phase = "build" /\ UNCHANGED <<guest, ip>>
      /\ TypeOK /\ status = "running" /\ ~svc /\ ip = 1
  BY DEF Build, FetchFault, Unknown, Straight, SideExit, Jump, Ending, Fetching,
         Building, IInv
<1>2. /\ code' = code /\ pc' = pc /\ lr' = lr /\ svc' = svc /\ status' = status /\ ip' = 1
      /\ pc \in Addr /\ At = pc
  BY <1>1 DEF guest, TypeOK, At
<1>3. At' \in Flow!Through(pc)
  <2>1. CASE phase' = "block"
    <3>1. Len(emitted') > 0 /\ Linked(emitted)'
      BY <2>1 DEF IInv, Complete, TypeOK
    <3>2. \A a : Flow!Through(a)' = Flow!Through(a)
      BY <1>2, SameWays
    <3>3. emitted'[1].at \in Flow!Through(pc)
      BY <1>2, <3>1, <3>2 DEF Linked
    <3> QED BY <1>2, <2>1, <3>3 DEF At
  <2>2. CASE phase' # "block"
    BY <1>2, <2>2, ThroughSelf DEF At
  <2> QED BY <2>1, <2>2
<1> QED BY <1>1, <1>2, <1>3, Moves

LEMMA RunMaps ==
  ASSUME IInv, RunBlock
  PROVE  [Flow!FlowNext]_(Flow!flowVars)
<1>1. phase = "block" /\ code' = code /\ UNCHANGED builder
  BY DEF RunBlock, RunPlain, RunSideExit, RunExit, RunCall, RunIndirect, RunSvc,
         RunFault, Running
<1>2. /\ TypeOK /\ status = "running" /\ ~svc
      /\ Op \in Ops /\ Op.at \in Addr /\ Faithful(Op) /\ At = Op.at
      /\ Inner(Op) => emitted[ip + 1].at \in Flow!Through(Op.at + 1)
  BY <1>1, BlockFacts
<1>3. \A a \in Addr : a \in Flow!Through(a)
  BY ThroughSelf
<1>4. ASSUME Stay PROVE At' = emitted[ip + 1].at
  BY <1>1, <1>4 DEF Stay, At, builder
<1>5. ASSUME NEW a, Leave(a) PROVE At' = a
  BY <1>5 DEF Leave, At
<1>6. Op.op \in {"bcond", "bl"} => Op.to \in Addr
  BY <1>2 DEF Ops
<1>7. lr \in Addr
  BY <1>2 DEF TypeOK
<1>8. ASSUME NEW o, Op.op = o, o \in {"plain", "br", "blr", "ret", "svc", "bcond", "bl"},
             status' = status
      PROVE  Flow!Executing(o)
  BY <1>1, <1>2, <1>8 DEF Faithful, Flow!Executing
<1>9. CASE RunPlain
  <2>1. Op.op = "plain" /\ Stay /\ UNCHANGED <<lr, svc, status>>
    BY <1>9 DEF RunPlain, Running
  <2>2. Flow!Plain
    BY <1>2, <1>4, <1>8, <2>1 DEF Flow!Plain, Flow!GoTo, Inner
  <2> QED BY <2>2 DEF Flow!FlowNext
<1>10. CASE RunSideExit
  <2>1. Op.op = "bcond" /\ (Leave(Op.to) \/ Stay) /\ UNCHANGED <<lr, svc, status>>
    BY <1>10 DEF RunSideExit, Running
  <2>2. code[At].to = Op.to
    BY <1>2, <2>1 DEF Faithful
  <2>3. At' \in Flow!Through(code[At].to) \/ At' \in Flow!Through(At + 1)
    BY <1>2, <1>3, <1>4, <1>5, <1>6, <2>1, <2>2 DEF Inner
  <2>4. Flow!BranchIf
    BY <1>8, <2>1, <2>3 DEF Flow!BranchIf, Flow!GoTo
  <2> QED BY <2>4 DEF Flow!FlowNext
<1>11. CASE RunExit
  <2>1. Leave(Op.at) /\ UNCHANGED <<lr, svc, status>>
    BY <1>11 DEF RunExit
  <2> QED BY <1>1, <1>2, <1>5, <2>1 DEF Flow!flowVars
<1>12. CASE RunCall
  <2>1. Op.op = "bl" /\ Leave(Op.to) /\ lr' = Op.at + 1 /\ UNCHANGED <<svc, status>>
    BY <1>12 DEF RunCall, Running
  <2>2. code[At].to = Op.to
    BY <1>2, <2>1 DEF Faithful
  <2>3. Flow!Call
    BY <1>2, <1>3, <1>5, <1>6, <1>8, <2>1, <2>2 DEF Flow!Call, Flow!GoTo
  <2> QED BY <2>3 DEF Flow!FlowNext
<1>13. CASE RunIndirect
  <2>1. CASE Running("br") /\ (\E a \in Addr : Leave(a)) /\ UNCHANGED <<lr, svc, status>>
    <3>1. Flow!BranchRegister
      BY <1>3, <1>5, <1>8, <2>1 DEF Flow!BranchRegister, Flow!GoTo, Running
    <3> QED BY <3>1 DEF Flow!FlowNext
  <2>2. CASE /\ Running("blr") /\ (\E a \in Addr : Leave(a)) /\ lr' = Op.at + 1
             /\ UNCHANGED <<svc, status>>
    <3>1. Flow!CallRegister
      BY <1>2, <1>3, <1>5, <1>8, <2>2 DEF Flow!CallRegister, Flow!GoTo, Running
    <3> QED BY <3>1 DEF Flow!FlowNext
  <2>3. CASE Running("ret") /\ Leave(lr) /\ UNCHANGED <<lr, svc, status>>
    <3>1. Flow!Return
      BY <1>3, <1>5, <1>7, <1>8, <2>3 DEF Flow!Return, Flow!GoTo, Running
    <3> QED BY <3>1 DEF Flow!FlowNext
  <2> QED BY <1>13, <2>1, <2>2, <2>3 DEF RunIndirect
<1>14. CASE RunSvc
  <2>1. Op.op = "svc" /\ Leave(Op.at + 1) /\ svc' = TRUE /\ UNCHANGED <<lr, status>>
    BY <1>14 DEF RunSvc, Running
  <2>2. Flow!Supervisor
    BY <1>2, <1>5, <1>8, <2>1 DEF Flow!Supervisor
  <2> QED BY <2>2 DEF Flow!FlowNext
<1>15. CASE RunFault
  <2>1. CASE Running("undef") /\ Leave(Op.at) /\ status' = "undef" /\ UNCHANGED <<lr, svc>>
    <3>1. At \in Window /\ code[At].op = "bad"
      BY <1>2, <2>1 DEF Running, Faithful
    <3>2. Flow!Undefined
      BY <1>1, <1>2, <1>5, <2>1, <3>1 DEF Flow!Undefined
    <3> QED BY <3>2 DEF Flow!FlowNext
  <2>2. CASE Running("fault") /\ Leave(Op.at) /\ status' = "fault" /\ UNCHANGED <<lr, svc>>
    <3>1. At \notin Window /\ ~IsThunk(At)
      BY <1>2, <2>2 DEF Running, Faithful
    <3>2. Flow!Fault
      BY <1>1, <1>2, <1>5, <2>2, <3>1 DEF Flow!Fault, Flow!IsThunk, IsThunk
    <3> QED BY <3>2 DEF Flow!FlowNext
  <2> QED BY <1>15, <2>1, <2>2 DEF RunFault
<1> QED BY <1>9, <1>10, <1>11, <1>12, <1>13, <1>14, <1>15 DEF RunBlock

\* For any program, any window and any limit, blocks run as the guest's
\* instructions do.
THEOREM Refinement == Spec => ImplementsInsnFlow
<1>1. Init => Flow!FlowInit
  BY AddrAssumption DEF Init, Flow!FlowInit, At
<1>2. IInv /\ IInv' /\ [Next]_vars => [Flow!FlowNext]_(Flow!flowVars)
  <2>1. UNCHANGED vars => UNCHANGED Flow!flowVars
    BY DEF vars, Flow!flowVars, At
  <2> QED BY <2>1, DispatchMaps, BuildMaps, RunMaps DEF Next, Stopped
<1> QED BY <1>1, <1>2, Invariance, PTL DEF Spec, ImplementsInsnFlow, Flow!FlowSpec
----------------------------------------------------------------------------
(* Blocks run out.  BlocksAreFinite is a matter of fairness; that there is *)
(* an end to get to is not.                                                *)

\* The builder adds at most one operation per instruction, and the cut.
SizeInv ==
  /\ phase = "build" => Len(emitted) <= n
  /\ phase = "block" => Len(emitted) <= MaxInsns + 1

\* Steps of the builder and of the block that are left at most.
StepsLeft ==
  CASE phase = "host"  -> 0
    [] phase = "build" -> (MaxInsns - n) + MaxInsns + 2
    [] phase = "block" -> Len(emitted) + 1 - ip

\* A step of the builder: one instruction more, or the last operation.
LEMMA BuildGrows ==
  ASSUME IInv, SizeInv, Build
  PROVE  /\ phase = "build" /\ ip' = ip /\ n < MaxInsns
         /\ \/ phase' = "build" /\ n' = n + 1 /\ Len(emitted') <= n + 1
            \/ phase' = "block" /\ Len(emitted') <= n + 2
<1>1. /\ phase = "build" /\ ip' = ip /\ n < MaxInsns /\ n \in Nat /\ MaxInsns \in Nat
      /\ emitted \in Seq(Ops) /\ Len(emitted) \in Nat /\ Len(emitted) <= n
  BY LimitAssumption DEF IInv, TypeOK, Partial, SizeInv, Build, FetchFault, Unknown, Straight,
     SideExit, Jump, Ending, Fetching, Building
<1>2. ASSUME NEW op, Finish(op) PROVE phase' = "block" /\ Len(emitted') <= n + 2
  <2>1. Len(emitted') = Len(emitted) + 1
    BY <1>1, <1>2 DEF Finish
  <2> QED BY <1>1, <1>2, <2>1 DEF Finish
<1>3. ASSUME NEW ops, NEW a, Continue(a, ops), NEW S, ops \in Seq(S), Len(ops) <= n + 1
      PROVE  \/ phase' = "build" /\ n' = n + 1 /\ Len(emitted') <= n + 1
             \/ phase' = "block" /\ Len(emitted') <= n + 2
  <2>1. Len(emitted') <= IF Cuts(n) THEN n + 2 ELSE n + 1
    BY <1>1, <1>3 DEF Continue
  <2>2. n' = n + 1 /\ phase' = IF Cuts(n) THEN "block" ELSE "build"
    BY <1>1, <1>3 DEF Continue, Cuts, IsOver
  <2> QED BY <2>1, <2>2
<1>4. CASE FetchFault \/ Unknown \/ Ending
  BY <1>1, <1>2, <1>4 DEF FetchFault, Unknown, Ending
<1>5. CASE Straight \/ SideExit
  <2>1. PICK op : Continue(next_pc + 1, Append(emitted, op))
    BY <1>5 DEF Straight, SideExit
  <2>2. Append(emitted, op) \in Seq(Ops \cup {op}) /\ Len(Append(emitted, op)) <= n + 1
    BY <1>1
  <2> QED BY <1>1, <1>3, <2>1, <2>2
<1>6. CASE Jump
  BY <1>1, <1>2, <1>3, <1>6 DEF Jump, Followed
<1> QED BY <1>1, <1>4, <1>5, <1>6 DEF Build

LEMMA SizeInvariance == Spec => []SizeInv
<1>1. Init => SizeInv
  BY DEF Init, SizeInv
<1>2. IInv /\ SizeInv /\ [Next]_vars => SizeInv'
  <2> SUFFICES ASSUME IInv, SizeInv, [Next]_vars PROVE SizeInv'
    OBVIOUS
  <2>1. CASE Build
    BY <2>1, BuildGrows, LimitAssumption DEF SizeInv, IInv, TypeOK
  <2>2. CASE Dispatch
    BY <2>2, LimitAssumption DEF Dispatch, HandleSyscall, HandleThunk, BeginBuild, Dispatching,
       builder, SizeInv
  <2>3. CASE RunBlock
    BY <2>3 DEF RunBlock, RunPlain, RunSideExit, RunExit, RunCall, RunIndirect, RunSvc,
       RunFault, Running, Leave, Stay, builder, SizeInv
  <2>4. CASE UNCHANGED vars
    BY <2>4 DEF vars, SizeInv
  <2> QED BY <2>1, <2>2, <2>3, <2>4 DEF Next, Stopped
<1> QED BY <1>1, <1>2, Invariance, PTL DEF Spec

\* However the program branches, every step of the builder and of a block
\* leaves fewer of them: after at most 2 * MaxInsns + 2 the dispatcher goes on.
THEOREM BlocksRunOut ==
  Spec => [][phase # "host" => StepsLeft' \in 0 .. StepsLeft - 1]_vars
<1>1. IInv /\ SizeInv /\ [Next]_vars
        => [phase # "host" => StepsLeft' \in 0 .. StepsLeft - 1]_vars
  <2> SUFFICES ASSUME IInv, SizeInv, Next, phase # "host"
      PROVE  StepsLeft' \in 0 .. StepsLeft - 1 \/ UNCHANGED vars
    OBVIOUS
  <2>1. CASE Build
    <3>1. /\ phase = "build" /\ ip' = 1 /\ n \in Nat /\ n < MaxInsns /\ MaxInsns \in Nat
          /\ \/ phase' = "build" /\ n' = n + 1 /\ Len(emitted') <= n + 1
             \/ phase' = "block" /\ Len(emitted') <= n + 2
      BY <2>1, BuildGrows, LimitAssumption DEF IInv, TypeOK
    <3>2. Len(emitted') \in Nat
      <4>1. IInv'
        BY <2>1, BuildOK
      <4> QED BY <4>1 DEF IInv, TypeOK
    <3> QED BY <3>1, <3>2 DEF StepsLeft
  <2>2. CASE RunBlock
    <3>1. /\ phase = "block" /\ ip \in Nat /\ ip <= Len(emitted) /\ emitted' = emitted
          /\ (phase' = "host" \/ (phase' = "block" /\ ip' = ip + 1))
      BY <2>2 DEF IInv, TypeOK, RunBlock, RunPlain, RunSideExit, RunExit, RunCall, RunIndirect,
         RunSvc, RunFault, Running, Leave, Stay, builder
    <3>2. Len(emitted) \in Nat
      BY DEF IInv, TypeOK
    <3> QED BY <3>1, <3>2 DEF StepsLeft
  <2>3. CASE Dispatch
    BY <2>3 DEF Dispatch, HandleSyscall, HandleThunk, BeginBuild, Dispatching
  <2> QED BY <2>1, <2>2, <2>3 DEF Next, Stopped
<1> QED BY <1>1, Invariance, SizeInvariance, PTL DEF Spec
=============================================================================
