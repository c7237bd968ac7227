----------------------------- MODULE MCSession -----------------------------
(***************************************************************************)
(* An instance of Session for TLC: a window of 18 grains of four units, an *)
(* image of two pages of eight, a heap for three cells, three functions    *)
(* and two data symbols.  The linker below writes the chains and tables    *)
(* for the pointers it is given.                                           *)
(***************************************************************************)
EXTENDS Session, TLC

Name(lead, stem) == [lead |-> lead, stem |-> stem]

puts  == Name(0, "puts")
exit  == Name(0, "exit")
_exit == Name(1, "exit")
abort == Name(0, "abort")
qsort == Name(0, "qsort")
guard == Name(2, "guard")
stdout == Name(2, "stdoutp")

MCHostFns  == {puts, exit, _exit, abort}
MCExits    == {exit, _exit}
MCAborts   == {abort}
MCHostData == guard :> 7 @@ stdout :> 5
MCExitName == Name(2, "reversetta_exit")

----------------------------------------------------------------------------
(* The linker.                                                             *)

Mangled(name) == [name EXCEPT !.lead = @ + 1]

To(name)  == [import |-> TRUE,  name |-> name, target |-> 0, known |-> TRUE]
At(place) == [import |-> FALSE, name |-> Skipped, target |-> place, known |-> TRUE]

\* The data segment starts two units into the image, two pages follow.
DataOff  == 2
DataSize == 14
PageOf(a) == (a - Base - DataOff) \div PageSize

Least(S) == CHOOSE x \in S : \A y \in S : x <= y

\* The chain link at a: the pointers of a page are linked in their order.
LinkAt(ptrs, syms, offset_form, a) ==
  LET later == {b \in DOMAIN ptrs : b > a /\ PageOf(b) = PageOf(a)}
      p     == ptrs[a]
  IN [bind |-> p.import,
      next |-> IF later = {} THEN 0 ELSE Least(later) - a,
      n |-> IF p.import THEN (CHOOSE j \in DOMAIN syms : syms[j] = Mangled(p.name)) - 1
            ELSE IF offset_form THEN p.target ELSE Base + p.target]

PageStart(ptrs, pg) ==
  LET on == {a \in DOMAIN ptrs : PageOf(a) = pg}
  IN IF on = {} THEN None ELSE Least(on) - Base - DataOff - pg * PageSize

Segment(vmaddr, vmsize, data) == [vmaddr |-> vmaddr, vmsize |-> vmsize, data |-> data]
Zero == Segment(0, Base, <<>>)
Text == Segment(Base, DataOff, <<Plain(9), Plain(8)>>)
Data(words) == Segment(Base + DataOff, DataSize, words)

Binary(segs, ptrs) ==
  [opens |-> TRUE, main |-> TRUE, segs |-> segs, imports |-> <<>>, known |-> TRUE,
   starts |-> <<>>, sections |-> <<>>, pointers |-> ptrs]

\* Bound by chains.
Chained(ptrs, syms, offset_form) ==
  [Binary(<<Zero, Text, Data([i \in 1 .. DataSize |->
             LET a == Base + DataOff + i - 1 IN
             IF a \in DOMAIN ptrs THEN LinkAt(ptrs, syms, offset_form, a) ELSE Plain(i)])>>,
          ptrs)
   EXCEPT !.imports = syms,
          !.starts = <<[known |-> TRUE, offset_form |-> offset_form, segment_offset |-> DataOff,
                        page_start |-> [pg \in 1 .. 2 |-> PageStart(ptrs, pg - 1)]]>>]

\* Bound through sections of pointers, [addr, syms].
Indirect(sections, ptrs) ==
  [Binary(<<Zero, Text, Data([i \in 1 .. DataSize |-> Plain(i)])>>, ptrs)
   EXCEPT !.sections = sections]

Section(off, syms) == [addr |-> Base + off, syms |-> syms]

----------------------------------------------------------------------------

Syms == <<Mangled(guard), Mangled(puts), Mangled(_exit), Mangled(exit), Mangled(abort)>>

\* Two pages: data, functions, a pointer into the image; the second with a gap.
Two == (Base + 2 :> To(guard)) @@ (Base + 4 :> To(puts)) @@ (Base + 8 :> At(3))
       @@ (Base + 10 :> To(_exit)) @@ (Base + 14 :> To(exit))
\* Only on the second page.
Late == (Base + 12 :> To(puts)) @@ (Base + 14 :> To(abort))
\* A table of pointers, and slots for lazily bound functions.
Slots == (Base + 2 :> To(stdout)) @@ (Base + 6 :> To(puts))
         @@ (Base + 8 :> To(qsort)) @@ (Base + 10 :> To(puts))

Plainly == Indirect(<<Section(2, <<Mangled(stdout), Skipped, Mangled(puts)>>),
                      Section(8, <<Mangled(qsort), Mangled(puts)>>)>>, Slots)

Unknown(ptrs) == [a \in DOMAIN ptrs |-> [ptrs[a] EXCEPT !.known = FALSE]]

MCImages ==
  { Chained(Two, Syms, TRUE), Chained(Two, Syms, FALSE), Chained(Late, Syms, TRUE),
    Plainly,
    \* the table of pointers is listed a second time
    [Chained(Two, Syms, TRUE) EXCEPT
       !.sections = <<Section(2, <<Mangled(guard), Mangled(puts)>>)>>],
    \* a format of pointers, and one of imports, that is not known
    [Chained(Unknown(Late), Syms, TRUE) EXCEPT !.starts[1].known = FALSE],
    [Chained(Unknown(Late), Syms, TRUE) EXCEPT !.known = FALSE],
    \* a symbol without underscore, as assembly code may have
    Indirect(<<Section(2, <<puts>>)>>, Base + 2 :> To(puts)),
    \* files that do not load
    [Plainly EXCEPT !.opens = FALSE],
    [Plainly EXCEPT !.main = FALSE],
    Binary(<<Zero>>, Slots),
    Binary(<<Zero, Text, Segment(Base + WindowSize - 2, 4, <<Plain(1)>>)>>, Slots) }

----------------------------------------------------------------------------

\* Strings of one to six units, the last one its end; the area has eight.
Text1 == <<0>>
Text3 == <<1, 2, 0>>
Text6 == <<1, 2, 3, 4, 5, 0>>
MCArgLists == { <<Text1>>, <<Text3, Text1>>, <<Text1, Text3, Text1>>, <<Text6, Text3>>,
                <<Text3, Text6, Text1>> }
=============================================================================
