------------------------------- MODULE Loader -------------------------------
(***************************************************************************)
(* Emu::load: segments are copied into the window, then the pointers to    *)
(* imports are bound, by the chains of LC_DYLD_CHAINED_FIXUPS and through  *)
(* the indirect symbol table.  A binary is given by what its load commands *)
(* say; `pointers` is what its linker meant by them, and is not read here. *)
(* The unit of addresses is four bytes, the stride of a chain; a pointer   *)
(* stands at its address and covers Ptr units.                             *)
(***************************************************************************)
EXTENDS GuestMemory, Sequences

CONSTANTS
  Ptr,        \* size of a pointer
  ThunkBase,  \* THUNK_BASE, beyond all guest memory
  PageSize,   \* page_size of the chains
  HostData,   \* g_host_data: C name of a data symbol -> its value
  ExitName,   \* "__reversetta_exit"
  Images      \* the binaries

ASSUME PtrAssumption == Ptr \in 1 .. Grain

ASSUME ThunkAssumption == ThunkBase \in Nat /\ Base + WindowSize <= ThunkBase

None    == -1
CNames  == [lead : Nat, stem : STRING]
Skipped == [lead |-> 0, stem |-> ""]   \* an entry of the indirect table that names no import

\* What a word of the window holds: a chain link, or a plain value.
Links == [bind : BOOLEAN, next : Nat, n : Nat]

\* A binary maps bytes of its file from Base on: the window is where it is.
ASSUME ImagesAssumption ==
  \A im \in Images :
    /\ im.opens \in BOOLEAN /\ im.main \in BOOLEAN /\ im.known \in BOOLEAN
    /\ im.segs \in Seq([vmaddr : Nat, vmsize : Nat, data : Seq(Links)])
    /\ im.imports \in Seq(CNames)
    /\ im.starts \in Seq([known : BOOLEAN, offset_form : BOOLEAN, segment_offset : Nat,
                          page_start : Seq(Nat \cup {None})])
    /\ im.sections \in Seq([addr : Nat, syms : Seq(CNames)])
    /\ DOMAIN im.pointers \subseteq Cells
    /\ \A a \in DOMAIN im.pointers : im.pointers[a] \in
         [import : BOOLEAN, name : CNames, target : Nat, known : BOOLEAN]
    /\ \A j \in DOMAIN im.segs : im.segs[j].data # <<>> =>
         Base <= im.segs[j].vmaddr /\ \E i \in DOMAIN im.segs : im.segs[i].vmaddr = Base

\* A segment's part of the file is no longer than the segment: the format has it
\* so, and load, which asks in_range about vmsize and copies filesize bytes, does
\* not look.  A longer one would be copied on into the guard.
ASSUME SegmentsAssumption ==
  \A im \in Images : \A j \in DOMAIN im.segs :
    im.segs[j].data # <<>> => Len(im.segs[j].data) <= im.segs[j].vmsize

ASSUME NamesAssumption ==
  /\ ExitName \in CNames /\ PageSize \in Nat
  /\ \A name \in DOMAIN HostData : HostData[name] \in Nat

VARIABLES
  image,          \* the binary
  phase,          \* where load is
  s, k,           \* its outer and inner loop counters
  link,           \* the chain link looked at, or None
  mem,            \* the window
  heap_cur,       \* Emu::heap_cur
  thunks,         \* Emu::thunks; thunk_by_name is its inverse
  import_values   \* what the imports of the chains are bound to

loaderVars == <<image, phase, s, k, link, mem, heap_cur, thunks, import_values>>

----------------------------------------------------------------------------
(* Memory.                                                                 *)

Plain(v) == [bind |-> FALSE, next |-> 0, n |-> v]

ReadPtr(a) == IF InRange(a, Ptr) THEN mem[a] ELSE Plain(0)
WritePtr(m, a, v) == IF InRange(a, Ptr) THEN [m EXCEPT ![a] = Plain(v)] ELSE m

----------------------------------------------------------------------------
(* resolve_import.  A name is a stem and its leading underscores.          *)

\* The C name of a Mach-O symbol: one underscore less, if it has one.
Stripped(raw) == [raw EXCEPT !.lead = IF @ > 0 THEN @ - 1 ELSE 0]

HasThunk(name) == \E j \in DOMAIN thunks : thunks[j] = name
IsData(name)   == name \in DOMAIN HostData
NoCell         == heap_cur + Need(Ptr) + Grain > HeapEnd
NewCell        == heap_cur + Grain

thunk_for(name) ==
  ThunkBase + (IF HasThunk(name) THEN (CHOOSE j \in DOMAIN thunks : thunks[j] = name) - 1
               ELSE Len(thunks))

\* Slip: every import gets a thunk of its own.
ThunksAlways(name) == Append(thunks, name)

ThunksWith(name) == IF HasThunk(name) THEN thunks ELSE Append(thunks, name)

\* The value for the slot of an import, and memory with its data cell.
Resolved(name) ==
  IF IsData(name) THEN (IF NoCell THEN 0 ELSE NewCell) ELSE thunk_for(name)
MemWith(name) ==
  IF IsData(name) /\ ~NoCell
  THEN WritePtr(WritePtr(mem, heap_cur, Need(Ptr)), NewCell, HostData[name])
  ELSE mem

\* A data symbol takes a new cell of the heap, a function its thunk.
Resolve(name) ==
  /\ heap_cur' = IF IsData(name) /\ ~NoCell THEN NewCell + Need(Ptr) ELSE heap_cur
  /\ thunks' = IF IsData(name) THEN thunks ELSE ThunksWith(name)

----------------------------------------------------------------------------
(* load                                                                    *)

\* The loop of phase p starts, or load returns in phase p.
Goto(p) == phase' = p /\ s' = 1 /\ k' = 1

LoadInit ==
  /\ image \in Images
  /\ phase = "open" /\ s = 1 /\ k = 1 /\ link = None
  /\ mem = [a \in Cells |-> Plain(0)]
  /\ heap_cur = HeapStart
  /\ thunks = <<ExitName>>        \* main, before it calls load
  /\ import_values = <<>>

\* The file opens and holds an arm64 Mach-O, alone or as a slice; the least
\* address with bytes of the file becomes base, and mmap may fail there.
Open ==
  /\ phase = "open"
  /\ \/ /\ image.opens
        /\ \E j \in DOMAIN image.segs : image.segs[j].data # <<>>
        /\ Goto("segments")
     \/ Goto("failed")
  /\ UNCHANGED <<image, link, mem, heap_cur, thunks, import_values>>

\* LC_SEGMENT_64: what the file has of the segment goes to vmaddr, inside the
\* window by SegmentsAssumption.
CopySegment ==
  /\ phase = "segments" /\ s <= Len(image.segs)
  /\ LET seg == image.segs[s] IN
     \/ /\ seg.data = <<>>
        /\ s' = s + 1 /\ UNCHANGED <<phase, k, mem>>
     \/ /\ seg.data # <<>> /\ ~InRange(seg.vmaddr, seg.vmsize)
        /\ Goto("failed") /\ UNCHANGED mem
     \/ /\ seg.data # <<>> /\ InRange(seg.vmaddr, seg.vmsize)
        /\ mem' = [a \in Cells |->
             IF a \in seg.vmaddr .. seg.vmaddr + Len(seg.data) - 1
             THEN seg.data[a - seg.vmaddr + 1] ELSE mem[a]]
        /\ s' = s + 1 /\ UNCHANGED <<phase, k>>
  /\ UNCHANGED <<image, link, heap_cur, thunks, import_values>>

FindEntry ==
  /\ phase = "segments" /\ s > Len(image.segs)
  /\ Goto(IF image.main THEN "imports" ELSE "failed")
  /\ UNCHANGED <<image, link, mem, heap_cur, thunks, import_values>>

\* bind_chained_fixups, the import table.  In a format it does not know the
\* function gives up at the first import, and load goes on.
Import ==
  /\ phase = "imports" /\ s <= Len(image.imports)
  /\ \/ /\ image.known
        /\ LET name == Stripped(image.imports[s]) IN
             /\ Resolve(name)
             /\ mem' = MemWith(name)
             /\ import_values' = Append(import_values, Resolved(name))
        /\ s' = s + 1 /\ UNCHANGED <<phase, k>>
     \/ /\ ~image.known
        /\ Goto("sections") /\ UNCHANGED <<mem, heap_cur, thunks, import_values>>
  /\ UNCHANGED <<image, link>>

ImportsDone ==
  /\ phase = "imports" /\ s > Len(image.imports)
  /\ Goto("chains")
  /\ UNCHANGED <<image, link, mem, heap_cur, thunks, import_values>>

\* The next page with a chain, in segments whose pointer_format is known.
NextPage ==
  /\ phase = "chains" /\ link = None /\ s <= Len(image.starts)
  /\ LET seg == image.starts[s] IN
     \/ /\ seg.known /\ k <= Len(seg.page_start)
        /\ link' = IF seg.page_start[k] = None THEN None
                   ELSE Base + seg.segment_offset + (k - 1) * PageSize + seg.page_start[k]
        /\ k' = k + 1 /\ UNCHANGED s
     \/ /\ ~seg.known \/ k > Len(seg.page_start)
        /\ s' = s + 1 /\ k' = 1 /\ UNCHANGED link
  /\ UNCHANGED <<image, phase, mem, heap_cur, thunks, import_values>>

Following(raw) == IF raw.next = 0 THEN None ELSE link + raw.next

\* Slip: ordinals count from 1.
BoundFromOne(raw) ==
  IF raw.n \in 1 .. Len(import_values) THEN WritePtr(mem, link, import_values[raw.n]) ELSE mem

\* An import past the table leaves the link as it is.
Bound(raw) ==
  IF raw.n < Len(import_values) THEN WritePtr(mem, link, import_values[raw.n + 1]) ELSE mem

\* One link of a chain: read whole before it is overwritten.
FixLink ==
  /\ phase = "chains" /\ link # None
  /\ LET raw == ReadPtr(link) IN
     /\ mem' = IF raw.bind THEN Bound(raw)
               ELSE WritePtr(mem, link, IF image.starts[s].offset_form THEN Base + raw.n ELSE raw.n)
     /\ link' = Following(raw)
  /\ UNCHANGED <<image, phase, s, k, heap_cur, thunks, import_values>>

ChainsDone ==
  /\ phase = "chains" /\ link = None /\ s > Len(image.starts)
  /\ Goto("sections")
  /\ UNCHANGED <<image, link, mem, heap_cur, thunks, import_values>>

\* Sections of symbol pointers: each entry is bound anew.
BindSlot ==
  /\ phase = "sections" /\ s <= Len(image.sections)
  /\ LET sect == image.sections[s] IN
     \/ /\ k <= Len(sect.syms) /\ sect.syms[k] # Skipped
        /\ LET name == Stripped(sect.syms[k]) IN
             /\ Resolve(name)
             /\ mem' = WritePtr(MemWith(name), sect.addr + (k - 1) * Ptr, Resolved(name))
        /\ k' = k + 1 /\ UNCHANGED s
     \/ /\ k <= Len(sect.syms) /\ sect.syms[k] = Skipped
        /\ k' = k + 1 /\ UNCHANGED <<s, mem, heap_cur, thunks>>
     \/ /\ k > Len(sect.syms)
        /\ s' = s + 1 /\ k' = 1 /\ UNCHANGED <<mem, heap_cur, thunks>>
  /\ UNCHANGED <<image, phase, link, import_values>>

SectionsDone ==
  /\ phase = "sections" /\ s > Len(image.sections)
  /\ Goto("loaded")
  /\ UNCHANGED <<image, link, mem, heap_cur, thunks, import_values>>

Load ==
  \/ Open \/ CopySegment \/ FindEntry \/ Import \/ ImportsDone
  \/ NextPage \/ FixLink \/ ChainsDone \/ BindSlot \/ SectionsDone

----------------------------------------------------------------------------
(* What linkers make of the meanings of pointers.                          *)

\* What load goes through with, mmap permitting.
Loads(im) ==
  /\ im.opens /\ im.main /\ \E j \in DOMAIN im.segs : im.segs[j].data # <<>>
  /\ \A j \in DOMAIN im.segs :
       im.segs[j].data # <<>> => InRange(im.segs[j].vmaddr, im.segs[j].vmsize)

\* Where the file's words go, and the word for place a.
Places(im, j)  == im.segs[j].vmaddr .. im.segs[j].vmaddr + Len(im.segs[j].data) - 1
Word(im, j, a) == im.segs[j].data[a - im.segs[j].vmaddr + 1]

\* Segments lie apart, below the heap.
Placed(im) ==
  /\ \A i, j \in DOMAIN im.segs : i # j => Places(im, i) \cap Places(im, j) = {}
  /\ \A j \in DOMAIN im.segs : \A a \in Places(im, j) : a < HeapStart
  /\ \A a \in DOMAIN im.pointers : a + Ptr <= HeapStart

\* The pages whose chains are walked, the start of one and the pointers on it.
Pages(im) ==
  {pg \in (DOMAIN im.starts) \X (UNION {DOMAIN im.starts[j].page_start : j \in DOMAIN im.starts}) :
     im.starts[pg[1]].known /\ pg[2] \in DOMAIN im.starts[pg[1]].page_start}

PageAt(im, pg) == Base + im.starts[pg[1]].segment_offset + (pg[2] - 1) * PageSize
OnPage(im, pg) ==
  {a \in DOMAIN im.pointers : PageAt(im, pg) <= a /\ a < PageAt(im, pg) + PageSize}

\* Link w of the chain through the places P stands for pointer a.
GoodLink(im, P, a, offset_form, w) ==
  LET p == im.pointers[a] IN
  /\ w.bind = p.import
  /\ IF p.import THEN w.n < Len(im.imports) /\ Stripped(im.imports[w.n + 1]) = p.name
     ELSE w.n = IF offset_form THEN p.target ELSE Base + p.target
  /\ IF w.next = 0 THEN \A b \in P : b <= a
     ELSE a + w.next \in P /\ \A b \in P : b <= a \/ a + w.next <= b

\* The pointers of a page are linked in their order.
GoodPage(im, pg) ==
  LET P     == OnPage(im, pg)
      start == im.starts[pg[1]].page_start[pg[2]]
      form  == im.starts[pg[1]].offset_form
  IN /\ start = None <=> P = {}
     /\ start # None => PageAt(im, pg) + start \in P /\ \A b \in P : PageAt(im, pg) + start <= b
     /\ \A a \in P : \E j \in DOMAIN im.segs :
          a \in Places(im, j) /\ GoodLink(im, P, a, form, Word(im, j, a))

\* No chain is walked for imports in a format that is not known.
Walked(im) == im.known \/ im.imports = <<>>

\* The entries of the tables of symbol pointers, and the slot of one.
Entries(im) ==
  {e \in (DOMAIN im.sections) \X (UNION {DOMAIN im.sections[j].syms : j \in DOMAIN im.sections}) :
     e[2] \in DOMAIN im.sections[e[1]].syms /\ im.sections[e[1]].syms[e[2]] # Skipped}
SlotOf(im, e) == im.sections[e[1]].addr + (e[2] - 1) * Ptr
NameOf(im, e) == Stripped(im.sections[e[1]].syms[e[2]])

\* The data symbols among the first ones of a list, and in the first sections.
DataIn(syms) ==
  LET count[i \in 0 .. Len(syms)] ==
        IF i = 0 THEN 0
        ELSE count[i - 1] + IF IsData(Stripped(syms[i])) THEN 1 ELSE 0
  IN count
DataBefore(im) ==
  LET count[j \in 0 .. Len(im.sections)] ==
        IF j = 0 THEN 0
        ELSE count[j - 1] + DataIn(im.sections[j].syms)[Len(im.sections[j].syms)]
  IN count

CellSize == Grain + Need(Ptr)

WellLinked(im) ==
  /\ Placed(im)
  /\ Walked(im) =>
       /\ \A pg \in Pages(im) : GoodPage(im, pg)
       /\ \A pg, qg \in Pages(im) : pg # qg => OnPage(im, pg) \cap OnPage(im, qg) = {}
  /\ \A e \in Entries(im) :
       SlotOf(im, e) \in DOMAIN im.pointers /\ im.pointers[SlotOf(im, e)].import
       /\ im.pointers[SlotOf(im, e)].name = NameOf(im, e)
  /\ \A a \in DOMAIN im.pointers : im.pointers[a].known =>
       \/ Walked(im) /\ \E pg \in Pages(im) : a \in OnPage(im, pg)
       \/ \E e \in Entries(im) : a = SlotOf(im, e)
  /\ (DataIn(im.imports)[Len(im.imports)] + DataBefore(im)[Len(im.sections)]) * CellSize
       <= HeapSize

\* The chains and tables of a binary that loads say what its pointers mean.
ASSUME LinkedAssumption == \A im \in Images : Loads(im) => WellLinked(im)

----------------------------------------------------------------------------
(* Properties.                                                             *)

Loading == phase \in {"open", "segments", "imports", "chains", "sections"}

\* Each name has one thunk, main's return address has the first: C programs
\* compare addresses of functions, and handle_thunk goes by the index.
OneThunkEach ==
  /\ thunks # <<>> /\ thunks[1] = ExitName
  /\ \A i, j \in DOMAIN thunks : thunks[i] = thunks[j] => i = j

\* Does the value v of a slot lead to what C calls `name`?
LeadsTo(v, name) ==
  IF IsData(name) THEN v \in Cells /\ mem[v] = Plain(HostData[name])
  ELSE v - ThunkBase + 1 \in DOMAIN thunks /\ thunks[v - ThunkBase + 1] = name

\* The linker's fixups in formats the loader knows: pointer -> its meaning.
Fixable == {a \in DOMAIN image.pointers : image.pointers[a].known}

\* Once loaded, every pointer is what the linker meant: an import leads to the
\* thunk of that name or to a cell with that datum, a rebase to its target; and
\* everything else in the image is as the file has it.  A chain that loses a
\* link, an ordinal or a name off by one, a second binding of a slot by the
\* other mechanism, a data cell over the image would break it.
PointersBound ==
  phase \notin {"failed"} /\ ~Loading =>
    /\ \A a \in Fixable :
         LET p == image.pointers[a] IN
         IF p.import THEN LeadsTo(mem[a].n, p.name) ELSE mem[a] = Plain(Base + p.target)
    /\ \A j \in DOMAIN image.segs : \A i \in DOMAIN image.segs[j].data :
         LET a == image.segs[j].vmaddr + i - 1 IN
         a \in DOMAIN image.pointers \/ mem[a] = image.segs[j].data[i]
=============================================================================
