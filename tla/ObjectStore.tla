----------------------------- MODULE ObjectStore -----------------------------
(***************************************************************************)
(* What a C program may rely on when it calls the memory functions of its  *)
(* library: every object it holds is a run of bytes of its own.  An object *)
(* changes by a store or a call that is given this object, and then only   *)
(* in the bytes the call is about.  There are no addresses inside a heap,  *)
(* no headers, and nothing that two objects could share.                   *)
(***************************************************************************)
EXTENDS Integers, Sequences

CONSTANTS
  Bytes,       \* values of a byte; 0 ends a string
  Requests,    \* sizes the program asks for
  Texts        \* what the program's formatted output can be

VARIABLE objects   \* pointer -> contents, a sequence of bytes

Held    == DOMAIN objects
Size(p) == Len(objects[p])

\* Positions of object p at which a string starts, and the string there.
Strings(p) == {i \in 1 .. Size(p) : \E k \in i .. Size(p) : objects[p][k] = 0}
End(p, i)  == CHOOSE k \in i .. Size(p) :
                objects[p][k] = 0 /\ \A j \in i .. k - 1 : objects[p][j] # 0
StringAt(p, i) == SubSeq(objects[p], i, End(p, i))

StoreInit == \A p \in Held : objects[p] \in Seq(Bytes)

\* The objects in kept stay as they are, p is new: at a pointer no object the
\* program still has is at, and n bytes long.
Appears(p, n, kept) ==
  /\ p \notin Held
  /\ DOMAIN objects' = kept \cup {p}
  /\ \A q \in kept : objects'[q] = objects[q]
  /\ objects'[p] \in Seq(Bytes) /\ Len(objects'[p]) = n

Malloc ==
  \E p \in DOMAIN objects' : \E n \in Requests : Appears(p, n, Held)

Calloc ==
  \E p \in DOMAIN objects' : \E n, m \in Requests :
    /\ Appears(p, n * m, Held)
    /\ \A k \in 1 .. n * m : objects'[p][k] = 0

\* The new object starts with what the old one held, as far as both reach.
Realloc ==
  \E old \in Held : \E p \in DOMAIN objects' : \E n \in Requests :
    /\ Appears(p, n, Held \ {old})
    /\ \A k \in 1 .. n : k <= Size(old) => objects'[p][k] = objects[old][k]

Strdup ==
  \E p \in DOMAIN objects' : \E q \in Held : \E i \in Strings(q) :
    /\ Appears(p, Len(StringAt(q, i)), Held)
    /\ objects'[p] = StringAt(q, i)

Free ==
  \E p \in Held :
    /\ DOMAIN objects' = Held \ {p}
    /\ \A q \in Held \ {p} : objects'[q] = objects[q]

\* Object p holds c from position i on, where there is room for it.
Gets(p, i, c) ==
  /\ i + Len(c) <= Size(p) + 1
  /\ objects'[p] = [k \in 1 .. Size(p) |->
       IF i <= k /\ k < i + Len(c) THEN c[k - i + 1] ELSE objects[p][k]]

\* A store by the program's own code.
Store(p, i) == \E b \in Bytes : Gets(p, i, <<b>>)

\* memcpy, memmove
Move(p, i) ==
  \E q \in Held : \E j \in 1 .. Size(q) : \E k \in j .. Size(q) :
    Gets(p, i, SubSeq(objects[q], j, k))

Memset(p, i) ==
  \E b \in Bytes : \E n \in 1 .. Size(p) : Gets(p, i, [k \in 1 .. n |-> b])

Strcpy(p, i) ==
  \E q \in Held : \E j \in Strings(q) : Gets(p, i, StringAt(q, j))

\* At most n bytes; a shorter string is padded with zeros.
Strncpy(p, i) ==
  \E q \in Held : \E j \in Strings(q) : \E n \in 1 .. Size(p) :
    LET s == StringAt(q, j) IN
    Gets(p, i, [k \in 1 .. n |-> IF k <= Len(s) THEN s[k] ELSE 0])

Strcat(p, i) ==
  \E q \in Held : \E j \in Strings(q) :
    i \in Strings(p) /\ Gets(p, End(p, i), StringAt(q, j))

\* At most n bytes of the source, and a terminator.
Strncat(p, i) ==
  \E q \in Held : \E j \in Strings(q) : \E n \in 0 .. Len(StringAt(q, j)) - 1 :
    i \in Strings(p) /\ Gets(p, End(p, i), Append(SubSeq(StringAt(q, j), 1, n), 0))

\* sprintf; snprintf, which may cut the text.
PrintText(p, i) ==
  \E t \in Texts : \E n \in 0 .. Len(t) : Gets(p, i, Append(SubSeq(t, 1, n), 0))

\* One object, and no other, is written to.
Fill ==
  /\ DOMAIN objects' = Held
  /\ \E p \in Held :
       /\ \A q \in Held \ {p} : objects'[q] = objects[q]
       /\ \E i \in 1 .. Size(p) :
            \/ Store(p, i) \/ Move(p, i) \/ Memset(p, i) \/ Strcpy(p, i)
            \/ Strncpy(p, i) \/ Strcat(p, i) \/ Strncat(p, i) \/ PrintText(p, i)

StoreNext == Malloc \/ Calloc \/ Realloc \/ Strdup \/ Free \/ Fill

StoreSpec == StoreInit /\ [][StoreNext]_objects
=============================================================================
