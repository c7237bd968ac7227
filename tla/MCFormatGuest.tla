--------------------------- MODULE MCFormatGuest ---------------------------
(***************************************************************************)
(* An instance of FormatGuest for TLC: words of 8 bits, ints of 4, a       *)
(* buffer of 6 characters and a slack of 4.  Every format of one or two    *)
(* directives with a character between, and some of other shapes.          *)
(***************************************************************************)
EXTENDS FormatGuest

MCDigits(v)  == IF v < 0 THEN 2 ELSE IF v < 4 THEN 1 ELSE IF v < 100 THEN 2 ELSE 3
MCWhole(v)   == IF v = 0 THEN 1 ELSE 2
MCLength(v)  == v        \* a string is as long as its pointer says

Text(ch) == [conv |-> "text", ch |-> ch]
Percent  == [conv |-> "%", ch |-> "%"]

Directive(conv, w, pr, len) ==
  [conv |-> conv, left |-> FALSE, width |-> w, prec |-> pr, len |-> len, raw |-> 3]

Directives ==
  { Directive("d", 0, Unset, ""), Directive("d", Star, Unset, "l"), Directive("d", Star, Star, ""),
    Directive("d", 7, Star, "ll"), Directive("d", 0, Unset, "hh"),
    Directive("u", 0, 2, ""), Directive("u", Star, 0, "h"), Directive("u", 3, Unset, "z"),
    Directive("c", Star, Unset, ""), Directive("f", 0, Unset, ""), Directive("f", Star, Star, "L"),
    Directive("s", 0, Unset, ""), Directive("s", Star, 2, ""), Directive("s", 0, Star, ""),
    Directive("p", 0, Unset, ""), Directive("n", 0, Unset, ""),
    Directive("?", Star, Unset, ""), Directive("end", 0, Star, "") }

----------------------------------------------------------------------------
(* The arguments that fit a directive.                                     *)

\* A negative width takes from the room a double has in the buffer (README,
\* "What the runs found").
StarWidths(item) == IF item.conv = "f" THEN {0, 7} ELSE {-5, -2, 0, 7}
StarPrecs  == {0, 3}

Values(item) ==
  CASE item.conv = "d" -> IF item.len \in {"l", "ll"} THEN {-100, 100} ELSE {-3, 5}
    [] item.conv = "u" -> IF item.len = "z" THEN {100} ELSE {9}
    [] item.conv = "c" -> {1}
    [] item.conv = "f" -> {0, 200}
    [] item.conv = "s" -> {0, 9}
    [] item.conv = "p" -> {120}
    [] item.conv = "n" -> {64}

OneEach(values) == {<<v>> : v \in values}

ArgsOf(item) ==
  LET ws == IF item.width = Star THEN OneEach(StarWidths(item)) ELSE {<<>>}
      ps == IF item.prec = Star THEN OneEach(StarPrecs) ELSE {<<>>}
      vs == IF item.conv \in {"?", "end"} THEN {<<>>} ELSE OneEach(Values(item))
  IN {w \o pr \o v : w \in ws, pr \in ps, v \in vs}

\* Which of them are ints.
IntsOf(item) ==
  1 .. (C!Stars(item) + IF item.conv \in {"d", "u", "c"} /\ ~Wide(item) THEN 1 ELSE 0)

Shifted(S, n) == {i + n : i \in S}

Call(fn, n, items, args, ints) == [fn |-> fn, n |-> n, items |-> items, args |-> args, ints |-> ints]

OneDirective(fn, n, item) ==
  {Call(fn, n, <<item>>, args, IntsOf(item)) : args \in ArgsOf(item)}

TwoDirectives(item1, item2) ==
  {Call("printf", 0, <<item1, Text("a"), Percent, item2>>, args1 \o args2,
        IntsOf(item1) \cup Shifted(IntsOf(item2), Len(args1))) :
     args1 \in ArgsOf(item1), args2 \in ArgsOf(item2)}

\* Arguments that an item takes, and those before an item.
Takes(item) ==
  IF item.conv \in {"text", "%"} THEN 0
  ELSE C!Stars(item) + IF item.conv \in {"?", "end"} THEN 0 ELSE 1

MCFirst(c, i) == MapThenSumSet(LAMBDA j : Takes(c.items[j]), 1 .. i - 1)

MCCalls ==
  UNION {TwoDirectives(item1, item2) : item1 \in Directives \ {Directive("end", 0, Star, "")},
                                       item2 \in Directives}
  \cup UNION {OneDirective(fn, n, item) : fn \in DOMAIN Prototype, n \in {0, 1, 4},
                item \in {Directive("s", 0, Unset, ""), Directive("d", Star, Unset, "l"),
                          Directive("?", 0, Unset, "")}}
=============================================================================
