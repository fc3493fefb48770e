------------------------------ MODULE JSONText ------------------------------
(***************************************************************************)
(* What encoding/json does with a text, as internal/render needs it: is it *)
(* valid, and how is it indented?  A text is a sequence of characters:     *)
(* "q" is the quotation mark, "esc" the backslash, "1" a digit, "nl" a     *)
(* line break; "json=" counts as one, and so do the two blanks "  " of an  *)
(* indentation.                                                            *)
(***************************************************************************)
EXTENDS Naturals, Sequences, SequencesExt, InOrder

Openers == {"{", "["}
Closers == {"}", "]"}
Closer(c) == IF c = "{" THEN "}" ELSE "]"
White == {" ", "nl"}
NewLine(depth) == <<"nl">> \o [i \in 1 .. depth |-> "  "]

(* The scanner: what it wants next, and in which brackets it is.  In an    *)
(* object, key tells whether the string that it reads is one.              *)
Start == [want |-> "value", in |-> << >>, key |-> FALSE]
Wanting(a, w)   == [a EXCEPT !.want = w]
Opened(a, c)    == [a EXCEPT !.want = IF c = "{" THEN "first key" ELSE "first value", !.in = Append(@, c)]
Closed(a)       == [a EXCEPT !.want = "next", !.in = Front(@)]
Quoting(a, key) == [a EXCEPT !.want = "string", !.key = key]
Wants(a, c) ==
  CASE a.want \in {"value", "first value"} ->
         (CASE c = "q" -> Quoting(a, FALSE)
            [] c = "1" -> Wanting(a, "number")
            [] c \in Openers -> Opened(a, c)
            [] c = "]" /\ a.want = "first value" -> Closed(a)
            [] OTHER -> Wanting(a, "nothing"))
    [] a.want \in {"key", "first key"} ->
         (CASE c = "q" -> Quoting(a, TRUE)
            [] c = "}" /\ a.want = "first key" -> Closed(a)
            [] OTHER -> Wanting(a, "nothing"))
    [] a.want = "colon" -> Wanting(a, IF c = ":" THEN "value" ELSE "nothing")
    [] a.want \in {"next", "number"} ->
         (CASE c = "1" /\ a.want = "number" -> a
            [] c = "," /\ a.in # << >> -> Wanting(a, IF Last(a.in) = "{" THEN "key" ELSE "value")
            [] c \in Closers /\ a.in # << >> /\ c = Closer(Last(a.in)) -> Closed(a)
            [] OTHER -> Wanting(a, "nothing"))
    [] OTHER -> a
Scan(a, c) ==
  CASE a.want = "string" ->
         (CASE c = "q" -> Wanting(a, IF a.key THEN "colon" ELSE "next")
            [] c = "esc" -> Wanting(a, "escaped")
            [] c = "nl" -> Wanting(a, "nothing")
            [] OTHER -> a)
    [] a.want = "escaped" -> Wanting(a, IF c \in {"q", "esc"} THEN "string" ELSE "nothing")
    [] a.want = "number" /\ c \in White -> Wanting(a, "next")
    [] a.want \notin {"string", "escaped", "number"} /\ c \in White -> a
    [] OTHER -> Wants(a, c)
Valid(s) ==
  LET end == ForEach(s, Start, Scan)
  IN  end.want \in {"next", "number"} /\ end.in = << >>

(* Its first character is one that opens an object or an array.            *)
IsContainer(s) ==
  \E i \in DOMAIN s : s[i] \in Openers /\ \A j \in 1 .. i - 1 : s[j] \in White

(* The state within a text: is it in a string, after a backslash?          *)
InText(a, c) ==
  [a EXCEPT !.str = IF a.str THEN c # "q" \/ a.esc ELSE c = "q",
            !.esc = a.str /\ c = "esc" /\ ~a.esc]

(* The text, indented: its first line where it is, the others at depth.    *)
IndentChar(a, c) ==
  LET fresh == IF a.open THEN a.out \o NewLine(a.depth) ELSE a.out
      b == [InText(a, c) EXCEPT !.open = FALSE]
  IN  CASE a.str -> [b EXCEPT !.out = Append(a.out, c)]
        [] ~a.str /\ c \in White -> a
        [] ~a.str /\ c \in Openers ->
             [b EXCEPT !.out = Append(fresh, c), !.open = TRUE, !.depth = a.depth + 1]
        [] ~a.str /\ c \in Closers ->
             [b EXCEPT !.out = Append(IF a.open THEN a.out ELSE a.out \o NewLine(a.depth - 1), c),
                       !.depth = a.depth - 1]
        [] ~a.str /\ c = "," -> [b EXCEPT !.out = Append(fresh, c) \o NewLine(a.depth)]
        [] ~a.str /\ c = ":" -> [b EXCEPT !.out = fresh \o <<c, " ">>]
        [] OTHER -> [b EXCEPT !.out = Append(fresh, c)]
Indent(s, depth) ==
  ForEach(s, [out |-> << >>, depth |-> depth, open |-> FALSE, str |-> FALSE, esc |-> FALSE],
          IndentChar).out
=============================================================================
