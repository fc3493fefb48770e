---------------------------- MODULE CustomFields ----------------------------
(***************************************************************************)
(* How internal/render shows the value of a custom field: inline, or in a  *)
(* fenced block of its own within the list of fields.                      *)
(*                                                                         *)
(* A value is [is, of]: "null", "invalid" (no JSON), "value" (JSON, but    *)
(* no string) or "string", and its text (that of a string without its      *)
(* quotation marks and escapes); see JSONText.  The parser, which has read *)
(* the response as JSON, never hands over what is "invalid".               *)
(***************************************************************************)
EXTENDS JSONText, Texts

LooksStructured(s) == ToSet(s) \cap {"{", "[", "=", "json=", "nl"} # {}
Quoted(s) ==
  <<"q">> \o ForEach(s, << >>, LAMBDA acc, c :
    CASE c \in {"q", "esc"} -> acc \o <<"esc", c>> [] c = "nl" -> acc \o <<"esc", "n">>
      [] OTHER -> Append(acc, c)) \o <<"q">>

Classified(kind, pretty) == [kind |-> kind, pretty |-> pretty, indented |-> "nl" \in ToSet(pretty)]
ClassifyJSONStringContents(s) ==
  IF Valid(s) THEN
    IF IsContainer(s) THEN Classified("structured", Indent(s, 0))
    ELSE Classified("primitive", Quoted(s))
  ELSE IF LooksStructured(s) THEN Classified("string-structured", s)
  ELSE Classified("primitive", Quoted(s))
ClassifyCustomField(raw) ==
  CASE raw.is = "null"    -> Classified("null", <<"null">>)
    [] raw.is = "invalid" -> Classified("invalid", raw.of)
    [] raw.is = "string"  -> ClassifyJSONStringContents(raw.of)
    [] OTHER -> IF raw.of[1] \in Openers THEN Classified("structured", Indent(raw.of, 0))
                ELSE Classified("primitive", raw.of)

-----------------------------------------------------------------------------
(* The summary that Atlassian writes as {k=v, json={...}}.                 *)
(* Where the JSON value that starts at i ends: where its brackets do, not  *)
(* counting those in strings.  0 if they do not.                           *)
Balance(a, c) ==
  LET depth == IF a.str THEN a.depth
               ELSE IF c \in Openers THEN a.depth + 1
               ELSE IF c \in Closers THEN a.depth - 1 ELSE a.depth
  IN  IF a.end # 0 THEN a
      ELSE [InText(a, c) EXCEPT !.at = a.at + 1, !.depth = depth,
              !.end = IF depth = 0 /\ c \in Closers THEN a.at + 1 ELSE 0]
FindJSONValueEnd(s, i) ==
  ForEach(SubSeq(s, i, Len(s)), [at |-> i, end |-> 0, depth |-> 0, str |-> FALSE, esc |-> FALSE], Balance).end

(* The comma that separates two entries, by the blank after it.            *)
(* Slip: any comma is taken for one that separates.                        *)
AnyComma(s, i) == s[i] = ","
Separates(s, i) == s[i] = "," /\ i < Len(s) /\ s[i + 1] = " "

(* From left to right, at being the next to look at; anything that does    *)
(* not fit, and the text stays as it is.                                   *)
Onward(a, to, depth, tokens) == [a EXCEPT !.at = to, !.depth = depth, !.out = @ \o tokens]
WalkAt(s, a, i) ==
  LET c == s[i]
      next == IF i < Len(s) THEN s[i + 1] ELSE "end"
      end  == FindJSONValueEnd(s, i + 1)
      json == SubSeq(s, i + 1, end - 1)
  IN  CASE c = "json=" /\ next \in Openers ->
             IF end = 0 \/ ~Valid(json) THEN [a EXCEPT !.bad = TRUE]
             ELSE Onward(a, end, a.depth, <<c>> \o Indent(json, a.depth))
        [] c \in Openers /\ next = Closer(c) -> Onward(a, i + 2, a.depth, <<c, next>>)
        [] c \in Openers /\ next # Closer(c) ->
             Onward(a, i + 1, a.depth + 1, <<c>> \o NewLine(a.depth + 1))
        [] c \in Closers ->
             IF a.depth = 0 THEN [a EXCEPT !.bad = TRUE]
             ELSE Onward(a, i + 1, a.depth - 1, Append(NewLine(a.depth - 1), c))
        [] Separates(s, i) -> Onward(a, i + 2, a.depth, <<c>> \o NewLine(a.depth))
        [] OTHER -> Onward(a, i + 1, a.depth, <<c>>)
PrettifyAtlassianBlob(s) ==
  LET w == ForEach([i \in DOMAIN s |-> i], [at |-> 1, depth |-> 0, out |-> << >>, bad |-> FALSE],
                   LAMBDA a, i : IF a.bad \/ i < a.at THEN a ELSE WalkAt(s, a, i))
  IN  IF w.bad \/ w.depth # 0 THEN s ELSE w.out

-----------------------------------------------------------------------------
(* An entry of the list of fields.  A fence stands within its entry, every *)
(* line of it set in by the width of the bullet.                           *)
IndentByTwo(s) ==
  ForEach(s, IF s = << >> THEN << >> ELSE <<"  ">>, LAMBDA acc, c :
    IF c = "nl" THEN acc \o <<c, "  ">> ELSE Append(acc, c))
Fenced(label, body) ==
  <<"- ", label, "nl", "  ", "fence", "nl">> \o IndentByTwo(body) \o <<"nl", "  ", "fence">>
RenderField(label, raw) ==
  LET c == ClassifyCustomField(raw)
  IN  CASE c.kind = "string-structured" -> Fenced(label, PrettifyAtlassianBlob(c.pretty))
        [] c.kind = "invalid" \/ (c.kind = "structured" /\ c.indented) -> Fenced(label, c.pretty)
        [] OTHER -> <<"- ", label>> \o c.pretty

(* The fields in the order of ids, those that are null when nulls are      *)
(* asked for; a field without a name goes by its id.                       *)
LabelFor(id, names) == IF id \in DOMAIN names /\ names[id] # Empty THEN names[id] ELSE id
RenderFields(ids, fields, names, nulls) ==
  LET shown == Only(ids, {id \in DOMAIN fields : nulls \/ ClassifyCustomField(fields[id]).kind # "null"})
  IN  [i \in DOMAIN shown |-> RenderField(LabelFor(shown[i], names), fields[shown[i]])]
=============================================================================
