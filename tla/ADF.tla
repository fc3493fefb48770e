-------------------------------- MODULE ADF ---------------------------------
(***************************************************************************)
(* Atlassian documents and their Markdown (internal/adf).                  *)
(*                                                                         *)
(* A node is [type, text, marks, content]; marks are [type, href].  What   *)
(* is written is a sequence of tokens: a text, the target of a link, a     *)
(* piece of markup, or a line break "nl".  A rendering is [buf, unknown]:  *)
(* what has been written, and the types of the nodes the renderer does not *)
(* know.                                                                   *)
(***************************************************************************)
EXTENDS Naturals, Sequences, SequencesExt, Texts, InOrder

CONSTANTS Nodes,    \* the nodes of documents
          Height    \* Height[n]: how many levels there are below node n

Node(type, content) == [type |-> type, text |-> Empty, marks |-> << >>, content |-> content]

Documents == {n \in Nodes : n.type = "doc"}
TextNodes == {n \in Nodes : n.type = "text"}
Types   == {n.type : n \in Nodes}
Words   == {n.text : n \in Nodes} \ {Empty}
Marks   == UNION {ToSet(n.marks) : n \in Nodes}
Targets == {m.href : m \in Marks} \ {Empty}
Markup  == {"nl", "  ", "# ", "- ", "> ", "fence", "[", "]", "strong", "em", "code",
            "<!-- mark -->", "<!-- node -->"}
Tokens  == Markup \cup Words \cup Targets

(* A document is a finite tree in which text stands in nodes without       *)
(* children, and only there are marks; a code block holds nothing but text *)
(* and a list nothing but items (Atlassian's schema of a document).  Where *)
(* a token comes from, is part of what it is.                              *)
ASSUME NodesAssumption ==
  /\ Height \in [Nodes -> Nat]
  /\ \A n \in Nodes :
       /\ n.content \in Seq(Nodes) /\ n.marks \in Seq(Marks)
       /\ \A i \in DOMAIN n.content : Height[n.content[i]] < Height[n]
       /\ n.type # Empty
       /\ n.type = "text" => n.text # Empty
       /\ n.type # "text" => n.text = Empty /\ n.marks = << >>
       /\ n.type \in {"text", "hardBreak"} => n.content = << >>
       /\ n.type = "codeBlock" => \A i \in DOMAIN n.content : n.content[i].type = "text"
       /\ n.type \in {"bulletList", "orderedList"} =>
            \A i \in DOMAIN n.content : n.content[i].type = "listItem"
  /\ \A m \in Marks : m.type # "link" => m.href = Empty
  /\ Words \cap (Markup \cup Targets) = {} /\ Targets \cap Markup = {}

Renderings == [buf : Seq(Tokens), unknown : Seq(Types)]
Blank == [buf |-> << >>, unknown |-> << >>]
Put(r, tokens) == [r EXCEPT !.buf = @ \o tokens]

(* A blank line before a block, but for the very first.                    *)
(* Slip: a block ends its own line, and that is enough.                    *)
EnsureNothing(r) == r
EnsureBlankLine(r) ==
  LET n == Len(r.buf)
  IN  IF n = 0 THEN r
      ELSE IF r.buf[n] # "nl" THEN Put(r, <<"nl", "nl">>)
      ELSE IF n = 1 \/ r.buf[n - 1] # "nl" THEN Put(r, <<"nl">>) ELSE r

(* A text, within its marks in a fixed order; the first link counts.  The  *)
(* sign of a mark is its type, that of a link is [ ... ] and the target.   *)
KnownMarks == {"link", "strong", "em", "code"}
HasMark(n, type) == \E i \in DOMAIN n.marks : n.marks[i].type = type
LinkMarks(n) == Only(n.marks, {m \in Marks : m.type = "link"})
LinkHref(n) == IF LinkMarks(n) = << >> THEN Empty ELSE LinkMarks(n)[1].href
Around(n, type, tokens) == IF HasMark(n, type) THEN <<type>> \o tokens \o <<type>> ELSE tokens
RenderText(n) ==
  LET marked == Around(n, "strong", Around(n, "em", Around(n, "code", <<n.text>>)))
      linked == IF LinkHref(n) # Empty THEN <<"[">> \o marked \o <<"]", LinkHref(n)>> ELSE marked
      others == Only(n.marks, {m \in Marks : m.type \notin KnownMarks})
  IN  linked \o [i \in DOMAIN others |-> "<!-- mark -->"]

CollectText[n \in Nodes] ==
  IF n.type = "text" THEN <<n.text>>
  ELSE ForEach(n.content, << >>, LAMBDA acc, c : acc \o CollectText[c])

(* Only the texts right below a code block are in it.                      *)
CodeBlock(n) ==
  LET texts == Only(n.content, TextNodes)
  IN  <<"fence", "nl">> \o [i \in DOMAIN texts |-> texts[i].text] \o <<"nl", "fence", "nl">>

(* Every line of the quoted, the empty one after its last break included.  *)
QuoteToken(q, t) ==
  [out |-> (IF q.fresh THEN Append(q.out, "> ") ELSE q.out) \o <<t>>, fresh |-> t = "nl"]
Quote(tokens) ==
  LET q == ForEach(tokens, [out |-> << >>, fresh |-> TRUE], QuoteToken)
  IN  q.out \o IF q.fresh THEN <<"> ", "nl">> ELSE <<"nl">>

(* Slip: what is unknown within a quotation is forgotten.                  *)
UnknownAbove(r, sub) == r.unknown
WithUnknown(r, sub) == r.unknown \o sub.unknown

(* A node, given how to render those below it.                             *)
RenderChildren(render, nodes, depth, r) ==
  ForEach(nodes, r, LAMBDA acc, c : render[c][depth][acc])
(* The paragraphs of a list item follow each other without a break.        *)
(* Slip: they are all that an item has.                                    *)
ItemParagraphs(render, item, depth, r) ==
  ForEach(item.content, r, LAMBDA acc, c :
    IF c.type = "paragraph" THEN RenderChildren(render, c.content, depth, acc) ELSE acc)
RenderListItem(render, item, depth, r) ==
  ForEach(item.content, r, LAMBDA acc, c :
    IF c.type = "paragraph" THEN RenderChildren(render, c.content, depth, acc)
    ELSE render[c][depth][acc])
Bullet(depth) == [i \in 1 .. depth |-> "  "] \o <<"- ">>
RenderList(render, n, depth, r) ==
  ForEach(n.content, EnsureBlankLine(r), LAMBDA acc, c :
    IF c.type # "listItem" THEN render[c][depth][acc]
    ELSE Put(RenderListItem(render, c, depth + 1, Put(acc, Bullet(depth))), <<"nl">>))
RenderBlockquote(render, n, depth, r) ==
  LET sub == RenderChildren(render, n.content, depth, Blank)
  IN  Put([EnsureBlankLine(r) EXCEPT !.unknown = WithUnknown(r, sub)], Quote(sub.buf))
RenderUnknown(n, r) ==
  Put([r EXCEPT !.unknown = Append(@, n.type)], <<"<!-- node -->">> \o CollectText[n])
RenderBelow(render, n, depth, r) ==
  CASE n.type \in {"doc", "listItem"} -> RenderChildren(render, n.content, depth, r)
    [] n.type = "paragraph" ->
         Put(RenderChildren(render, n.content, depth, EnsureBlankLine(r)), <<"nl">>)
    [] n.type = "heading" ->
         Put(RenderChildren(render, n.content, depth, Put(EnsureBlankLine(r), <<"# ">>)), <<"nl">>)
    [] n.type = "text" -> Put(r, RenderText(n))
    [] n.type = "hardBreak" -> Put(r, <<"  ", "nl">>)
    [] n.type \in {"bulletList", "orderedList"} -> RenderList(render, n, depth, r)
    [] n.type = "codeBlock" -> Put(EnsureBlankLine(r), CodeBlock(n))
    [] n.type = "blockquote" -> RenderBlockquote(render, n, depth, r)
    [] OTHER -> RenderUnknown(n, r)

RenderNode[n \in Nodes] ==
  [depth \in Nat |-> [r \in Renderings |-> RenderBelow(RenderNode, n, depth, r)]]
RenderMarkdown(doc) == RenderNode[doc][0][Blank]

(* The links of a document, every link mark of every text of every node,   *)
(* whether the renderer knows the node or not.                             *)
LinksOf(n) ==
  IF n.type # "text" THEN << >>
  ELSE LET marks == Only(n.marks, {m \in Marks : m.type = "link" /\ m.href # Empty})
       IN  [i \in DOMAIN marks |-> [url |-> marks[i].href, text |-> n.text]]
ExtractLinks[n \in Nodes] ==
  ForEach(n.content, LinksOf(n), LAMBDA acc, c : acc \o ExtractLinks[c])
=============================================================================
