----------------------------- MODULE MCContent ------------------------------
(* Responses that differ in their description, in one custom field, or in  *)
(* the fields that may be absent, null or bad.                             *)
EXTENDS Content, TLC

MCKeys == {"K-1", "K-2", "K-3"}
MCUrls == {"browse", "pull", "page"}
MCForm == ("browse" :> [host |-> "site", key |-> "K-2", pr |-> "", more |-> FALSE])
       @@ ("pull" :> [host |-> "github", key |-> "", pr |-> "o/r#1", more |-> FALSE])
       @@ ("page" :> [host |-> "other", key |-> "", pr |-> "", more |-> FALSE])
MCFieldIds == <<"cf1", "cf2">>

(* Documents of up to four levels, one branch of them wider than one.      *)
Text(t, marks) == [Node("text", << >>) EXCEPT !.text = t, !.marks = marks]
Mark(type, href) == [type |-> type, href |-> href]
Plain == Text("t", << >>)
Inlines ==
  {Plain, Text("u", <<Mark("strong", ""), Mark("link", "browse")>>),
   Text("u", <<Mark("link", ""), Mark("link", "page"), Mark("underline", "")>>),
   Text("u", <<Mark("link", "mail"), Mark("code", ""), Mark("em", "")>>),
   Node("hardBreak", << >>), Node("mention", << >>)}
Seqs(S, n) == UNION {[1 .. k -> S] : k \in 1 .. n}
Paragraphs == {Node("paragraph", s) : s \in Seqs(Inlines, 2)}
Small ==
  {Node("paragraph", <<Plain>>), Node("paragraph", <<Text("u", <<Mark("link", "pull")>>)>>),
   Node("heading", <<Plain>>), Node("codeBlock", <<Text("u", << >>)>>), Node("rule", << >>)}
Items(blocks) == {Node("listItem", s) : s \in blocks}
Lists(items, n) == {Node(type, s) : type \in {"bulletList", "orderedList"}, s \in Seqs(items, n)}
Wrapped(blocks) == {Node(type, s) : type \in {"blockquote", "panel"}, s \in blocks}
Level1 == Lists(Items(Seqs(Small, 2)), 1) \cup Lists(Items(Seqs({Plain} \cup Small, 1)), 2) \cup Wrapped(Seqs(Small, 2))
Level2 == Lists(Items({<<Node("paragraph", <<Plain>>), b>> : b \in Level1} \cup {<<b>> : b \in Level1}), 1)
            \cup Wrapped({<<b>> : b \in Level1})
Pairs ==
  {Node("doc", <<a, b>>) : a \in Small, b \in Level1 \cup Small}
    \cup {Node("doc", <<a, b>>) : a \in Level1, b \in Small}
Singles == {Node("doc", <<b>>) : b \in Paragraphs \cup (Small \cup (Level1 \cup Level2))}

(* Values of custom fields: every short text, and some longer ones.        *)
Chars == {"{", "}", "[", " ", ",", "q", "json=", "a"}
Long ==
  {<<"{", "a", "=", "{", "a", "=", "1", ",", " ", "a", "=", "a", "}", ",", " ", "json=",
     "{", "q", "a", "q", ":", "[", "1", ",", "1", "]", ",", "q", "}", "q", ":", "{", "}", "}", "}">>,
   <<"json=", "[", "q", "]", "esc", "q", "q", "]">>, <<"{", "json=", "[", "1", "}">>,
   <<"{", "q", "a", "q", ":", "[", "1", "]", "}">>, <<"a", "nl", "a">>, <<" ", "[", "1", "]">>,
   <<"1", "nl">>, <<"{", "]", "nl", "json=", "{", "}">>}
Value(is, of) == [is |-> is, of |-> of]
Null == Value("null", << >>)
Missing == Value("absent", << >>)
Short == UNION {[1 .. n -> Chars] : n \in 0 .. 4}
Strings == {Value("string", s) : s \in Long} \cup {Value("string", s) : s \in Short}
Others ==
  {Missing, Null, Value("value", <<"1">>), Value("value", <<"[", "]">>),
   Value("value", <<"[", "1", ",", "{", "q", ",", "q", ":", "{", "}", "}", "]">>)}

Base ==
  [key |-> "K-1", fields |-> Value("ok", << >>), status |-> Value("ok", <<"s">>),
   assignee |-> Missing, created |-> Missing, parent |-> Missing, subtasks |-> Missing, links |-> Missing, remotes |-> Missing,
   description |-> Missing, custom |-> ("cf1" :> Missing) @@ ("cf2" :> Missing),
   names |-> [is |-> "absent", of |-> << >>]]
Shapes(of) == {Missing, Null, Value("bad", << >>)} \cup {Value("ok", x) : x \in of}
Issue(key) == [key |-> key, text |-> key]
Names == {Missing, Value("ok", ("cf1" :> Value("ok", "Sprint")) @@ ("cf2" :> Value("bad", ""))),
          Value("ok", ("cf1" :> Value("ok", "")) @@ ("cf2" :> Value("ok", "Rank")))}
Documented(docs) == {[Base EXCEPT !.description = Value("ok", d)] : d \in docs}
FieldTexts == {[Base EXCEPT !.custom["cf1"] = v] : v \in Strings}
OtherFields ==
  {[Base EXCEPT !.custom = ("cf1" :> v) @@ ("cf2" :> w), !.names = n] :
     v \in Others, w \in Others, n \in Names}
NoFields == {[Base EXCEPT !.fields = f, !.status = Missing] : f \in {Missing, Null, Value("bad", << >>)}}
Basics ==
  NoFields \cup {[Base EXCEPT !.key = k, !.status = s, !.created = c, !.assignee = a, !.description = d] :
     k \in {"", "K-1"}, s \in Shapes({<<"s">>}), c \in Shapes({<<"c">>}),
     a \in Shapes({<<[name |-> "", email |-> "e"]>>}), d \in Shapes({Node("doc", << >>)})}
Relations ==
  {[Base EXCEPT !.parent = p, !.subtasks = s, !.links = l, !.remotes = r] :
     p \in Shapes({<<Issue("K-2")>>, <<Issue("")>>}), s \in Shapes({<<Issue("K-2"), Issue("K-3")>>}),
     l \in Shapes({<<[outward |-> <<Issue("K-3")>>, inward |-> <<Issue("K-2")>>]>>}),
     r \in Shapes({<<[url |-> "", text |-> "t"], [url |-> "pull", text |-> ""]>>,
                   <<[url |-> "page", text |-> "t"], [url |-> "browse", text |-> ""]>>})}
(* The nodes of these documents, level by level.                           *)
NextLevel(nodes) == UNION {ToSet(n.content) : n \in nodes}
RECURSIVE AllBelow(_), Levels(_)
AllBelow(nodes) == IF nodes = {} THEN {} ELSE nodes \cup AllBelow(NextLevel(nodes))
Levels(nodes)   == IF nodes = {} THEN 0 ELSE 1 + Levels(NextLevel(nodes))
DocNodes   == AllBelow({Node("doc", << >>)} \cup (Singles \cup Pairs))
DocHeights == [n \in DocNodes |-> Levels({n})]
MCNodes  == DocNodes
MCHeight == DocHeights

MCResponses ==
  [blocks |-> Documented(Singles), pairs |-> Documented(Pairs), texts |-> FieldTexts,
   fields |-> OtherFields, basics |-> Basics, relations |-> Relations]
=============================================================================
