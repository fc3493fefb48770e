------------------------------ MODULE Content -------------------------------
(***************************************************************************)
(* What becomes of the content of an issue, from Jira's response to the    *)
(* reader: internal/parse, internal/render and GetIssue of the facade, of  *)
(* the server and of the bridge.                                           *)
(*                                                                         *)
(* A response gives its fields as [is, of]: absent, null, bad (not of the  *)
(* type that the parser wants) or ok.  Content has its modules: documents  *)
(* ADF, custom fields CustomFields, and what refers to what References.    *)
(***************************************************************************)
EXTENDS References, ADF, CustomFields, FiniteSets

CONSTANTS
  Responses,    \* what Jira answers: a set of responses for each topic
  FieldIds      \* the ids of the custom fields, in their order

NoDescription == "no description"

(* What Jira answers: related issues by their keys (only the parent's may  *)
(* be empty), each custom field of an issue or its absence, and JSON that  *)
(* is neither an object, an array nor a string on one line.                *)
Issues(keys) == [key : keys, text : STRING]
IsValue(v) ==
  /\ v.is \in {"absent", "null", "string", "value"} /\ v.of \in Seq(STRING)
  /\ v.is = "value" => v.of # << >> /\ (v.of[1] \in Openers \/ "nl" \notin ToSet(v.of))
IsResponse(r) ==
  /\ \A field \in {"description", "parent", "subtasks", "links", "remotes"} :
       r[field].is \in {"absent", "null", "bad", "ok"}
  /\ r.description.is = "ok" => r.description.of \in Documents
  /\ r.parent.is = "ok" => r.parent.of \in Seq(Issues(Keys \cup {Empty}))
  /\ r.subtasks.is = "ok" => r.subtasks.of \in Seq(Issues(Keys))
  /\ r.links.is = "ok" => r.links.of \in Seq([outward : Seq(Issues(Keys)), inward : Seq(Issues(Keys))])
  /\ r.remotes.is = "ok" => r.remotes.of \in Seq([url : STRING, text : STRING])
  /\ DOMAIN r.custom = ToSet(FieldIds) /\ \A id \in DOMAIN r.custom : IsValue(r.custom[id])
  /\ r.names.is = "ok" => \A id \in DOMAIN r.names.of : r.names.of[id].of # "nl"
ASSUME ContentAssumption ==
  /\ FieldIds \in Seq(STRING) /\ "nl" \notin ToSet(FieldIds)
  /\ \A topic \in DOMAIN Responses : \A r \in Responses[topic] : IsResponse(r)
  /\ Node("doc", << >>) \in Nodes /\ NoDescription \notin Words

VARIABLES
  response,
  nulls,        \* GOJIRA_RENDER_NULL_CUSTOM_FIELDS
  at,           \* "asked", "failed", "got", "rendered", "remote"
  got,          \* [issue, refs]: what GetIssue returned
  pages,        \* [index, outbound, keys]: what FetchAndRender returned
  reply         \* [issue, refs]: what the bridge made of the server's answer

contentVars == <<response, nulls, at, got, pages, reply>>

-----------------------------------------------------------------------------
(* Parse: what is null is absent, but for times, which are read when they  *)
(* are there; only the description is not looked into.                     *)
Given(v)      == v.is \notin {"absent", "null"}
Parses(r) ==
  /\ r.key # Empty /\ r.fields.is \notin {"absent", "bad"}
  /\ \A field \in {"status", "assignee", "parent", "subtasks", "links", "remotes"} : r[field].is # "bad"
  /\ r.created.is \in {"absent", "ok"}
List(v) == IF Given(v) THEN v.of ELSE << >>

DisplayName(users) ==
  IF users = << >> THEN Empty ELSE IF users[1].name # Empty THEN users[1].name ELSE users[1].email
(* A link has two ends, of which the response may give one or both.        *)
ParseLinks(links) == ForEach(links, << >>, LAMBDA acc, l : acc \o l.outward \o l.inward)
ParseNames(v) ==
  IF v.is # "ok" THEN [id \in {} |-> Empty]
  ELSE [id \in {id \in DOMAIN v.of : v.of[id].is = "ok"} |-> v.of[id].of]
ParseParent(parents) == Only(parents, {p \in ToSet(parents) : p.key # Empty})
ParseRemotes(remotes) == Only(remotes, {l \in ToSet(remotes) : l.url # Empty})
PreserveCustomFields(custom) == [id \in {id \in DOMAIN custom : custom[id].is # "absent"} |-> custom[id]]

Parse(r) ==
  [key |-> r.key, status |-> List(r.status), assignee |-> DisplayName(List(r.assignee)),
   created |-> List(r.created), description |-> r.description,
   parent |-> ParseParent(List(r.parent)), subtasks |-> List(r.subtasks),
   links |-> ParseLinks(List(r.links)), remotes |-> ParseRemotes(List(r.remotes)),
   custom |-> PreserveCustomFields(r.custom), names |-> ParseNames(r.names)]

Doc(issue) == IF Given(issue.description) THEN issue.description.of ELSE Node("doc", << >>)
RefsOf(issue) == Extract([issue EXCEPT !.description = ExtractLinks[Doc(issue)]])

-----------------------------------------------------------------------------
(* The pages of an issue.  Links to issues that have been downloaded go to *)
(* their files.                                                            *)
IssueLink(key, neighbours) == [key |-> key, to |-> IF key \in neighbours THEN "file" ELSE "browse"]
IssueLinks(issues, neighbours) == [i \in DOMAIN issues |-> IssueLink(issues[i].key, neighbours)]
Described(buf) == IF ToSet(buf) \subseteq {"nl", "  "} THEN <<NoDescription>> ELSE buf
RemoveRepeated(s) ==
  ForEach(s, << >>, LAMBDA acc, x : IF x \in ToSet(acc) THEN acc ELSE Append(acc, x))
RenderIssue(issue, neighbours, withNulls) ==
  LET md == RenderMarkdown(Doc(issue))
  IN  [title |-> issue.key, status |-> issue.status, created |-> issue.created,
       assignee |-> IF issue.assignee = Empty THEN "Unassigned" ELSE issue.assignee,
       description |-> Described(md.buf), unknown |-> RemoveRepeated(md.unknown),
       parent |-> IssueLinks(issue.parent, neighbours), subtasks |-> IssueLinks(issue.subtasks, neighbours),
       links |-> IssueLinks(issue.links, neighbours), remotes |-> issue.remotes,
       fields |-> RenderFields(FieldIds, issue.custom, issue.names, withNulls)]

(* Jira issues by their files, pull requests by their names, and the rest. *)
Labelled(r) == [to |-> r.url, text |-> IF r.text = Empty THEN r.url ELSE r.text]
OfKind(refs, kind) == Only(refs, {r \in ToSet(refs) : r.kind = kind})
RenderOutbound(refs) ==
  LET jira == OfKind(refs, "jira")  prs == OfKind(refs, "github_pr")  others == OfKind(refs, "external")
  IN  [i \in DOMAIN jira |-> [to |-> jira[i].key, text |-> jira[i].key]]
      \o [i \in DOMAIN prs |-> [to |-> prs[i].url, text |-> prs[i].pr]]
      \o [i \in DOMAIN others |-> Labelled(others[i])]

(* The issue on its way through the server, and what the bridge takes out  *)
(* of it: no relations and no custom fields.                               *)
KindString(r) ==
  CASE r.kind = "jira" -> IF r.url = Empty THEN "JiraKey" ELSE "JiraURL"
    [] r.kind = "github_pr" -> "GitHubPR"
    [] OTHER -> "External"
(* Slip: the names of the metrics instead of those of the protocol.        *)
KindFromLabel(name) ==
  CASE name = "jira" -> "jira" [] name = "github-pr" -> "github_pr" [] OTHER -> "external"
KindFromString(name) ==
  CASE name \in {"JiraKey", "JiraURL"} -> "jira" [] name = "GitHubPR" -> "github_pr" [] OTHER -> "external"
ToProto(issue, refs) ==
  [key |-> issue.key, status |-> issue.status, assignee |-> issue.assignee, created |-> issue.created,
   parentKey |-> [i \in DOMAIN issue.parent |-> issue.parent[i].key], subtasks |-> issue.subtasks,
   links |-> issue.links, remotes |-> issue.remotes, custom |-> issue.custom,
   references |-> [i \in DOMAIN refs |-> [refs[i] EXCEPT !.kind = KindString(refs[i])]]]
FromProto(answer) ==
  [issue |-> [key |-> answer.key, status |-> answer.status, assignee |-> answer.assignee,
              created |-> answer.created],
   refs |-> [i \in DOMAIN answer.references |->
              [answer.references[i] EXCEPT !.kind = KindFromString(@), !.pr = Empty]]]

-----------------------------------------------------------------------------
NoIssue == [issue |-> << >>, refs |-> << >>]
NoPages == [index |-> << >>, outbound |-> << >>, keys |-> << >>]

ContentInit ==
  /\ \E topic \in DOMAIN Responses : response \in Responses[topic]
  /\ nulls \in BOOLEAN
  /\ at = "asked" /\ got = NoIssue /\ pages = NoPages /\ reply = NoIssue

(* A response that does not parse, or whose description is no document.    *)
GetIssue ==
  /\ at = "asked"
  /\ IF Parses(response) /\ response.description.is # "bad"
     THEN LET issue == Parse(response)
          IN  at' = "got" /\ got' = [issue |-> issue, refs |-> RefsOf(issue)]
     ELSE at' = "failed" /\ UNCHANGED got
  /\ UNCHANGED <<response, nulls, pages, reply>>

(* The pages of a single issue: no other has been downloaded.              *)
FetchAndRender ==
  /\ at = "got"
  /\ at' = "rendered"
  /\ pages' = [index |-> RenderIssue(got.issue, {}, nulls), outbound |-> RenderOutbound(got.refs),
               keys |-> [i \in DOMAIN OfKind(got.refs, "jira") |-> OfKind(got.refs, "jira")[i].key]]
  /\ UNCHANGED <<response, nulls, got, reply>>

GetByBridge ==
  /\ at = "got"
  /\ at' = "remote" /\ reply' = FromProto(ToProto(got.issue, got.refs))
  /\ UNCHANGED <<response, nulls, got, pages>>

ContentNext == GetIssue \/ FetchAndRender \/ GetByBridge

ContentSpec == ContentInit /\ [][ContentNext]_contentVars

-----------------------------------------------------------------------------
(* The nodes of a document, and those that are not within one of a type    *)
(* that the renderer does not know.                                        *)
KnownTypes ==
  {"doc", "paragraph", "heading", "text", "hardBreak", "bulletList", "orderedList", "listItem",
   "codeBlock", "blockquote"}
Within[n \in Nodes]  == {n} \cup UNION {Within[n.content[i]] : i \in DOMAIN n.content}
Reached[n \in Nodes] ==
  {n} \cup IF n.type \notin KnownTypes THEN {}
           ELSE UNION {Reached[n.content[i]] : i \in DOMAIN n.content}
HrefsOf(n) == {n.marks[i].href : i \in DOMAIN n.marks}
Hrefs     == UNION {HrefsOf(n) : n \in Within[Doc(got.issue)]}
Markdown  == pages.index.description

(* Every text of the description is in the page, in the same order, in     *)
(* nodes that the renderer does not know as well.                          *)
TextKept ==
  at = "rendered" => Only(Markdown, Words) = CollectText[Doc(got.issue)]

(* Headings, list items and fences begin a line (within a quotation or a   *)
(* list), and between the two ends of a fence is nothing but text.  Told   *)
(* by a reader who goes through the page: is it at the beginning of a      *)
(* line, within a fence, and has all been well so far?                     *)
AtFirst == [fresh |-> TRUE, open |-> FALSE, well |-> TRUE]
ReadToken(a, t) ==
  [fresh |-> t = "nl" \/ (a.fresh /\ t \in {"> ", "  "}),
   open  |-> IF t = "fence" THEN ~a.open ELSE a.open,
   well  |-> /\ a.well
             /\ t \in {"# ", "- ", "fence"} => a.fresh
             /\ a.open => t \in Words \cup {"fence", "nl", "> "}]
BlocksApart ==
  at = "rendered" => LET end == ForEach(Markdown, AtFirst, ReadToken) IN end.well /\ ~end.open

(* What an issue mentions is in outbound.md: its related issues; and of    *)
(* the targets of remote links and of the links in the description (the    *)
(* marks, however deep) those that are a key or a URL with a host; the     *)
(* keys among these are the ones to crawl.  And index.md names the types   *)
(* of the outermost nodes that are not rendered.  Not in it: a mailto: or  *)
(* relative target, of which outbound.md has an empty URL, although        *)
(* extract.go:81-82 has "the raw URL string"; an inlineCard, which is no   *)
(* mark; and a type that occurs only within a node of another unknown      *)
(* type, which is named nowhere, although adf.go:214-215 promises "every   *)
(* node type the renderer does not handle", as does render.go:32-33.       *)
NothingUnseen ==
  at = "rendered" =>
    LET lines == {pages.outbound[i].to : i \in DOMAIN pages.outbound}
        related == {x.key : x \in ToSet(got.issue.parent \o got.issue.subtasks \o got.issue.links)}
        linked == {l.url : l \in ToSet(got.issue.remotes)} \cup Hrefs
        target(u) == IF u \in Urls /\ MatchesJiraURL(u) THEN Form[u].key ELSE u
        targets == {target(u) : u \in linked \cap (Keys \cup Urls)}
    IN  /\ related \cup targets \subseteq lines
        /\ (related \cup targets) \cap Keys = ToSet(pages.keys)
        /\ ToSet(pages.index.unknown) = {n.type : n \in Reached[Doc(got.issue)]} \ KnownTypes

(* Every custom field of the response has its entry (one that is null has  *)
(* it when asked for), with all that Jira said but for blanks and quotes,  *)
(* and no line of it falls out of the list.                                *)
Blanks == White \cup {"  ", "q", "esc", "n", "fence"}
Ink(s) == Only(s, ToSet(s) \ Blanks)
FieldsKept ==
  at = "rendered" =>
    LET in == response.custom
        shown == Only(FieldIds, {id \in DOMAIN in : in[id].is # "absent" /\ (nulls \/ in[id].is # "null")})
        fields == pages.index.fields
    IN  /\ Len(fields) = Len(shown)
        /\ \A i \in DOMAIN shown :
             /\ Ink(fields[i]) =
                  Ink(<<"- ", LabelFor(shown[i], got.issue.names)>>
                        \o IF in[shown[i]].is = "null" THEN <<"null">> ELSE in[shown[i]].of)
             /\ \A k \in DOMAIN fields[i] : fields[i][k] = "nl" => fields[i][k + 1] = "  "

(* Through the bridge a host sees the same references, in the same order,  *)
(* as from the facade; only a pull request has lost its name.              *)
BridgeRefers ==
  at = "remote" => reply.refs = [i \in DOMAIN got.refs |-> [got.refs[i] EXCEPT !.pr = Empty]]
=============================================================================
