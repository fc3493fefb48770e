----------------------------- MODULE IssueGraph -----------------------------
(***************************************************************************)
(* internal/graph: the collector of nodes and edges that the workers fill, *)
(* one whole issue at a time, with the crawler's mutex held.               *)
(*                                                                         *)
(* A graph is [nodes, edges]: nodes maps an identifier (an issue key,      *)
(* "owner/repo#n", or a URL) to what is known of it, edges maps            *)
(* <<from, to, kind>> to a label.  Status, type, assignee and URL of a     *)
(* node travel together as "meta"; "" is a bare label or no meta.          *)
(***************************************************************************)
EXTENDS References, InOrder

NewCollector == [nodes |-> << >>, edges |-> << >>]

Node(kind, label, meta, fetched) ==
  [kind |-> kind, label |-> label, meta |-> meta, fetched |-> fetched]

FetchedIssue(issue)   == Node("issue", issue.summary, issue.meta, TRUE)
ReferencedIssue(text) == Node("issue", text, Empty, FALSE)
ExternalNode(url, text) == Node("external", IF text = Empty THEN url ELSE text, url, FALSE)
PullRequest(id, url)  == Node("github_pr", id, url, FALSE)

(* A map in which an identifier stands for something new.                  *)
Put(map, id, new) == [x \in DOMAIN map \cup {id} |-> IF x = id THEN new ELSE map[x]]

PreferNonEmpty(new, old) == IF new # Empty THEN new ELSE old

(* Slip: what comes last replaces what was known.                          *)
UpsertNodeOverwriting(g, id, n) ==
  IF id = Empty THEN g ELSE [g EXCEPT !.nodes = Put(@, id, n)]

(* The label of a known node is replaced even by a bare one: the code      *)
(* compares labels with "", and a bare label is the key itself.            *)
UpsertNode(g, id, n) ==
  LET cur == g.nodes[id]
      merged == [kind |-> cur.kind, label |-> n.label,
                 meta |-> PreferNonEmpty(n.meta, cur.meta),
                 fetched |-> cur.fetched \/ n.fetched]
  IN  IF id = Empty THEN g
      ELSE [g EXCEPT !.nodes = Put(@, id, IF id \in DOMAIN @ THEN merged ELSE n)]

(* The first writer of an edge sets its label.                             *)
AddEdge(g, from, to, kind, label) ==
  IF from = Empty \/ to = Empty \/ <<from, to, kind>> \in DOMAIN g.edges THEN g
  ELSE [g EXCEPT !.edges = Put(@, <<from, to, kind>>, label)]

Structured == {"parent", "subtask", "child", "link", "remote", "pull_request", "external"}

AnyEdgeBetween(g, from, to) == \E k \in Structured : <<from, to, k>> \in DOMAIN g.edges

(* "owner/repo#n" when the classifier or the start of the URL gives it,    *)
(* the URL itself otherwise.                                               *)
PRId(url, pr) ==
  IF pr # Empty THEN pr
  ELSE IF url \in Urls /\ Form[url].host = "github" /\ Form[url].pr # Empty THEN Form[url].pr
  ELSE url

(* One thing an issue mentions: the node it makes known, and the edge.     *)
Mention(id, node, kind, label) == [id |-> id, node |-> node, kind |-> kind, label |-> label]

Connect(from, g, m) ==
  IF m.id = Empty THEN g ELSE AddEdge(UpsertNode(g, m.id, m.node), from, m.id, m.kind, m.label)

MentionIssues(s, kind) ==
  [i \in DOMAIN s |-> Mention(s[i].key, ReferencedIssue(s[i].text), kind, Empty)]

MentionPR(url, pr) ==
  Mention(PRId(url, pr), PullRequest(PRId(url, pr), url), "pull_request", Empty)

(* What the fields of an issue mention, in the order Add takes them.       *)
StructuredMentions(issue) ==
     MentionIssues(issue.parent, "parent")
  \o MentionIssues(issue.subtasks, "subtask")
  \o [i \in DOMAIN issue.children |->
        Mention(issue.children[i], ReferencedIssue(Empty), "child", Empty)]
  \o [i \in DOMAIN issue.links |->
        Mention(issue.links[i].key, ReferencedIssue(issue.links[i].text), "link",
                issue.links[i].type)]
  \o [i \in DOMAIN issue.remotes |->
        Mention(issue.remotes[i].url, ExternalNode(issue.remotes[i].url, issue.remotes[i].text), "remote",
                issue.remotes[i].text)]
  \o [i \in DOMAIN issue.prs |-> MentionPR(issue.prs[i], Empty)]

(* A reference by key yields to a structured edge between the same two.    *)
ConnectRef(from, g, r) ==
  CASE r.kind = "jira" /\ AnyEdgeBetween(g, from, r.key) -> g
    [] r.kind = "jira" /\ ~AnyEdgeBetween(g, from, r.key) ->
         Connect(from, g, Mention(r.key, ReferencedIssue(r.text), "description", Empty))
    [] r.kind = "github_pr" ->
         Connect(from, g, MentionPR(r.url, r.pr))
    [] r.kind = "external" ->
         Connect(from, g, Mention(r.url, ExternalNode(r.url, r.text), "external", r.text))

Add(g, issue, refs) ==
  LET own == UpsertNode(g, issue.key, FetchedIssue(issue))
      fields == ForEach(StructuredMentions(issue), own,
                        LAMBDA acc, m : Connect(issue.key, acc, m))
  IN  IF issue.key = Empty THEN g
      ELSE ForEach(refs, fields, LAMBDA acc, r : ConnectRef(issue.key, acc, r))
=============================================================================
