------------------------------ MODULE Pipeline ------------------------------
(***************************************************************************)
(* What the workers of a crawl do with an issue they have fetched, and     *)
(* what they share besides the queue that Crawl is about: the lookup of    *)
(* the Epic Link field, the issue graph, the pull requests seen and the    *)
(* events.  Queue and caps are Crawl's; here an issue that is discovered   *)
(* is taken up sooner or later.                                            *)
(***************************************************************************)
EXTENDS Hierarchy, DevStatus, IssueGraph

CONSTANTS StartKeys,
          Issue,            \* what Parse makes of the reply for each issue
          DevReply,         \* what each Dev Status request is answered with
          PipelineFaults    \* "devstatus": requests may fail; "write": writes

ASSUME PipelineAssumption ==
  /\ StartKeys \subseteq Keys
  /\ Issue \in [Keys -> [key : Keys, summary : STRING, meta : STRING, type : STRING, numeric : BOOLEAN,
                        description : Seq([url : STRING, text : STRING]),
                        parent : Seq([key : Keys \cup {Empty}, text : STRING]),
                        subtasks : Seq([key : Keys \cup {Empty}, text : STRING]),
                        links : Seq([key : Keys \cup {Empty}, text : STRING, type : STRING]),
                        remotes : Seq([url : STRING, text : STRING]),
                        children : {<< >>}, prs : {<< >>}]]
  /\ \A k \in Keys : Issue[k].key = k
  /\ \A k \in Keys : \A i \in DOMAIN Issue[k].remotes : Issue[k].remotes[i].url \notin Keys
  /\ \A u \in Urls : Form[u].pr \notin Keys
  /\ ChildSearchLimit \in Int
  /\ ParentSearch \in [Keys -> Seq(Keys \cup {Empty})]
  /\ EpicSearch \in [Keys -> Seq(Keys \cup {Empty})]
  /\ Applications \in Seq(STRING)
  /\ IdsInOrder \in Seq(Urls)
  /\ DevReply \in [Keys -> [ToSet(Calls) -> Seq(ToSet(IdsInOrder) \cup {Empty})]]

VARIABLES todo,             \* issues that are queued
          visited,          \* issues that ever were
          graph,            \* the collector
          prs,              \* [seen, found]: the pull requests announced
          log,              \* the events of each issue, in order
          work,             \* what each worker holds after the enrichment
          result            \* what became of each issue that was reported

vars == <<hierarchyVars, todo, visited, graph, prs, log, work, result>>

Event(kind, what) == [kind |-> kind, what |-> what]
EventIf(cond, kind) == IF cond THEN <<Event(kind, Empty)>> ELSE << >>

NoWork == [failed |-> {}, data |-> NoData]

Init ==
  /\ HierarchyInit
  /\ todo = StartKeys /\ visited = StartKeys
  /\ graph = NewCollector
  /\ prs = [seen |-> {}, found |-> 0]
  /\ log = [k \in Keys |-> << >>]
  /\ work = [w \in Workers |-> NoWork]
  /\ result = << >>

Take(w) ==
  /\ search[w].at = "idle"
  /\ \E k \in todo :
       /\ todo' = todo \ {k}
       /\ search' = [search EXCEPT ![w] =
                       Call(IF HierarchyCapable(Issue[k].type) THEN "parent" ELSE "done", k)]
  /\ UNCHANGED <<field, visited, graph, prs, log, work, result>>

Discover(w) ==
  Children(w) /\ UNCHANGED <<todo, visited, graph, prs, log, work, result>>

(* The requests of Enrich touch nothing that is shared: which of them fail *)
(* is all that matters.  Both kinds of failure are only announced.         *)
EnrichIssue(w) ==
  LET k == search[w].issue
  IN  /\ search[w].at = "done"
      /\ \E failed \in IF "devstatus" \in PipelineFaults /\ Wanted(Issue[k])
                       THEN SUBSET ToSet(Calls) ELSE {{}} :
           \E e \in {Enrich(Issue[k], DevReply[k], failed)} :
               /\ work' = [work EXCEPT ![w] = [failed |-> failed, data |-> e.data]]
               /\ log' = [log EXCEPT ![k] = @ \o (EventIf(ChildrenError(w), "failed")
                                                 \o EventIf(e.err, "devstatus"))]
      /\ search' = [search EXCEPT ![w].at = "write"]
      /\ UNCHANGED <<field, todo, visited, graph, prs, result>>

Release(w) ==
  /\ search' = [search EXCEPT ![w] = NoCall]
  /\ work' = [work EXCEPT ![w] = NoWork]

(* The issue is rendered and written; "fetched" is announced before the    *)
(* mutex is taken, so that other workers come in between.                  *)
Write(w) ==
  LET k == search[w].issue
  IN  /\ search[w].at = "write"
      /\ \/ /\ search' = [search EXCEPT ![w].at = "report"]
            /\ log' = [log EXCEPT ![k] = @ \o <<Event("fetched", Empty)>>]
            /\ UNCHANGED work
         \/ /\ "write" \in PipelineFaults
            /\ Release(w)
            /\ log' = [log EXCEPT ![k] = @ \o <<Event("failed", Empty)>>]
      /\ UNCHANGED <<field, todo, visited, graph, prs, result>>

(* The issue as it is handed to the graph: with what the worker found out. *)
Enriched(w) ==
  LET pulls == IF "pullrequest" \in DataTypes THEN work[w].data["pullrequest"] ELSE << >>
  IN  [Issue[search[w].issue] EXCEPT !.children = SetToSeq(search[w].seen),
                                     !.prs = [i \in DOMAIN pulls |-> pulls[i].id]]

(* Slip: the pull requests of an issue are compared with earlier issues'.  *)
AnnounceUnlessEarlier(acc, url) ==
  IF url = Empty \/ url \in prs.seen THEN acc
  ELSE [seen |-> acc.seen \cup {url}, found |-> acc.found + 1,
        events |-> Append(acc.events, Event("pr", url))]

(* A pull request is announced by the first issue that refers to it.       *)
Announce(acc, url) ==
  IF url = Empty \/ url \in acc.seen THEN acc
  ELSE [seen |-> acc.seen \cup {url}, found |-> acc.found + 1,
        events |-> Append(acc.events, Event("pr", url))]

AnnouncePRs(issue, refs) ==
  LET said(pulls) == ForEach([i \in DOMAIN pulls |-> pulls[i].url] \o issue.prs,
                             [seen |-> prs.seen, found |-> prs.found, events |-> << >>], Announce)
  IN  Apply(said, Only(refs, {r \in ToSet(refs) : r.kind = "github_pr"}))

Referred(refs) == {refs[i].key : i \in {j \in DOMAIN refs : refs[j].kind = "jira"}} \ {Empty}

(* The critical section that follows the write.                            *)
ReportAs(w, issue, refs, said) ==
  LET fresh == (Referred(refs) \cup search[w].seen) \ visited
  IN  /\ graph' = Add(graph, issue, refs)
      /\ prs' = [seen |-> said.seen, found |-> said.found]
      /\ log' = [log EXCEPT ![issue.key] = @ \o (said.events \o
                   [i \in DOMAIN issue.children |-> Event("child", issue.children[i])])]
      /\ todo' = todo \cup fresh
      /\ visited' = visited \cup fresh
      /\ result' = Put(result, issue.key, [children |-> search[w].seen, prs |-> issue.prs,
                                           failed |-> work[w].failed,
                                           parentErr |-> search[w].parentErr,
                                           epicErr |-> search[w].epicErr])

Report(w) ==
  /\ search[w].at = "report"
  /\ \E issue \in {Enriched(w)} : \E refs \in {Extract(issue)} :
       \E said \in {AnnouncePRs(issue, refs)} : ReportAs(w, issue, refs, said)
  /\ Release(w)
  /\ UNCHANGED field

Step(w) == Take(w) \/ Discover(w) \/ EnrichIssue(w) \/ Write(w) \/ Report(w)

AllDone == todo = {} /\ \A w \in Workers : search[w].at = "idle"

Finished == AllDone /\ UNCHANGED vars

Next == (\E w \in Workers : Step(w)) \/ Finished

Spec == Init /\ [][Next]_vars
FairSpec == Spec /\ \A w \in Workers : WF_vars(Step(w))

-----------------------------------------------------------------------------
(* What the searches of an issue that did not fail have found.             *)
HasEpicField == EpicLinkField # Empty \/ (TenantField # Empty /\ ~field.failed)
FoundFor(k, r) ==
       (IF r.parentErr THEN {} ELSE ToSet(Found(ParentSearch[k])))
  \cup (IF r.epicErr \/ ~HasEpicField THEN {} ELSE ToSet(Found(EpicSearch[k])))
Says(k, kind) == \E i \in DOMAIN log[k] : log[k][i].kind = kind

(* No child is lost in silence: what either search finds is among the      *)
(* children although the other one failed, unless the limit cuts it, and   *)
(* an issue whose search failed says so.  The one exception is a failed    *)
(* lookup of the Epic Link field: it costs every later issue its second    *)
(* search, without a word.                                                 *)
ChildrenAccountedFor ==
  \A k \in {x \in DOMAIN result : HierarchyCapable(Issue[x].type)} :
    LET r == result[k]
        found == FoundFor(k, r) \ {Empty}
    IN  /\ r.children \subseteq found
        /\ Cardinality(r.children) = Min({Limit, Cardinality(found)})
        /\ Says(k, "failed") <=> r.parentErr \/ r.epicErr

(* A request that failed takes nothing away from what the others found:    *)
(* every pull request of an answered request is announced and in the       *)
(* graph, and the issue says that something failed exactly when it did.    *)
FoundSurvives ==
  \A k \in DOMAIN result :
    /\ Wanted(Issue[k]) =>
         \A c \in {x \in ToSet(Calls) \ result[k].failed : x[2] = "pullrequest"} :
           \A u \in ToSet(DevReply[k][c]) \ {Empty} :
             u \in prs.seen /\ <<k, PRId(u, Empty), "pull_request">> \in DOMAIN graph.edges
    /\ Says(k, "devstatus") <=> result[k].failed # {}

(* The edges an issue makes, without any order: its fields, and those of   *)
(* its references that its fields do not cover.                            *)
FieldEdges(k) ==
  LET i == Issue[k]
      keys(s) == {s[j].key : j \in DOMAIN s}
      pair(kind, ids) == {<<k, id, kind>> : id \in ids \ {Empty}}
  IN       pair("parent", keys(i.parent)) \cup pair("subtask", keys(i.subtasks))
      \cup pair("child", result[k].children) \cup pair("link", keys(i.links))
      \cup pair("remote", {i.remotes[j].url : j \in DOMAIN i.remotes})
      \cup pair("pull_request", {PRId(u, Empty) : u \in ToSet(result[k].prs)})

RefEdges(k) ==
  LET refs == ToSet(Extract(Issue[k]))
      of(kind) == {r \in refs : r.kind = kind}
      keys == {r.key : r \in of("jira")} \ {e[2] : e \in FieldEdges(k)}
  IN       {<<k, key, "description">> : key \in keys \ {Empty}}
      \cup {<<k, r.pr, "pull_request">> : r \in of("github_pr")}
      \cup {<<k, r.url, "external">> : r \in {x \in of("external") : x.url # Empty}}

(* In whatever order workers add issues: the edges of the graph are those  *)
(* of the reported issues, its nodes are what they touch, and the fetched  *)
(* nodes are the reported issues, with their status, type, assignee and    *)
(* URL.  Labels are not in it, for they do depend on the order: the label  *)
(* of a fetched node is replaced by that of a placeholder that comes later *)
(* (graph.go:317), although upsertNode's comment has "a Fetched=true node  *)
(* always wins" (graph.go:296-299), and an edge keeps the first it gets.   *)
GraphIsUnion ==
  LET edges == UNION {FieldEdges(k) \cup RefEdges(k) : k \in DOMAIN result}
  IN  /\ DOMAIN graph.edges = edges
      /\ DOMAIN graph.nodes = DOMAIN result \cup {e[2] : e \in edges}
      /\ {id \in DOMAIN graph.nodes : graph.nodes[id].fetched} = DOMAIN result
      /\ \A k \in DOMAIN result : graph.nodes[k].meta = Issue[k].meta

(* Every pull request is announced once in the whole crawl, whichever of   *)
(* the issues and of their two ways to refer to it come first, and the     *)
(* number of them is right.                                                *)
PRsAnnouncedOnce ==
  LET said == UNION {{<<k, i>> : i \in {j \in DOMAIN log[k] : log[k][j].kind = "pr"}} : k \in Keys}
  IN  /\ \A x, y \in said : x # y => log[x[1]][x[2]].what # log[y[1]][y[2]].what
      /\ prs.seen = {log[x[1]][x[2]].what : x \in said}
      /\ prs.found = Cardinality(said)

(* Nobody waits for ever for the lookup of the field, and every issue that *)
(* is taken up is finished.                                                *)
EveryIssueFinished == <>[]AllDone
=============================================================================
