------------------------------- MODULE Writes -------------------------------
(***************************************************************************)
(* Writing to Jira: issues, comments, workflow transitions and project     *)
(* versions, from the command line, the MCP tools and the gRPC server,     *)
(* while other users work on the same issue and project.                   *)
(*                                                                         *)
(* A call is one command or tool call.  It makes one request, but for a    *)
(* transition by status (it lists the transitions, then executes one), a   *)
(* version for a project key (it resolves the key, then creates) and a     *)
(* list of versions (page after page).  An answer may be lost: the request *)
(* is then made again, though Jira carried it out.                         *)
(***************************************************************************)
EXTENDS WriteRequests, FiniteSets

CONSTANTS
  Calls,
  Requests,    \* what the calls are for: functions from Calls to requests
  Workflow,    \* the transitions of the issue: [id, from, to]
  Fold,        \* Fold[s]: status name s in lower case
  VersionIds,  \* the ids that Jira gives to versions, one after the other
  PageSize,    \* pageSize of ListVersions, and Jira's own limit
  MaxLost,     \* bound: answers lost in a call
  MaxOthers    \* bound: changes by other users

(* What a front end has flags or arguments for.  Raw fields are for issues *)
(* only, and not for the command line.                                     *)
Offered(front, op) ==
  CASE op = "create" -> ToSet(IF front = "cli" THEN EditFields ELSE CreateFields)
    [] op = "update" -> ToSet(EditFields)
    [] op \in {"createVersion", "updateVersion"} -> ToSet(VersionFields)
    [] OTHER -> {"comment"}

IsRequest(req) ==
  /\ DOMAIN req = {"front", "op", "on", "name", "given", "raw", "verbs", "dry", "id", "target"}
  /\ req.front \in {"cli", "self", "bridge"}
  /\ DOMAIN req.given \subseteq Offered(req.front, req.op)
  /\ DOMAIN req.raw # {} => req.front # "cli" /\ req.op \in {"create", "update"}
  /\ IsFiniteSet(DOMAIN req.raw)
  /\ \A f \in DOMAIN req.raw : req.raw[f] \in {Text(req.raw[f].of), JSON(req.raw[f].of)}

(* Jira gives a transition of a workflow one id and one target, however    *)
(* many statuses it leaves from, and never gives a version the id of       *)
(* another.                                                                *)
ASSUME WritesAssumption ==
  /\ \A r \in Requests, c \in Calls : IsRequest(r[c])
  /\ \A t, u \in Workflow : t.id = u.id => t.to = u.to
  /\ {1, 2} \subseteq DOMAIN VersionIds /\ IsInjective(VersionIds)
  /\ PageSize \in Nat \ {0}

VARIABLES
  call,       \* call[c]: the progress of a call
  status,     \* the issue's status
  fields,     \* its fields
  comments,   \* its comments, in order
  created,    \* the bodies of the issues created, in order
  versions,   \* the versions of the project, in Jira's order
  made,       \* how many versions it ever had
  others      \* changes by other users so far

jira == <<status, fields, comments, created, versions, made>>
vars == <<call, jira, others>>

(* id, matches: the transition to execute, and how many led to the target. *)
(* out: what the call returned.  carried, lost: how often Jira carried its *)
(* write out, and how many answers were lost.  startAt, got: the listing   *)
(* so far; there: the versions that existed when it began; cut: was any    *)
(* deleted since?                                                          *)
NewCall(req) ==
  [at |-> "begin", req |-> req, id |-> req.id, matches |-> 0, out |-> "", carried |-> 0,
   lost |-> 0, startAt |-> 0, got |-> << >>, there |-> {}, cut |-> FALSE]

Init ==
  /\ call \in {[c \in Calls |-> NewCall(r[c])] : r \in Requests}
  /\ status = "Open"
  /\ fields = << >>
  /\ comments = << >>
  /\ created = << >>
  /\ versions = [i \in 1 .. 2 |-> [id |-> VersionIds[i], body |-> << >>]]
  /\ made = 2
  /\ others = 0

Set(c, record) == call' = [call EXCEPT ![c] = record]
Done(c, result) == Set(c, [call[c] EXCEPT !.at = "done", !.out = result])

FirstRequest(req) ==
  CASE req.op = "transition" /\ req.id = Empty        -> "list"
    [] req.op = "createVersion" /\ ~IsId(req.on)      -> "resolve"
    [] req.op = "listVersions"                        -> "page"
    [] OTHER                                          -> "write"

Ids(vs) == {vs[i].id : i \in DOMAIN vs}

(* Slip: an update is sent after its preview.                              *)
BeginAfterPreview(c) ==
  /\ call[c].at = "begin"
  /\ IF Refused(call[c].req) THEN Done(c, "refused")
     ELSE IF call[c].req.dry /\ call[c].req.op # "update" THEN Done(c, "preview")
     ELSE Set(c, [call[c] EXCEPT !.at = FirstRequest(call[c].req), !.there = Ids(versions)])
  /\ UNCHANGED <<jira, others>>

Begin(c) ==
  LET req == call[c].req
      preview == IF DatesValid(PlanOf(req).opts) THEN "preview" ELSE "failed"
  IN  /\ call[c].at = "begin"
      /\ IF Refused(req) THEN Done(c, "refused")
         ELSE IF req.dry THEN Done(c, preview)
         ELSE Set(c, [call[c] EXCEPT !.at = FirstRequest(req), !.there = Ids(versions)])
      /\ UNCHANGED <<jira, others>>

(* A request fails for good: Jira's answer, or a network that stays down.  *)
Fail(c) ==
  /\ call[c].at \in {"list", "resolve", "page", "write"}
  /\ Done(c, "failed")
  /\ UNCHANGED <<jira, others>>

(* TransitionIssueByStatus: one transition must lead to the status.        *)
Available == {t \in Workflow : t.from = status}
Leading(name) == {t \in Available : Fold[t.to] = Fold[name]}

(* Slip: the first of several transitions is taken.                        *)
ChooseFirst(c) ==
  LET leading == Leading(call[c].req.target)
  IN  /\ call[c].at = "list"
      /\ IF leading = {} THEN Done(c, "failed")
         ELSE Set(c, [call[c] EXCEPT !.at = "write", !.id = (CHOOSE t \in leading : TRUE).id,
                                     !.matches = Cardinality(leading)])
      /\ UNCHANGED <<jira, others>>

ChooseTransition(c) ==
  LET leading == Leading(call[c].req.target)
  IN  /\ call[c].at = "list"
      /\ IF Cardinality(leading) = 1
         THEN \E t \in leading :
                Set(c, [call[c] EXCEPT !.at = "write", !.id = t.id, !.matches = 1])
         ELSE Done(c, "failed")
      /\ UNCHANGED <<jira, others>>

ResolveProjectID(c) ==
  /\ call[c].at = "resolve"
  /\ IF call[c].req.on \in DOMAIN ProjectIds
     THEN Set(c, [call[c] EXCEPT !.at = "write", !.req.on = ProjectIds[@]])
     ELSE Done(c, "failed")
  /\ UNCHANGED <<jira, others>>

-----------------------------------------------------------------------------
(* Jira carries a write out, if the issue, version or transition is there. *)
Edited(old, verbs) ==
  FoldLeft(LAMBDA v, e : IF e.verb = "add" THEN v \cup {e.id} ELSE v \ {e.id}, old, verbs)

Update(req) ==
  LET new == Onto(fields, RenderUpdateBody(req))
      old == IF "fixVersions" \in DOMAIN new THEN new["fixVersions"].of ELSE {}
  IN  /\ fields' = IF req.verbs = << >> THEN new
                   ELSE Onto(new, [f \in {"fixVersions"} |-> JSON(Edited(old, req.verbs))])
      /\ UNCHANGED <<status, comments, created, versions, made>>

Comment(texts) == comments' = IF texts = {} THEN comments ELSE Append(comments, texts)

Transition(c) ==
  /\ \E t \in Available : t.id = call[c].id /\ status' = t.to
  /\ Comment(Given(call[c].req, "comment"))
  /\ UNCHANGED <<fields, created, versions, made>>

NewVersion(body) ==
  /\ made' = made + 1
  /\ made' \in DOMAIN VersionIds
  /\ versions' = Append(versions, [id |-> VersionIds[made'], body |-> body])

CreateVersion(req) ==
  /\ NewVersion(RenderCreateVersionBody(req))
  /\ UNCHANGED <<status, fields, comments, created>>

UpdateVersion(req) ==
  /\ \E i \in DOMAIN versions :
       /\ versions[i].id = req.on
       /\ versions' = [versions EXCEPT ![i].body = Onto(@, RenderUpdateBody(req))]
  /\ UNCHANGED <<status, fields, comments, created, made>>

CarryOut(c) ==
  LET req == call[c].req
  IN  /\ call[c].at = "write" /\ DatesValid(PlanOf(req).opts)
      /\ UNCHANGED others
      /\ \/ /\ req.op = "create"
            /\ created' = Append(created, RenderCreateBody(req))
            /\ UNCHANGED <<status, fields, comments, versions, made>>
         \/ req.op = "update" /\ Update(req)
         \/ /\ req.op = "comment"
            /\ comments' = Append(comments, Given(req, "comment"))
            /\ UNCHANGED <<status, fields, created, versions, made>>
         \/ req.op = "transition" /\ Transition(c)
         \/ req.op = "createVersion" /\ CreateVersion(req)
         \/ req.op = "updateVersion" /\ UpdateVersion(req)

Write(c) ==
  /\ CarryOut(c)
  /\ Set(c, [call[c] EXCEPT !.at = "done", !.out = "ok", !.carried = @ + 1])

(* The answer is lost, and the request is made again.                      *)
WriteUnanswered(c) ==
  /\ call[c].lost < MaxLost
  /\ CarryOut(c)
  /\ Set(c, [call[c] EXCEPT !.carried = @ + 1, !.lost = @ + 1])

-----------------------------------------------------------------------------
(* ListVersions: Jira may return fewer values than it was asked for.       *)
PageOf(startAt, n) == SubSeq(versions, startAt + 1, startAt + n)

(* Slip: the next page starts a page size later.                           *)
ListPageBySize(c) ==
  LET left == Len(versions) - call[c].startAt
  IN  /\ call[c].at = "page"
      /\ \E n \in IF left <= 0 THEN {0} ELSE 1 .. PageSize :
           /\ n <= left \/ n = 0
           /\ LET more == [call[c] EXCEPT !.got = @ \o PageOf(call[c].startAt, n), !.startAt = @ + PageSize]
              IN  IF n = 0 \/ n = left THEN Set(c, [more EXCEPT !.at = "done", !.out = "ok"]) ELSE Set(c, more)
      /\ UNCHANGED <<jira, others>>

ListPage(c) ==
  LET left == Len(versions) - call[c].startAt
  IN  /\ call[c].at = "page"
      /\ \E n \in IF left <= 0 THEN {0} ELSE 1 .. PageSize :
           /\ n <= left \/ n = 0
           /\ LET more == [call[c] EXCEPT !.got = @ \o PageOf(call[c].startAt, n), !.startAt = @ + n]
              IN  IF n = 0 \/ n = left THEN Set(c, [more EXCEPT !.at = "done", !.out = "ok"]) ELSE Set(c, more)
      /\ UNCHANGED <<jira, others>>

-----------------------------------------------------------------------------
(* Other users move the issue, and add and delete versions.                *)
MoveIssue ==
  /\ \E t \in Available : status' = t.to
  /\ UNCHANGED <<call, fields, comments, created, versions, made>>

AddVersion ==
  /\ NewVersion(<< >>)
  /\ UNCHANGED <<call, status, fields, comments, created>>

DeleteVersion ==
  /\ \E i \in DOMAIN versions : versions' = RemoveAt(versions, i)
  /\ call' = [c \in Calls |-> [call[c] EXCEPT !.cut = @ \/ call[c].at = "page"]]
  /\ UNCHANGED <<status, fields, comments, created, made>>

Others ==
  /\ others < MaxOthers /\ others' = others + 1
  /\ MoveIssue \/ AddVersion \/ DeleteVersion

Next ==
  \/ Others
  \/ \E c \in Calls :
       \/ Begin(c) \/ Fail(c) \/ ChooseTransition(c) \/ ResolveProjectID(c)
       \/ Write(c) \/ WriteUnanswered(c) \/ ListPage(c)

Spec == Init /\ [][Next]_vars

-----------------------------------------------------------------------------
(* What the fields of a request ask for, whatever the front end: a text    *)
(* that is there, and on the command line also one that is empty, for an   *)
(* issue or version that exists; and the raw fields.                       *)
Typed(req) ==
  {f \in DOMAIN req.given : f # "comment" /\ ((req.front = "cli" /\ req.op # "create") \/ NonEmpty(req, f))}
Asked(req, f) ==
  {Own(g, req.given[g]) : g \in {h \in Typed(req) : FieldOf(h) = f}}
    \cup (IF f \in DOMAIN req.raw THEN {req.raw[f]} ELSE {})

(* What the bridge is known to lose or make up on the way: the assignee    *)
(* and the absence of flags of a creation, and strings that parse as JSON. *)
LostByBridge(req, f) ==
  req.front = "bridge" /\
    \/ req.op = "create" /\ f = "assignee"
    \/ req.op = "createVersion" /\ f \in {"released", "archived"}
    \/ f \in DOMAIN req.raw /\ req.raw[f].of \in JSONTexts

Overlays(new, old, req) ==
  \A f \in (DOMAIN new \cup DOMAIN old \cup Typed(req) \cup DOMAIN req.raw)
             \ {"project", "issuetype", "name", "projectId", "fixVersionIds"} :
    ~LostByBridge(req, f) =>
      IF Asked(req, f) = {}
      THEN f \in DOMAIN new <=> f \in DOMAIN old /\ (f \in DOMAIN old => new[f] = old[f])
      ELSE f \in DOMAIN new /\ new[f] \in Asked(req, f)

(* Through any front end, a write sets every field that is asked for to    *)
(* what is asked, and leaves every other field as it was: a field that is  *)
(* left out of a request is never blanked.                                 *)
WritesWhatWasAsked ==
  [][\A c \in Calls : call'[c].carried > call[c].carried =>
       LET req == call[c].req
       IN  CASE req.op = "create" -> Overlays(created'[Len(created')], << >>, req)
             [] req.op = "update" /\ req.verbs = << >> -> Overlays(fields', fields, req)
             [] req.op = "createVersion" -> Overlays(versions'[Len(versions')].body, << >>, req)
             [] req.op = "updateVersion" ->
                  \A i \in DOMAIN versions : versions[i].id = req.on =>
                    Overlays(versions'[i].body, versions[i].body, req)
             [] OTHER -> TRUE]_vars

(* A transition by status moves the issue to that status, by the only      *)
(* transition that led there, even when the issue moved between the list   *)
(* of the transitions and the execution of one.                            *)
TransitionHitsTarget ==
  [][\A c \in Calls :
       /\ call'[c].carried > call[c].carried
       /\ call[c].req.op = "transition" /\ call[c].req.target # Empty
       => call[c].matches = 1 /\ Fold[status'] = Fold[call[c].req.target]]_vars

(* A call that returned without success changed nothing in Jira, unless    *)
(* an answer was lost; a write that succeeded was carried out, once for    *)
(* the answer that came and once more for each that was lost.  A dry run   *)
(* changes nothing.                                                        *)
OutcomeTellsEffect ==
  \A c \in Calls : call[c].at = "done" =>
    /\ IF call[c].out = "ok" /\ call[c].req.op # "listVersions"
       THEN call[c].carried = call[c].lost + 1
       ELSE call[c].carried = call[c].lost
    /\ call[c].req.dry => call[c].carried = 0 /\ call[c].out # "ok"

(* A list of versions has nothing twice, and has all that existed from its *)
(* first page to its last, unless a version was deleted between two pages: *)
(* pages are cut by position.                                              *)
ListingComplete ==
  \A c \in Calls : call[c].req.op = "listVersions" /\ call[c].out = "ok" /\ ~call[c].cut =>
    IsInjective(call[c].got) /\ call[c].there \subseteq Ids(call[c].got)
=============================================================================
