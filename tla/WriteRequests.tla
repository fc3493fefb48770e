--------------------------- MODULE WriteRequests ----------------------------
(***************************************************************************)
(* From what a user supplies to the body of the request Jira gets, through *)
(* each front end: the command line, the MCP tools over the facade         *)
(* ("self"), and the MCP tools over the gRPC server ("bridge").            *)
(*                                                                         *)
(* What a field is given is a set of texts: several for a list, {} for an  *)
(* empty one.  A value in a body is a string ("text"; a description stands *)
(* for the document made of it) or any other JSON.                         *)
(***************************************************************************)
EXTENDS Naturals, Sequences, SequencesExt, TLC, InOrder, Texts

CONSTANTS
  JSONTexts,    \* the texts that parse as JSON
  BadDates,     \* those that are no yyyy-mm-dd date
  ProjectIds    \* ProjectIds[p]: the numeric id of project p, by key or id

Text(t) == [is |-> "text", of |-> t]
JSON(t) == [is |-> "json", of |-> t]

Strings == {"summary", "description", "releaseDate", "startDate"}
FieldOf(f) == IF f = "fixVersionIds" THEN "fixVersions" ELSE f
Own(f, t) == IF f \in Strings THEN Text(t) ELSE JSON(t)

Given(req, f) == IF f \in DOMAIN req.given THEN req.given[f] ELSE {}
NonEmpty(req, f) == Given(req, f) # {}
Supplied(req) == DOMAIN req.given
Filled(req)   == {f \in DOMAIN req.given : req.given[f] # {}}

(* What is new replaces what was there.                                    *)
Onto(old, new) ==
  [f \in DOMAIN old \cup DOMAIN new |-> IF f \in DOMAIN new THEN new[f] ELSE old[f]]

(* Options are applied one after another: the last one to set a field wins. *)
Option(f, value) == [field |-> f, value |-> value]
Options(req, fields, wanted) ==
  LET chosen == Only(fields, wanted)
  IN  [i \in DOMAIN chosen |-> Option(FieldOf(chosen[i]), Own(chosen[i], Given(req, chosen[i])))]
RawOptions(raw) ==
  LET ids == SetToSeq(DOMAIN raw) IN [i \in DOMAIN ids |-> Option(ids[i], raw[ids[i]])]
Body(opts) == ForEach(opts, << >>, LAMBDA b, o : Onto(b, [f \in {o.field} |-> o.value]))

EditFields    == <<"summary", "description", "assignee", "labels", "fixVersions", "fixVersionIds">>
CreateFields  == <<"summary", "description", "assignee", "labels", "parent",
                   "fixVersions", "fixVersionIds">>
VersionFields == <<"description", "released", "archived", "releaseDate", "startDate">>

(* What a front end makes of a request: is it let through, and the options. *)
(* req.on is the project, issue or version, req.name an issue type or the   *)
(* name of a version.                                                       *)
Plan(ok, opts) == [ok |-> ok, opts |-> opts]
OneOf(id, target) == (id = Empty) # (target = Empty)

(***************************************************************************)
(* The command line.                                                       *)
(***************************************************************************)
TypeFlag(req) == IF req.name = Empty THEN "Task" ELSE req.name
RunCreate(req) ==
  Plan(req.on # Empty /\ NonEmpty(req, "summary"),
       Options(req, EditFields, Filled(req)))
RunUpdate(req) ==
  LET opts == Options(req, EditFields, Supplied(req))
  IN  Plan(opts # << >> \/ req.verbs # << >>, opts)
RunComment(req) == Plan(NonEmpty(req, "comment"), << >>)
RunTransition(req) == Plan(OneOf(req.id, req.target), << >>)
VersionOptionsFromFlags(req) == Options(req, VersionFields, Supplied(req))
RunReleaseCreate(req) == Plan(req.name # Empty /\ req.on # Empty, VersionOptionsFromFlags(req))
RunReleaseUpdate(req) ==
  LET opts == VersionOptionsFromFlags(req) IN Plan(opts # << >>, opts)
RunReleaseList(req) == Plan(req.on # Empty, << >>)

CLI(req) ==
  CASE req.op = "create"        -> RunCreate(req)
    [] req.op = "update"        -> RunUpdate(req)
    [] req.op = "comment"       -> RunComment(req)
    [] req.op = "transition"    -> RunTransition(req)
    [] req.op = "createVersion" -> RunReleaseCreate(req)
    [] req.op = "updateVersion" -> RunReleaseUpdate(req)
    [] req.op = "listVersions"  -> RunReleaseList(req)

(***************************************************************************)
(* The MCP tools over the facade.                                          *)
(***************************************************************************)
FacadeCreateIssue(req) ==
  Plan(TRUE, Options(req, CreateFields, Filled(req)) \o RawOptions(req.raw))
FacadeUpdateIssue(req) ==
  LET opts == Options(req, EditFields, Filled(req)) \o RawOptions(req.raw)
  IN  Plan(opts # << >>, opts)
FacadeAddComment(req) == Plan(NonEmpty(req, "comment"), << >>)
FacadeTransitionIssue(req) == Plan(OneOf(req.id, req.target), << >>)
VersionOptsFromFields(req) == Plan(TRUE, Options(req, VersionFields, Filled(req)))

Self(req) ==
  CASE req.op = "create"     -> FacadeCreateIssue(req)
    [] req.op = "update"     -> FacadeUpdateIssue(req)
    [] req.op = "comment"    -> FacadeAddComment(req)
    [] req.op = "transition" -> FacadeTransitionIssue(req)
    [] req.op \in {"createVersion", "updateVersion"} -> VersionOptsFromFields(req)
    [] OTHER -> Plan(TRUE, << >>)

(***************************************************************************)
(* The MCP tools over the gRPC server: what the message holds, then what   *)
(* the server makes of it.  The message for an update has no labels and no *)
(* assignee: they join the raw fields.  That for a creation has no         *)
(* assignee.  Raw strings travel as they are, other values as their JSON;  *)
(* the server parses them, and takes what does not parse as it is.         *)
(* released and archived are optional in the message for an update, and    *)
(* plain booleans, false when not given, in that for a creation.           *)
(***************************************************************************)
Message(req, fields) == [req EXCEPT !.given = [f \in fields |-> Given(req, f)]]
BridgeCreateIssue(req) == Message(req, ToSet(CreateFields) \ {"assignee"})
BridgeUpdateIssue(req) ==
  LET joining == {f \in {"labels", "assignee"} : NonEmpty(req, f)}
  IN  [Message(req, ToSet(EditFields) \ {"assignee", "labels"}) EXCEPT
         !.raw = Onto(@, [f \in joining |-> JSON(Given(req, f))])]
BridgeCreateVersion(req) ==
  [req EXCEPT !.given = Onto([f \in {"released", "archived"} |-> {"false"}], @)]
(* Slip: the message for an update has plain booleans too.                 *)
PlainBooleans(req) == BridgeCreateVersion(req)
BridgeUpdateVersion(req) == Message(req, DOMAIN req.given)

RawFieldToValue(v) == IF v.is = "json" \/ v.of \in JSONTexts THEN JSON(v.of) ELSE v
RawFieldsToOpts(raw) == RawOptions([f \in DOMAIN raw |-> RawFieldToValue(raw[f])])

ServerCreateIssue(msg) ==
  Plan(msg.on # Empty /\ msg.name # Empty,
       Options(msg, CreateFields, Filled(msg)) \o RawFieldsToOpts(msg.raw))
ServerUpdateIssue(msg) ==
  Plan(msg.on # Empty, Options(msg, EditFields, Filled(msg)) \o RawFieldsToOpts(msg.raw))
ServerTransitionIssue(msg) == Plan(msg.on # Empty /\ (msg.id # Empty \/ msg.target # Empty), << >>)
CreateVersionOpts(msg) == Options(msg, VersionFields, Filled(msg))
UpdateVersionOpts(msg) == Options(msg, VersionFields, Filled(msg))
ServerCreateVersion(msg) == Plan(msg.name # Empty /\ msg.on # Empty, CreateVersionOpts(msg))
ServerUpdateVersion(msg) == Plan(msg.on # Empty, UpdateVersionOpts(msg))
ServerListVersions(msg) == Plan(msg.on # Empty, << >>)

(* BridgeTransitionIssue refuses what the tools over the facade refuse.    *)
BridgeTransitionIssue(req) ==
  Plan(OneOf(req.id, req.target) /\ ServerTransitionIssue(req).ok, << >>)

Bridge(req) ==
  CASE req.op = "create"        -> ServerCreateIssue(BridgeCreateIssue(req))
    [] req.op = "update"        -> ServerUpdateIssue(BridgeUpdateIssue(req))
    [] req.op = "transition"    -> BridgeTransitionIssue(req)
    [] req.op = "createVersion" -> ServerCreateVersion(BridgeCreateVersion(req))
    [] req.op = "updateVersion" -> ServerUpdateVersion(BridgeUpdateVersion(req))
    [] OTHER                    -> ServerListVersions(req)

(***************************************************************************)
(* The client: its own checks, the options, and the body of the request    *)
(* that writes.  That of a new version holds the numeric id of the         *)
(* project, once it is known.  An option with a bad date records an error. *)
(***************************************************************************)
PlanOf(req) ==
  CASE req.front = "cli" -> CLI(req) [] req.front = "self" -> Self(req) [] OTHER -> Bridge(req)
TypeOf(req)  == IF req.front = "cli" THEN TypeFlag(req) ELSE req.name
Refused(req) ==
  \/ ~PlanOf(req).ok
  \/ req.on = Empty
  \/ req.op = "create" /\ TypeOf(req) = Empty
  \/ req.op = "createVersion" /\ req.name = Empty

DatesValid(opts) ==
  \A i \in DOMAIN opts : opts[i].field \in {"releaseDate", "startDate"} =>
                           opts[i].value.of \notin BadDates

RenderCreateBody(req) ==
  Body(<<Option("project", JSON({req.on})), Option("issuetype", JSON({TypeOf(req)}))>>
         \o PlanOf(req).opts)
IsId(project) == project \in DOMAIN ProjectIds /\ ProjectIds[project] = project
RenderCreateVersionBody(req) ==
  LET id == IF IsId(req.on) THEN <<Option("projectId", JSON({req.on}))>> ELSE << >>
  IN  Body(<<Option("name", Text({req.name}))>> \o id \o PlanOf(req).opts)
RenderUpdateBody(req) == Body(PlanOf(req).opts)
=============================================================================
