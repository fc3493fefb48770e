----------------------------- MODULE Hierarchy ------------------------------
(***************************************************************************)
(* internal/hierarchy: the children of an issue, by two searches; the      *)
(* second needs the identifier of the Epic Link field, which the first     *)
(* worker to need it looks up for all of them, once.                       *)
(***************************************************************************)
EXTENDS Naturals, Sequences, FiniteSets, FiniteSetsExt, SequencesExt, InOrder, Texts

CONSTANTS Workers,
          ParentSearch,     \* issue -> what `parent = "KEY"` finds, in order
          EpicSearch,       \* issue -> what `"Epic Link" = "KEY"` finds
          ChildSearchLimit, \* config; 100 when it is not positive
          EpicLinkField,    \* config: the field's identifier, or ""
          TenantField,      \* the identifier at Jira, "" when there is none
          HierarchyFaults   \* the requests that may fail: "parent", "fields", "epic"

VARIABLES field,            \* the once and what it left: [once, id, failed]
          search            \* the call of Children each worker is in

hierarchyVars == <<field, search>>

Limit == IF ChildSearchLimit > 0 THEN ChildSearchLimit ELSE 100

NoCall == [at |-> "idle"]
Call(at, issue) == [at |-> at, issue |-> issue, seen |-> {}, parentErr |-> FALSE, epicErr |-> FALSE]

HierarchyInit ==
  /\ field = [once |-> "new", id |-> Empty, failed |-> FALSE]
  /\ search = [w \in Workers |-> NoCall]

HierarchyCapable(issueType) == issueType # "Sub-task"

(* client.Search asks for at most Limit keys.                              *)
Found(s) == SubSeq(s, 1, Min({Len(s), Limit}))

(* Keys join the set until it is full.                                     *)
AddKey(seen, k) == IF k = Empty \/ Cardinality(seen) >= Limit THEN seen ELSE seen \cup {k}
AddKeys(seen, keys) == ForEach(keys, seen, AddKey)

(* Slip: a failed search ends the discovery.                               *)
QueryOrGiveUp(w, name, keys, err, next) ==
  \/ search' = [search EXCEPT ![w].seen = AddKeys(@, Found(keys)), ![w].at = next]
  \/ /\ name \in HierarchyFaults
     /\ search' = [search EXCEPT ![w][err] = TRUE, ![w].at = "done"]

(* One search of worker w: it fails, or adds what it finds.                *)
Query(w, name, keys, err, next) ==
  \/ search' = [search EXCEPT ![w].seen = AddKeys(@, Found(keys)), ![w].at = next]
  \/ /\ name \in HierarchyFaults
     /\ search' = [search EXCEPT ![w][err] = TRUE, ![w].at = next]

SearchParent(w) ==
  /\ search[w].at = "parent"
  /\ Query(w, "parent", ParentSearch[search[w].issue], "parentErr", "resolve")
  /\ UNCHANGED field

AfterResolve(id) == IF id = Empty THEN "done" ELSE "epic"

(* A configured field, or one that was looked up, is used as it is; a      *)
(* worker that comes while another looks it up waits in once.Do.           *)
ResolveKnown(w) ==
  /\ search[w].at = "resolve"
  /\ \/ EpicLinkField # Empty /\ search' = [search EXCEPT ![w].at = "epic"]
     \/ /\ EpicLinkField = Empty /\ field.once = "done"
        /\ search' = [search EXCEPT ![w].at = AfterResolve(field.id)]
  /\ UNCHANGED field

StartLookup(w) ==
  /\ search[w].at = "resolve" /\ EpicLinkField = Empty /\ field.once = "new"
  /\ field' = [field EXCEPT !.once = "running"]
  /\ search' = [search EXCEPT ![w].at = "lookup"]

(* Slip: a failed lookup is made again.                                    *)
FinishLookupOrRetry(w) ==
  /\ search[w].at = "lookup"
  /\ \/ /\ field' = [once |-> "done", id |-> TenantField, failed |-> FALSE]
        /\ search' = [search EXCEPT ![w].at = AfterResolve(TenantField)]
     \/ /\ "fields" \in HierarchyFaults
        /\ field' = [field EXCEPT !.once = "new"]
        /\ search' = [search EXCEPT ![w].at = "resolve"]

(* The answer is kept, and so is a failure.                                *)
FinishLookup(w) ==
  /\ search[w].at = "lookup"
  /\ \/ field' = [once |-> "done", id |-> TenantField, failed |-> FALSE]
     \/ /\ "fields" \in HierarchyFaults
        /\ field' = [once |-> "done", id |-> Empty, failed |-> TRUE]
  /\ search' = [search EXCEPT ![w].at = AfterResolve(field'.id)]

SearchEpic(w) ==
  /\ search[w].at = "epic"
  /\ Query(w, "epic", EpicSearch[search[w].issue], "epicErr", "done")
  /\ UNCHANGED field

Children(w) ==
  SearchParent(w) \/ ResolveKnown(w) \/ StartLookup(w) \/ FinishLookup(w) \/ SearchEpic(w)

(* Children returns the set, sorted, and an error when a search failed.    *)
ChildrenError(w) == search[w].parentErr \/ search[w].epicErr
=============================================================================
