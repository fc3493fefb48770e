----------------------------- MODULE DevStatus ------------------------------
(***************************************************************************)
(* internal/devstatus: one request for every configured application and    *)
(* data type, whose results are merged, deduplicated and sorted.           *)
(*                                                                         *)
(* An entity is [id, app]: its key (a URL, or the hash of a commit), ""    *)
(* when Jira gave none, and the application the request was for.           *)
(***************************************************************************)
EXTENDS Naturals, Sequences, SequencesExt, FiniteSets, InOrder, Texts

CONSTANTS Applications,     \* config: the applications asked about, in order
          DataTypes,        \* config: the data types asked for
          IdsInOrder        \* the keys of entities, in their order as strings

CanonicalDataTypes == <<"pullrequest", "branch", "commit", "repository", "build">>

(* Configured types that are known, in the canonical order.                *)
OrderedDataTypes == Only(CanonicalDataTypes, DataTypes)

(* The requests of one issue, in their order: types within applications.   *)
Calls ==
  LET n == Len(OrderedDataTypes)
      apps == Only(Applications, ToSet(Applications) \ {Empty})
  IN  [i \in 1 .. Len(apps) * n |->
         <<apps[((i - 1) \div n) + 1], OrderedDataTypes[((i - 1) % n) + 1]>>]

(* Enrich asks nothing of an issue without a numeric identifier.           *)
Wanted(issue) == issue.numeric /\ Calls # << >>

Convert(ids, app) == [i \in DOMAIN ids |-> [id |-> ids[i], app |-> app]]

(* Slip: the requests after a failed one are not made.                     *)
MergedToFirstFailure(reply, failed, dt) ==
  LET answered == {i \in DOMAIN Calls : \A j \in 1 .. i : Calls[j] \notin failed}
      mine == Only(SubSeq(Calls, 1, Cardinality(answered)), {c \in ToSet(Calls) : c[2] = dt})
  IN  ForEach(mine, << >>, LAMBDA all, c : all \o Convert(reply[c], c[1]))

(* The entities of one data type that the requests answered, one after     *)
(* another; reply gives the keys each request would be answered with.  A   *)
(* reply has entities of the type it was asked for (mergeInto would take   *)
(* those of any type).                                                     *)
Merged(reply, failed, dt) ==
  LET answered == Only(Calls, {c \in ToSet(Calls) : c[2] = dt /\ c \notin failed})
  IN  ForEach(answered, << >>, LAMBDA all, c : all \o Convert(reply[c], c[1]))

(* The first entity of every key, and every entity that has none; sorted   *)
(* by key, "" first.                                                       *)
Dedup(s) ==
  LET keyed(id) == Only(s, {e \in ToSet(s) : e.id = id})
      named == Only(IdsInOrder, {e.id : e \in ToSet(s)})
  IN  keyed(Empty) \o [i \in DOMAIN named |-> Head(keyed(named[i]))]

Collected(reply, failed) ==
  [dt \in DataTypes |-> Apply(Dedup, Merged(reply, failed, dt))]

HasAnyEntity(data) == \E dt \in DOMAIN data : data[dt] # << >>

NoData == [dt \in DataTypes |-> << >>]

(* What the caller gets: the entities, and whether an error comes along.   *)
(* Nothing is only an error when a request failed as well.                 *)
Enrich(issue, reply, failed) ==
  LET kept(data) == IF HasAnyEntity(data) THEN data ELSE NoData
  IN  IF ~Wanted(issue) THEN [data |-> NoData, err |-> FALSE]
      ELSE [data |-> Apply(kept, Collected(reply, failed)), err |-> failed # {}]
=============================================================================
