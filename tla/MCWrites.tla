------------------------------ MODULE MCWrites ------------------------------
(* Requests of every kind through every front end, on one issue.           *)
EXTENDS Writes

CONSTANTS c1, c2

Base(front, op, on) ==
  [front |-> front, op |-> op, on |-> on, given |-> << >>, raw |-> << >>, verbs |-> << >>,
   dry |-> FALSE, name |-> "", id |-> "", target |-> ""]

MCFronts == {"cli", "self", "bridge"}
MCFold == [s \in {"Open", "Doing", "Done", "done"} |-> IF s = "done" THEN "Done" ELSE s]
MCWorkflow == {[id |-> "11", from |-> "Open", to |-> "Doing"],
               [id |-> "21", from |-> "Open", to |-> "Done"],
               [id |-> "21", from |-> "Doing", to |-> "Done"],
               [id |-> "31", from |-> "Doing", to |-> "Done"]}
MCVersionIds == [n \in 1 .. 8 |-> ToString(n)]
MCProjectIds == ("P" :> "100") @@ ("100" :> "100")
MCJSONTexts == {{"42"}}
MCBadDates == {{"soon"}, {}}

Rich == ("summary" :> {"s"}) @@ ("assignee" :> {"a"}) @@ ("labels" :> {"l1", "l2"})
          @@ ("fixVersions" :> {"n"}) @@ ("fixVersionIds" :> {"7"})

First == UNION {
  {[Base(f, "create", p) EXCEPT !.name = "Bug", !.given = Rich] : f \in MCFronts, p \in {"", "P"}},
  {[Base(f, "create", "P") EXCEPT !.name = "Bug", !.raw = ("x" :> JSON({"{}"})) @@ ("y" :> Text({"42"})),
      !.given = ("parent" :> {"K"}) @@ ("description" :> {"d"})] : f \in MCFronts \ {"cli"}},
  {[Base("cli", "create", "P") EXCEPT !.given = Rich, !.dry = d] : d \in BOOLEAN},
  {[Base(f, "update", "K") EXCEPT !.given = g] : f \in MCFronts,
      g \in {<< >>, Rich, "description" :> {}}},
  {[Base("cli", "update", "K") EXCEPT !.given = Rich, !.dry = TRUE],
   [Base("cli", "update", "K") EXCEPT !.verbs = <<[verb |-> "add", id |-> "8"], [verb |-> "remove", id |-> "7"]>>]},
  {[Base(f, "update", "K") EXCEPT !.raw = ("labels" :> JSON({"l3"})), !.given = ("labels" :> {"l1"})]
      : f \in MCFronts \ {"cli"}},
  {[Base(f, "comment", "K") EXCEPT !.given = ("comment" :> t)] : f \in MCFronts, t \in {{}, {"c"}}},
  {[Base(f, "transition", "K") EXCEPT !.target = "done", !.given = ("comment" :> {"moved"})] : f \in MCFronts},
  {[Base("self", "transition", "K") EXCEPT !.id = "21", !.target = t] : t \in {"", "Done"}},
  {[Base(f, "createVersion", p) EXCEPT !.name = "1.0", !.given = ("released" :> {"true"})]
      : f \in MCFronts, p \in {"P", "100"}},
  {[Base("cli", "createVersion", p) EXCEPT !.name = "1.0", !.dry = TRUE, !.given = ("releaseDate" :> t)]
      : p \in {"P", "100"}, t \in {{"today"}, {"soon"}}},
  {[Base("self", "createVersion", "Q") EXCEPT !.name = "1.0"]},
  {[Base(f, "updateVersion", "1") EXCEPT !.given = g] : f \in MCFronts,
      g \in {"released" :> {"true"}, ("description" :> {}) @@ ("archived" :> {"true"}),
             "startDate" :> {"soon"}}},
  {Base("self", "listVersions", "P")} }

(* The second call gets in the way of the first.                           *)
Second == {[Base("cli", "transition", "K") EXCEPT !.target = "Done"],
           [Base("bridge", "update", "K") EXCEPT !.given = Rich],
           [Base("self", "createVersion", "P") EXCEPT !.name = "2.0"]}

MCRequests == {(c1 :> r) @@ (c2 :> s) : r \in First, s \in Second}
=============================================================================
