----------------------------- MODULE MCPipeline -----------------------------
(***************************************************************************)
(* An epic with two children of which only one names it as its parent, a   *)
(* sub-task without a numeric identifier, and pull requests known by the   *)
(* description, by a remote link and by two applications.                  *)
(***************************************************************************)
EXTENDS Pipeline

MCKeys == {"EPIC-1", "STORY-2", "SUB-3", "SUB-4"}
MCUrls == {"pull/5", "pull/5/files", "forge/7", "wiki", "browse/STORY-2"}

MCForm ==
  LET form(host, key, pr, more) == [host |-> host, key |-> key, pr |-> pr, more |-> more]
  IN  [u \in MCUrls |->
         CASE u = "pull/5"         -> form("github", "", "o/r#5", FALSE)
           [] u = "pull/5/files"   -> form("github", "", "o/r#5", TRUE)
           [] u = "forge/7"        -> form("other", "", "", FALSE)
           [] u = "wiki"           -> form("other", "", "", FALSE)
           [] u = "browse/STORY-2" -> form("site", "STORY-2", "", FALSE)]

Of(key, text) == [key |-> key, text |-> text]
To(url, text) == [url |-> url, text |-> text]

Base(key, type) ==
  [key |-> key, summary |-> "sum", meta |-> key, type |-> type, numeric |-> TRUE,
   description |-> << >>, parent |-> << >>, subtasks |-> << >>, links |-> << >>,
   remotes |-> << >>, children |-> << >>, prs |-> << >>]

MCIssue ==
  [k \in MCKeys |->
     CASE k = "EPIC-1" ->
            [Base(k, "Epic") EXCEPT
               !.description = <<To("browse/STORY-2", "that"), To("pull/5", "fix"), To("", "x")>>,
               !.remotes = <<To("wiki", ""), To("pull/5/files", "diff")>>]
       [] k = "STORY-2" ->
            [Base(k, "Story") EXCEPT
               !.parent = <<Of("EPIC-1", "sum")>>, !.subtasks = <<Of("SUB-3", "")>>,
               !.links = <<[key |-> "STORY-2", text |-> "me", type |-> "blocks"],
                           [key |-> "", text |-> "gone", type |-> "blocks"]>>,
               !.remotes = <<To("forge/7", "mr")>>]
       [] k = "SUB-3" ->
            [Base(k, "Sub-task") EXCEPT !.numeric = FALSE, !.parent = <<Of("STORY-2", "")>>,
               !.description = <<To("pull/5", "same"), To("pull/5", "again")>>]
       [] k = "SUB-4" ->
            [Base(k, "Sub-task") EXCEPT !.numeric = FALSE]]

MCParentSearch == [k \in MCKeys |-> CASE k = "EPIC-1" -> <<"STORY-2">>
                                      [] k = "STORY-2" -> <<"SUB-3">>
                                      [] OTHER -> << >>]
MCEpicSearch   == [k \in MCKeys |-> IF k = "EPIC-1" THEN <<"SUB-4", "SUB-3", "STORY-2">> ELSE << >>]

MCDevReply ==
  [k \in MCKeys |->
     [c \in {<<app, dt>> : app \in ToSet(Applications) \ {""}, dt \in DataTypes} |->
        CASE c = <<"GitHub", "pullrequest">> /\ k = "EPIC-1" -> <<"pull/5/files", "">>
          [] c = <<"GitHub", "pullrequest">> /\ k = "STORY-2" -> <<"pull/5", "pull/5">>
          [] c = <<"GitLab", "pullrequest">> /\ k = "STORY-2" -> <<"forge/7", "pull/5">>
          [] OTHER -> << >>]]

MCApplications == <<"GitHub", "", "GitLab">>
MCIdsInOrder   == <<"forge/7", "pull/5", "pull/5/files">>
=============================================================================
