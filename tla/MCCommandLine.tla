--------------------------- MODULE MCCommandLine ----------------------------
(* One command on every kind of files and environment; a crawl under       *)
(* signals; and gojira init beside another command.                        *)
EXTENDS CommandLine, TLC

CONSTANTS p1, p2

Doc(gives) == [kind |-> "document", doc |-> [s \in Settings |-> IF s \in DOMAIN gives THEN gives[s] ELSE Unset]]
No(kind) == [kind |-> kind, doc |-> Defaults]
Full(x)  == ("site" :> x) @@ ("token" :> x) @@ ("cap" :> x) @@ ("apps" :> x) @@ ("dir" :> x)
              @@ ("level" :> "debug") @@ ("mode" :> "self") @@ ("address" :> x)
Cleared  == ("site" :> "c") @@ ("token" :> "c") @@ ("apps" :> "none") @@ ("dir" :> "c") @@ ("address" :> "")
Spaces(s) == [x \in {"site", "token", "dir"} |-> IF x = s THEN Blank ELSE "s"]
Odd      == ("site" :> BadURL) @@ ("dir" :> "") @@ ("level" :> "info")

LocalFiles  == {No("absent"), No("directory"), No("blank"), No("broken"), Doc(Full("l")), Doc(Cleared), Doc(Odd)}
BlankFiles  == {Doc(Spaces(s)) : s \in {"site", "token", "dir"}}
GlobalFiles == {No("absent"), No("no home"), Doc(Full("g")), Doc("level" :> "loud")}
PinnedFiles == {No("absent"), No("broken"), Doc(Full("p"))}
Vars(old, new) ==
  [legacy |-> [s \in Settings |-> IF s \in DOMAIN old THEN old[s] ELSE ""],
   canonical |-> [s \in Renamed |-> IF s \in DOMAIN new THEN new[s] ELSE ""]]
Nothing == [s \in {} |-> ""]
Envs == {NoEnv, Vars(("site" :> "e") @@ ("token" :> "e"), Nothing), Vars("site" :> "e", "cap" :> "n"),
         Vars(("cap" :> "e") @@ ("level" :> "debug"), Nothing),
         Vars(("cap" :> BadNumber) @@ ("apps" :> "e") @@ ("address" :> "e"), Nothing),
         Vars(Nothing, ("site" :> "n") @@ ("token" :> "n"))}
FlagSets == {NoFlags, [NoFlags EXCEPT !["token"] = "f"],
             [NoFlags EXCEPT !["site"] = "f", !["token"] = "f", !["level"] = "loud"],
             [NoFlags EXCEPT !["site"] = "", !["dir"] = "f", !["cap"] = "f", !["address"] = "f"]}

Run(name, pin, flags) == [name |-> name, pin |-> pin, flags |-> flags]
InitCommand(local, force, flags, answers, piped) ==
  [name |-> "init", pin |-> FALSE, flags |-> flags, local |-> local, both |-> FALSE, force |-> force,
   answers |-> [s \in Settings |-> IF s \in DOMAIN answers THEN answers[s] ELSE ""], piped |-> piped]
Idle == [InitCommand(TRUE, FALSE, NoFlags, Nothing, FALSE) EXCEPT !.both = TRUE]
Scene(g, l, p, e, a, b) ==
  [files |-> [global |-> g, local |-> l, pinned |-> p], env |-> e, procs |-> (p1 :> a) @@ (p2 :> b)]

OneCommand ==
  {Scene(g, l, p, e, Run(name, p # No("absent"), f), Idle) :
     g \in GlobalFiles, l \in LocalFiles, p \in PinnedFiles, e \in Envs,
     name \in {"serve", "get"}, f \in FlagSets}
    \cup {Scene(Doc(Full("g")), l, No("absent"), e, Run(name, pin, NoFlags), Idle) :
     l \in LocalFiles \cup BlankFiles, e \in Envs, name \in {"crawl", "mcp"}, pin \in BOOLEAN}
Answers == ("site" :> "i") @@ ("token" :> "i") @@ ("address" :> Blank)
InitBeside ==
  {Scene(g, l, No("absent"), e, InitCommand(TRUE, force, f, Answers, piped), b) :
     g \in GlobalFiles, l \in {No("absent"), No("directory"), Doc(Full("l"))}, e \in {NoEnv, Vars("dir" :> "e", Nothing)},
     force \in BOOLEAN, piped \in BOOLEAN,
     f \in {NoFlags, [NoFlags EXCEPT !["site"] = BadURL, !["address"] = "f"],
            [NoFlags EXCEPT !["site"] = Blank, !["token"] = Blank, !["dir"] = Blank]},
     b \in {Run("crawl", FALSE, NoFlags), InitCommand(FALSE, TRUE, [NoFlags EXCEPT !["site"] = "j"], Answers, FALSE)}}
MCScenarios == OneCommand \cup InitBeside
=============================================================================
