------------------------------- MODULE Config -------------------------------
(***************************************************************************)
(* The configuration (internal/config, and the cascade of internal/cli):   *)
(* defaults, then YAML files, then the environment, then flags, and two    *)
(* ways to get there: LoadAppConfig of the library, and the key-value map  *)
(* of the commands.                                                        *)
(*                                                                         *)
(* Settings stand for the 23 fields of Config: "site" and "token" (and     *)
(* user) are required; "cap" is one of the numbers and booleans, "apps"    *)
(* one of the lists, "level" one of the enumerations that have a default.  *)
(* A value is a string: Unset when a source does not give the setting,     *)
(* Empty when it gives it as empty (an empty list is "none"), and Blank    *)
(* when it gives white space alone; white space around a text is left out. *)
(***************************************************************************)
EXTENDS Naturals, Sequences, FiniteSets, Texts

Settings == {"site", "token", "cap", "apps", "dir", "level", "mode", "address"}
Unset == "unset"
Blank == " "
BadURL == "no url"
BadNumber == "many"
Levels == {"info", "debug"}
Modes == {"self", "bridge"}

(* The tests of an address, and of a setting with a list of values.        *)
Trim(v) == IF v = Blank THEN Empty ELSE v
URLRequestURI(v) == v \notin {BadURL, Blank}
OneOf(values, v) == v \in values

Defaults == [s \in Settings |->
  CASE s = "cap" -> "500" [] s = "apps" -> "GitHub" [] s = "level" -> "info"
    [] s = "address" -> "loopback" [] OTHER -> Empty]

(* Settings whose variable has an old and a new name.  An environment has  *)
(* the values of both.                                                     *)
Renamed == {"site", "token", "cap", "apps"}
ResolveAliases(env) ==
  [env EXCEPT !.canonical = [s \in Renamed |-> IF env.canonical[s] # Empty THEN env.canonical[s] ELSE env.legacy[s]]]

-----------------------------------------------------------------------------
(* Layer 1: a document must name the schema, and have no other keys and no *)
(* values of another type than the schema's.                               *)
ValidateRaw(doc) ==
  /\ doc["level"] \in Levels \cup {Unset}
  /\ doc["mode"] \in Modes \cup {Unset}
  /\ doc["cap"] \notin {Empty, BadNumber}

(* A file is [kind, doc]: "no home" (it has no path), "absent",            *)
(* "directory", "blank", "broken" (no YAML, no mapping, no schema, an      *)
(* unknown key), or "document".                                            *)
IsRegularFile(file) == file.kind \in {"blank", "broken", "document"}

(* A layer is [bad, cfg].                                                  *)
Layer(cfg) == [bad |-> FALSE, cfg |-> cfg]
DefaultApp == Layer(Defaults)
DecodeYAML(doc, cfg) == [s \in Settings |-> IF doc[s] = Unset THEN cfg[s] ELSE doc[s]]
ApplyYAMLReader(file, app) ==
  IF app.bad \/ file.kind = "blank" THEN app
  ELSE IF file.kind # "document" THEN [app EXCEPT !.bad = TRUE]
  ELSE IF ValidateRaw(file.doc) THEN Layer(DecodeYAML(file.doc, app.cfg)) ELSE [app EXCEPT !.bad = TRUE]
ApplyPinnedFile(file) ==
  IF IsRegularFile(file) THEN ApplyYAMLReader(file, DefaultApp) ELSE [DefaultApp EXCEPT !.bad = TRUE]

(* files: the pinned file, the local and the global one; pin: is a file    *)
(* pinned, by --config or by GOJIRA_CONFIG_FILE?                           *)
(* Slip: the local file replaces the global one.                           *)
LayerWholesale(file, app) ==
  IF IsRegularFile(file) THEN ApplyYAMLReader(file, DefaultApp) ELSE app
LayerIfThere(file, app) == IF IsRegularFile(file) THEN ApplyYAMLReader(file, app) ELSE app
ApplyFileLayer(pin, files) ==
  IF pin THEN ApplyPinnedFile(files.pinned)
  ELSE LayerIfThere(files.local, LayerIfThere(files.global, DefaultApp))

DiscoverConfigFile(files) == IsRegularFile(files.local) \/ IsRegularFile(files.global)

(* An empty address is the default one.                                    *)
ToConfig(cfg) == [cfg EXCEPT !["address"] = IF @ = Empty THEN Defaults["address"] ELSE @]

-----------------------------------------------------------------------------
(* The library: LoadApp, and its Layer 2.  Problems are the classes of the *)
(* errors; a configuration is one without.  White space is no value.       *)
ValidateApp(cfg) ==
  {"missing" : s \in {s \in {"site", "token", "dir"} : Trim(cfg[s]) = Empty}}
    \cup {"invalid" : s \in {s \in {"site"} : Trim(cfg[s]) # Empty /\ ~URLRequestURI(cfg[s])}}
    \cup {"invalid" : s \in {s \in {"level"} : ~OneOf(Levels \cup {Empty}, cfg[s])}}

EnvParse(env, cfg) ==
  LET at(s) == IF s \in Renamed THEN env.canonical[s] ELSE env.legacy[s]
  IN  [s \in Settings |-> IF at(s) = Empty THEN cfg[s] ELSE at(s)]

LoadApp(pin, files, env) ==
  LET app == ApplyFileLayer(pin, files)
      cfg == EnvParse(ResolveAliases(env), app.cfg)
  IN  IF app.bad \/ cfg["cap"] = BadNumber THEN [problems |-> {"invalid"}, cfg |-> Defaults]
      ELSE [problems |-> ValidateApp(cfg), cfg |-> ToConfig(cfg)]

-----------------------------------------------------------------------------
(* The commands.  A file's configuration becomes key-value pairs, an empty *)
(* list an empty string; the variables that are not empty come over it,    *)
(* and the flags over them.  A flag that is not given takes the variable   *)
(* with the old name: it is set then, too.                                 *)
WritesNoFiles(command) == command \in {"get", "write"}
FlagsOf(command) ==
  CASE command = "crawl" -> {"site", "token", "dir", "cap", "apps", "level"}
    [] command \in {"serve", "mcp"} -> {"site", "token", "dir", "level", "address"}
    [] OTHER -> {"site", "token"}
FlagValue(command, flags, env, s) ==
  IF s \notin FlagsOf(command) THEN Unset
  ELSE IF flags[s] # Unset THEN flags[s]
  ELSE IF env.legacy[s] # Empty THEN env.legacy[s] ELSE Unset
IsSet(command, flags, env, s) == FlagValue(command, flags, env, s) # Unset

ConfigToKV(cfg) == [cfg EXCEPT !["apps"] = IF @ = "none" THEN Empty ELSE @]
(* Slip: an empty variable comes over the file as well.                    *)
EnvOverEvenEmpty(env, kv) == [s \in Settings |-> env.legacy[s]]
EnvOver(env, kv) == [s \in Settings |-> IF env.legacy[s] # Empty THEN env.legacy[s] ELSE kv[s]]
BuildConfigKV(command, flags, env, kv) ==
  [s \in Settings |-> IF IsSet(command, flags, env, s) THEN FlagValue(command, flags, env, s) ELSE kv[s]]
(* The commands that write no files need no output directory.              *)
DirIfUnused(command, kv) ==
  IF WritesNoFiles(command) /\ kv["dir"] = Empty THEN [kv EXCEPT !["dir"] = "."] ELSE kv

(* Build: what is empty takes its default, then the values are checked;    *)
(* white space is a value.                                                 *)
Build(kv) ==
  LET cfg == [s \in Settings |-> IF kv[s] = Empty THEN Defaults[s] ELSE kv[s]]
  IN  [problems |->
         {"missing" : s \in {s \in {"site", "token", "dir"} : cfg[s] = Empty}}
           \cup {"invalid" : s \in {s \in {"site"} : ~URLRequestURI(cfg[s])}}
           \cup {"invalid" : s \in {s \in {"level"} : ~OneOf(Levels, cfg[s])}}
           \cup {"invalid" : s \in {s \in {"cap"} : cfg[s] = BadNumber}},
       cfg |-> cfg]

LoadCommand(command, pin, files, env, flags) ==
  LET app == ApplyFileLayer(pin, files)
      env2 == ResolveAliases(env)
      kv == BuildConfigKV(command, flags, env2, EnvOver(env2, ConfigToKV(ToConfig(app.cfg))))
  IN  IF app.bad THEN [problems |-> {"invalid"}, cfg |-> Defaults]
      ELSE Build(DirIfUnused(command, kv))

(* The guard in front of every command that talks to Jira.                 *)
(* Slip: the guard asks for the flags only, not for their variables.       *)
RequireConfigByFlag(command, pin, files, env, flags) ==
  \/ pin \/ \A s \in {"site", "token"} : flags[s] # Unset
  \/ DiscoverConfigFile(files)
RequireConfig(command, pin, files, env, flags) ==
  \/ pin
  \/ \A s \in {"site", "token"} : IsSet(command, flags, env, s)
  \/ \A s \in {"site", "token"} : env.legacy[s] # Empty
  \/ DiscoverConfigFile(files)

-----------------------------------------------------------------------------
(* gojira init: every value is what a flag or its variable gives, else     *)
(* what the user answers, else the default.  Answers are trimmed, and what *)
(* the flags give, too, but for the token.  A file that init writes gives  *)
(* every setting but the mode, which is left out when it is empty.         *)
(* Slip: the file gives only what was asked for.                           *)
InitFlags == {"site", "token", "dir", "address"}
InitValue(given, env, s) ==
  LET v == IF given[s] = Unset THEN env.legacy[s] ELSE given[s]
  IN  IF s = "token" THEN v ELSE Trim(v)
Prompted(given, env, s) == InitValue(given, env, s) = Empty
Answer(given, env, answers, s) ==
  IF ~Prompted(given, env, s) THEN InitValue(given, env, s)
  ELSE IF s = "dir" \/ Trim(answers[s]) = Empty THEN Defaults[s]
  ELSE Trim(answers[s])
MarshalGivenYAML(app) ==
  [s \in Settings |-> IF s \in InitFlags THEN app[s] ELSE Unset]
MarshalAppYAML(app) == [s \in Settings |-> IF s = "mode" /\ app[s] = Empty THEN Unset ELSE app[s]]
=============================================================================
