---------------------------- MODULE CommandLine -----------------------------
(***************************************************************************)
(* The commands of gojira as processes on one machine (internal/cli): a    *)
(* command passes the guard, loads its configuration, does its work under  *)
(* signals, and ends with an exit code; gojira init writes a configuration *)
(* file step by step, and may be killed between two.                       *)
(***************************************************************************)
EXTENDS Config

CONSTANTS
  Procs,
  Scenarios     \* what they start from: [files, env, procs]

(* What a source may give: anything but what stands for "not given" and    *)
(* for "an empty list", the latter only in a file; no list is Empty, and   *)
(* only the texts are Blank (a number that is none is BadNumber).          *)
IsValue(v) == v \notin {Unset, "none"}
FreeTexts == {"site", "token", "dir", "address"}
BlankOnlyInTexts(values) == \A s \in DOMAIN values \ FreeTexts : values[s] # Blank
FileKinds == {"no home", "absent", "directory", "blank", "broken", "document"}
IsDoc(doc) ==
  /\ DOMAIN doc = Settings
  /\ \A s \in Settings : doc[s] = "none" => s = "apps"
  /\ doc["apps"] # Empty
IsFile(file) == DOMAIN file = {"kind", "doc"} /\ file.kind \in FileKinds /\ IsDoc(file.doc)
ASSUME ScenarioAssumption ==
  \A s \in Scenarios :
    /\ DOMAIN s.files = {"global", "local", "pinned"}
    /\ \A f \in DOMAIN s.files : IsFile(s.files[f]) /\ BlankOnlyInTexts(s.files[f].doc)
    /\ DOMAIN s.env = {"legacy", "canonical"}
    /\ \A x \in Settings : IsValue(s.env.legacy[x])
    /\ \A x \in Renamed : IsValue(s.env.canonical[x])
    /\ BlankOnlyInTexts(s.env.legacy) /\ BlankOnlyInTexts(s.env.canonical)
    /\ \A p \in Procs :
         /\ BlankOnlyInTexts(s.procs[p].flags)
         /\ \A x \in Settings : s.procs[p].flags[x] # "none"
         /\ s.procs[p].name = "init" =>
              DOMAIN s.procs[p].answers = Settings /\ \A x \in Settings : IsValue(s.procs[p].answers[x])

VARIABLES
  files,      \* files.global, files.local, files.pinned
  env,        \* the environment of the processes
  proc,       \* proc[p]: see NewProc
  edited      \* the processes that truncated or wrote a file, in their order

vars == <<files, env, proc, edited>>

(* args: the command and its flags.  at: where the process is.  signals:   *)
(* how many came.  view: the files as the guard and the load saw them.     *)
(* loaded: the configuration.  result: what the work came to.  code: the   *)
(* exit code.  doc: what init is going to write.                           *)
NoErr == ""
NoResult == [err |-> NoErr, rendered |-> FALSE, failed |-> FALSE, capped |-> FALSE]
NewProc(args, view) ==
  [args |-> args, at |-> "new", signals |-> 0, loaded |-> Layer(Defaults), view |-> view,
   result |-> NoResult, code |-> 0, doc |-> Defaults]

Init ==
  \E s \in Scenarios :
    /\ files = s.files /\ env = s.env
    /\ proc = [p \in Procs |-> NewProc(s.procs[p], s.files)]
    /\ edited = << >>

Name(p)   == proc[p].args.name
Pin(p)    == proc[p].args.pin
Flags(p)  == proc[p].args.flags
Ends(p, code) == proc' = [proc EXCEPT ![p].at = "exited", ![p].code = code]
Goes(p, at)   == proc' = [proc EXCEPT ![p].at = at]

-----------------------------------------------------------------------------
(* A command that talks to Jira.  The guard looks for files; the load that *)
(* follows reads them.                                                     *)
Guard(p) ==
  /\ proc[p].at = "new" /\ Name(p) # "init"
  /\ proc' = [proc EXCEPT ![p].view = files,
       ![p].at = IF RequireConfig(Name(p), Pin(p), files, env, Flags(p)) THEN "guarded" ELSE "refused",
       ![p].code = 1]
  /\ UNCHANGED <<files, env, edited>>

Load(p) ==
  /\ proc[p].at = "guarded"
  /\ LET got == LoadCommand(Name(p), Pin(p), files, env, Flags(p))
         fine == got.problems = {}
     IN  proc' = [proc EXCEPT ![p].view = files, ![p].loaded = [bad |-> ~fine, cfg |-> got.cfg],
                              ![p].at = IF fine THEN "working" ELSE "exited"]
  /\ UNCHANGED <<files, env, edited>>

(* What a crawl may come to: it says "canceled" only after a signal, and   *)
(* "unauthorized" and other errors at any time.                            *)
Results(p) ==
  [err : {NoErr, "unauthorized", "other"} \cup (IF proc[p].signals > 0 THEN {"canceled"} ELSE {}),
   rendered : BOOLEAN, failed : BOOLEAN, capped : BOOLEAN]

Work(p) ==
  /\ proc[p].at = "working"
  /\ CASE Name(p) = "crawl" ->
            \E r \in Results(p) : proc' = [proc EXCEPT ![p].at = "returned", ![p].result = r]
       [] Name(p) = "serve" ->
            \E e \in {NoErr, "other"} :
              /\ e = NoErr => proc[p].signals > 0
              /\ proc' = [proc EXCEPT ![p].at = "returned", ![p].result.err = e]
       [] Name(p) = "mcp" ->
            \E e \in IF proc[p].loaded.cfg["mode"] \in Modes THEN {NoErr, "other"} ELSE {"other"} :
              proc' = [proc EXCEPT ![p].at = "returned", ![p].result.err = e]
       [] OTHER ->
            \E e \in {NoErr, "other"} :
              proc' = [proc EXCEPT ![p].at = "returned", ![p].result.err = e]
  /\ UNCHANGED <<files, env, edited>>

(* The first signal cancels the work, which a load or gojira init does not *)
(* notice, the second ends the process.                                    *)
Signal(p) ==
  /\ proc[p].at \notin {"new", "refused", "exited", "killed"}
  /\ proc' = [proc EXCEPT ![p].signals = @ + 1,
                          ![p].at = IF proc[p].signals = 1 THEN "killed" ELSE @,
                          ![p].code = IF proc[p].signals = 1 THEN 130 ELSE @]
  /\ UNCHANGED <<files, env, edited>>

(* The code of a command's own error, or 0.                                *)
(* Slip: capped issues do not count.                                       *)
OutcomeIgnoringCaps(r, signals) ==
  IF r.err # NoErr THEN IF r.err = "canceled" THEN 2 ELSE 1
  ELSE IF signals > 0 THEN 2 ELSE IF ~r.failed THEN 0 ELSE IF r.rendered THEN 2 ELSE 1
MapCrawlOutcome(r, signals) ==
  IF r.err # NoErr
  THEN CASE r.err = "unauthorized" -> 1
         [] r.err = "canceled"     -> 2
         [] OTHER                  -> IF signals > 0 \/ r.rendered THEN 2 ELSE 1
  ELSE IF signals > 0 THEN 2
  ELSE IF ~r.failed /\ ~r.capped THEN 0
  ELSE IF r.rendered \/ r.capped THEN 2 ELSE 1

MapOutcome(p) ==
  /\ proc[p].at = "returned"
  /\ LET code == IF Name(p) = "crawl" THEN MapCrawlOutcome(proc[p].result, proc[p].signals)
                 ELSE IF proc[p].result.err # NoErr THEN 1 ELSE 0
     IN  proc' = [proc EXCEPT ![p].at = "mapped", ![p].code = code]
  /\ UNCHANGED <<files, env, edited>>

(* run: a command without an error of its own that saw a signal ends with  *)
(* 2, whatever it has done.                                                *)
Exit(p) ==
  /\ proc[p].at = "mapped"
  /\ Ends(p, IF proc[p].code # 0 THEN proc[p].code ELSE IF proc[p].signals > 0 THEN 2 ELSE 0)
  /\ UNCHANGED <<files, env, edited>>

-----------------------------------------------------------------------------
(* gojira init.  args: local, both (--local and --global), force, given,   *)
(* answers, and piped: is standard input no terminal?  A file that is      *)
(* there, of whatever kind, is not touched without --force.                *)
Target(p) == IF proc[p].args.local THEN "local" ELSE "global"
Reachable(p) == files[Target(p)].kind # "no home"

InitBegins(p) ==
  /\ proc[p].at = "new" /\ Name(p) = "init"
  /\ IF \/ proc[p].args.both \/ ~Reachable(p)
        \/ files[Target(p)].kind # "absent" /\ ~proc[p].args.force
     THEN Ends(p, 1) ELSE Goes(p, "asking")
  /\ UNCHANGED <<files, env, edited>>

(* The token has a reader of its own: when the input is a pipe, the reader *)
(* of the other answers may have taken the token's line already.           *)
TokenLost(p) ==
  /\ proc[p].args.piped
  /\ \E s \in InitFlags \ {"token", "dir"} : Prompted(Flags(p), env, s)
InitAsks(p) ==
  /\ proc[p].at = "asking"
  /\ \E lost \in IF TokenLost(p) THEN BOOLEAN ELSE {FALSE} :
       LET answers == [proc[p].args.answers EXCEPT !["token"] = IF lost THEN Empty ELSE @]
           got == [s \in InitFlags |-> Answer(Flags(p), env, answers, s)]
       IN  IF \E s \in InitFlags \ {"dir"} : got[s] = Empty THEN Ends(p, 1)
           ELSE proc' = [proc EXCEPT ![p].at = "opening",
                  ![p].doc = MarshalAppYAML([s \in Settings |-> IF s \in InitFlags THEN got[s] ELSE Defaults[s]])]
  /\ UNCHANGED <<files, env, edited>>

(* The file is truncated, then written.  The file system may fail before,  *)
(* and in the middle: a part of the document may be none, or a document    *)
(* that ends early.  A directory is no file that can be opened.            *)
InYAML == <<"site", "token", "cap", "apps", "dir", "level", "address">>
Parts(doc) ==
  {[kind |-> k, doc |-> Defaults] : k \in {"blank", "broken"}}
    \cup {[kind |-> "document",
           doc |-> [s \in Settings |-> IF \E i \in 1 .. n : InYAML[i] = s THEN doc[s] ELSE Unset]] :
          n \in 0 .. Len(InYAML)}
InitOpens(p) ==
  /\ proc[p].at = "opening"
  /\ \/ /\ files[Target(p)].kind # "directory"
        /\ files' = [files EXCEPT ![Target(p)] = [kind |-> "blank", doc |-> Defaults]]
        /\ Goes(p, "writing")
        /\ edited' = Append(edited, p)
     \/ Ends(p, 1) /\ UNCHANGED <<files, edited>>
  /\ UNCHANGED env

InitWrites(p) ==
  /\ proc[p].at = "writing"
  /\ \/ /\ files' = [files EXCEPT ![Target(p)] = [kind |-> "document", doc |-> proc[p].doc]]
        /\ proc' = [proc EXCEPT ![p].at = "mapped", ![p].code = 0]
     \/ /\ \E part \in Parts(proc[p].doc) : files' = [files EXCEPT ![Target(p)] = part]
        /\ Ends(p, 1)
  /\ edited' = Append(edited, p)
  /\ UNCHANGED env

Kill(p) ==
  /\ Name(p) = "init" /\ proc[p].at \in {"asking", "opening", "writing"}
  /\ proc' = [proc EXCEPT ![p].at = "killed", ![p].code = 137]
  /\ UNCHANGED <<files, env, edited>>

-----------------------------------------------------------------------------
Step(p) ==
  \/ Guard(p) \/ Load(p) \/ Work(p) \/ Signal(p) \/ MapOutcome(p) \/ Exit(p)
  \/ InitBegins(p) \/ InitAsks(p) \/ InitOpens(p) \/ InitWrites(p) \/ Kill(p)

Next == \E p \in Procs : Step(p)

Spec == Init /\ [][Next]_vars

-----------------------------------------------------------------------------
(* What a setting should be: what the strongest source that gives it says: *)
(* the flag, the variable, the pinned file, or else the local and then the *)
(* global file, the default.  A file that is pinned stands alone.          *)
OfFile(file, s) == IF file.kind = "document" THEN file.doc[s] ELSE Unset
OfEnv(s) == IF env.legacy[s] = Empty THEN Unset ELSE env.legacy[s]
Over(given, weaker) == IF given # Unset THEN given ELSE weaker
Strongest(p, s) ==
  LET view == proc[p].view
      flag == IF s \in FlagsOf(Name(p)) THEN Flags(p)[s] ELSE Unset
      file == IF Pin(p) THEN OfFile(view.pinned, s) ELSE Over(OfFile(view.local, s), OfFile(view.global, s))
  IN  Over(flag, Over(OfEnv(s), Over(file, Defaults[s])))
Loaded(p) == proc[p].at \notin {"new", "guarded", "refused", "killed"} /\ Name(p) # "init"
Usable(p) == Loaded(p) /\ ~proc[p].loaded.bad

(* Every setting of a loaded configuration comes from the strongest source *)
(* that gives it; what that leaves empty is the default, or "." as the     *)
(* output directory of a command that has none.                            *)
CascadeOrder ==
  \A p \in Procs : Usable(p) =>
    \A s \in Settings :
      LET v == Strongest(p, s)
      IN  proc[p].loaded.cfg[s] =
            IF v \notin {Empty, "none"} THEN v
            ELSE IF s = "dir" /\ WritesNoFiles(Name(p)) THEN "." ELSE Defaults[s]

(* The commands and LoadAppConfig come to the same configuration, or both  *)
(* to none, from the same files and old variables, but for two things: a   *)
(* list that a file empties stays empty in the library only; and a user, a *)
(* token or a directory of white space alone is a value to the commands    *)
(* (Build, not_empty), while the library takes it for missing, as its test *)
(* wants it to (validation_test.go:42-47).                                 *)
LibraryAgrees ==
  \A p \in Procs :
    LET lib == LoadApp(Pin(p), proc[p].view, env)
    IN  /\ Loaded(p) /\ Name(p) \in {"crawl", "serve", "mcp"}
        /\ \A s \in Settings : Flags(p)[s] = Unset
        /\ \A s \in Renamed : env.canonical[s] = Empty
        => /\ lib.problems = {} <=>
                ~proc[p].loaded.bad /\ \A s \in {"token", "dir"} : proc[p].loaded.cfg[s] # Blank
           /\ lib.problems = {} =>
                \A s \in Settings : lib.cfg[s] \in {proc[p].loaded.cfg[s], "none"}

(* The guard turns away only what would have found no configuration.       *)
GuardSound ==
  \A p \in Procs : proc[p].at = "refused" =>
    LoadCommand(Name(p), Pin(p), proc[p].view, env, Flags(p)).problems # {}

(* After gojira init, and until the next edit, any command without flags   *)
(* and variables gets what init was told, and the defaults for the rest,   *)
(* whatever the global file says (unless it cannot be read): the file is   *)
(* complete.  Only the mode of the MCP server is left to the global file.  *)
NoEnv == [legacy |-> [s \in Settings |-> Empty], canonical |-> [s \in Renamed |-> Empty]]
NoFlags == [s \in Settings |-> Unset]
Told(p, s) == IF s \in InitFlags THEN Answer(Flags(p), env, proc[p].args.answers, s) ELSE Defaults[s]
InitRoundTrip ==
  \A p \in Procs :
    /\ Name(p) = "init" /\ proc[p].at = "exited" /\ proc[p].code = 0 /\ edited[Len(edited)] = p
    /\ Target(p) = "global" => files.local.kind = "absent"
    /\ LoadApp(FALSE, [files EXCEPT !.local.kind = "absent"], NoEnv).problems # {"invalid"}
    => LET got == LoadCommand("get", FALSE, files, NoEnv, NoFlags)
       IN  /\ got.problems = {} <=> Told(p, "site") # BadURL
           /\ got.problems = {} =>
                \A s \in Settings \ {"mode"} :
                  got.cfg[s] = IF s = "dir" /\ Told(p, s) = Empty THEN "." ELSE Told(p, s)

(* The exit code tells what became of the command: 0 only when all was     *)
(* done and nobody interrupted, 130 only for the second signal, and 1 for  *)
(* a crawl only when it wrote nothing or was not allowed in.  A server is  *)
(* there to be interrupted: one that stopped without an error ends with 0  *)
(* or 2, all that its test asks for (serve_test.go:101-115).  It is 2,     *)
(* although runServe's comment says "A clean signal-driven shutdown        *)
(* returns nil (exit code 0)" (serve.go:99-104).                           *)
ExitTellsOutcome ==
  \A p \in Procs : LET r == proc[p].result IN
    /\ proc[p].at = "exited" /\ proc[p].code = 0 =>
         /\ r.err = NoErr /\ ~r.failed /\ ~r.capped /\ ~proc[p].loaded.bad
         /\ Name(p) # "serve" => proc[p].signals = 0
    /\ Name(p) = "serve" /\ proc[p].at = "exited" /\ ~proc[p].loaded.bad /\ r.err = NoErr =>
         proc[p].code \in {0, 2}
    /\ proc[p].code = 130 <=> proc[p].signals = 2
    /\ Name(p) = "crawl" /\ proc[p].at = "exited" /\ ~proc[p].loaded.bad /\ proc[p].code = 1 =>
         r.err = "unauthorized" \/ ~r.rendered

(* "the canonical GOJIRA_* keys gojira reads": a new variable is read.     *)
CanonicalHonoured ==
  \A p \in Procs : Usable(p) /\ Flags(p) = NoFlags =>
    \A s \in Renamed : env.canonical[s] # Empty => proc[p].loaded.cfg[s] = env.canonical[s]
=============================================================================
