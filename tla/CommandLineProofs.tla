------------------------- MODULE CommandLineProofs --------------------------
(***************************************************************************)
(* The commands for every set of processes and every scenario.             *)
(***************************************************************************)
EXTENDS CommandLine, TLAPS

-----------------------------------------------------------------------------
(* What a process is at every place, whatever the files say.               *)
ProcFields == {"args", "at", "signals", "loaded", "view", "result", "code", "doc"}
ResultFields == {"err", "rendered", "failed", "capped"}

Shape(h) ==
  /\ DOMAIN h = ProcFields
  /\ DOMAIN h.result = ResultFields
  /\ h.result.rendered \in BOOLEAN /\ h.result.failed \in BOOLEAN /\ h.result.capped \in BOOLEAN

(* The places of a command that loads a configuration, and those of init.  *)
Stage(h) ==
  h.at \in IF h.args.name = "init" THEN {"new", "asking", "opening", "writing", "mapped", "exited", "killed"}
           ELSE {"new", "guarded", "refused", "working", "returned", "mapped", "exited", "killed"}

Signalled(h) ==
  /\ h.signals \in {0, 1, 2} /\ h.code \in {0, 1, 2, 130, 137}
  /\ h.at # "killed" => h.signals # 2
  /\ h.code = 130 <=> h.signals = 2
  /\ h.at = "killed" => h.code # 0

Outcome(h) ==
  /\ h.args.name # "crawl" => ~h.result.failed /\ ~h.result.capped
  /\ h.at \notin {"returned", "mapped", "exited", "killed"} \/ h.args.name = "init" => h.result = NoResult
  /\ h.at = "guarded" => h.code = 1
  /\ h.loaded.bad \in BOOLEAN
  /\ h.loaded.bad => h.at = "exited" /\ h.code = 1
  /\ h.at \in {"mapped", "exited"} /\ h.code = 0 => h.result.err = NoErr /\ ~h.result.failed /\ ~h.result.capped
  /\ h.at = "exited" /\ h.code = 0 => h.signals = 0
  /\ h.args.name = "crawl" /\ h.at \in {"mapped", "exited"} /\ ~h.loaded.bad /\ h.code = 1 =>
       h.result.err = "unauthorized" \/ ~h.result.rendered
  /\ h.args.name = "serve" /\ h.at \in {"mapped", "exited"} /\ ~h.loaded.bad /\ h.result.err = NoErr =>
       h.code \in {0, 2}

Sound(h) == Shape(h) /\ Stage(h) /\ Signalled(h) /\ Outcome(h)
ProcessInv == DOMAIN proc = Procs /\ \A p \in Procs : Sound(proc[p])

(* The result that a process holds before it has one.                      *)
LEMMA Nothing ==
  /\ DOMAIN NoResult = ResultFields /\ NoResult.err = NoErr /\ ~NoResult.rendered
  /\ ~NoResult.failed /\ ~NoResult.capped
  /\ NoResult.rendered \in BOOLEAN /\ NoResult.failed \in BOOLEAN /\ NoResult.capped \in BOOLEAN
BY DEF NoResult, ResultFields

(* At the beginning no process has done anything.                          *)
LEMMA InitProcess == Init => ProcessInv
<1> SUFFICES ASSUME Init PROVE ProcessInv
  OBVIOUS
<1>1. PICK s \in Scenarios : proc = [p \in Procs |-> NewProc(s.procs[p], s.files)]
  BY DEF Init
<1>2. ASSUME NEW p \in Procs PROVE Sound(NewProc(s.procs[p], s.files))
  <2> DEFINE h == NewProc(s.procs[p], s.files)
  <2>1. /\ h.at = "new" /\ h.signals = 0 /\ h.code = 0 /\ h.result = NoResult /\ h.loaded.bad = FALSE
        /\ DOMAIN h = ProcFields
    BY DEF NewProc, ProcFields, Layer
  <2> HIDE DEF h
  <2>3. Shape(h)
    BY <2>1, Nothing DEF Shape
  <2>4. Stage(h) /\ Signalled(h)
    BY <2>1 DEF Stage, Signalled
  <2>5. Outcome(h)
    BY <2>1, Nothing DEF Outcome
  <2>6. Sound(h)
    BY <2>3, <2>4, <2>5 DEF Sound
  <2> QED
    BY <2>6 DEF h
<1> QED
  BY <1>1, <1>2 DEF ProcessInv

-----------------------------------------------------------------------------
(* A step of one process leaves the others alone.                          *)
LEMMA OneProcess ==
  ASSUME ProcessInv, NEW p \in Procs, NEW h, proc' = [proc EXCEPT ![p] = h], Sound(h)
  PROVE  ProcessInv'
BY DEF ProcessInv

(* The guard leaves a process sound: it refuses with the code of a bad     *)
(* configuration, or lets it load.                                         *)
LEMMA GuardSoundly == ASSUME ProcessInv, NEW p \in Procs, Guard(p) PROVE ProcessInv'
<1> DEFINE at == IF RequireConfig(Name(p), Pin(p), files, env, Flags(p)) THEN "guarded" ELSE "refused"
           h == [proc[p] EXCEPT !.view = files, !.at = at, !.code = 1]
<1>1. Sound(proc[p]) /\ proc[p].at = "new" /\ proc[p].args.name # "init"
  BY DEF ProcessInv, Guard, Name
<1>2. proc' = [proc EXCEPT ![p] = h]
  BY DEF Guard, ProcessInv
<1>3. at \in {"guarded", "refused"}
  OBVIOUS
<1> HIDE DEF at
<1>4. /\ DOMAIN h = ProcFields /\ h.at = at /\ h.code = 1
      /\ h.args = proc[p].args /\ h.signals = proc[p].signals /\ h.result = proc[p].result
      /\ h.loaded = proc[p].loaded
  BY <1>1 DEF Sound, Shape, ProcFields
<1> HIDE DEF h
<1>5. Sound(h)
  BY <1>1, <1>3, <1>4 DEF Sound, Shape, Stage, Signalled, Outcome
<1> QED
  BY <1>2, <1>5, OneProcess

(* Loading leaves it sound: what it loaded has no problems, or it failed.  *)
LEMMA LoadSoundly == ASSUME ProcessInv, NEW p \in Procs, Load(p) PROVE ProcessInv'
<1>1. Sound(proc[p]) /\ proc[p].at = "guarded"
  BY DEF ProcessInv, Load
<1> DEFINE got == LoadCommand(Name(p), Pin(p), files, env, Flags(p))
           fine == got.problems = {}
           h == [proc[p] EXCEPT !.view = files, !.loaded = [bad |-> ~fine, cfg |-> got.cfg],
                                !.at = IF fine THEN "working" ELSE "exited"]
<1>2. proc' = [proc EXCEPT ![p].view = files, ![p].loaded = [bad |-> ~fine, cfg |-> got.cfg],
                           ![p].at = IF fine THEN "working" ELSE "exited"]
  BY DEF Load
<1> HIDE DEF fine, got
<1>3. proc' = [proc EXCEPT ![p] = h]
  BY <1>2 DEF ProcessInv
<1>4. /\ DOMAIN h = ProcFields /\ h.at = (IF fine THEN "working" ELSE "exited") /\ h.code = proc[p].code
      /\ h.args = proc[p].args /\ h.signals = proc[p].signals /\ h.result = proc[p].result
      /\ h.loaded.bad = ~fine
  BY <1>1 DEF Sound, Shape, ProcFields
<1> HIDE DEF h
<1>5. Shape(h) /\ Stage(h) /\ Signalled(h)
  BY <1>1, <1>4 DEF Sound, Shape, Stage, Signalled, Outcome
<1>6. h.result = NoResult /\ h.code = 1
  BY <1>1, <1>4 DEF Sound, Stage, Outcome
<1>7. ~h.result.failed /\ ~h.result.capped /\ ~h.result.rendered
  BY <1>6, Nothing
<1>9. h.loaded.bad \in BOOLEAN /\ (h.loaded.bad => h.at = "exited") /\ (h.at = "exited" => h.loaded.bad)
  BY <1>4
<1>10. h.at \in {"working", "exited"}
  BY <1>4
<1>8. Outcome(h)
  BY <1>1, <1>6, <1>7, <1>9, <1>10 DEF Outcome
<1> QED
  BY <1>3, <1>5, <1>8, OneProcess DEF Sound

(* The work leaves it sound: it holds a result that fits its command.      *)
LEMMA WorkSoundly == ASSUME ProcessInv, NEW p \in Procs, Work(p) PROVE ProcessInv'
<1>1. Sound(proc[p]) /\ proc[p].at = "working" /\ Name(p) = proc[p].args.name
  BY DEF ProcessInv, Work, Name
<1>2. proc[p].result = NoResult /\ proc[p].loaded.bad = FALSE /\ Name(p) # "init"
  BY <1>1 DEF Sound, Outcome, Stage
<1>3. ASSUME NEW r, proc' = [proc EXCEPT ![p].at = "returned", ![p].result = r],
             DOMAIN r = ResultFields, r.rendered \in BOOLEAN, r.failed \in BOOLEAN, r.capped \in BOOLEAN,
             Name(p) # "crawl" => ~r.failed /\ ~r.capped
      PROVE  ProcessInv'
  <2> DEFINE h == [proc[p] EXCEPT !.at = "returned", !.result = r]
  <2>1. proc' = [proc EXCEPT ![p] = h]
    BY <1>3 DEF ProcessInv
  <2>2. /\ DOMAIN h = ProcFields /\ h.at = "returned" /\ h.code = proc[p].code
        /\ h.args = proc[p].args /\ h.signals = proc[p].signals /\ h.result = r
        /\ h.loaded = proc[p].loaded
    BY <1>1 DEF Sound, Shape, ProcFields
  <2> HIDE DEF h
  <2>3. Shape(h)
    BY <2>2, <1>3 DEF Shape
  <2>4. Stage(h) /\ Signalled(h)
    BY <1>1, <1>2, <2>2 DEF Sound, Stage, Signalled
  <2>5. Outcome(h)
    BY <1>1, <1>2, <1>3, <2>2 DEF Sound, Outcome
  <2> QED
    BY <2>1, <2>3, <2>4, <2>5, OneProcess DEF Sound
<1>4. ASSUME NEW e, proc' = [proc EXCEPT ![p].at = "returned", ![p].result.err = e]
      PROVE  ProcessInv'
  <2> DEFINE r == [NoResult EXCEPT !.err = e]
  <2>1. DOMAIN r = ResultFields /\ r.rendered = FALSE /\ r.failed = FALSE /\ r.capped = FALSE
    BY DEF NoResult, ResultFields
  <2>2. proc' = [proc EXCEPT ![p].at = "returned", ![p].result = r]
    BY <1>4, <1>2 DEF ProcessInv
  <2> HIDE DEF r
  <2> QED
    BY <1>3, <2>1, <2>2
<1>5. CASE Name(p) = "crawl"
  <2>1. PICK r \in Results(p) : proc' = [proc EXCEPT ![p].at = "returned", ![p].result = r]
    BY <1>5 DEF Work
  <2>2. DOMAIN r = ResultFields /\ r.rendered \in BOOLEAN /\ r.failed \in BOOLEAN /\ r.capped \in BOOLEAN
    BY DEF Results, ResultFields
  <2> QED
    BY <1>3, <1>5, <2>1, <2>2
<1>6. CASE Name(p) # "crawl"
  <2>1. \E e : proc' = [proc EXCEPT ![p].at = "returned", ![p].result.err = e]
    BY <1>6 DEF Work
  <2> QED
    BY <1>4, <2>1
<1> QED
  BY <1>5, <1>6

(* A signal leaves it sound, in whatever stage it comes.                   *)
LEMMA SignalSoundly == ASSUME ProcessInv, NEW p \in Procs, Signal(p) PROVE ProcessInv'
<1> DEFINE h == [proc[p] EXCEPT !.signals = @ + 1, !.at = IF proc[p].signals = 1 THEN "killed" ELSE @,
                                !.code = IF proc[p].signals = 1 THEN 130 ELSE @]
<1>1. Sound(proc[p]) /\ proc[p].at \notin {"new", "refused", "exited", "killed"}
  BY DEF ProcessInv, Signal
<1>2. proc' = [proc EXCEPT ![p] = h]
  BY DEF Signal, ProcessInv
<1>3. /\ DOMAIN h = ProcFields
      /\ h.at = (IF proc[p].signals = 1 THEN "killed" ELSE proc[p].at)
      /\ h.code = (IF proc[p].signals = 1 THEN 130 ELSE proc[p].code)
      /\ h.args = proc[p].args /\ h.result = proc[p].result /\ h.loaded = proc[p].loaded
  BY <1>1 DEF Sound, Shape, ProcFields
<1>4. h.signals = proc[p].signals + 1
  BY <1>1 DEF Sound, Shape, ProcFields
<1> HIDE DEF h
<1>5. Shape(h) /\ Stage(h) /\ Signalled(h)
  BY <1>1, <1>3, <1>4 DEF Sound, Shape, Stage, Signalled
<1>6. /\ proc[p].signals = 1 => h.at = "killed" /\ h.code = 130
      /\ proc[p].signals # 1 => h.at = proc[p].at /\ h.code = proc[p].code
      /\ ~proc[p].loaded.bad /\ h.at # "exited"
  BY <1>1, <1>3 DEF Sound, Outcome
<1>7. Outcome(h)
  BY <1>1, <1>3, <1>6 DEF Sound, Outcome, Stage
<1> QED
  BY <1>2, <1>5, <1>7, OneProcess DEF Sound

(* What the code of a crawl tells of its result.                           *)
LEMMA CodeOfCrawl ==
  ASSUME NEW r, NEW signals, r.rendered \in BOOLEAN, r.failed \in BOOLEAN, r.capped \in BOOLEAN
  PROVE  LET code == MapCrawlOutcome(r, signals)
         IN  /\ code \in {0, 1, 2}
             /\ code = 0 => r.err = NoErr /\ ~r.failed /\ ~r.capped
             /\ code = 1 => r.err = "unauthorized" \/ ~r.rendered
BY DEF MapCrawlOutcome

(* mapCrawlOutcome leaves it sound: the code follows from what it holds.   *)
LEMMA MapOutcomeSoundly == ASSUME ProcessInv, NEW p \in Procs, MapOutcome(p) PROVE ProcessInv'
<1>1. Sound(proc[p]) /\ proc[p].at = "returned" /\ Name(p) = proc[p].args.name
  BY DEF ProcessInv, MapOutcome, Name
<1> DEFINE code == IF Name(p) = "crawl" THEN MapCrawlOutcome(proc[p].result, proc[p].signals)
                   ELSE IF proc[p].result.err # NoErr THEN 1 ELSE 0
           h == [proc[p] EXCEPT !.at = "mapped", !.code = code]
<1>2. proc' = [proc EXCEPT ![p] = h]
  BY DEF MapOutcome, ProcessInv
<1>3. /\ code \in {0, 1, 2}
      /\ code = 0 => proc[p].result.err = NoErr /\ ~proc[p].result.failed /\ ~proc[p].result.capped
      /\ code = 1 /\ Name(p) = "crawl" => proc[p].result.err = "unauthorized" \/ ~proc[p].result.rendered
      /\ Name(p) # "crawl" /\ proc[p].result.err = NoErr => code = 0
  <2>1. CASE Name(p) = "crawl"
    <3>1. code = MapCrawlOutcome(proc[p].result, proc[p].signals)
      BY <2>1
    <3>2. Shape(proc[p])
      BY <1>1 DEF Sound
    <3> QED
      BY <3>1, <3>2, CodeOfCrawl DEF Shape
  <2>2. CASE Name(p) # "crawl"
    <3>1. code = IF proc[p].result.err # NoErr THEN 1 ELSE 0
      BY <2>2
    <3>2. ~proc[p].result.failed /\ ~proc[p].result.capped
      BY <2>2, <1>1 DEF Sound, Outcome
    <3> QED
      BY <2>2, <3>1, <3>2
  <2> QED
    BY <2>1, <2>2
<1> HIDE DEF code
<1>4. /\ DOMAIN h = ProcFields /\ h.at = "mapped" /\ h.code = code
      /\ h.args = proc[p].args /\ h.signals = proc[p].signals /\ h.result = proc[p].result
      /\ h.loaded = proc[p].loaded
  BY <1>1 DEF Sound, Shape, ProcFields
<1> HIDE DEF h
<1>5. Shape(h)
  BY <1>1, <1>4 DEF Sound, Shape
<1>6. Stage(h)
  BY <1>1, <1>4 DEF Sound, Stage
<1>8. Signalled(h)
  BY <1>1, <1>3, <1>4 DEF Sound, Signalled
<1>7. Outcome(h)
  BY <1>1, <1>3, <1>4 DEF Sound, Outcome, Stage
<1> QED
  BY <1>2, <1>5, <1>6, <1>7, <1>8, OneProcess DEF Sound

(* Leaving leaves it sound.                                                *)
LEMMA ExitSoundly == ASSUME ProcessInv, NEW p \in Procs, Exit(p) PROVE ProcessInv'
<1>1. Sound(proc[p]) /\ proc[p].at = "mapped"
  BY DEF ProcessInv, Exit
<1> DEFINE code == IF proc[p].code # 0 THEN proc[p].code ELSE IF proc[p].signals > 0 THEN 2 ELSE 0
           h == [proc[p] EXCEPT !.at = "exited", !.code = code]
<1>2. proc' = [proc EXCEPT ![p] = h]
  BY DEF Exit, Ends, ProcessInv
<1>3. /\ proc[p].signals \in {0, 1} /\ proc[p].code \in {0, 1, 2, 137}
      /\ proc[p].code # 0 => code = proc[p].code
      /\ proc[p].code = 0 => code = (IF proc[p].signals = 0 THEN 0 ELSE 2)
  BY <1>1 DEF Sound, Signalled
<1> HIDE DEF code
<1>4. /\ DOMAIN h = ProcFields /\ h.at = "exited" /\ h.code = code
      /\ h.args = proc[p].args /\ h.signals = proc[p].signals /\ h.result = proc[p].result
      /\ h.loaded = proc[p].loaded
  BY <1>1 DEF Sound, Shape, ProcFields
<1> HIDE DEF h
<1>5. Shape(h)
  BY <1>1, <1>4 DEF Sound, Shape
<1>6. Stage(h)
  BY <1>1, <1>4 DEF Sound, Stage
<1>8. Signalled(h)
  BY <1>1, <1>3, <1>4 DEF Sound, Signalled
<1>7. Outcome(h)
  BY <1>1, <1>3, <1>4 DEF Sound, Outcome, Stage
<1> QED
  BY <1>2, <1>5, <1>6, <1>7, <1>8, OneProcess DEF Sound

(* The steps of gojira init: it goes on, or ends with 1 or by a signal,    *)
(* and what it came to is as it was.                                       *)
LEMMA InitStep ==
  ASSUME ProcessInv, NEW p \in Procs, NEW h, proc' = [proc EXCEPT ![p] = h], Name(p) = "init",
         DOMAIN h = ProcFields, h.args = proc[p].args, h.signals = proc[p].signals,
         h.result = proc[p].result, h.loaded = proc[p].loaded,
         proc[p].at \in {"new", "asking", "opening", "writing"},
         \/ h.at \in {"asking", "opening", "writing"} /\ h.code = proc[p].code
         \/ h.at = "mapped" /\ h.code = 0
         \/ h.at = "exited" /\ h.code = 1
         \/ h.at = "killed" /\ h.code = 137
  PROVE  ProcessInv'
<1>1. Sound(proc[p]) /\ proc[p].args.name = "init"
  BY DEF ProcessInv, Name
<1>2. proc[p].result = NoResult /\ ~proc[p].loaded.bad /\ proc[p].signals \in {0, 1}
  BY <1>1 DEF Sound, Outcome, Signalled
<1>3. NoResult.err = NoErr /\ ~NoResult.rendered /\ ~NoResult.failed /\ ~NoResult.capped
  BY DEF NoResult
<1>4. Shape(h)
  BY <1>1 DEF Sound, Shape
<1>5. Stage(h) /\ Signalled(h)
  BY <1>1, <1>2 DEF Sound, Stage, Signalled
<1>6. Outcome(h)
  BY <1>1, <1>2, <1>3 DEF Sound, Outcome
<1> QED
  BY <1>4, <1>5, <1>6, OneProcess DEF Sound

(* The steps of gojira init, and a kill between them, leave it sound.      *)
LEMMA InitSoundly ==
  ASSUME ProcessInv, NEW p \in Procs,
         InitBegins(p) \/ InitAsks(p) \/ InitOpens(p) \/ InitWrites(p) \/ Kill(p)
  PROVE  ProcessInv'
<1>1. Sound(proc[p]) /\ DOMAIN proc = Procs /\ DOMAIN proc[p] = ProcFields
  BY DEF ProcessInv, Sound, Shape
<1>2. Name(p) = "init" /\ proc[p].at \in {"new", "asking", "opening", "writing"}
  BY <1>1 DEF InitBegins, InitAsks, InitOpens, InitWrites, Kill, Name, Sound, Stage
<1>3. ASSUME NEW at, NEW code, NEW doc,
             proc' = [proc EXCEPT ![p].at = at, ![p].code = code, ![p].doc = doc],
             \/ at \in {"asking", "opening", "writing"} /\ code = proc[p].code
             \/ at = "mapped" /\ code = 0
             \/ at = "exited" /\ code = 1
             \/ at = "killed" /\ code = 137
      PROVE  ProcessInv'
  <2> DEFINE h == [proc[p] EXCEPT !.at = at, !.code = code, !.doc = doc]
  <2>1. proc' = [proc EXCEPT ![p] = h]
    BY <1>1, <1>3
  <2>2. /\ DOMAIN h = ProcFields /\ h.at = at /\ h.code = code
        /\ h.args = proc[p].args /\ h.signals = proc[p].signals /\ h.result = proc[p].result
        /\ h.loaded = proc[p].loaded
    BY <1>1 DEF ProcFields
  <2> HIDE DEF h
  <2> QED
    BY <1>2, <1>3, <2>1, <2>2, InitStep
<1>4. ASSUME NEW at, NEW code, proc' = [proc EXCEPT ![p].at = at, ![p].code = code]
      PROVE  proc' = [proc EXCEPT ![p].at = at, ![p].code = code, ![p].doc = proc[p].doc]
  BY <1>1, <1>4 DEF ProcFields
<1>5. ASSUME Ends(p, 1) PROVE ProcessInv'
  <2>1. proc' = [proc EXCEPT ![p].at = "exited", ![p].code = 1, ![p].doc = proc[p].doc]
    BY <1>4, <1>5 DEF Ends
  <2> QED
    BY <1>3, <2>1
<1>6. ASSUME NEW at \in {"asking", "opening", "writing"}, Goes(p, at) PROVE ProcessInv'
  <2>1. proc' = [proc EXCEPT ![p].at = at, ![p].code = proc[p].code, ![p].doc = proc[p].doc]
    BY <1>1, <1>6 DEF Goes, ProcFields
  <2> QED
    BY <1>3, <2>1
<1>7. CASE InitBegins(p)
  BY <1>7, <1>5, <1>6 DEF InitBegins
<1>8. CASE InitAsks(p)
  <2>1. Ends(p, 1) \/ \E doc : proc' = [proc EXCEPT ![p].at = "opening", ![p].doc = doc]
    BY <1>8 DEF InitAsks
  <2>2. ASSUME NEW doc, proc' = [proc EXCEPT ![p].at = "opening", ![p].doc = doc] PROVE ProcessInv'
    <3>1. proc' = [proc EXCEPT ![p].at = "opening", ![p].code = proc[p].code, ![p].doc = doc]
      BY <1>1, <2>2 DEF ProcFields
    <3> QED
      BY <1>3, <3>1
  <2> QED
    BY <2>1, <2>2, <1>5
<1>9. CASE InitOpens(p)
  BY <1>9, <1>5, <1>6 DEF InitOpens
<1>10. CASE InitWrites(p)
  <2>1. Ends(p, 1) \/ proc' = [proc EXCEPT ![p].at = "mapped", ![p].code = 0]
    BY <1>10 DEF InitWrites
  <2>2. ASSUME proc' = [proc EXCEPT ![p].at = "mapped", ![p].code = 0] PROVE ProcessInv'
    <3>1. proc' = [proc EXCEPT ![p].at = "mapped", ![p].code = 0, ![p].doc = proc[p].doc]
      BY <1>4, <2>2
    <3> QED
      BY <1>3, <3>1
  <2> QED
    BY <2>1, <2>2, <1>5
<1>11. CASE Kill(p)
  <2>1. proc' = [proc EXCEPT ![p].at = "killed", ![p].code = 137]
    BY <1>11 DEF Kill
  <2>2. proc' = [proc EXCEPT ![p].at = "killed", ![p].code = 137, ![p].doc = proc[p].doc]
    BY <1>4, <2>1
  <2> QED
    BY <1>3, <2>2
<1> QED
  BY <1>7, <1>8, <1>9, <1>10, <1>11

(* What a process reports fits what it did, for every process.             *)
THEOREM ProcessesAreSound == Spec => []ProcessInv
<1>1. ProcessInv /\ [Next]_vars => ProcessInv'
  <2>1. ASSUME ProcessInv, Next PROVE ProcessInv'
    <3>1. PICK p \in Procs : Step(p)
      BY <2>1 DEF Next
    <3> QED
      BY <2>1, <3>1, GuardSoundly, LoadSoundly, WorkSoundly, SignalSoundly, MapOutcomeSoundly,
         ExitSoundly, InitSoundly DEF Step
  <2>2. ASSUME ProcessInv, UNCHANGED vars PROVE ProcessInv'
    BY <2>2 DEF ProcessInv, vars
  <2> QED
    BY <2>1, <2>2
<1> QED
  BY <1>1, InitProcess, PTL DEF Spec

(* The exit code tells what became of a command: cli.go's run and          *)
(* mapCrawlOutcome.                                                        *)
THEOREM ExitTells == Spec => []ExitTellsOutcome
<1>1. ProcessInv => ExitTellsOutcome
  <2> SUFFICES ASSUME ProcessInv, NEW p \in Procs
               PROVE  LET r == proc[p].result IN
                 /\ proc[p].at = "exited" /\ proc[p].code = 0 =>
                      /\ r.err = NoErr /\ ~r.failed /\ ~r.capped /\ ~proc[p].loaded.bad
                      /\ Name(p) # "serve" => proc[p].signals = 0
                 /\ Name(p) = "serve" /\ proc[p].at = "exited" /\ ~proc[p].loaded.bad /\ r.err = NoErr =>
                      proc[p].code \in {0, 2}
                 /\ proc[p].code = 130 <=> proc[p].signals = 2
                 /\ Name(p) = "crawl" /\ proc[p].at = "exited" /\ ~proc[p].loaded.bad /\ proc[p].code = 1 =>
                      r.err = "unauthorized" \/ ~r.rendered
    BY DEF ExitTellsOutcome
  <2>1. Signalled(proc[p]) /\ Outcome(proc[p])
    BY DEF ProcessInv, Sound
  <2>2. proc[p].code = 130 <=> proc[p].signals = 2
    BY <2>1 DEF Signalled
  <2>3. proc[p].at = "exited" /\ proc[p].code = 0 => ~proc[p].loaded.bad /\ proc[p].signals = 0
    BY <2>1 DEF Outcome
  <2> QED
    BY <2>1, <2>2, <2>3 DEF Outcome, Name
<1> QED
  BY <1>1, ProcessesAreSound, PTL

-----------------------------------------------------------------------------
(* What a configuration is made of.                                        *)
LEMMA Texts ==
  /\ Empty \notin {"none", ".", "500", "GitHub", "info", "debug", "loopback", "self", "bridge"}
  /\ Empty \notin {Unset, BadURL, BadNumber}
  /\ Unset \notin {"none", ".", "500", "GitHub", "info", "debug", "loopback", "self", "bridge"}
<1>1. Empty \notin {"none", ".", "500", "GitHub", "info", "debug", "loopback", "self", "bridge"}
  BY Zenon DEF Empty
<1>2. Empty # Unset /\ Empty # BadURL /\ Empty # BadNumber
  BY Zenon DEF Empty, Unset, BadURL, BadNumber
<1>4. Unset \notin {"none", ".", "500", "GitHub", "info", "debug", "loopback", "self", "bridge"}
  BY Zenon DEF Unset
<1> QED
  BY <1>1, <1>2, <1>4, Zenon

(* The defaults, one by one.                                               *)
LEMMA DefaultValues ==
  /\ DOMAIN Defaults = Settings
  /\ Defaults["site"] = Empty /\ Defaults["token"] = Empty /\ Defaults["dir"] = Empty /\ Defaults["mode"] = Empty
  /\ Defaults["cap"] = "500" /\ Defaults["apps"] = "GitHub" /\ Defaults["level"] = "info"
  /\ Defaults["address"] = "loopback"
BY DEF Defaults, Settings

(* Every default is a value.                                               *)
LEMMA DefaultSettings == \A s \in Settings : IsValue(Defaults[s])
BY Texts, DefaultValues DEF IsValue, Settings, Unset

(* The defaults make a document.                                           *)
LEMMA DefaultDoc == IsDoc(Defaults)
BY DefaultSettings, DefaultValues, Texts DEF IsDoc, IsValue

TypedView(view) == DOMAIN view = {"global", "local", "pinned"} /\ \A f \in DOMAIN view : IsFile(view[f])
TypedEnv(e) ==
  /\ DOMAIN e = {"legacy", "canonical"}
  /\ \A s \in Settings : IsValue(e.legacy[s])
  /\ \A s \in Renamed : IsValue(e.canonical[s])

(* What the files give: the pinned one, or the local before the global.    *)
OfFiles(pin, view, s) ==
  IF pin THEN OfFile(view.pinned, s) ELSE Over(OfFile(view.local, s), OfFile(view.global, s))

(* The layers of the files, when none of them is bad.                      *)
Readable(cfg) ==
  /\ DOMAIN cfg = Settings
  /\ \A s \in Settings : cfg[s] # Unset /\ (cfg[s] = "none" => s = "apps")
  /\ cfg["level"] \in Levels /\ cfg["mode"] \in Modes \cup {Empty}
  /\ cfg["cap"] \notin {Empty, BadNumber} /\ cfg["apps"] # Empty

(* The defaults can be read by every later step.                           *)
LEMMA DefaultReadable == Readable(Defaults)
<1>1. \A s \in Settings : IsValue(Defaults[s])
  BY DefaultSettings
<1>2. "500" # BadNumber /\ "500" # Empty /\ "GitHub" # Empty /\ Defaults["level"] \in Levels
  BY Texts, DefaultValues DEF BadNumber, Levels
<1> QED
  BY <1>1, <1>2, DefaultValues DEF Readable, IsValue

(* A file that can be applied gives its values over those that were there, *)
(* setting by setting.                                                     *)
LEMMA OneFile ==
  ASSUME NEW file, IsFile(file), NEW cfg, Readable(cfg), ~ApplyYAMLReader(file, Layer(cfg)).bad
  PROVE  LET app == ApplyYAMLReader(file, Layer(cfg))
         IN  /\ app = Layer(app.cfg) /\ Readable(app.cfg)
             /\ \A s \in Settings : app.cfg[s] = Over(OfFile(file, s), cfg[s])
<1> DEFINE app == ApplyYAMLReader(file, Layer(cfg))
<1>1. Layer(cfg).bad = FALSE /\ Layer(cfg).cfg = cfg
  BY DEF Layer
<1>2. CASE file.kind = "blank"
  <2>1. app = Layer(cfg)
    BY <1>2 DEF ApplyYAMLReader
  <2>2. \A s \in Settings : OfFile(file, s) = Unset
    BY <1>2 DEF OfFile
  <2> QED
    BY <1>1, <2>1, <2>2 DEF Over
<1>3. CASE file.kind # "blank"
  <2>1. file.kind = "document" /\ ValidateRaw(file.doc) /\ app = Layer(DecodeYAML(file.doc, cfg))
    <3>1. ~Layer(cfg).bad
      BY <1>1
    <3>2. [Layer(cfg) EXCEPT !.bad = TRUE].bad
      BY DEF Layer
    <3> HIDE DEF app
    <3>3. app = IF file.kind # "document" THEN [Layer(cfg) EXCEPT !.bad = TRUE]
                ELSE IF ValidateRaw(file.doc) THEN Layer(DecodeYAML(file.doc, cfg))
                ELSE [Layer(cfg) EXCEPT !.bad = TRUE]
      BY <1>1, <1>3, <3>1 DEF app, ApplyYAMLReader
    <3>4. ~app.bad
      BY DEF app
    <3> QED
      BY <3>2, <3>3, <3>4
  <2> DEFINE new == DecodeYAML(file.doc, cfg)
  <2>2. app.cfg = new /\ app = Layer(new)
    BY <2>1 DEF Layer
  <2>3. \A s \in Settings : new[s] = Over(OfFile(file, s), cfg[s])
    BY <2>1 DEF DecodeYAML, OfFile, Over
  <2>4. DOMAIN new = Settings /\ \A s \in Settings : new[s] = IF file.doc[s] = Unset THEN cfg[s] ELSE file.doc[s]
    BY DEF DecodeYAML
  <2>5. IsDoc(file.doc)
    BY DEF IsFile
  <2> HIDE DEF new
  <2>6. Readable(new)
    <3>1. \A s \in Settings : new[s] # Unset /\ (new[s] = "none" => s = "apps")
      BY <2>4, <2>5 DEF Readable, IsDoc
    <3>2. {"level", "mode", "cap", "apps"} \subseteq Settings
      BY DEF Settings
    <3>3. new["level"] \in Levels /\ new["mode"] \in Modes \cup {Empty}
      BY <2>1, <2>4, <3>2 DEF Readable, ValidateRaw
    <3>4. new["cap"] \notin {Empty, BadNumber} /\ new["apps"] # Empty
      BY <2>1, <2>4, <2>5, <3>2 DEF Readable, ValidateRaw, IsDoc
    <3> QED
      BY <2>4, <3>1, <3>3, <3>4 DEF Readable
  <2> QED
    BY <2>2, <2>3, <2>6
<1> QED
  BY <1>2, <1>3

(* A layer that is bad stays bad.                                          *)
LEMMA BadStays ==
  ASSUME NEW file, NEW app, app.bad
  PROVE  ApplyYAMLReader(file, app).bad /\ LayerIfThere(file, app).bad
BY DEF ApplyYAMLReader, LayerIfThere

(* A layer does, whether its file is there or not.                         *)
LEMMA OneLayer ==
  ASSUME NEW file, IsFile(file), NEW cfg, Readable(cfg), ~LayerIfThere(file, Layer(cfg)).bad
  PROVE  LET app == LayerIfThere(file, Layer(cfg))
         IN  /\ app = Layer(app.cfg) /\ Readable(app.cfg)
             /\ \A s \in Settings : app.cfg[s] = Over(OfFile(file, s), cfg[s])
<1>1. CASE IsRegularFile(file)
  BY <1>1, OneFile DEF LayerIfThere
<1>2. CASE ~IsRegularFile(file)
  <2>1. LayerIfThere(file, Layer(cfg)) = Layer(cfg) /\ Layer(cfg).cfg = cfg
    BY <1>2 DEF LayerIfThere, Layer
  <2>2. \A s \in Settings : OfFile(file, s) = Unset
    BY <1>2 DEF OfFile, IsRegularFile
  <2> QED
    BY <2>1, <2>2 DEF Over
<1> QED
  BY <1>1, <1>2

(* A layer is applied or is bad.                                           *)
LEMMA LayerCases == 
  ASSUME NEW file, NEW cfg
  PROVE  LET app == LayerIfThere(file, Layer(cfg)) IN app.bad \in BOOLEAN /\ DOMAIN app = {"bad", "cfg"}
BY DEF LayerIfThere, ApplyYAMLReader, Layer

(* The two files together give their values over the defaults.             *)
LEMMA FileLayer ==
  ASSUME NEW view, TypedView(view), NEW pin, ~ApplyFileLayer(pin, view).bad
  PROVE  LET app == ApplyFileLayer(pin, view)
         IN  /\ Readable(app.cfg)
             /\ \A s \in Settings : app.cfg[s] = Over(OfFiles(pin, view, s), Defaults[s])
<1>1. IsFile(view.pinned) /\ IsFile(view.local) /\ IsFile(view.global)
  BY DEF TypedView
<1>2. DefaultApp = Layer(Defaults) /\ Readable(Defaults)
  BY DefaultReadable DEF DefaultApp
<1>3. CASE pin
  <2>1. IsRegularFile(view.pinned)
    <3>1. [Layer(Defaults) EXCEPT !.bad = TRUE].bad
      BY DEF Layer
    <3> QED
      BY <1>2, <1>3, <3>1 DEF ApplyFileLayer, ApplyPinnedFile
  <2>2. ApplyFileLayer(pin, view) = ApplyYAMLReader(view.pinned, Layer(Defaults))
    BY <1>2, <1>3, <2>1 DEF ApplyFileLayer, ApplyPinnedFile
  <2>3. \A s \in Settings : OfFiles(pin, view, s) = OfFile(view.pinned, s)
    BY <1>3 DEF OfFiles
  <2>4. LET app == ApplyYAMLReader(view.pinned, Layer(Defaults))
        IN  /\ Readable(app.cfg)
            /\ \A s \in Settings : app.cfg[s] = Over(OfFile(view.pinned, s), Defaults[s])
    BY <1>1, <1>2, <2>2, OneFile
  <2> QED
    BY <2>2, <2>3, <2>4
<1>4. CASE ~pin
  <2> DEFINE first == LayerIfThere(view.global, Layer(Defaults))
  <2>1. ApplyFileLayer(pin, view) = LayerIfThere(view.local, first)
    BY <1>2, <1>4 DEF ApplyFileLayer
  <2>2. ~first.bad
    BY <2>1, BadStays
  <2>3. /\ first = Layer(first.cfg) /\ Readable(first.cfg)
        /\ \A s \in Settings : first.cfg[s] = Over(OfFile(view.global, s), Defaults[s])
    BY <1>1, <1>2, <2>2, OneLayer
  <2> HIDE DEF first
  <2>4. LET app == LayerIfThere(view.local, first)
        IN  /\ Readable(app.cfg)
            /\ \A s \in Settings : app.cfg[s] = Over(OfFile(view.local, s), first.cfg[s])
    BY <1>1, <2>1, <2>3, OneLayer
  <2> QED
    BY <1>4, <2>1, <2>3, <2>4 DEF OfFiles, Over
<1> QED
  BY <1>3, <1>4

-----------------------------------------------------------------------------
(* What a command starts to check: the flag, the variable, the files, the  *)
(* default; "." for the output directory of a command that has none.       *)
Source(command, pin, view, e, flags, s) ==
  LET flag == IF s \in FlagsOf(command) THEN flags[s] ELSE Unset
      var  == IF e.legacy[s] = Empty THEN Unset ELSE e.legacy[s]
  IN  Over(flag, Over(var, Over(OfFiles(pin, view, s), Defaults[s])))
Cleared(v) == IF v = "none" THEN Empty ELSE v

Values(command, pin, view, e, flags) ==
  BuildConfigKV(command, flags, ResolveAliases(e),
    EnvOver(ResolveAliases(e), ConfigToKV(ToConfig(ApplyFileLayer(pin, view).cfg))))

(* What the files gave, as the map that the environment and the flags are  *)
(* merged into.                                                            *)
LEMMA FilesToKV ==
  ASSUME NEW cfg, Readable(cfg)
  PROVE  LET kv == ConfigToKV(ToConfig(cfg))
         IN  /\ DOMAIN kv = Settings
             /\ \A s \in Settings : kv[s] = IF s = "address" /\ cfg[s] = Empty THEN Defaults[s] ELSE Cleared(cfg[s])
<1> DEFINE mid == ToConfig(cfg)
           kv == ConfigToKV(mid)
<1>1. {"address", "apps"} \subseteq Settings /\ "address" # "apps"
  BY DEF Settings
<1>2. /\ DOMAIN mid = Settings /\ \A s \in Settings : s # "address" => mid[s] = cfg[s]
      /\ mid["address"] = IF cfg["address"] = Empty THEN Defaults["address"] ELSE cfg["address"]
  BY <1>1 DEF ToConfig, Readable
<1>3. \A s \in Settings : s # "apps" => Cleared(cfg[s]) = cfg[s]
  BY DEF Readable, Cleared
<1> HIDE DEF mid
<1>4. /\ DOMAIN kv = Settings /\ \A s \in Settings : s # "apps" => kv[s] = mid[s]
      /\ kv["apps"] = Cleared(mid["apps"])
  BY <1>1, <1>2 DEF ConfigToKV, Cleared
<1> HIDE DEF kv
<1>5. ASSUME NEW s \in Settings
      PROVE  kv[s] = IF s = "address" /\ cfg[s] = Empty THEN Defaults[s] ELSE Cleared(cfg[s])
  BY <1>1, <1>2, <1>3, <1>4
<1> QED
  BY <1>4, <1>5 DEF kv, mid

(* The merged map has for each setting the value of its strongest source.  *)
LEMMA ValuesAre ==
  ASSUME NEW command, NEW pin, NEW view, TypedView(view), NEW e, TypedEnv(e), NEW flags,
         \A s \in Settings : flags[s] # "none", ~ApplyFileLayer(pin, view).bad
  PROVE  LET kv == Values(command, pin, view, e, flags)
         IN  /\ DOMAIN kv = Settings
             /\ \A s \in Settings :
                  LET v == Source(command, pin, view, e, flags, s)
                  IN  IF v \notin {Empty, "none"} THEN kv[s] = v ELSE kv[s] \in {Empty, Defaults[s]}
             /\ \A s \in Settings \ {"address"} : kv[s] = Cleared(Source(command, pin, view, e, flags, s))
<1> DEFINE app == ApplyFileLayer(pin, view)
           e2 == ResolveAliases(e)
           file == ConfigToKV(ToConfig(app.cfg))
           var == EnvOver(e2, file)
           kv == Values(command, pin, view, e, flags)
<1>1. /\ Readable(app.cfg)
      /\ \A s \in Settings : app.cfg[s] = Over(OfFiles(pin, view, s), Defaults[s])
  BY FileLayer
<1>2. e2.legacy = e.legacy
  BY DEF ResolveAliases, TypedEnv
<1>3. \A s \in Settings : file[s] = IF s = "address" /\ app.cfg[s] = Empty THEN Defaults[s] ELSE Cleared(app.cfg[s])
  BY <1>1, FilesToKV
<1> HIDE DEF file
<1>4. DOMAIN var = Settings /\ \A s \in Settings : var[s] = IF e.legacy[s] # Empty THEN e.legacy[s] ELSE file[s]
  BY <1>2 DEF EnvOver
<1>5. kv = BuildConfigKV(command, flags, e2, var)
  BY DEF Values, file
<1> HIDE DEF var, e2, kv
<1>6. /\ DOMAIN kv = Settings
      /\ \A s \in Settings :
           kv[s] = IF IsSet(command, flags, e2, s) THEN FlagValue(command, flags, e2, s) ELSE var[s]
  BY <1>5 DEF BuildConfigKV
<1>7. ASSUME NEW s \in Settings
      PROVE  LET v == Source(command, pin, view, e, flags, s)
             IN  /\ IF v \notin {Empty, "none"} THEN kv[s] = v ELSE kv[s] \in {Empty, Defaults[s]}
                 /\ s # "address" => kv[s] = Cleared(v)
  <2> DEFINE v == Source(command, pin, view, e, flags, s)
             flag == IF s \in FlagsOf(command) THEN flags[s] ELSE Unset
  <2>1. flag # "none" /\ e.legacy[s] # "none" /\ e.legacy[s] # Unset
    BY Texts DEF TypedEnv, IsValue, Unset
  <2>2. FlagValue(command, flags, e2, s) = IF flag # Unset THEN flag
                                           ELSE IF s \in FlagsOf(command) /\ e.legacy[s] # Empty THEN e.legacy[s]
                                           ELSE Unset
    BY <1>2 DEF FlagValue
  <2>3. v = IF flag # Unset THEN flag ELSE IF e.legacy[s] # Empty THEN e.legacy[s] ELSE app.cfg[s]
    BY <1>1, <2>1, Texts DEF Source, Over
  <2> HIDE DEF flag, v
  <2>4. kv[s] = IF flag # Unset THEN flag ELSE IF e.legacy[s] # Empty THEN e.legacy[s] ELSE file[s]
    BY <1>4, <1>6, <2>1, <2>2 DEF IsSet
  <2>5. file[s] = IF s = "address" /\ app.cfg[s] = Empty THEN Defaults[s] ELSE Cleared(app.cfg[s])
    BY <1>3
  <2>6. /\ IF v \notin {Empty, "none"} THEN kv[s] = v ELSE kv[s] \in {Empty, Defaults[s]}
        /\ s # "address" => kv[s] = Cleared(v)
    <3>1. CASE flag # Unset \/ e.legacy[s] # Empty
      BY <2>1, <2>3, <2>4, <3>1 DEF Cleared
    <3>2. CASE ~(flag # Unset \/ e.legacy[s] # Empty)
      <4>1. v = app.cfg[s] /\ kv[s] = file[s]
        BY <2>3, <2>4, <3>2
      <4> QED
        BY <2>5, <4>1 DEF Cleared
    <3> QED
      BY <3>1, <3>2
  <2> QED
    BY <2>6 DEF v
<1> QED
  BY <1>6, <1>7 DEF kv

(* A configuration that Build finds nothing wrong with.                    *)
Fine(cfg) ==
  /\ cfg["site"] \notin {Empty, BadURL, Blank} /\ cfg["token"] # Empty /\ cfg["dir"] # Empty
  /\ cfg["level"] \in Levels /\ cfg["cap"] # BadNumber

(* What Build makes of the values, and when it finds nothing wrong.        *)
LEMMA BuildFine ==
  ASSUME NEW kv
  PROVE  LET cfg == Build(kv).cfg
         IN  /\ cfg = [s \in Settings |-> IF kv[s] = Empty THEN Defaults[s] ELSE kv[s]]
             /\ Build(kv).problems = {} <=> Fine(cfg)
<1> DEFINE cfg == [s \in Settings |-> IF kv[s] = Empty THEN Defaults[s] ELSE kv[s]]
<1>1. Build(kv).cfg = cfg
  BY DEF Build
<1> HIDE DEF cfg
<1>2. Build(kv).problems =
         {"missing" : s \in {s \in {"site", "token", "dir"} : cfg[s] = Empty}}
           \cup {"invalid" : s \in {s \in {"site"} : ~URLRequestURI(cfg[s])}}
           \cup {"invalid" : s \in {s \in {"level"} : ~OneOf(Levels, cfg[s])}}
           \cup {"invalid" : s \in {s \in {"cap"} : cfg[s] = BadNumber}}
  BY DEF Build, cfg
<1>3. Build(kv).problems = {} <=> Fine(cfg)
  BY <1>2 DEF Fine, URLRequestURI, OneOf
<1> QED
  BY <1>1, <1>3 DEF cfg

(* A configuration is loaded of good files only, and made of the merged    *)
(* map.                                                                    *)
LEMMA LoadIs ==
  ASSUME NEW command, NEW pin, NEW view, NEW e, NEW flags
  PROVE  LET got == LoadCommand(command, pin, view, e, flags)
         IN  /\ ApplyFileLayer(pin, view).bad => got.problems # {}
             /\ ~ApplyFileLayer(pin, view).bad =>
                  got = Build(DirIfUnused(command, Values(command, pin, view, e, flags)))
BY DEF LoadCommand, Values

(* A command gets, of every setting, what its source gives.                *)
LEMMA CommandGets ==
  ASSUME NEW command, NEW pin, NEW view, TypedView(view), NEW e, TypedEnv(e), NEW flags,
         \A s \in Settings : flags[s] # "none", ~ApplyFileLayer(pin, view).bad
  PROVE  LET got == LoadCommand(command, pin, view, e, flags)
         IN  /\ \A s \in Settings :
                  got.cfg[s] = LET v == Source(command, pin, view, e, flags, s)
                               IN  IF v \notin {Empty, "none"} THEN v
                                   ELSE IF s = "dir" /\ WritesNoFiles(command) THEN "." ELSE Defaults[s]
             /\ got.problems = {} <=> Fine(got.cfg)
<1> DEFINE got == LoadCommand(command, pin, view, e, flags)
           kv == Values(command, pin, view, e, flags)
           kv2 == DirIfUnused(command, kv)
           src(s) == Source(command, pin, view, e, flags, s)
<1>1. got = Build(kv2)
  BY LoadIs
<1>2. /\ DOMAIN kv = Settings
      /\ \A s \in Settings : IF src(s) \notin {Empty, "none"} THEN kv[s] = src(s) ELSE kv[s] \in {Empty, Defaults[s]}
      /\ \A s \in Settings \ {"address"} : kv[s] = Cleared(src(s))
  BY ValuesAre
<1> HIDE DEF kv, src, got
<1>3. /\ \A s \in Settings : s # "dir" => kv2[s] = kv[s]
      /\ kv2["dir"] = IF WritesNoFiles(command) /\ kv["dir"] = Empty THEN "." ELSE kv["dir"]
  BY <1>2 DEF DirIfUnused, Settings
<1> HIDE DEF kv2
<1>4. \A s \in Settings : got.cfg[s] = IF kv2[s] = Empty THEN Defaults[s] ELSE kv2[s]
  <2>1. Build(kv2).cfg = [s \in Settings |-> IF kv2[s] = Empty THEN Defaults[s] ELSE kv2[s]]
    BY BuildFine
  <2> QED
    BY <1>1, <2>1
<1>5. ASSUME NEW s \in Settings
      PROVE  got.cfg[s] = IF src(s) \notin {Empty, "none"} THEN src(s)
                          ELSE IF s = "dir" /\ WritesNoFiles(command) THEN "." ELSE Defaults[s]
  <2>1. CASE src(s) \notin {Empty, "none"}
    <3>1. kv[s] = src(s) /\ kv2[s] = src(s)
      BY <1>2, <1>3, <2>1
    <3> QED
      BY <1>4, <2>1, <3>1
  <2>2. CASE src(s) \in {Empty, "none"} /\ s # "dir"
    <3>1. kv2[s] \in {Empty, Defaults[s]}
      BY <1>2, <1>3, <2>2
    <3> QED
      BY <1>4, <2>2, <3>1
  <2>3. CASE src(s) \in {Empty, "none"} /\ s = "dir"
    <3>1. kv["dir"] = Empty
      BY <1>2, <2>3 DEF Cleared
    <3>2. kv2["dir"] = IF WritesNoFiles(command) THEN "." ELSE Empty
      BY <1>3, <3>1
    <3> QED
      BY <1>4, <2>3, <3>2, Texts
  <2> QED
    BY <2>1, <2>2, <2>3
<1>6. got.problems = {} <=> Fine(got.cfg)
  BY <1>1, BuildFine
<1> QED
  BY <1>5, <1>6 DEF got, src

(* Without files, and with the site or the token given nowhere, there is   *)
(* no configuration.                                                       *)
LEMMA NothingToLoad ==
  ASSUME NEW command, NEW pin, NEW view, TypedView(view), NEW e, TypedEnv(e), NEW flags,
         \A s \in Settings : flags[s] # "none", ~RequireConfig(command, pin, view, e, flags)
  PROVE  LoadCommand(command, pin, view, e, flags).problems # {}
<1>1. PICK s \in {"site", "token"} : ~IsSet(command, flags, e, s)
  BY DEF RequireConfig
<1>2. ~pin /\ ~IsRegularFile(view.local) /\ ~IsRegularFile(view.global)
  BY DEF RequireConfig, DiscoverConfigFile
<1>3. s \in FlagsOf(command) /\ s \in Settings /\ Defaults[s] = Empty
  BY DefaultValues DEF FlagsOf, Settings
<1>4. flags[s] = Unset /\ e.legacy[s] = Empty
  BY <1>1, <1>3, Texts DEF IsSet, FlagValue, TypedEnv, IsValue
<1>5. ~ApplyFileLayer(pin, view).bad
  BY <1>2 DEF ApplyFileLayer, LayerIfThere, DefaultApp, Layer
<1>6. OfFiles(pin, view, s) = Unset
  BY <1>2 DEF OfFiles, OfFile, Over, IsRegularFile
<1>7. Source(command, pin, view, e, flags, s) = Empty
  BY <1>3, <1>4, <1>6 DEF Source, Over
<1> DEFINE got == LoadCommand(command, pin, view, e, flags)
<1>8. /\ got.cfg[s] = LET v == Source(command, pin, view, e, flags, s)
                      IN  IF v \notin {Empty, "none"} THEN v
                          ELSE IF s = "dir" /\ WritesNoFiles(command) THEN "." ELSE Defaults[s]
      /\ got.problems = {} <=> Fine(got.cfg)
  BY <1>3, <1>5, CommandGets
<1> HIDE DEF got
<1>9. got.cfg[s] = Empty
  BY <1>3, <1>7, <1>8
<1>10. got.problems # {}
  BY <1>1, <1>8, <1>9 DEF Fine
<1> QED
  BY <1>10 DEF got

(* The library comes to what a command comes to, where white space alone   *)
(* is not the token or the directory.                                      *)
LibraryFits(command, pin, view, e, flags) ==
  LET lib == LoadApp(pin, view, e)
      got == LoadCommand(command, pin, view, e, flags)
  IN  /\ lib.problems = {} <=> got.problems = {} /\ got.cfg["token"] # Blank /\ got.cfg["dir"] # Blank
      /\ lib.problems = {} => \A s \in Settings : lib.cfg[s] \in {got.cfg[s], "none"}

(* The library: the same values, when there are no flags and no variables  *)
(* with a new name.                                                        *)
LEMMA LibraryGets ==
  ASSUME NEW command \in {"crawl", "serve", "mcp"}, NEW pin, NEW view, TypedView(view), NEW e, TypedEnv(e), NEW flags,
         \A s \in Settings : flags[s] = Unset, \A s \in Renamed : e.canonical[s] = Empty
  PROVE  LibraryFits(command, pin, view, e, flags)
<1> USE DEF LibraryFits
<1> DEFINE app == ApplyFileLayer(pin, view)
           lib == LoadApp(pin, view, e)
           got == LoadCommand(command, pin, view, e, flags)
           cfg == EnvParse(ResolveAliases(e), app.cfg)
           src(s) == Source(command, pin, view, e, flags, s)
<1>1. CASE app.bad
  BY <1>1, LoadIs DEF LoadApp
<1>2. CASE ~app.bad
  <2>1. /\ Readable(app.cfg)
        /\ \A s \in Settings : app.cfg[s] = Over(OfFiles(pin, view, s), Defaults[s])
    BY <1>2, FileLayer
  <2>2. Renamed \subseteq Settings
    BY DEF Renamed, Settings
  <2>3. DOMAIN cfg = Settings /\ \A s \in Settings : cfg[s] = IF e.legacy[s] = Empty THEN app.cfg[s] ELSE e.legacy[s]
    BY <2>2 DEF EnvParse, ResolveAliases, TypedEnv
  <2>4. \A s \in Settings : src(s) = cfg[s] /\ flags[s] # "none"
    BY <2>1, <2>3, Texts DEF Source, Over, TypedEnv, IsValue, Unset
  <2>5. /\ \A s \in Settings : got.cfg[s] = IF src(s) \notin {Empty, "none"} THEN src(s) ELSE Defaults[s]
        /\ got.problems = {} <=> Fine(got.cfg)
    <3>1. ~WritesNoFiles(command) /\ \A s \in Settings : flags[s] # "none"
      BY <2>4 DEF WritesNoFiles
    <3>2. /\ \A s \in Settings :
                  got.cfg[s] = LET v == Source(command, pin, view, e, flags, s)
                               IN  IF v \notin {Empty, "none"} THEN v
                                   ELSE IF s = "dir" /\ WritesNoFiles(command) THEN "." ELSE Defaults[s]
          /\ got.problems = {} <=> Fine(got.cfg)
      BY <1>2, <3>1, CommandGets
    <3> HIDE DEF got
    <3> QED
      BY <3>1, <3>2
  <2>6. lib = IF cfg["cap"] = BadNumber THEN [problems |-> {"invalid"}, cfg |-> Defaults]
              ELSE [problems |-> ValidateApp(cfg), cfg |-> ToConfig(cfg)]
    BY <1>2 DEF LoadApp
  <2>7. ValidateApp(cfg) = {} <=>
          /\ cfg["site"] # Empty /\ cfg["token"] \notin {Empty, Blank} /\ cfg["dir"] \notin {Empty, Blank}
          /\ cfg["site"] \notin {BadURL, Blank} /\ cfg["level"] \in Levels \cup {Empty}
    <3>1. \A v : Trim(v) = Empty <=> v \in {Empty, Blank}
      BY DEF Trim
    <3>2. ValidateApp(cfg) = {} <=>
            /\ \A s \in {"site", "token", "dir"} : Trim(cfg[s]) # Empty
            /\ Trim(cfg["site"]) # Empty => cfg["site"] \notin {BadURL, Blank}
            /\ cfg["level"] \in Levels \cup {Empty}
      BY DEF ValidateApp, URLRequestURI, OneOf
    <3> QED
      BY <3>1, <3>2
  <2>8. \A s \in Settings : s # "apps" => cfg[s] # "none"
    BY <2>1, <2>3 DEF Readable, TypedEnv, IsValue
  <2>9. cfg["level"] # Empty /\ cfg["cap"] # Empty
    BY <2>1, <2>3, Texts DEF Readable, Levels, Settings
  <2> HIDE DEF cfg, lib, got, src
  <2>10. \A s \in Settings : s # "apps" => got.cfg[s] = IF cfg[s] # Empty THEN cfg[s] ELSE Defaults[s]
    BY <2>4, <2>5, <2>8
  <2>11. lib.problems = {} <=>
           /\ cfg["site"] # Empty /\ cfg["token"] \notin {Empty, Blank} /\ cfg["dir"] \notin {Empty, Blank}
           /\ cfg["site"] \notin {BadURL, Blank} /\ cfg["level"] \in Levels /\ cfg["cap"] # BadNumber
    BY <2>6, <2>7, <2>9
  <2>12. lib.problems = {} <=> got.problems = {} /\ got.cfg["token"] # Blank /\ got.cfg["dir"] # Blank
    <3>1. /\ got.cfg["site"] = cfg["site"] /\ got.cfg["token"] = cfg["token"] /\ got.cfg["dir"] = cfg["dir"]
          /\ got.cfg["level"] = cfg["level"] /\ got.cfg["cap"] = cfg["cap"]
      BY <2>9, <2>10, DefaultValues DEF Settings
    <3> QED
      BY <2>5, <2>11, <3>1 DEF Fine
  <2>13. ASSUME lib.problems = {}, NEW s \in Settings PROVE lib.cfg[s] \in {got.cfg[s], "none"}
    <3>1. lib.cfg = ToConfig(cfg)
      BY <2>6, <2>13
    <3>2. /\ s # "address" => lib.cfg[s] = cfg[s]
          /\ s = "address" => lib.cfg[s] = IF cfg[s] = Empty THEN Defaults[s] ELSE cfg[s]
      BY <2>3, <3>1 DEF ToConfig
    <3>3. CASE s = "apps"
      <4>1. cfg[s] # Empty
        BY <2>1, <2>3, <3>3 DEF Readable
      <4> QED
        BY <2>4, <2>5, <3>2, <3>3, <4>1
    <3>4. CASE s \in {"site", "token", "dir", "level", "cap", "address"}
      BY <2>9, <2>10, <2>11, <2>13, <3>2, <3>4, DefaultValues
    <3>5. CASE s = "mode"
      BY <2>10, <3>2, <3>5, DefaultValues
    <3> QED
      BY <3>3, <3>4, <3>5 DEF Settings
  <2> QED
    BY <2>12, <2>13 DEF lib, got
<1> QED
  BY <1>1, <1>2

(* What gojira init writes is what a command without flags and variables   *)
(* gets, if it is in the local file, or in the global one and no other.    *)
Complete(doc) ==
  /\ DOMAIN doc = Settings /\ doc["mode"] = Unset
  /\ doc["cap"] = "500" /\ doc["apps"] = "GitHub" /\ doc["level"] = "info"
  /\ \A s \in {"site", "token", "dir", "address"} : IsValue(doc[s])
  /\ \A s \in {"site", "token", "address"} : doc[s] # Empty
  /\ doc["site"] # Blank

(* A document with all that init asks for is one that validates.           *)
LEMMA CompleteDoc == ASSUME NEW doc, Complete(doc) PROVE IsDoc(doc) /\ ValidateRaw(doc)
<1>1. IsDoc(doc)
  BY Texts DEF Complete, IsDoc, IsValue, Settings
<1>2. ValidateRaw(doc)
  BY Texts DEF Complete, ValidateRaw, Levels, BadNumber
<1> QED
  BY <1>1, <1>2

Document(doc) == [kind |-> "document", doc |-> doc]
Alone(view) == [view EXCEPT !.local.kind = "absent"]

(* A complete document, alone in its place, is read back as it was         *)
(* written.                                                                *)
LEMMA ReadBack ==
  ASSUME NEW pin, ~pin, NEW view, TypedView(view), NEW doc, Complete(doc),
         view.local = Document(doc) \/ (view.local.kind = "absent" /\ view.global = Document(doc)),
         LoadApp(pin, Alone(view), NoEnv).problems # {"invalid"}
  PROVE  LET got == LoadCommand("get", pin, view, NoEnv, NoFlags)
         IN  /\ got.problems = {} <=> doc["site"] # BadURL
             /\ \A s \in Settings \ {"mode"} : got.cfg[s] = IF s = "dir" /\ doc[s] = Empty THEN "." ELSE doc[s]
<1> DEFINE written == Document(doc)
           app == ApplyFileLayer(pin, view)
           first == LayerIfThere(view.global, DefaultApp)
           got == LoadCommand("get", pin, view, NoEnv, NoFlags)
<1>1. written.kind = "document" /\ written.doc = doc /\ IsDoc(doc) /\ ValidateRaw(doc)
  BY CompleteDoc DEF Document
<1>2. view.local = written \/ (view.local.kind = "absent" /\ view.global = written)
  OBVIOUS
<1> HIDE DEF written
<1>3. app = LayerIfThere(view.local, first)
  BY DEF ApplyFileLayer
<1> HIDE DEF app
<1>4. ~first.bad
  <2> DEFINE alone == Alone(view)
  <2>1. alone.global = view.global /\ alone.local.kind = "absent"
    BY DEF TypedView, IsFile, Alone
  <2> HIDE DEF alone
  <2>2. ApplyFileLayer(pin, alone) = first
    BY <2>1 DEF ApplyFileLayer, LayerIfThere, IsRegularFile
  <2>3. LoadApp(pin, alone, NoEnv).problems # {"invalid"}
    BY DEF alone
  <2> QED
    BY <2>2, <2>3 DEF LoadApp
<1> HIDE DEF first
<1>5. ~app.bad
  <2>1. CASE view.local = written
    BY <1>1, <1>3, <1>4, <2>1 DEF LayerIfThere, IsRegularFile, ApplyYAMLReader, Layer
  <2>2. CASE view.local.kind = "absent"
    BY <1>3, <1>4, <2>2 DEF LayerIfThere, IsRegularFile
  <2> QED
    BY <1>2, <2>1, <2>2
<1>6. \A s \in Settings \ {"mode"} : doc[s] # Unset /\ doc[s] # "none"
  BY Texts DEF Complete, IsValue, Settings
<1>7. \A s \in Settings \ {"mode"} : OfFiles(pin, view, s) = doc[s]
  <2>1. CASE view.local = written
    BY <1>1, <1>6, <2>1 DEF OfFiles, OfFile, Over
  <2>2. CASE view.local.kind = "absent" /\ view.global = written
    BY <1>1, <2>2 DEF OfFiles, OfFile, Over
  <2> QED
    BY <1>2, <2>1, <2>2
<1>8. TypedEnv(NoEnv) /\ \A s \in Settings : NoEnv.legacy[s] = Empty /\ NoFlags[s] = Unset /\ NoFlags[s] # "none"
  BY Texts DEF NoEnv, NoFlags, TypedEnv, IsValue, Unset
<1>9. \A s \in Settings \ {"mode"} : Source("get", pin, view, NoEnv, NoFlags, s) = doc[s]
  BY <1>6, <1>7, <1>8 DEF Source, Over
<1>10. /\ \A s \in Settings :
              got.cfg[s] = LET v == Source("get", pin, view, NoEnv, NoFlags, s)
                           IN  IF v \notin {Empty, "none"} THEN v
                               ELSE IF s = "dir" /\ WritesNoFiles("get") THEN "." ELSE Defaults[s]
       /\ got.problems = {} <=> Fine(got.cfg)
  <2>1. \A s \in Settings : NoFlags[s] # "none"
    BY <1>8
  <2>2. TypedEnv(NoEnv)
    BY <1>8
  <2> QED
    BY <1>5, <2>1, <2>2, CommandGets DEF app
<1> HIDE DEF got
<1>11. \A s \in Settings \ {"mode"} : got.cfg[s] = IF doc[s] # Empty THEN doc[s] ELSE IF s = "dir" THEN "." ELSE Defaults[s]
  BY <1>6, <1>9, <1>10 DEF WritesNoFiles
<1>12. \A s \in Settings \ {"mode", "dir"} : doc[s] # Empty
  BY Texts DEF Complete, Settings
<1>13. \A s \in Settings \ {"mode"} : got.cfg[s] = IF s = "dir" /\ doc[s] = Empty THEN "." ELSE doc[s]
  BY <1>11, <1>12
<1>14. /\ got.cfg["site"] = doc["site"] /\ doc["site"] # Empty
       /\ got.cfg["token"] # Empty /\ got.cfg["dir"] # Empty
       /\ got.cfg["level"] \in Levels /\ got.cfg["cap"] # BadNumber
  BY <1>13, Texts DEF Complete, Settings, Levels, BadNumber
<1>15. doc["site"] # Blank
  BY DEF Complete
<1>16. got.problems = {} <=> doc["site"] # BadURL
  BY <1>10, <1>14, <1>15 DEF Fine
<1> QED
  BY <1>13, <1>16 DEF got

-----------------------------------------------------------------------------
(* What a process has in hand, of the files and variables as they were.    *)
ToldBy(h, e, s) ==
  IF s \in InitFlags THEN Answer(h.args.flags, e, h.args.answers, s) ELSE Defaults[s]
DocOf(h, e) == MarshalAppYAML([s \in Settings |-> ToldBy(h, e, s)])
Wrote(h)  == h.args.name = "init" /\ (h.at = "mapped" \/ (h.at = "exited" /\ h.code = 0))
HasDoc(h) == Wrote(h) \/ (h.args.name = "init" /\ h.at \in {"opening", "writing"})
Before == {"new", "guarded", "refused", "killed"}
Read(h, e) ==
  LET got == LoadCommand(h.args.name, h.args.pin, h.view, e, h.args.flags)
  IN  h.loaded.cfg = got.cfg /\ (h.loaded.bad <=> got.problems # {})

Right(h, e) ==
  /\ \A s \in Settings : h.args.flags[s] # "none"
  /\ h.args.name = "init" =>
       DOMAIN h.args.answers = Settings /\ \A s \in Settings : IsValue(h.args.answers[s])
  /\ TypedView(h.view)
  /\ h.args.name # "init" /\ h.at \notin Before => Read(h, e)
  /\ h.at = "refused" => ~RequireConfig(h.args.name, h.args.pin, h.view, e, h.args.flags)
  /\ HasDoc(h) => Complete(h.doc) /\ h.doc = DocOf(h, e)

MachineInv ==
  /\ ProcessInv /\ TypedEnv(env) /\ TypedView(files)
  /\ \A p \in Procs : Right(proc[p], env)

(* At the beginning nothing has been loaded or is to be written.           *)
LEMMA InitMachine == Init => MachineInv
<1> SUFFICES ASSUME Init PROVE MachineInv
  OBVIOUS
<1>1. PICK s \in Scenarios :
        files = s.files /\ env = s.env /\ proc = [p \in Procs |-> NewProc(s.procs[p], s.files)]
  BY DEF Init
<1>2. TypedView(files) /\ TypedEnv(env)
  BY <1>1, ScenarioAssumption DEF TypedView, TypedEnv
<1>3. ASSUME NEW p \in Procs PROVE Right(proc[p], env)
  <2> DEFINE h == proc[p]
  <2>1. h.at = "new" /\ h.args = s.procs[p] /\ h.view = files
    BY <1>1 DEF NewProc
  <2>2. /\ \A x \in Settings : s.procs[p].flags[x] # "none"
        /\ s.procs[p].name = "init" =>
             DOMAIN s.procs[p].answers = Settings /\ \A x \in Settings : IsValue(s.procs[p].answers[x])
    BY ScenarioAssumption
  <2> HIDE DEF h
  <2>3. Right(h, env)
    BY <1>2, <2>1, <2>2 DEF Right, HasDoc, Wrote, Before
  <2> QED
    BY <2>3 DEF h
<1> QED
  BY <1>2, <1>3, InitProcess DEF MachineInv

(* A step of one process, and one that keeps what the process has in hand. *)
LEMMA OneRight ==
  ASSUME MachineInv, ProcessInv', UNCHANGED env, TypedView(files'), NEW p \in Procs, NEW h,
         proc' = [proc EXCEPT ![p] = h], Right(h, env)
  PROVE  MachineInv'
<1>1. DOMAIN proc = Procs /\ \A q \in Procs : proc'[q] = IF q = p THEN h ELSE proc[q]
  BY DEF MachineInv, ProcessInv
<1>2. \A q \in Procs : Right(proc'[q], env')
  BY <1>1 DEF MachineInv
<1>3. TypedEnv(env') /\ TypedView(files')
  BY DEF MachineInv
<1> QED
  BY <1>2, <1>3 DEF MachineInv

Kept(h, g) ==
  /\ h.args = g.args /\ h.view = g.view /\ h.loaded = g.loaded /\ h.doc = g.doc
  /\ h.at # "refused" /\ (h.args.name # "init" /\ h.at \notin Before => g.at \notin Before)
  /\ HasDoc(h) => HasDoc(g)

(* A step of one process keeps the invariant if what the process holds     *)
(* stays or is right.                                                      *)
LEMMA KeepsRight ==
  ASSUME MachineInv, ProcessInv', UNCHANGED env, TypedView(files'), NEW p \in Procs, NEW h,
         proc' = [proc EXCEPT ![p] = h], Kept(h, proc[p])
  PROVE  MachineInv'
<1>1. Right(proc[p], env)
  BY DEF MachineInv
<1>2. ToldBy(h, env, "x") = ToldBy(h, env, "x") /\ DocOf(h, env) = DocOf(proc[p], env)
  BY DEF DocOf, ToldBy, Kept
<1>3. h.args.name # "init" /\ h.at \notin Before => Read(h, env)
  BY <1>1 DEF Right, Read, Kept
<1>4. Right(h, env)
  BY <1>1, <1>2, <1>3 DEF Right, Kept
<1> QED
  BY <1>4, OneRight

(* The guard reads the files and the environment of its process.           *)
LEMMA GuardReads == ASSUME MachineInv, ProcessInv', NEW p \in Procs, Guard(p) PROVE MachineInv'
<1> DEFINE at == IF RequireConfig(Name(p), Pin(p), files, env, Flags(p)) THEN "guarded" ELSE "refused"
           h == [proc[p] EXCEPT !.view = files, !.at = at, !.code = 1]
<1>1. Sound(proc[p]) /\ Right(proc[p], env) /\ TypedView(files) /\ DOMAIN proc = Procs
  BY DEF MachineInv, ProcessInv
<1>2. proc[p].args.name # "init" /\ UNCHANGED <<files, env>>
  BY DEF Guard, Name
<1>3. proc' = [proc EXCEPT ![p] = h]
  BY <1>1 DEF Guard
<1>4. /\ at \in {"guarded", "refused"}
      /\ at = "refused" => ~RequireConfig(proc[p].args.name, proc[p].args.pin, files, env, proc[p].args.flags)
  BY DEF Name, Pin, Flags
<1> HIDE DEF at
<1>5. h.at = at /\ h.args = proc[p].args /\ h.view = files
  BY <1>1 DEF Sound, Shape, ProcFields
<1> HIDE DEF h
<1>6. Right(h, env)
  BY <1>1, <1>2, <1>4, <1>5 DEF Right, HasDoc, Wrote, Before
<1> QED
  BY <1>1, <1>2, <1>3, <1>6, OneRight

(* What is loaded is what LoadCommand makes of the files as they are.      *)
LEMMA LoadReads == ASSUME MachineInv, ProcessInv', NEW p \in Procs, Load(p) PROVE MachineInv'
<1> DEFINE got == LoadCommand(Name(p), Pin(p), files, env, Flags(p))
           fine == got.problems = {}
           loaded == [bad |-> ~fine, cfg |-> got.cfg]
           h == [proc[p] EXCEPT !.view = files, !.loaded = loaded, !.at = IF fine THEN "working" ELSE "exited"]
<1>1. Sound(proc[p]) /\ Right(proc[p], env) /\ TypedView(files) /\ DOMAIN proc = Procs
  BY DEF MachineInv, ProcessInv
<1>2. proc[p].at = "guarded" /\ UNCHANGED <<files, env>>
  BY DEF Load
<1>3. proc' = [proc EXCEPT ![p] = h]
  BY <1>1 DEF Load
<1>4. loaded.cfg = got.cfg /\ (loaded.bad <=> got.problems # {})
  OBVIOUS
<1>5. got = LoadCommand(proc[p].args.name, proc[p].args.pin, files, env, proc[p].args.flags)
  BY DEF Name, Pin, Flags
<1> HIDE DEF loaded, got
<1>6. /\ h.at \in {"working", "exited"} /\ h.args = proc[p].args /\ h.view = files /\ h.loaded = loaded
  BY <1>1 DEF Sound, Shape, ProcFields
<1> HIDE DEF h, fine
<1>7. Read(h, env) /\ proc[p].args.name # "init"
  BY <1>1, <1>2, <1>4, <1>5, <1>6 DEF Read, Sound, Stage
<1>8. Right(h, env)
  BY <1>1, <1>2, <1>6, <1>7 DEF Right, HasDoc, Wrote
<1> QED
  BY <1>1, <1>2, <1>3, <1>8, OneRight

(* The other steps of a command change nothing that was loaded.            *)
LEMMA CommandSteps ==
  ASSUME MachineInv, ProcessInv', NEW p \in Procs, Work(p) \/ Signal(p) \/ MapOutcome(p) \/ Exit(p)
  PROVE  MachineInv'
<1>1. Sound(proc[p]) /\ DOMAIN proc = Procs /\ DOMAIN proc[p] = ProcFields /\ TypedView(files)
  BY DEF MachineInv, ProcessInv, Sound, Shape
<1>2. UNCHANGED <<files, env>>
  BY DEF Work, Signal, MapOutcome, Exit
<1>3. ASSUME NEW at, NEW code, NEW signals, NEW result,
             proc' = [proc EXCEPT ![p] = [proc[p] EXCEPT !.at = at, !.code = code, !.signals = signals, !.result = result]],
             at # "refused", at \in Before \/ proc[p].at \notin Before,
             proc[p].args.name = "init" =>
               \/ at = "killed" \/ (at = proc[p].at /\ code = proc[p].code)
               \/ proc[p].at = "mapped"
      PROVE  MachineInv'
  <2> DEFINE h == [proc[p] EXCEPT !.at = at, !.code = code, !.signals = signals, !.result = result]
  <2>1. /\ h.at = at /\ h.code = code /\ h.args = proc[p].args /\ h.view = proc[p].view
        /\ h.loaded = proc[p].loaded /\ h.doc = proc[p].doc
    BY <1>1 DEF ProcFields
  <2>2. proc' = [proc EXCEPT ![p] = h]
    BY <1>3
  <2> HIDE DEF h
  <2>3. HasDoc(h) => HasDoc(proc[p])
    <3>1. CASE proc[p].args.name # "init"
      BY <2>1, <3>1 DEF HasDoc, Wrote
    <3>2. CASE at = "killed"
      BY <2>1, <3>2 DEF HasDoc, Wrote
    <3>3. CASE at = proc[p].at /\ code = proc[p].code
      BY <2>1, <3>3 DEF HasDoc, Wrote
    <3>4. CASE proc[p].at = "mapped"
      BY <2>1, <3>4 DEF HasDoc, Wrote
    <3> QED
      BY <1>3, <3>1, <3>2, <3>3, <3>4
  <2>4. Kept(h, proc[p])
    BY <1>3, <2>1, <2>3 DEF Kept
  <2> QED
    BY <1>1, <1>2, <2>2, <2>4, KeepsRight
<1>4. CASE Work(p)
  <2>1. proc[p].at = "working" /\ proc[p].args.name # "init"
    BY <1>1, <1>4 DEF Work, Sound, Stage
  <2>2. \E r : proc' = [proc EXCEPT ![p].at = "returned", ![p].result = r]
    <3>1. ASSUME NEW e, proc' = [proc EXCEPT ![p].at = "returned", ![p].result.err = e]
          PROVE  proc' = [proc EXCEPT ![p].at = "returned", ![p].result = [proc[p].result EXCEPT !.err = e]]
      BY <1>1, <3>1 DEF ProcFields
    <3> QED
      BY <1>4, <3>1 DEF Work
  <2>3. PICK r : proc' = [proc EXCEPT ![p].at = "returned", ![p].result = r]
    BY <2>2
  <2>4. proc' = [proc EXCEPT ![p] = [proc[p] EXCEPT !.at = "returned", !.code = proc[p].code,
                                       !.signals = proc[p].signals, !.result = r]]
    BY <1>1, <2>3 DEF ProcFields
  <2> QED
    BY <1>3, <2>1, <2>4 DEF Before
<1>5. CASE Signal(p)
  <2> DEFINE at == IF proc[p].signals = 1 THEN "killed" ELSE proc[p].at
             code == IF proc[p].signals = 1 THEN 130 ELSE proc[p].code
  <2>1. proc' = [proc EXCEPT ![p].signals = proc[p].signals + 1, ![p].at = at, ![p].code = code]
    BY <1>1, <1>5 DEF Signal, ProcFields
  <2>2. at = "killed" \/ (at = proc[p].at /\ code = proc[p].code)
    OBVIOUS
  <2>3. proc[p].at # "refused"
    BY <1>5 DEF Signal
  <2> HIDE DEF at, code
  <2>4. PICK signals : proc' = [proc EXCEPT ![p].signals = signals, ![p].at = at, ![p].code = code]
    BY <2>1
  <2>5. proc' = [proc EXCEPT ![p] = [proc[p] EXCEPT !.at = at, !.code = code,
                                       !.signals = signals, !.result = proc[p].result]]
    BY <1>1, <2>4 DEF ProcFields
  <2> QED
    <3>1. at # "refused" /\ (at \in Before \/ proc[p].at \notin Before)
      BY <1>5, <2>2, <2>3 DEF Before, Signal
    <3> QED
      BY <1>3, <2>2, <2>5, <3>1
<1>6. ASSUME NEW at, NEW code, proc' = [proc EXCEPT ![p].at = at, ![p].code = code],
             at \in {"mapped", "exited"}, proc[p].at \in {"returned", "mapped"},
             proc[p].args.name = "init" => proc[p].at = "mapped"
      PROVE  MachineInv'
  <2>1. proc' = [proc EXCEPT ![p] = [proc[p] EXCEPT !.at = at, !.code = code,
                                       !.signals = proc[p].signals, !.result = proc[p].result]]
    BY <1>1, <1>6 DEF ProcFields
  <2> QED
    <3>1. at # "refused" /\ proc[p].at \notin Before
      BY <1>6 DEF Before
    <3>2. PICK signals, result :
            proc' = [proc EXCEPT ![p] = [proc[p] EXCEPT !.at = at, !.code = code, !.signals = signals, !.result = result]]
      BY <2>1
    <3>3. proc[p].args.name = "init" => proc[p].at = "mapped"
      BY <1>6
    <3> QED
      BY <1>3, <3>1, <3>2, <3>3
<1>7. CASE MapOutcome(p)
  <2>1. proc[p].at = "returned" /\ proc[p].args.name # "init"
    BY <1>1, <1>7 DEF MapOutcome, Sound, Stage
  <2>2. \E code : proc' = [proc EXCEPT ![p].at = "mapped", ![p].code = code]
    BY <1>7 DEF MapOutcome
  <2> QED
    BY <1>6, <2>1, <2>2
<1>8. CASE Exit(p)
  BY <1>6, <1>8 DEF Exit, Ends
<1> QED
  BY <1>4, <1>5, <1>7, <1>8

(* What init is told is complete: what is lost of it ends init.            *)
LEMMA ToldComplete ==
  ASSUME NEW h, NEW e, Right(h, e), TypedEnv(e), h.args.name = "init", NEW lost \in BOOLEAN,
         \A s \in InitFlags \ {"dir"} :
           Answer(h.args.flags, e, [h.args.answers EXCEPT !["token"] = IF lost THEN Empty ELSE @], s) # Empty
  PROVE  LET answers == [h.args.answers EXCEPT !["token"] = IF lost THEN Empty ELSE @]
             got == [s \in InitFlags |-> Answer(h.args.flags, e, answers, s)]
             doc == MarshalAppYAML([s \in Settings |-> IF s \in InitFlags THEN got[s] ELSE Defaults[s]])
         IN  Complete(doc) /\ doc = DocOf(h, e)
<1> DEFINE answers == [h.args.answers EXCEPT !["token"] = IF lost THEN Empty ELSE @]
           got == [s \in InitFlags |-> Answer(h.args.flags, e, answers, s)]
           app == [s \in Settings |-> IF s \in InitFlags THEN got[s] ELSE Defaults[s]]
           doc == MarshalAppYAML(app)
<1>1. /\ DOMAIN h.args.answers = Settings /\ \A s \in Settings : IsValue(h.args.answers[s])
      /\ \A s \in Settings : h.args.flags[s] # "none" /\ IsValue(e.legacy[s])
  BY DEF Right, TypedEnv
<1>2. "token" \in Settings /\ InitFlags \subseteq Settings
  BY DEF Settings, InitFlags
<1>3. /\ \A s \in Settings : s # "token" => answers[s] = h.args.answers[s]
      /\ answers["token"] \in {Empty, h.args.answers["token"]}
  BY <1>1, <1>2
<1> HIDE DEF answers
<1>4. ASSUME NEW s \in InitFlags
      PROVE  /\ IsValue(ToldBy(h, e, s)) /\ got[s] = ToldBy(h, e, s)
             /\ s # "dir" => got[s] # Empty
             /\ s = "site" => got[s] # Blank
  <2>1. got[s] = Answer(h.args.flags, e, answers, s) /\ ToldBy(h, e, s) = Answer(h.args.flags, e, h.args.answers, s)
    BY DEF ToldBy
  <2>2. s # "dir" => got[s] # Empty
    BY <2>1 DEF answers
  <2> HIDE DEF got
  <2>3. IsValue(Defaults[s]) /\ IsValue(Empty)
    BY <1>2, DefaultSettings, Texts DEF IsValue
  <2>t. \A v : Trim(v) \in {v, Empty}
    BY DEF Trim
  <2>4. IsValue(ToldBy(h, e, s))
    BY <1>1, <1>2, <2>1, <2>3, <2>t DEF Answer, Prompted, InitValue, IsValue
  <2>6. s = "site" => got[s] # Blank
    <3>1. \A v : Trim(v) # Empty => Trim(v) # Blank
      BY DEF Trim
    <3>2. CASE s = "site"
      <4>1. Defaults[s] = Empty
        BY <1>2, <3>2, DefaultValues
      <4> QED
        BY <2>1, <2>2, <3>1, <3>2, <4>1 DEF Answer, Prompted, InitValue
    <3> QED
      BY <3>2
  <2>5. got[s] = ToldBy(h, e, s)
    <3>1. CASE answers[s] = h.args.answers[s]
      BY <2>1, <3>1 DEF Answer
    <3>2. CASE answers[s] # h.args.answers[s]
      <4>1. s = "token" /\ answers[s] = Empty /\ Defaults[s] = Empty
        BY <1>2, <1>3, <3>2, DefaultValues
      <4>2. Trim(answers[s]) = Empty
        BY <4>1 DEF Trim
      <4> QED
        BY <2>1, <2>2, <4>1, <4>2 DEF Answer
    <3> QED
      BY <3>1, <3>2
  <2> QED
    BY <2>2, <2>4, <2>5, <2>6
<1>5. \A s \in Settings : app[s] = ToldBy(h, e, s)
  BY <1>2, <1>4 DEF ToldBy
<1>6. doc = DocOf(h, e)
  BY <1>5 DEF DocOf, MarshalAppYAML
<1>7. Complete(doc)
  <2>1. /\ DOMAIN doc = Settings
        /\ \A s \in Settings : doc[s] = IF s = "mode" /\ app[s] = Empty THEN Unset ELSE app[s]
    BY DEF MarshalAppYAML
  <2>2. \A s \in Settings \ InitFlags : app[s] = Defaults[s]
    OBVIOUS
  <2>3. \A s \in InitFlags : IsValue(app[s]) /\ (s # "dir" => app[s] # Empty) /\ (s = "site" => app[s] # Blank)
    BY <1>2, <1>4
  <2> HIDE DEF doc, app
  <2>4. doc["mode"] = Unset /\ doc["cap"] = "500" /\ doc["apps"] = "GitHub" /\ doc["level"] = "info"
    BY <2>1, <2>2, DefaultValues DEF Settings, InitFlags
  <2> QED
    BY <2>1, <2>3, <2>4 DEF Complete, Settings, InitFlags
<1> QED
  BY <1>6, <1>7 DEF answers

(* What init is about to write is complete, and what it was told.          *)
LEMMA InitSteps ==
  ASSUME MachineInv, ProcessInv', NEW p \in Procs,
         InitBegins(p) \/ InitAsks(p) \/ InitOpens(p) \/ InitWrites(p) \/ Kill(p)
  PROVE  MachineInv'
<1>1. /\ Sound(proc[p]) /\ DOMAIN proc = Procs /\ DOMAIN proc[p] = ProcFields /\ TypedView(files)
      /\ Right(proc[p], env) /\ TypedEnv(env)
  BY DEF MachineInv, ProcessInv, Sound, Shape
<1>2. Name(p) = "init" /\ proc[p].args.name = "init" /\ UNCHANGED env
  BY <1>1 DEF InitBegins, InitAsks, InitOpens, InitWrites, Kill, Name, Sound, Stage
<1> DEFINE Moves(at, code) == proc' = [proc EXCEPT ![p].at = at, ![p].code = code]
<1>3. ASSUME NEW at, NEW code, Moves(at, code), TypedView(files'),
             at # "refused", at \in {"opening", "writing", "mapped"} => proc[p].at \in {"opening", "writing"},
             at = "exited" => code # 0
      PROVE  MachineInv'
  <2> DEFINE h == [proc[p] EXCEPT !.at = at, !.code = code]
  <2>1. /\ h.at = at /\ h.code = code /\ h.args = proc[p].args /\ h.view = proc[p].view
        /\ h.loaded = proc[p].loaded /\ h.doc = proc[p].doc
    BY <1>1 DEF ProcFields
  <2>2. proc' = [proc EXCEPT ![p] = h]
    BY <1>1, <1>3
  <2> HIDE DEF h
  <2>3. HasDoc(h) => HasDoc(proc[p])
    BY <1>2, <1>3, <2>1 DEF HasDoc, Wrote
  <2>4. Kept(h, proc[p])
    BY <1>2, <1>3, <2>1, <2>3 DEF Kept
  <2> QED
    BY <1>2, <1>3, <2>2, <2>4, KeepsRight
<1>4. ASSUME Ends(p, 1), TypedView(files') PROVE MachineInv'
  <2>1. Moves("exited", 1)
    BY <1>4 DEF Ends
  <2> HIDE DEF Moves
  <2> QED
    BY <1>3, <1>4, <2>1
<1>5. ASSUME NEW at \in {"asking", "opening", "writing"}, Goes(p, at), TypedView(files'),
             at = "asking" \/ proc[p].at \in {"opening", "writing"}
      PROVE  MachineInv'
  <2>1. Moves(at, proc[p].code)
    BY <1>1, <1>5 DEF Goes, ProcFields
  <2> HIDE DEF Moves
  <2> QED
    BY <1>3, <1>5, <2>1
<1>6. CASE InitBegins(p)
  <2>1. files' = files /\ (Ends(p, 1) \/ Goes(p, "asking"))
    BY <1>6 DEF InitBegins
  <2> QED
    BY <1>1, <1>4, <1>5, <2>1
<1>7. CASE InitAsks(p)
  <2>1. files' = files
    BY <1>7 DEF InitAsks
  <2>2. PICK lost \in BOOLEAN :
          LET answers == [proc[p].args.answers EXCEPT !["token"] = IF lost THEN Empty ELSE @]
              got == [s \in InitFlags |-> Answer(proc[p].args.flags, env, answers, s)]
          IN  IF \E s \in InitFlags \ {"dir"} : got[s] = Empty THEN Ends(p, 1)
              ELSE proc' = [proc EXCEPT ![p].at = "opening",
                     ![p].doc = MarshalAppYAML([s \in Settings |-> IF s \in InitFlags THEN got[s] ELSE Defaults[s]])]
    BY <1>7 DEF InitAsks, Flags
  <2> DEFINE answers == [proc[p].args.answers EXCEPT !["token"] = IF lost THEN Empty ELSE @]
             got == [s \in InitFlags |-> Answer(proc[p].args.flags, env, answers, s)]
             doc == MarshalAppYAML([s \in Settings |-> IF s \in InitFlags THEN got[s] ELSE Defaults[s]])
  <2>3. CASE Ends(p, 1)
    BY <1>1, <1>4, <2>1, <2>3
  <2>4. CASE ~Ends(p, 1)
    <3>1. \A s \in InitFlags \ {"dir"} : got[s] # Empty
      BY <2>2, <2>4
    <3>2. \A s \in InitFlags \ {"dir"} : Answer(proc[p].args.flags, env, answers, s) # Empty
      BY <3>1
    <3>3. proc' = [proc EXCEPT ![p].at = "opening", ![p].doc = doc]
      BY <2>2, <3>1
    <3>4. Complete(doc) /\ doc = DocOf(proc[p], env)
      BY <1>1, <1>2, <3>2, ToldComplete
    <3> HIDE DEF doc
    <3> DEFINE h == [proc[p] EXCEPT !.at = "opening", !.doc = doc]
    <3>5. proc' = [proc EXCEPT ![p] = h]
      BY <1>1, <3>3
    <3>6. h.at = "opening" /\ h.doc = doc /\ h.args = proc[p].args /\ h.view = proc[p].view
      BY <1>1 DEF ProcFields
    <3> HIDE DEF h
    <3>7. DocOf(h, env) = DocOf(proc[p], env)
      BY <3>6 DEF DocOf, ToldBy
    <3>8. Right(h, env)
      BY <1>1, <1>2, <3>4, <3>6, <3>7 DEF Right
    <3> QED
      BY <1>1, <1>2, <2>1, <3>5, <3>8, OneRight
  <2> QED
    BY <2>3, <2>4
<1>8. ASSUME NEW kind \in FileKinds, NEW doc, IsDoc(doc), files' = [files EXCEPT ![Target(p)] = [kind |-> kind, doc |-> doc]]
      PROVE  TypedView(files')
  <2> DEFINE file == [kind |-> kind, doc |-> doc]
  <2>1. IsFile(file)
    BY <1>8 DEF IsFile
  <2>2. Target(p) \in DOMAIN files
    BY <1>1 DEF Target, TypedView
  <2> HIDE DEF file
  <2>3. files' = [files EXCEPT ![Target(p)] = file]
    BY <1>8 DEF file
  <2> QED
    BY <1>1, <2>1, <2>2, <2>3 DEF TypedView
<1>9. CASE InitOpens(p)
  <2>1. CASE Ends(p, 1) /\ UNCHANGED files
    BY <1>1, <1>4, <2>1
  <2>2. CASE files' = [files EXCEPT ![Target(p)] = [kind |-> "blank", doc |-> Defaults]] /\ Goes(p, "writing")
    <3>1. TypedView(files')
      BY <1>8, <2>2, DefaultDoc DEF FileKinds
    <3>2. proc[p].at = "opening"
      BY <1>9 DEF InitOpens
    <3> QED
      BY <1>5, <2>2, <3>1, <3>2
  <2> QED
    BY <1>9, <2>1, <2>2 DEF InitOpens
<1>10. CASE InitWrites(p)
  <2>1. proc[p].at = "writing" /\ Complete(proc[p].doc) /\ IsDoc(proc[p].doc)
    BY <1>1, <1>2, <1>10, CompleteDoc DEF InitWrites, Right, HasDoc
  <2>2. CASE /\ files' = [files EXCEPT ![Target(p)] = [kind |-> "document", doc |-> proc[p].doc]]
             /\ proc' = [proc EXCEPT ![p].at = "mapped", ![p].code = 0]
    <3>1. TypedView(files')
      BY <1>8, <2>1, <2>2 DEF FileKinds
    <3>2. Moves("mapped", 0)
      BY <2>2
    <3> HIDE DEF Moves
    <3> QED
      BY <1>3, <2>1, <3>1, <3>2
  <2>3. ASSUME NEW part \in Parts(proc[p].doc), files' = [files EXCEPT ![Target(p)] = part], Ends(p, 1)
        PROVE  MachineInv'
    <3>1. PICK kind, doc : part = [kind |-> kind, doc |-> doc] /\ kind \in FileKinds /\ IsDoc(doc)
      <4>1. CASE part \in {[kind |-> k, doc |-> Defaults] : k \in {"blank", "broken"}}
        BY <4>1, DefaultDoc DEF FileKinds
      <4>2. ASSUME NEW n \in 0 .. Len(InYAML),
                   part = [kind |-> "document",
                     doc |-> [s \in Settings |-> IF \E i \in 1 .. n : InYAML[i] = s THEN proc[p].doc[s] ELSE Unset]]
            PROVE  \E kind, doc : part = [kind |-> kind, doc |-> doc] /\ kind \in FileKinds /\ IsDoc(doc)
        <5> DEFINE cut == [s \in Settings |-> IF \E i \in 1 .. n : InYAML[i] = s THEN proc[p].doc[s] ELSE Unset]
        <5>1. DOMAIN cut = Settings /\ \A s \in Settings : cut[s] \in {proc[p].doc[s], Unset}
          OBVIOUS
        <5>2. part = [kind |-> "document", doc |-> cut]
          BY <4>2
        <5> HIDE DEF cut
        <5>3. IsDoc(cut)
          BY <2>1, <5>1, Texts DEF IsDoc, Settings
        <5> QED
          BY <5>2, <5>3 DEF FileKinds
      <4> QED
        BY <4>1, <4>2 DEF Parts
    <3>2. TypedView(files')
      BY <1>8, <2>3, <3>1
    <3> QED
      BY <1>4, <2>3, <3>2
  <2> QED
    BY <1>10, <2>2, <2>3 DEF InitWrites
<1>11. CASE Kill(p)
  <2>1. Moves("killed", 137)
    BY <1>11 DEF Kill
  <2>2. TypedView(files')
    BY <1>1, <1>11 DEF Kill
  <2> HIDE DEF Moves
  <2> QED
    BY <1>3, <2>1, <2>2
<1> QED
  BY <1>6, <1>7, <1>9, <1>10, <1>11

(* What a process loaded is what the cascade makes of the files it saw,    *)
(* and what init is about to write is what it was told.                    *)
THEOREM MachineIsRight == Spec => []MachineInv
<1>1. MachineInv /\ [Next]_vars /\ ProcessInv' => MachineInv'
  <2>1. ASSUME MachineInv, ProcessInv', Next PROVE MachineInv'
    <3>1. PICK p \in Procs : Step(p)
      BY <2>1 DEF Next
    <3> QED
      BY <2>1, <3>1, GuardReads, LoadReads, CommandSteps, InitSteps DEF Step
  <2>2. ASSUME MachineInv, ProcessInv', UNCHANGED vars PROVE MachineInv'
    BY <2>2 DEF MachineInv, vars
  <2> QED
    BY <2>1, <2>2
<1> QED
  BY <1>1, InitMachine, ProcessesAreSound, PTL DEF Spec

-----------------------------------------------------------------------------
(* What a process gets is what the strongest source says.                  *)
LEMMA SourceIsStrongest ==
  ASSUME NEW p \in Procs, NEW s \in Settings
  PROVE  Strongest(p, s) = Source(Name(p), Pin(p), proc[p].view, env, Flags(p), s)
BY DEF Strongest, Source, OfFiles, OfEnv

(* Every setting of a command's configuration comes from the strongest     *)
(* source that gives it: the cascade of internal/cli.                      *)
THEOREM SettingsFromStrongest == Spec => []CascadeOrder
<1>1. MachineInv => CascadeOrder
  <2> SUFFICES ASSUME MachineInv, NEW p \in Procs, Usable(p), NEW s \in Settings
               PROVE  LET v == Strongest(p, s)
                      IN  proc[p].loaded.cfg[s] =
                            IF v \notin {Empty, "none"} THEN v
                            ELSE IF s = "dir" /\ WritesNoFiles(Name(p)) THEN "." ELSE Defaults[s]
    BY DEF CascadeOrder
  <2> DEFINE got == LoadCommand(Name(p), Pin(p), proc[p].view, env, Flags(p))
  <2>1. Right(proc[p], env) /\ TypedEnv(env)
    BY DEF MachineInv
  <2>2. Read(proc[p], env) /\ ~proc[p].loaded.bad
    BY <2>1 DEF Usable, Loaded, Right, Before, Name
  <2>3. proc[p].loaded.cfg = got.cfg /\ got.problems = {}
    BY <2>2 DEF Read, Name, Pin, Flags
  <2>4. TypedView(proc[p].view) /\ \A x \in Settings : Flags(p)[x] # "none"
    BY <2>1 DEF Right, Flags
  <2>5. ~ApplyFileLayer(Pin(p), proc[p].view).bad
    BY <2>3, LoadIs
  <2>6. got.cfg[s] = LET v == Source(Name(p), Pin(p), proc[p].view, env, Flags(p), s)
                     IN  IF v \notin {Empty, "none"} THEN v
                         ELSE IF s = "dir" /\ WritesNoFiles(Name(p)) THEN "." ELSE Defaults[s]
    BY <2>1, <2>4, <2>5, CommandGets
  <2> HIDE DEF got
  <2> QED
    BY <2>3, <2>6, SourceIsStrongest
<1> QED
  BY <1>1, MachineIsRight, PTL

(* The guard turns away only commands that would have found no             *)
(* configuration: requireConfig.                                           *)
THEOREM GuardIsSound == Spec => []GuardSound
<1>1. MachineInv => GuardSound
  <2> SUFFICES ASSUME MachineInv, NEW p \in Procs, proc[p].at = "refused"
               PROVE  LoadCommand(Name(p), Pin(p), proc[p].view, env, Flags(p)).problems # {}
    BY DEF GuardSound
  <2>1. Right(proc[p], env) /\ TypedEnv(env)
    BY DEF MachineInv
  <2>2. ~RequireConfig(Name(p), Pin(p), proc[p].view, env, Flags(p))
    BY <2>1 DEF Right, Name, Pin, Flags
  <2> QED
    BY <2>1, <2>2, NothingToLoad DEF Right, Flags
<1> QED
  BY <1>1, MachineIsRight, PTL

(* The commands and LoadAppConfig come to the same configuration, but for  *)
(* a list that a file empties, and for white space alone as the user, the  *)
(* token or the directory, which only the library refuses.                 *)
THEOREM LibraryAgreesWithCommands == Spec => []LibraryAgrees
<1>1. MachineInv => LibraryAgrees
  <2> SUFFICES ASSUME MachineInv, NEW p \in Procs, Loaded(p), Name(p) \in {"crawl", "serve", "mcp"},
                      \A s \in Settings : Flags(p)[s] = Unset,
                      \A s \in Renamed : env.canonical[s] = Empty
               PROVE  LET lib == LoadApp(Pin(p), proc[p].view, env)
                      IN  /\ lib.problems = {} <=>
                               /\ ~proc[p].loaded.bad
                               /\ \A s \in {"token", "dir"} : proc[p].loaded.cfg[s] # Blank
                          /\ lib.problems = {} =>
                               \A s \in Settings : lib.cfg[s] \in {proc[p].loaded.cfg[s], "none"}
    BY DEF LibraryAgrees
  <2> DEFINE got == LoadCommand(Name(p), Pin(p), proc[p].view, env, Flags(p))
  <2>1. Right(proc[p], env) /\ TypedEnv(env)
    BY DEF MachineInv
  <2>2. Read(proc[p], env)
    BY <2>1 DEF Loaded, Right, Before, Name
  <2>3. proc[p].loaded.cfg = got.cfg /\ (proc[p].loaded.bad <=> got.problems # {})
    BY <2>2 DEF Read, Name, Pin, Flags
  <2>4. TypedView(proc[p].view)
    BY <2>1 DEF Right
  <2>5. LibraryFits(Name(p), Pin(p), proc[p].view, env, Flags(p))
    <3>1. Name(p) \in {"crawl", "serve", "mcp"} /\ (\A s \in Settings : Flags(p)[s] = Unset)
      OBVIOUS
    <3>2. TypedEnv(env) /\ \A s \in Renamed : env.canonical[s] = Empty
      BY <2>1
    <3> QED
      BY <2>4, <3>1, <3>2, LibraryGets, Zenon
  <2>6. LET lib == LoadApp(Pin(p), proc[p].view, env)
        IN  /\ lib.problems = {} <=> got.problems = {} /\ got.cfg["token"] # Blank /\ got.cfg["dir"] # Blank
            /\ lib.problems = {} => \A s \in Settings : lib.cfg[s] \in {got.cfg[s], "none"}
    BY <2>5 DEF LibraryFits
  <2> HIDE DEF got
  <2> QED
    BY <2>3, <2>6
<1> QED
  BY <1>1, MachineIsRight, PTL

-----------------------------------------------------------------------------
(* The last who edited a file, if it wrote all of it, finds it as it was   *)
(* written.                                                                *)
EditInv ==
  /\ edited \in Seq(Procs)
  /\ \A p \in Procs : Wrote(proc[p]) /\ edited[Len(edited)] = p =>
       files[Target(p)] = [kind |-> "document", doc |-> proc[p].doc]

(* A step keeps that the file of the last writer that is done is what it   *)
(* wrote.                                                                  *)
LEMMA StepsEdit ==
  ASSUME MachineInv, MachineInv', EditInv, NEW p \in Procs, Step(p)
  PROVE  EditInv'
<1>1. /\ DOMAIN proc = Procs /\ DOMAIN proc[p] = ProcFields /\ Sound(proc[p])
      /\ TypedView(files)
  BY DEF MachineInv, ProcessInv, Sound, Shape
<1>2. ASSUME files' = files, edited' = edited, NEW h, proc' = [proc EXCEPT ![p] = h],
             Wrote(h) => Wrote(proc[p]), h.doc = proc[p].doc \/ ~Wrote(h), h.args = proc[p].args
      PROVE  EditInv'
  <2>1. \A q \in Procs : proc'[q] = IF q = p THEN h ELSE proc[q]
    BY <1>1, <1>2
  <2>2. ASSUME NEW q \in Procs, Wrote(proc'[q]), edited'[Len(edited')] = q
        PROVE  files'[Target(q)'] = [kind |-> "document", doc |-> proc'[q].doc]
    <3>1. Wrote(proc[q]) /\ proc'[q].doc = proc[q].doc /\ proc'[q].args = proc[q].args
      BY <1>2, <2>1, <2>2
    <3>2. Target(q)' = Target(q)
      BY <3>1 DEF Target
    <3> QED
      BY <1>2, <2>2, <3>1, <3>2 DEF EditInv
  <2> QED
    BY <1>2, <2>2 DEF EditInv
<1>3. ASSUME edited' = Append(edited, p), NEW h, proc' = [proc EXCEPT ![p] = h], h.args = proc[p].args,
             Wrote(h) => files'[Target(p)] = [kind |-> "document", doc |-> h.doc]
      PROVE  EditInv'
  <2>1. \A q \in Procs : proc'[q] = IF q = p THEN h ELSE proc[q]
    BY <1>1, <1>3
  <2>2. edited' \in Seq(Procs) /\ edited'[Len(edited')] = p
    BY <1>3 DEF EditInv
  <2>3. Target(p)' = Target(p)
    BY <1>3, <2>1 DEF Target
  <2> QED
    BY <1>3, <2>1, <2>2, <2>3 DEF EditInv
<1>4. ASSUME files' = files, edited' = edited, NEW h, proc' = [proc EXCEPT ![p] = h], h.args = proc[p].args, ~Wrote(h)
      PROVE  EditInv'
  BY <1>2, <1>4
<1> DEFINE Moves(at, code, signals) ==
             files' = files /\ edited' = edited /\ proc' = [proc EXCEPT ![p].at = at, ![p].code = code, ![p].signals = signals]
           Ended(at, code) ==
             /\ at \in {"mapped", "exited"} /\ proc[p].args.name = "init"
             /\ ~(at = "exited" /\ code # 0)
<1>5. ASSUME NEW at, NEW code, NEW signals, Moves(at, code, signals),
             Ended(at, code) => proc[p].at = "mapped" \/ (at = proc[p].at /\ code = proc[p].code)
      PROVE  EditInv'
  <2> DEFINE h == [proc[p] EXCEPT !.at = at, !.code = code, !.signals = signals]
  <2>1. h.at = at /\ h.code = code /\ h.args = proc[p].args /\ h.doc = proc[p].doc
    BY <1>1 DEF ProcFields
  <2>2. proc' = [proc EXCEPT ![p] = h]
    BY <1>1, <1>5
  <2> HIDE DEF h
  <2>3. Wrote(h) => Wrote(proc[p])
    BY <1>5, <2>1 DEF Wrote
  <2> QED
    BY <1>2, <1>5, <2>1, <2>2, <2>3
<1>6. ASSUME NEW at, NEW code, files' = files, edited' = edited, proc' = [proc EXCEPT ![p].at = at, ![p].code = code]
      PROVE  Moves(at, code, proc[p].signals)
  BY <1>1, <1>6 DEF ProcFields
<1>7. CASE Guard(p)
  <2> DEFINE at == IF RequireConfig(Name(p), Pin(p), files, env, Flags(p)) THEN "guarded" ELSE "refused"
             h == [proc[p] EXCEPT !.view = files, !.at = at, !.code = 1]
  <2>1. proc' = [proc EXCEPT ![p] = h] /\ files' = files /\ edited' = edited
    BY <1>1, <1>7 DEF Guard
  <2>2. at \in {"guarded", "refused"}
    OBVIOUS
  <2> HIDE DEF at
  <2>3. h.args = proc[p].args /\ h.at = at
    BY <1>1 DEF ProcFields
  <2> HIDE DEF h
  <2> QED
    BY <1>4, <2>1, <2>2, <2>3 DEF Wrote
<1>8. CASE Load(p)
  <2>1. files' = files /\ edited' = edited /\ proc[p].args.name # "init"
    BY <1>1, <1>8 DEF Load, Sound, Stage
  <2>2. \E h : proc' = [proc EXCEPT ![p] = h] /\ h.args = proc[p].args
    <3> DEFINE got == LoadCommand(Name(p), Pin(p), files, env, Flags(p))
               fine == got.problems = {}
               h == [proc[p] EXCEPT !.view = files, !.loaded = [bad |-> ~fine, cfg |-> got.cfg],
                                    !.at = IF fine THEN "working" ELSE "exited"]
    <3>1. proc' = [proc EXCEPT ![p] = h]
      BY <1>1, <1>8 DEF Load
    <3>2. h.args = proc[p].args
      BY <1>1 DEF ProcFields
    <3> HIDE DEF h
    <3> QED
      BY <3>1, <3>2
  <2> QED
    BY <1>4, <2>1, <2>2 DEF Wrote
<1>9. CASE Work(p)
  <2>1. files' = files /\ edited' = edited /\ proc[p].args.name # "init"
    BY <1>1, <1>9 DEF Work, Sound, Stage
  <2>2. \E h : proc' = [proc EXCEPT ![p] = h] /\ h.args = proc[p].args
    <3>1. ASSUME NEW r, proc' = [proc EXCEPT ![p].at = "returned", ![p].result = r]
          PROVE  \E h : proc' = [proc EXCEPT ![p] = h] /\ h.args = proc[p].args
      <4> DEFINE h == [proc[p] EXCEPT !.at = "returned", !.result = r]
      <4>1. proc' = [proc EXCEPT ![p] = h]
        BY <1>1, <3>1
      <4>2. h.args = proc[p].args
        BY <1>1 DEF ProcFields
      <4> HIDE DEF h
      <4> QED
        BY <4>1, <4>2
    <3>2. ASSUME NEW e, proc' = [proc EXCEPT ![p].at = "returned", ![p].result.err = e]
          PROVE  \E h : proc' = [proc EXCEPT ![p] = h] /\ h.args = proc[p].args
      <4> DEFINE h == [proc[p] EXCEPT !.at = "returned", !.result.err = e]
      <4>1. proc' = [proc EXCEPT ![p] = h]
        BY <1>1, <3>2
      <4>2. h.args = proc[p].args
        BY <1>1 DEF ProcFields
      <4> HIDE DEF h
      <4> QED
        BY <4>1, <4>2
    <3> QED
      BY <1>9, <3>1, <3>2 DEF Work
  <2> QED
    BY <1>4, <2>1, <2>2 DEF Wrote
<1>10. CASE Signal(p)
  <2> DEFINE at == IF proc[p].signals = 1 THEN "killed" ELSE proc[p].at
             code == IF proc[p].signals = 1 THEN 130 ELSE proc[p].code
  <2>1. Moves(at, code, proc[p].signals + 1)
    <3>1. /\ files' = files /\ edited' = edited
          /\ proc' = [proc EXCEPT ![p].signals = proc[p].signals + 1, ![p].at = at, ![p].code = code]
      BY <1>1, <1>10 DEF Signal, ProcFields
    <3> HIDE DEF at, code
    <3> QED
      BY <1>1, <3>1 DEF ProcFields
  <2>2. Ended(at, code) => at = proc[p].at /\ code = proc[p].code
    OBVIOUS
  <2> HIDE DEF Moves, Ended, at, code
  <2> QED
    BY <1>5, <2>1, <2>2
<1>11. CASE MapOutcome(p)
  <2>1. PICK code : files' = files /\ edited' = edited /\ proc' = [proc EXCEPT ![p].at = "mapped", ![p].code = code]
    BY <1>11 DEF MapOutcome
  <2>2. Moves("mapped", code, proc[p].signals)
    BY <1>6, <2>1
  <2>3. ~Ended("mapped", code)
    BY <1>1, <1>11 DEF MapOutcome, Sound, Stage
  <2> HIDE DEF Moves, Ended
  <2> QED
    BY <1>5, <2>2, <2>3
<1>12. CASE Exit(p)
  <2>1. PICK code : files' = files /\ edited' = edited /\ proc' = [proc EXCEPT ![p].at = "exited", ![p].code = code]
    BY <1>12 DEF Exit, Ends
  <2>2. Moves("exited", code, proc[p].signals)
    BY <1>6, <2>1
  <2>3. proc[p].at = "mapped"
    BY <1>12 DEF Exit
  <2> HIDE DEF Moves, Ended
  <2> QED
    BY <1>5, <2>2, <2>3
<1>13. ASSUME Ends(p, 1), files' = files, edited' = edited PROVE EditInv'
  <2>1. Moves("exited", 1, proc[p].signals)
    BY <1>6, <1>13 DEF Ends
  <2>2. ~Ended("exited", 1)
    OBVIOUS
  <2> HIDE DEF Moves, Ended
  <2> QED
    BY <1>5, <2>1, <2>2
<1>14. CASE InitBegins(p)
  <2>1. CASE Ends(p, 1)
    BY <1>13, <1>14, <2>1 DEF InitBegins
  <2>2. CASE Goes(p, "asking")
    <3> DEFINE h == [proc[p] EXCEPT !.at = "asking"]
    <3>1. proc' = [proc EXCEPT ![p] = h] /\ files' = files /\ edited' = edited
      BY <1>1, <1>14, <2>2 DEF Goes, InitBegins
    <3>2. h.args = proc[p].args /\ h.at = "asking"
      BY <1>1 DEF ProcFields
    <3> HIDE DEF h
    <3> QED
      BY <1>4, <3>1, <3>2 DEF Wrote
  <2> QED
    BY <1>14, <2>1, <2>2 DEF InitBegins
<1>15. CASE InitAsks(p)
  <2>1. files' = files /\ edited' = edited
    BY <1>15 DEF InitAsks
  <2>2. Ends(p, 1) \/ \E doc : proc' = [proc EXCEPT ![p].at = "opening", ![p].doc = doc]
    BY <1>15 DEF InitAsks
  <2>3. ASSUME NEW doc, proc' = [proc EXCEPT ![p].at = "opening", ![p].doc = doc] PROVE EditInv'
    <3> DEFINE h == [proc[p] EXCEPT !.at = "opening", !.doc = doc]
    <3>1. proc' = [proc EXCEPT ![p] = h]
      BY <1>1, <2>3
    <3>2. h.args = proc[p].args /\ h.at = "opening"
      BY <1>1 DEF ProcFields
    <3> HIDE DEF h
    <3> QED
      BY <1>4, <2>1, <3>1, <3>2 DEF Wrote
  <2> QED
    BY <1>13, <2>1, <2>2, <2>3
<1>16. CASE InitOpens(p)
  <2>1. CASE Ends(p, 1) /\ UNCHANGED <<files, edited>>
    BY <1>13, <2>1
  <2>2. CASE edited' = Append(edited, p) /\ Goes(p, "writing")
    <3> DEFINE h == [proc[p] EXCEPT !.at = "writing"]
    <3>1. proc' = [proc EXCEPT ![p] = h]
      BY <1>1, <2>2 DEF Goes
    <3>2. h.args = proc[p].args /\ h.at = "writing"
      BY <1>1 DEF ProcFields
    <3> HIDE DEF h
    <3> QED
      BY <1>3, <2>2, <3>1, <3>2 DEF Wrote
  <2> QED
    BY <1>16, <2>1, <2>2 DEF InitOpens
<1>17. CASE InitWrites(p)
  <2>1. edited' = Append(edited, p)
    BY <1>17 DEF InitWrites
  <2>2. CASE /\ files' = [files EXCEPT ![Target(p)] = [kind |-> "document", doc |-> proc[p].doc]]
             /\ proc' = [proc EXCEPT ![p].at = "mapped", ![p].code = 0]
    <3> DEFINE h == [proc[p] EXCEPT !.at = "mapped", !.code = 0]
    <3>1. proc' = [proc EXCEPT ![p] = h]
      BY <1>1, <2>2
    <3>2. h.args = proc[p].args /\ h.doc = proc[p].doc
      BY <1>1 DEF ProcFields
    <3>3. files'[Target(p)] = [kind |-> "document", doc |-> proc[p].doc]
      BY <1>1, <2>2 DEF TypedView, Target
    <3> HIDE DEF h
    <3> QED
      BY <1>3, <2>1, <3>1, <3>2, <3>3
  <2>3. CASE Ends(p, 1)
    <3> DEFINE h == [proc[p] EXCEPT !.at = "exited", !.code = 1]
    <3>1. proc' = [proc EXCEPT ![p] = h]
      BY <1>1, <2>3 DEF Ends
    <3>2. h.args = proc[p].args /\ h.at = "exited" /\ h.code = 1
      BY <1>1 DEF ProcFields
    <3> HIDE DEF h
    <3>3. ~Wrote(h)
      BY <3>2 DEF Wrote
    <3> QED
      BY <1>3, <2>1, <3>1, <3>2, <3>3
  <2> QED
    BY <1>17, <2>2, <2>3 DEF InitWrites
<1>18. CASE Kill(p)
  <2>1. files' = files /\ edited' = edited /\ proc' = [proc EXCEPT ![p].at = "killed", ![p].code = 137]
    BY <1>18 DEF Kill
  <2>2. Moves("killed", 137, proc[p].signals)
    BY <1>6, <2>1
  <2>3. ~Ended("killed", 137)
    OBVIOUS
  <2> HIDE DEF Moves, Ended
  <2> QED
    BY <1>5, <2>2, <2>3
<1> QED
  BY <1>7, <1>8, <1>9, <1>10, <1>11, <1>12, <1>14, <1>15, <1>16, <1>17, <1>18 DEF Step

(* The file holds what the last process that wrote it was told.            *)
THEOREM EditsAreKept == Spec => []EditInv
<1>1. Init => EditInv
  <2> SUFFICES ASSUME Init PROVE EditInv
    OBVIOUS
  <2>1. edited = << >> /\ \A p \in Procs : proc[p].at = "new"
    BY DEF Init, NewProc
  <2> QED
    BY <2>1 DEF EditInv, Wrote
<1>2. EditInv /\ MachineInv /\ MachineInv' /\ [Next]_vars => EditInv'
  <2>1. ASSUME EditInv, MachineInv, MachineInv', Next PROVE EditInv'
    BY <2>1, StepsEdit DEF Next
  <2>2. ASSUME EditInv, UNCHANGED vars PROVE EditInv'
    BY <2>2 DEF EditInv, vars, Target
  <2> QED
    BY <2>1, <2>2
<1> QED
  BY <1>1, <1>2, MachineIsRight, PTL DEF Spec

(* After gojira init, until the next edit, a command without flags and     *)
(* variables gets what init was told: runInit, marshalAppYAML and the      *)
(* cascade.                                                                *)
THEOREM InitIsReadBack == Spec => []InitRoundTrip
<1>1. MachineInv /\ EditInv => InitRoundTrip
  <2>1. PICK pin : pin = FALSE
    OBVIOUS
  <2> SUFFICES ASSUME MachineInv, EditInv, NEW p \in Procs,
                      Name(p) = "init", proc[p].at = "exited", proc[p].code = 0, edited[Len(edited)] = p,
                      Target(p) = "global" => files.local.kind = "absent",
                      LoadApp(pin, Alone(files), NoEnv).problems # {"invalid"}
               PROVE  LET got == LoadCommand("get", pin, files, NoEnv, NoFlags)
                      IN  /\ got.problems = {} <=> Told(p, "site") # BadURL
                          /\ got.problems = {} =>
                               \A s \in Settings \ {"mode"} :
                                 got.cfg[s] = IF s = "dir" /\ Told(p, s) = Empty THEN "." ELSE Told(p, s)
    BY <2>1 DEF InitRoundTrip, Alone
  <2> DEFINE doc == proc[p].doc
  <2>2. Wrote(proc[p]) /\ Right(proc[p], env) /\ TypedView(files)
    BY DEF MachineInv, Wrote, Name
  <2>3. Complete(doc) /\ doc = DocOf(proc[p], env)
    BY <2>2 DEF Right, HasDoc
  <2>4. files[Target(p)] = [kind |-> "document", doc |-> doc]
    BY <2>2 DEF EditInv
  <2>5. Target(p) \in {"local", "global"}
    BY DEF Target
  <2>6. \A s \in Settings \ {"mode"} : doc[s] = Told(p, s)
    BY <2>3 DEF DocOf, MarshalAppYAML, ToldBy, Told, Flags
  <2>7. "site" \in Settings \ {"mode"}
    BY DEF Settings
  <2> HIDE DEF doc
  <2>8. LET got == LoadCommand("get", pin, files, NoEnv, NoFlags)
        IN  /\ got.problems = {} <=> doc["site"] # BadURL
            /\ \A s \in Settings \ {"mode"} : got.cfg[s] = IF s = "dir" /\ doc[s] = Empty THEN "." ELSE doc[s]
    <3>1. files.local = Document(doc) \/ (files.local.kind = "absent" /\ files.global = Document(doc))
      BY <2>4, <2>5 DEF Document
    <3>2. ~pin /\ LoadApp(pin, Alone(files), NoEnv).problems # {"invalid"}
      BY <2>1
    <3> QED
      BY <2>2, <2>3, <3>1, <3>2, ReadBack
  <2> QED
    BY <2>6, <2>7, <2>8
<1> QED
  BY <1>1, MachineIsRight, EditsAreKept, PTL

=============================================================================
