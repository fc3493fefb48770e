---------------------------- MODULE IssueStore -----------------------------
(***************************************************************************)
(* The issue store of internal/output: Write puts the rendered files of an *)
(* issue under <OutputDir>/<KEY>, each of them through a temporary file    *)
(* that is renamed into place, index.md first and references/outbound.md   *)
(* after it.                                                               *)
(*                                                                         *)
(* A writer is a run of the program that makes one call of Write at a      *)
(* time: within a run no issue is written twice (see Crawl) and two issues *)
(* share no file, so that the calls of one run do not meet.  Runs that     *)
(* share an output directory do, and a run may be killed anywhere.         *)
(***************************************************************************)
EXTENDS Naturals, FiniteSets

CONSTANTS
  Keys,      \* issue keys, all of them valid (validateKey)
  Writers,   \* the runs that write to the output directory
  Refetch,   \* Refetch[w]: cfg.Refetch of run w
  Faults,    \* what may go wrong
  MaxCalls,  \* bound on the calls of Write
  None       \* no file, no call

(* A system call of Write fails; the removal of a temporary file fails;    *)
(* os.Stat fails although the file is there; the process is killed.        *)
AllFaults == {"io", "remove", "stat", "crash"}

ASSUME StoreAssumption ==
  /\ Refetch \in [Writers -> BOOLEAN]
  /\ Faults \subseteq AllFaults
  /\ MaxCalls \in Nat

(* What Write is given: the n-th rendering, with outbound references or    *)
(* with none (an empty outboundMD: no references, or a stub).              *)
Pages == [n : 1 .. MaxCalls, refs : BOOLEAN]

ASSUME NoneAssumption ==
  None \notin Pages \cup [page : Pages, whole : BOOLEAN]
                    \cup [key : Keys, page : Pages, file : {"index", "outbound"}]

Files    == {"index", "outbound"}
Contents == [page : Pages, whole : BOOLEAN]
Summaries == {c \in Contents : c.page.refs}
Calls    == [key : Keys, page : Pages, file : Files]
Temps    == [key : Keys, file : Files, page : Pages, whole : BOOLEAN]

VARIABLES
  index,     \* index[k]: the content of <k>/index.md, or None
  outbound,  \* outbound[k]: the content of <k>/references/outbound.md, or None
  temps,     \* the temporary files
  calls,     \* how often Write was called
  pc,        \* where in Write each run is
  call,      \* the call each run is in, or was in last
  result,    \* what the last call of each run returned, or "none"
  orderly,   \* have the calls come one after the other, each seeing the disk?
  lost       \* the calls that were killed, or whose temporary file stayed

files   == <<index, outbound, temps>>
history == <<orderly, lost>>
vars    == <<index, outbound, temps, calls, pc, call, result, orderly, lost>>

Init ==
  /\ index = [k \in Keys |-> None]
  /\ outbound = [k \in Keys |-> None]
  /\ temps = {}
  /\ calls = 0
  /\ pc = [w \in Writers |-> "idle"]
  /\ call = [w \in Writers |-> None]
  /\ result = [w \in Writers |-> "none"]
  /\ orderly = TRUE
  /\ lost = {}

Goto(w, l) == pc' = [pc EXCEPT ![w] = l]
Key(w)     == call[w].key
File(w)    == call[w].file

Answer(w, r) ==
  /\ Goto(w, "idle")
  /\ result' = [result EXCEPT ![w] = r]

Temp(w, whole) ==
  [key |-> Key(w), file |-> File(w), page |-> call[w].page, whole |-> whole]

(* An error return from a step that touched nothing.                       *)
Error(w) ==
  /\ "io" \in Faults
  /\ Answer(w, "error")
  /\ UNCHANGED <<files, calls, call, history>>

(***************************************************************************)
(* Write.                                                                  *)
(***************************************************************************)
Begin(w) ==
  /\ pc[w] = "idle"
  /\ calls < MaxCalls
  /\ calls' = calls + 1
  /\ \E k \in Keys, refs \in BOOLEAN :
       call' = [call EXCEPT ![w] = [key |-> k, page |-> [n |-> calls', refs |-> refs],
                                    file |-> "index"]]
  /\ Goto(w, "stat")
  /\ result' = [result EXCEPT ![w] = "none"]
  /\ orderly' = (orderly /\ \A v \in Writers : pc[v] = "idle")
  /\ UNCHANGED <<files, lost>>

(* Slip: do not look at the disk again.                                    *)
StatNothing(w) ==
  /\ pc[w] = "stat"
  /\ Goto(w, "mkdir")
  /\ UNCHANGED <<files, calls, call, result, history>>

(* Without refetch, an index.md that is there ends the call.  Any error of *)
(* os.Stat is taken for a missing file.                                    *)
Stat(w) ==
  /\ pc[w] = "stat"
  /\ \/ /\ ~Refetch[w] /\ index[Key(w)] # None
        /\ Answer(w, "exists")
        /\ UNCHANGED orderly
     \/ /\ Refetch[w] \/ index[Key(w)] = None
        /\ Goto(w, "mkdir")
        /\ UNCHANGED <<result, orderly>>
     \/ /\ "stat" \in Faults
        /\ Goto(w, "mkdir")
        /\ orderly' = FALSE
        /\ UNCHANGED result
  /\ UNCHANGED <<files, calls, call, lost>>

MakeDirs(w) ==
  /\ pc[w] = "mkdir"
  /\ \/ /\ Goto(w, "create")
        /\ UNCHANGED <<files, calls, call, result, history>>
     \/ Error(w)

(* atomicWrite, once for index.md and once for outbound.md.                *)
CreateTemp(w) ==
  /\ pc[w] = "create"
  /\ \/ /\ temps' = temps \cup {Temp(w, FALSE)}
        /\ Goto(w, "fill")
        /\ UNCHANGED <<index, outbound, calls, call, result, history>>
     \/ Error(w)

(* Write, sync, close and chmod; a failure leaves the file partial.        *)
Fill(w) ==
  /\ pc[w] = "fill"
  /\ \/ /\ temps' = (temps \ {Temp(w, FALSE)}) \cup {Temp(w, TRUE)}
        /\ Goto(w, "rename")
     \/ /\ "io" \in Faults
        /\ Goto(w, "cleanup")
        /\ UNCHANGED temps
  /\ UNCHANGED <<index, outbound, calls, call, result, history>>

Place(w, content) ==
  \/ /\ File(w) = "index"
     /\ index' = [index EXCEPT ![Key(w)] = content]
     /\ UNCHANGED outbound
  \/ /\ File(w) = "outbound"
     /\ outbound' = [outbound EXCEPT ![Key(w)] = content]
     /\ UNCHANGED index

(* After index.md, outbound.md, unless there is nothing to put in it.      *)
Advance(w) ==
  IF File(w) = "index" /\ call[w].page.refs
  THEN /\ call' = [call EXCEPT ![w].file = "outbound"]
       /\ Goto(w, "create")
       /\ UNCHANGED result
  ELSE Answer(w, "ok") /\ UNCHANGED call

(* What the temporary file of a call holds: all of it or a part of it.     *)
Held(w) == [page |-> call[w].page, whole |-> Temp(w, TRUE) \in temps]

(* Slip: copy instead of rename.                                           *)
CopyInPlace(w) ==
  /\ pc[w] = "rename"
  /\ Place(w, Held(w))
  /\ Advance(w)
  /\ UNCHANGED <<temps, calls, history>>

(* The rename puts in place what the file holds by then, whatever it is.   *)
Rename(w) ==
  /\ pc[w] = "rename"
  /\ \/ /\ Place(w, Held(w))
        /\ temps' = temps \ {Temp(w, TRUE), Temp(w, FALSE)}
        /\ Advance(w)
        /\ UNCHANGED <<calls, history>>
     \/ /\ "io" \in Faults
        /\ Goto(w, "cleanup")
        /\ UNCHANGED <<files, calls, call, result, history>>

(* Slip: report success all the same.                                      *)
CleanupReportsOk(w) ==
  /\ pc[w] = "cleanup"
  /\ temps' = temps \ {Temp(w, TRUE), Temp(w, FALSE)}
  /\ Answer(w, "ok")
  /\ UNCHANGED <<index, outbound, calls, call, history>>

(* The deferred removal of the temporary file, its error ignored.          *)
Cleanup(w) ==
  /\ pc[w] = "cleanup"
  /\ \/ /\ temps' = temps \ {Temp(w, TRUE), Temp(w, FALSE)}
        /\ UNCHANGED lost
     \/ /\ "remove" \in Faults
        /\ lost' = lost \cup {call[w].page.n}
        /\ UNCHANGED temps
  /\ Answer(w, "error")
  /\ UNCHANGED <<index, outbound, calls, call, orderly>>

(* The process is killed; the next run starts with what is on the disk.    *)
Crash(w) ==
  /\ "crash" \in Faults
  /\ pc[w] # "idle"
  /\ Answer(w, "none")
  /\ lost' = lost \cup {call[w].page.n}
  /\ UNCHANGED <<files, calls, call, orderly>>

WriteStep(w) ==
  \/ Stat(w) \/ MakeDirs(w) \/ CreateTemp(w) \/ Fill(w) \/ Rename(w) \/ Cleanup(w)

(* All the calls are made.                                                 *)
Finished ==
  /\ calls = MaxCalls /\ \A w \in Writers : pc[w] = "idle"
  /\ UNCHANGED vars

Next ==
  \/ \E w \in Writers : Begin(w) \/ WriteStep(w) \/ Crash(w)
  \/ Finished

Spec == Init /\ [][Next]_vars

-----------------------------------------------------------------------------
(***************************************************************************)
(* What is checked.                                                        *)
(***************************************************************************)
InWrite == {"stat", "mkdir", "create", "fill", "rename", "cleanup"}

(* Every variable has its type; only references make an outbound.md.       *)
TypeOK ==
  /\ index \in [Keys -> Contents \cup {None}]
  /\ outbound \in [Keys -> Summaries \cup {None}]
  /\ temps \subseteq Temps
  /\ calls \in 0 .. MaxCalls
  /\ pc \in [Writers -> InWrite \cup {"idle"}]
  /\ call \in [Writers -> Calls \cup {None}]
  /\ \A w \in Writers : pc[w] # "idle" => call[w] \in Calls
  /\ result \in [Writers -> {"none", "ok", "exists", "error"}]
  /\ orderly \in BOOLEAN
  /\ lost \subseteq 1 .. MaxCalls

(* Whatever fails, dies or runs alongside, a file under its proper name is *)
(* whole: the rename, which puts in place what the temporary file holds,   *)
(* comes after the last byte and to the call's own file.                   *)
NeverTorn ==
  \A k \in Keys : /\ index[k] # None => index[k].whole
                  /\ outbound[k] # None => outbound[k].whole

(* index.md is the mark of an issue that exists: there is no outbound.md   *)
(* without it, so that a later run never takes an issue for missing that   *)
(* has one.                                                                *)
OutboundHasIndex ==
  \A k \in Keys : outbound[k] # None => index[k] # None

(* A temporary file is one that a call is working on, or one left by a     *)
(* call that was killed or that failed to remove it.                       *)
NoTempLeft ==
  \A t \in temps :
    \/ t.page.n \in lost
    \/ \E w \in Writers :
         pc[w] \in {"fill", "rename", "cleanup"} /\ t \in {Temp(w, TRUE), Temp(w, FALSE)}

(* "When false and index.md already exists, Write returns ErrAlreadyExists *)
(* without touching any file": as long as the calls have come one after    *)
(* the other, killed or failed or not, only a run with refetch replaces an *)
(* index.md.                                                               *)
KeepsExisting ==
  [][\A k \in Keys : orderly /\ index[k] # None /\ index'[k] # index[k] =>
       \E w \in Writers : Refetch[w] /\ pc[w] = "rename" /\ Key(w) = k]_vars

(* As long as the calls have come one after the other, when the last one   *)
(* reports success the disk holds what it was given, index.md and          *)
(* outbound.md, until there is another call.                               *)
OkIsOnDisk ==
  orderly => \A w \in Writers : result[w] = "ok" /\ call[w].page.n = calls =>
    /\ index[Key(w)] = [page |-> call[w].page, whole |-> TRUE]
    /\ call[w].page.refs => outbound[Key(w)] = index[Key(w)]

-----------------------------------------------------------------------------
(***************************************************************************)
(* The inductive invariant.                                                *)
(***************************************************************************)
(* No two renderings have the same number.                                 *)
PageInv ==
  /\ \A w \in Writers : call[w] # None => call[w].page.n <= calls
  /\ \A v, w \in Writers :
       call[v] # None /\ call[w] # None /\ call[v].page.n = call[w].page.n => v = w

(* A call turns to outbound.md when index.md is in place; it has an answer *)
(* when it is over.                                                        *)
StageInv ==
  \A w \in Writers :
    /\ pc[w] # "idle" /\ File(w) = "outbound" =>
         /\ pc[w] \in {"create", "fill", "rename", "cleanup"}
         /\ call[w].page.refs
         /\ index[Key(w)] # None
    /\ pc[w] # "idle" => result[w] = "none"

(* A temporary file is filled before it is renamed, and what another call  *)
(* does, or the removal of its own file, does not take it away.            *)
TempInv ==
  \A w \in Writers :
    pc[w] = "rename" => Temp(w, TRUE) \in temps /\ Temp(w, FALSE) \notin temps

(* What is known when one call comes after the other: the one under way is *)
(* the last one made, and what the files of its issue hold.                *)
SoleInv ==
  orderly => \A w \in Writers :
    /\ result[w] = "ok" => call[w] # None
    /\ pc[w] # "idle" =>
         /\ call[w].page.n = calls
         /\ \A v \in Writers \ {w} : pc[v] = "idle"
         /\ File(w) = "outbound" =>
              index[Key(w)] = [page |-> call[w].page, whole |-> TRUE]
         /\ pc[w] # "stat" /\ File(w) = "index" /\ ~Refetch[w] => index[Key(w)] = None

(* What is proved to be inductive.                                         *)
StoreInv ==
  /\ TypeOK /\ NeverTorn /\ OutboundHasIndex /\ NoTempLeft /\ OkIsOnDisk
  /\ PageInv /\ StageInv /\ TempInv /\ SoleInv

-----------------------------------------------------------------------------
(***************************************************************************)
(* The refinement of IssueDisk.                                            *)
(***************************************************************************)
PageOf(k) == IF index[k] = None THEN None ELSE index[k].page

StageOf(w) ==
  IF pc[w] = "idle" THEN "idle"
  ELSE IF pc[w] = "stat" THEN "asked"
  ELSE IF File(w) = "index" THEN "cleared" ELSE "placed"

RequestOf(w) == IF call[w] = None THEN None ELSE [key |-> Key(w), page |-> call[w].page]

Disk == INSTANCE IssueDisk
          WITH page <- [k \in Keys |-> PageOf(k)],
               stage <- [w \in Writers |-> StageOf(w)],
               request <- [w \in Writers |-> RequestOf(w)],
               answer <- result,
               Blind <- "stat" \in Faults

(* The renames make Write what IssueDisk promises: a page changes in one   *)
(* step of a call that was cleared to, and an answer "ok" comes after it.  *)
ImplementsDisk == Disk!DiskSpec

=============================================================================
