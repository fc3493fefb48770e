------------------------- MODULE IssueStoreProofs --------------------------
(***************************************************************************)
(* Proofs about IssueStore: type correctness, the inductive invariant, the *)
(* invariants and the action property that follow from it, and the         *)
(* refinement of IssueDisk.                                                *)
(***************************************************************************)
EXTENDS IssueStore, TLAPS

-----------------------------------------------------------------------------
(* Next, with the actions of a call one by one.                            *)
CallStep(w) ==
  \/ Begin(w) \/ Stat(w) \/ MakeDirs(w) \/ CreateTemp(w) \/ Fill(w)
  \/ Rename(w) \/ Cleanup(w) \/ Crash(w)

(* Every step is one of a call, or changes nothing.                        *)
LEMMA NextIsCallStep ==
  ASSUME [Next]_vars
  PROVE  (\E w \in Writers : CallStep(w)) \/ UNCHANGED vars
BY DEF Next, WriteStep, CallStep, Finished

(* What is in a call, a temporary file, and a content.                     *)
LEMMA CallType ==
  ASSUME TypeOK, NEW w \in Writers, pc[w] # "idle"
  PROVE  /\ call[w] \in Calls
         /\ Key(w) \in Keys /\ File(w) \in Files /\ call[w].page \in Pages
         /\ call[w].page.n \in 1 .. MaxCalls /\ call[w].page.refs \in BOOLEAN
         /\ Temp(w, TRUE) \in Temps /\ Temp(w, FALSE) \in Temps
         /\ [page |-> call[w].page, whole |-> TRUE] \in Contents
<1>1. call[w] \in Calls
  BY DEF TypeOK
<1>2. Key(w) \in Keys /\ File(w) \in Files /\ call[w].page \in Pages
  BY <1>1 DEF Calls, Key, File
<1>3. call[w].page.n \in 1 .. MaxCalls /\ call[w].page.refs \in BOOLEAN
  BY <1>2 DEF Pages
<1>4. Temp(w, TRUE) \in Temps /\ Temp(w, FALSE) \in Temps
  BY <1>2 DEF Temp, Temps
<1> QED
  BY <1>1, <1>2, <1>3, <1>4 DEF Contents

(* Of the call, Advance changes at most the file it is at.                 *)
LEMMA AdvanceCall ==
  ASSUME TypeOK, NEW w \in Writers, pc[w] # "idle", Advance(w)
  PROVE  \/ /\ File(w) = "index" /\ call[w].page.refs
            /\ call' = [call EXCEPT ![w] = [key |-> Key(w), page |-> call[w].page,
                                           file |-> "outbound"]]
            /\ pc' = [pc EXCEPT ![w] = "create"]
            /\ result' = result
         \/ /\ File(w) = "outbound" \/ ~call[w].page.refs
            /\ call' = call
            /\ pc' = [pc EXCEPT ![w] = "idle"]
            /\ result' = [result EXCEPT ![w] = "ok"]
<1>1. call[w] \in Calls /\ File(w) \in Files
  BY CallType
<1>2. CASE File(w) = "index" /\ call[w].page.refs
  <2>1. [call[w] EXCEPT !.file = "outbound"]
          = [key |-> Key(w), page |-> call[w].page, file |-> "outbound"]
    BY <1>1 DEF Calls, Key
  <2> QED
    BY <1>2, <2>1 DEF Advance, Goto
<1>3. CASE ~(File(w) = "index" /\ call[w].page.refs)
  BY <1>1, <1>3 DEF Advance, Answer, Goto, Files
<1> QED
  BY <1>2, <1>3

(* No call and no content is None.                                         *)
LEMMA NotNone ==
  /\ \A c \in Contents : c # None
  /\ \A c \in Calls : c # None
  /\ \A p \in Pages : p # None
BY NoneAssumption DEF Contents, Calls, Files

(* What a temporary file holds is some content of the page of its call.    *)
LEMMA HeldType ==
  ASSUME TypeOK, NEW w \in Writers, pc[w] # "idle"
  PROVE  /\ Held(w) \in Contents
         /\ Held(w) # None
         /\ Held(w).page = call[w].page
<1>1. ASSUME NEW whole \in BOOLEAN
      PROVE  /\ [page |-> call[w].page, whole |-> whole] \in Contents
             /\ [page |-> call[w].page, whole |-> whole].page = call[w].page
  BY CallType DEF Contents
<1>2. (Temp(w, TRUE) \in temps) \in BOOLEAN
  OBVIOUS
<1>3. Held(w) = [page |-> call[w].page, whole |-> Temp(w, TRUE) \in temps]
  BY DEF Held
<1>4. Held(w) \in Contents /\ Held(w).page = call[w].page
  BY <1>1, <1>2, <1>3, Zenon
<1> QED
  BY <1>4, NotNone

(* At the rename it is whole.                                              *)
LEMMA HeldWhole ==
  ASSUME TempInv, NEW w \in Writers, pc[w] = "rename"
  PROVE  Held(w) = [page |-> call[w].page, whole |-> TRUE]
BY DEF TempInv, Held

(* The invariant holds at the beginning.                                   *)
LEMMA InitInv == Init => StoreInv
<1> SUFFICES ASSUME Init PROVE StoreInv
  OBVIOUS
<1>1. TypeOK
  BY StoreAssumption DEF Init, TypeOK
<1>2. NeverTorn /\ OutboundHasIndex /\ NoTempLeft /\ OkIsOnDisk
  BY DEF Init, NeverTorn, OutboundHasIndex, NoTempLeft, OkIsOnDisk
<1>3. PageInv /\ StageInv /\ TempInv /\ SoleInv
  BY DEF Init, PageInv, StageInv, TempInv, SoleInv
<1> QED
  BY <1>1, <1>2, <1>3 DEF StoreInv

-----------------------------------------------------------------------------
(* What is noted of the history keeps its types.                           *)
LEMMA HistoryType ==
  ASSUME TypeOK, [Next]_vars
  PROVE  orderly' \in BOOLEAN /\ lost' \subseteq 1 .. MaxCalls
<1>1. \A w \in Writers : pc[w] # "idle" => call[w].page.n \in 1 .. MaxCalls
  BY CallType
<1>2. CASE orderly' = orderly /\ lost' = lost
  BY <1>2 DEF TypeOK
<1>3. ASSUME NEW w \in Writers, Begin(w) \/ Stat(w) PROVE orderly' \in BOOLEAN /\ lost' = lost
  BY <1>3 DEF Begin, Stat, TypeOK
<1>4. ASSUME NEW w \in Writers, Cleanup(w) \/ Crash(w)
      PROVE  /\ orderly' = orderly
             /\ \/ lost' = lost
                \/ lost' = lost \cup {call[w].page.n} /\ pc[w] # "idle"
  BY <1>4 DEF Cleanup, Crash
<1>5. ASSUME NEW w \in Writers, MakeDirs(w) \/ CreateTemp(w) \/ Fill(w) \/ Rename(w)
      PROVE  orderly' = orderly /\ lost' = lost
  BY <1>5 DEF MakeDirs, CreateTemp, Fill, Rename, Error, history
<1>6. UNCHANGED vars => orderly' = orderly /\ lost' = lost
  BY DEF vars
<1> QED
  BY <1>1, <1>2, <1>3, <1>4, <1>5, <1>6, NextIsCallStep DEF CallStep, TypeOK

(* Every step keeps the types.                                             *)
LEMMA TypeStep == TypeOK /\ StageInv /\ [Next]_vars => TypeOK'
<1> SUFFICES ASSUME TypeOK, StageInv, [Next]_vars PROVE TypeOK'
  OBVIOUS
<1> USE HistoryType
<1>0. CASE UNCHANGED vars
  BY <1>0 DEF TypeOK, vars
<1>1. ASSUME NEW w \in Writers, Begin(w) PROVE TypeOK'
  <2>1. PICK k \in Keys, refs \in BOOLEAN :
          call' = [call EXCEPT ![w] = [key |-> k, page |-> [n |-> calls', refs |-> refs],
                                       file |-> "index"]]
    BY <1>1 DEF Begin
  <2>2. calls' \in 1 .. MaxCalls
    BY <1>1, StoreAssumption DEF Begin, TypeOK
  <2>3. [key |-> k, page |-> [n |-> calls', refs |-> refs], file |-> "index"] \in Calls
    BY <2>2 DEF Calls, Files, Pages
  <2> QED
    BY <1>1, <2>1, <2>2, <2>3 DEF Begin, TypeOK, Goto, files, InWrite
<1>2. ASSUME NEW w \in Writers, Stat(w) PROVE TypeOK'
  BY <1>2 DEF Stat, TypeOK, Goto, Answer, files, InWrite
<1>3. ASSUME NEW w \in Writers, MakeDirs(w) PROVE TypeOK'
  BY <1>3 DEF MakeDirs, Error, TypeOK, Goto, Answer, files, InWrite
<1>4. ASSUME NEW w \in Writers, CreateTemp(w) PROVE TypeOK'
  <2>1. Temp(w, FALSE) \in Temps
    BY <1>4, CallType DEF CreateTemp
  <2> QED
    BY <1>4, <2>1 DEF CreateTemp, Error, TypeOK, Goto, Answer, files, InWrite
<1>5. ASSUME NEW w \in Writers, Fill(w) PROVE TypeOK'
  <2>1. Temp(w, TRUE) \in Temps
    BY <1>5, CallType DEF Fill
  <2> QED
    BY <1>5, <2>1 DEF Fill, TypeOK, Goto, InWrite
<1>6. ASSUME NEW w \in Writers, Rename(w) PROVE TypeOK'
  <2> DEFINE c == Held(w)
  <2>1. c \in Contents /\ call[w] \in Calls /\ Key(w) \in Keys
    BY <1>6, CallType, HeldType DEF Rename
  <2>2. File(w) = "outbound" => c \in Summaries
    BY <1>6, <2>1, HeldType DEF Rename, StageInv, Summaries
  <2>4. Place(w, c) => /\ index' \in [Keys -> Contents \cup {None}]
                       /\ outbound' \in [Keys -> Summaries \cup {None}]
    BY <2>1, <2>2 DEF Place, TypeOK
  <2>3. [key |-> Key(w), page |-> call[w].page, file |-> "outbound"] \in Calls
    BY <2>1 DEF Calls, Files
  <2>5. Advance(w) => /\ call' \in [Writers -> Calls \cup {None}]
                      /\ \A v \in Writers : pc'[v] # "idle" => call'[v] \in Calls
                      /\ pc' \in [Writers -> InWrite \cup {"idle"}]
                      /\ result' \in [Writers -> {"none", "ok", "exists", "error"}]
    <3> SUFFICES ASSUME Advance(w)
                 PROVE  /\ call' \in [Writers -> Calls \cup {None}]
                        /\ \A v \in Writers : pc'[v] # "idle" => call'[v] \in Calls
                        /\ pc' \in [Writers -> InWrite \cup {"idle"}]
                        /\ result' \in [Writers -> {"none", "ok", "exists", "error"}]
      OBVIOUS
    <3>1. pc[w] # "idle"
      BY <1>6 DEF Rename
    <3> QED
      BY <3>1, <2>3, AdvanceCall DEF TypeOK, InWrite
  <2>6. CASE /\ Place(w, c) /\ temps' = temps \ {Temp(w, TRUE), Temp(w, FALSE)}
             /\ Advance(w) /\ UNCHANGED calls
    BY <2>4, <2>5, <2>6 DEF TypeOK
  <2>7. CASE Goto(w, "cleanup") /\ UNCHANGED <<files, calls, call, result>>
    BY <1>6, <2>7 DEF Rename, TypeOK, Goto, files, InWrite
  <2> QED
    BY <1>6, <2>6, <2>7 DEF Rename
<1>7. ASSUME NEW w \in Writers, Cleanup(w) PROVE TypeOK'
  BY <1>7 DEF Cleanup, TypeOK, Goto, Answer
<1>8. ASSUME NEW w \in Writers, Crash(w) PROVE TypeOK'
  BY <1>8 DEF Crash, TypeOK, Goto, Answer, files
<1> QED
  BY <1>0, <1>1, <1>2, <1>3, <1>4, <1>5, <1>6, <1>7, <1>8, NextIsCallStep DEF CallStep

(* Numbers are handed out once.                                            *)
LEMMA PageStep == TypeOK /\ PageInv /\ [Next]_vars => PageInv'
<1> SUFFICES ASSUME TypeOK, PageInv, [Next]_vars PROVE PageInv'
  OBVIOUS
<1> USE NotNone
<1>1. CASE call' = call /\ calls' = calls
  BY <1>1 DEF PageInv
<1>2. ASSUME NEW w \in Writers, Begin(w) PROVE PageInv'
  <2>1. calls' = calls + 1 /\ calls \in Nat
    BY <1>2, StoreAssumption DEF Begin, TypeOK
  <2>2. call'[w].page.n = calls'
    BY <1>2 DEF Begin, TypeOK
  <2>3. \A v \in Writers \ {w} : call'[v] = call[v]
    BY <1>2 DEF Begin, TypeOK
  <2>4. \A v \in Writers : call[v] # None => call[v].page.n \in Nat
    <3> SUFFICES ASSUME NEW v \in Writers, call[v] # None PROVE call[v].page.n \in Nat
      OBVIOUS
    <3>1. call[v] \in Calls
      BY DEF TypeOK
    <3> QED
      BY <3>1, StoreAssumption DEF Calls, Pages
  <2> QED
    BY <2>1, <2>2, <2>3, <2>4 DEF PageInv
<1>3. ASSUME NEW w \in Writers, Rename(w), Advance(w), UNCHANGED calls PROVE PageInv'
  <2>1. call[w] # None
    BY <1>3, CallType DEF Rename
  <2>2. \A v \in Writers : /\ call'[v] # None => call[v] # None
                           /\ call'[v] # None => call'[v].page = call[v].page
    <3>1. pc[w] # "idle"
      BY <1>3 DEF Rename
    <3> QED
      BY <1>3, <2>1, <3>1, AdvanceCall DEF TypeOK
  <2> QED
    BY <1>3, <2>2 DEF PageInv
<1> QED
  BY <1>1, <1>2, <1>3, NextIsCallStep
  DEF CallStep, Stat, MakeDirs, Error, CreateTemp, Fill, Rename, Cleanup, Crash, vars

(* A rename that succeeds, and one that fails.                             *)
LEMMA RenameCases ==
  ASSUME TypeOK, NEW w \in Writers, Rename(w)
  PROVE  \/ /\ Place(w, Held(w))
            /\ temps' = temps \ {Temp(w, TRUE), Temp(w, FALSE)}
            /\ Advance(w)
            /\ calls' = calls
         \/ /\ Goto(w, "cleanup")
            /\ UNCHANGED <<files, calls, call, result>>
BY DEF Rename

(* A call turns to outbound.md when index.md is in place, through every    *)
(* step.                                                                   *)
LEMMA StageStep == TypeOK /\ StageInv /\ [Next]_vars => StageInv'
<1> SUFFICES ASSUME TypeOK, StageInv, [Next]_vars PROVE StageInv'
  OBVIOUS
<1> USE NotNone
<1>0. CASE UNCHANGED vars
  BY <1>0 DEF StageInv, vars, File, Key
<1>1. ASSUME NEW w \in Writers, Begin(w) PROVE StageInv'
  <2>1. call'[w].file = "index" /\ pc'[w] = "stat" /\ result'[w] = "none"
    BY <1>1 DEF Begin, TypeOK, Goto
  <2>2. \A v \in Writers \ {w} : call'[v] = call[v] /\ pc'[v] = pc[v] /\ result'[v] = result[v]
    BY <1>1 DEF Begin, TypeOK, Goto
  <2> QED
    BY <1>1, <2>1, <2>2 DEF Begin, StageInv, File, Key, files
<1>2. ASSUME NEW w \in Writers, Stat(w) PROVE StageInv'
  BY <1>2 DEF Stat, StageInv, TypeOK, Goto, Answer, files, File, Key
<1>3. ASSUME NEW w \in Writers, MakeDirs(w) PROVE StageInv'
  BY <1>3 DEF MakeDirs, Error, StageInv, TypeOK, Goto, Answer, files, File, Key
<1>4. ASSUME NEW w \in Writers, CreateTemp(w) PROVE StageInv'
  BY <1>4 DEF CreateTemp, Error, StageInv, TypeOK, Goto, Answer, files, File, Key
<1>5. ASSUME NEW w \in Writers, Fill(w) PROVE StageInv'
  BY <1>5 DEF Fill, StageInv, TypeOK, Goto, File, Key
<1>6. ASSUME NEW w \in Writers, Rename(w) PROVE StageInv'
  <2>1. pc[w] = "rename" /\ Key(w) \in Keys /\ call[w].page \in Pages /\ Held(w) \in Contents
    BY <1>6, CallType, HeldType DEF Rename
  <2>2. CASE Place(w, Held(w)) /\ Advance(w)
    <3>1. \A k \in Keys : index[k] # None => index'[k] # None
      BY <2>1, <2>2 DEF Place, TypeOK
    <3>2. File(w) = "index" => index'[Key(w)] # None
      BY <2>1, <2>2 DEF Place, TypeOK
    <3>3. \A v \in Writers \ {w} : call'[v] = call[v] /\ pc'[v] = pc[v] /\ result'[v] = result[v]
      BY <2>1, <2>2, AdvanceCall DEF TypeOK
    <3>4. \/ /\ File(w) = "index" /\ call[w].page.refs
             /\ call'[w] = [key |-> Key(w), page |-> call[w].page, file |-> "outbound"]
             /\ pc'[w] = "create"
             /\ result'[w] = result[w]
          \/ pc'[w] = "idle"
      BY <2>1, <2>2, AdvanceCall DEF TypeOK
    <3>5. \A v \in Writers \ {w} : pc[v] # "idle" => Key(v) \in Keys
      BY CallType
    <3> QED
      BY <2>1, <3>1, <3>2, <3>3, <3>4, <3>5 DEF StageInv, File, Key
  <2>3. CASE Goto(w, "cleanup") /\ UNCHANGED <<files, calls, call, result>>
    BY <2>1, <2>3 DEF StageInv, TypeOK, Goto, files, File, Key
  <2> QED
    BY <1>6, <2>2, <2>3, RenameCases
<1>7. ASSUME NEW w \in Writers, Cleanup(w) PROVE StageInv'
  BY <1>7 DEF Cleanup, StageInv, TypeOK, Goto, Answer, File, Key
<1>8. ASSUME NEW w \in Writers, Crash(w) PROVE StageInv'
  BY <1>8 DEF Crash, StageInv, TypeOK, Goto, Answer, files, File, Key
<1> QED
  BY <1>0, <1>1, <1>2, <1>3, <1>4, <1>5, <1>6, <1>7, <1>8, NextIsCallStep DEF CallStep

(* Only a rename changes a file under its proper name, and it puts there   *)
(* what the temporary file holds.                                          *)
LEMMA FilesChange ==
  ASSUME TypeOK, [Next]_vars
  PROVE  \/ index' = index /\ outbound' = outbound
         \/ \E w \in Writers :
              /\ pc[w] = "rename"
              /\ Place(w, Held(w))
BY NextIsCallStep
DEF CallStep, Begin, Stat, MakeDirs, Error, CreateTemp, Fill, Rename, Cleanup, Crash, files, vars

(* A file changes by a rename of a whole one, and index.md is there first. *)
LEMMA FileStep ==
  TypeOK /\ StageInv /\ TempInv /\ NeverTorn /\ OutboundHasIndex /\ [Next]_vars
    => NeverTorn' /\ OutboundHasIndex'
<1> SUFFICES ASSUME TypeOK, StageInv, TempInv, NeverTorn, OutboundHasIndex, [Next]_vars
             PROVE  NeverTorn' /\ OutboundHasIndex'
  OBVIOUS
<1>1. CASE index' = index /\ outbound' = outbound
  BY <1>1 DEF NeverTorn, OutboundHasIndex
<1>2. ASSUME NEW w \in Writers, pc[w] = "rename",
             Place(w, Held(w))
      PROVE  NeverTorn' /\ OutboundHasIndex'
  <2>1. Key(w) \in Keys /\ Held(w) # None /\ Held(w).whole
    <3>1. Held(w) = [page |-> call[w].page, whole |-> TRUE]
      BY <1>2, HeldWhole
    <3>2. [page |-> call[w].page, whole |-> TRUE].whole
      OBVIOUS
    <3>3. pc[w] # "idle"
      BY <1>2
    <3> QED
      BY <3>1, <3>2, <3>3, CallType, HeldType, Zenon
  <2>2. File(w) = "outbound" => index[Key(w)] # None
    BY <1>2 DEF StageInv
  <2> QED
    BY <1>2, <2>1, <2>2 DEF Place, NeverTorn, OutboundHasIndex, TypeOK
<1> QED
  BY <1>1, <1>2, FilesChange

(* The temporary files of two writers, and the two states of one, differ.  *)
LEMMA TempsDiffer ==
  ASSUME TypeOK, PageInv, NEW v \in Writers, NEW w \in Writers,
         pc[v] # "idle", pc[w] # "idle"
  PROVE  /\ v # w => /\ Temp(v, FALSE) # Temp(w, FALSE)
                     /\ Temp(v, TRUE) # Temp(w, TRUE)
         /\ Temp(v, TRUE) # Temp(w, FALSE)
<1>1. call[v] # None /\ call[w] # None
  BY CallType, NotNone
<1> QED
  BY <1>1 DEF PageInv, Temp

(* What a writer does leaves the temporary files of another one alone.     *)
LEMMA OthersCall ==
  ASSUME TypeOK, NEW v \in Writers, CallStep(v)
  PROVE  \A w \in Writers \ {v} :
           pc'[w] = pc[w] /\ call'[w] = call[w] /\ result'[w] = result[w]
<1>1. CASE Rename(v)
  <2>1. pc[v] # "idle"
    BY <1>1 DEF Rename
  <2>2. CASE Advance(v)
    BY <2>1, <2>2, AdvanceCall DEF TypeOK
  <2>3. CASE Goto(v, "cleanup") /\ UNCHANGED <<files, calls, call, result>>
    BY <2>3 DEF TypeOK, Goto
  <2> QED
    BY <1>1, <2>2, <2>3, RenameCases
<1>2. CASE ~Rename(v)
  BY <1>2 DEF CallStep, Begin, Stat, MakeDirs, Error, CreateTemp, Fill, Cleanup, Crash,
              Goto, Answer, TypeOK
<1> QED
  BY <1>1, <1>2

(* A file that is ready to be renamed is whole, through every step.        *)
LEMMA TempStep == TypeOK /\ PageInv /\ TempInv /\ [Next]_vars => TempInv'
<1> SUFFICES ASSUME TypeOK, PageInv, TempInv, [Next]_vars PROVE TempInv'
  OBVIOUS
<1>1. CASE UNCHANGED vars
  BY <1>1 DEF TempInv, vars, Temp, Key, File
<1>2. ASSUME NEW v \in Writers, CallStep(v) PROVE TempInv'
  <2> SUFFICES ASSUME NEW w \in Writers, pc'[w] = "rename"
               PROVE  Temp(w, TRUE)' \in temps' /\ Temp(w, FALSE)' \notin temps'
    BY DEF TempInv
  <2>1. CASE w # v
    <3>1. /\ pc[w] = "rename"
          /\ Temp(w, FALSE)' = Temp(w, FALSE) /\ Temp(w, TRUE)' = Temp(w, TRUE)
      BY <1>2, <2>1, OthersCall DEF Temp, Key, File
    <3>2. Temp(w, TRUE) \in temps /\ Temp(w, FALSE) \notin temps
      BY <3>1 DEF TempInv
    <3>3. \/ temps' = temps
          \/ /\ pc[v] # "idle"
             /\ temps' \subseteq temps \cup {Temp(v, FALSE), Temp(v, TRUE)}
             /\ temps \ {Temp(v, FALSE), Temp(v, TRUE)} \subseteq temps'
      BY <1>2 DEF CallStep, Begin, Stat, MakeDirs, Error, CreateTemp, Fill, Rename, Cleanup,
                  Crash, files
    <3>4. pc[v] # "idle" => /\ Temp(v, FALSE) # Temp(w, FALSE) /\ Temp(v, TRUE) # Temp(w, FALSE)
                            /\ Temp(v, TRUE) # Temp(w, TRUE) /\ Temp(w, TRUE) # Temp(v, FALSE)
      BY <2>1, <3>1, TempsDiffer
    <3> QED
      BY <3>1, <3>2, <3>3, <3>4
  <2>2. CASE w = v /\ pc[v] = "fill"
    <3>1. /\ Fill(v) /\ temps' = (temps \ {Temp(v, FALSE)}) \cup {Temp(v, TRUE)}
          /\ Temp(v, FALSE)' = Temp(v, FALSE) /\ Temp(v, TRUE)' = Temp(v, TRUE)
      BY <1>2, <2>2 DEF CallStep, Begin, Stat, MakeDirs, CreateTemp, Fill, Rename, Cleanup,
                        Crash, Goto, Answer, TypeOK, Temp, Key, File
    <3>2. Temp(v, TRUE) # Temp(v, FALSE)
      BY <2>2, TempsDiffer
    <3> QED
      BY <2>2, <3>1, <3>2
  <2>3. CASE w = v /\ pc[v] # "fill"
    <3>1. CASE Rename(v)
      <4>1. pc[v] = "rename"
        BY <3>1 DEF Rename
      <4> QED
        BY <2>3, <3>1, <4>1, RenameCases, AdvanceCall DEF Goto, TypeOK
    <3>2. CASE ~Rename(v)
      BY <1>2, <2>3, <3>2 DEF CallStep, Begin, Stat, MakeDirs, Error, CreateTemp, Fill, Cleanup,
                              Crash, Goto, Answer, TypeOK
    <3> QED
      BY <3>1, <3>2
  <2> QED
    BY <2>1, <2>2, <2>3
<1> QED
  BY <1>1, <1>2, NextIsCallStep

(* A temporary file is one that a call works on, or that a lost call left. *)
LEMMA NoTempStep ==
  TypeOK /\ TempInv /\ NoTempLeft /\ [Next]_vars => NoTempLeft'
<1> SUFFICES ASSUME TypeOK, TempInv, NoTempLeft, [Next]_vars,
                    NEW t \in temps', t.page.n \notin lost'
             PROVE  \E w \in Writers :
                      /\ pc'[w] \in {"fill", "rename", "cleanup"}
                      /\ t \in {Temp(w, TRUE)', Temp(w, FALSE)'}
  BY DEF NoTempLeft
<1>0. t.page.n \notin lost
  BY NextIsCallStep DEF CallStep, Begin, Stat, MakeDirs, Error, CreateTemp, Fill, Rename,
                        Cleanup, Crash, history, vars
<1>1. CASE UNCHANGED vars
  BY <1>0, <1>1 DEF NoTempLeft, vars, Temp, Key, File
<1>2. ASSUME NEW v \in Writers, CallStep(v)
      PROVE  \E w \in Writers :
               /\ pc'[w] \in {"fill", "rename", "cleanup"}
               /\ t \in {Temp(w, TRUE)', Temp(w, FALSE)'}
  <2> DEFINE Mine == /\ pc'[v] \in {"fill", "rename", "cleanup"}
                     /\ t \in {Temp(v, TRUE)', Temp(v, FALSE)'}
  <2>1. ASSUME NEW w \in Writers \ {v}, pc[w] \in {"fill", "rename", "cleanup"},
               t \in {Temp(w, TRUE), Temp(w, FALSE)}
        PROVE  \E u \in Writers : /\ pc'[u] \in {"fill", "rename", "cleanup"}
                                  /\ t \in {Temp(u, TRUE)', Temp(u, FALSE)'}
    BY <1>2, <2>1, OthersCall DEF Temp, Key, File
  <2>2. CASE CreateTemp(v) /\ t \notin temps
    <3>1. Mine
      BY <2>2 DEF CreateTemp, Error, files, Goto, TypeOK, Temp, Key, File
    <3> QED
      BY <3>1
  <2>3. CASE Fill(v) /\ (t \notin temps \/ t \in {Temp(v, TRUE), Temp(v, FALSE)})
    <3>1. Mine
      BY <2>3 DEF Fill, Goto, TypeOK, Temp, Key, File
    <3> QED
      BY <3>1
  <2>4. CASE Rename(v) /\ t \in {Temp(v, TRUE), Temp(v, FALSE)}
    <3>1. pc[v] = "rename" /\ Temp(v, FALSE) \notin temps
      BY <2>4 DEF Rename, TempInv
    <3>2. CASE temps' = temps \ {Temp(v, TRUE), Temp(v, FALSE)}
      BY <2>4, <3>1, <3>2
    <3>3. CASE Goto(v, "cleanup") /\ UNCHANGED <<files, calls, call, result>>
      <4>1. Mine
        BY <2>4, <3>3 DEF Goto, TypeOK, Temp, Key, File
      <4> QED
        BY <4>1
    <3> QED
      BY <2>4, <3>2, <3>3, RenameCases
  <2>5. CASE Cleanup(v) /\ t \in {Temp(v, TRUE), Temp(v, FALSE)}
    <3>1. t.page.n = call[v].page.n
      BY <2>5 DEF Temp
    <3> QED
      BY <2>5, <3>1 DEF Cleanup
  <2>6. CASE Crash(v) /\ t \in {Temp(v, TRUE), Temp(v, FALSE)}
    <3>1. t.page.n = call[v].page.n
      BY <2>6 DEF Temp
    <3> QED
      BY <2>6, <3>1 DEF Crash
  <2>7. t \notin temps => CreateTemp(v) \/ Fill(v)
    BY <1>2 DEF CallStep, Begin, Stat, MakeDirs, Error, Rename, Cleanup, Crash, files
  <2>8. t \in temps =>
          \/ \E w \in Writers \ {v} : /\ pc[w] \in {"fill", "rename", "cleanup"}
                                      /\ t \in {Temp(w, TRUE), Temp(w, FALSE)}
          \/ /\ pc[v] \in {"fill", "rename", "cleanup"}
             /\ t \in {Temp(v, TRUE), Temp(v, FALSE)}
    BY <1>0 DEF NoTempLeft
  <2>9. pc[v] \in {"fill", "rename", "cleanup"} => Fill(v) \/ Rename(v) \/ Cleanup(v) \/ Crash(v)
    BY <1>2 DEF CallStep, Begin, Stat, MakeDirs, CreateTemp
  <2> QED
    BY <2>1, <2>2, <2>3, <2>4, <2>5, <2>6, <2>7, <2>8, <2>9
<1> QED
  BY <1>1, <1>2, NextIsCallStep

(* What SoleInv and OkIsOnDisk say of one run.                             *)
Sole(w) ==
  /\ result[w] = "ok" => call[w] # None
  /\ pc[w] # "idle" =>
       /\ call[w].page.n = calls
       /\ File(w) = "outbound" => index[Key(w)] = [page |-> call[w].page, whole |-> TRUE]
       /\ pc[w] # "stat" /\ File(w) = "index" /\ ~Refetch[w] => index[Key(w)] = None
  /\ result[w] = "ok" /\ call[w].page.n = calls =>
       /\ index[Key(w)] = [page |-> call[w].page, whole |-> TRUE]
       /\ call[w].page.refs => outbound[Key(w)] = index[Key(w)]

(* ... holds after the next step of its call.                              *)
LEMMA SoleOwn ==
  ASSUME TypeOK, StageInv, TempInv, NEW w \in Writers, CallStep(w), ~Begin(w), Sole(w), orderly'
  PROVE  Sole(w)'
<1> USE NotNone
<1>1. call[w] # None /\ pc[w] # "idle"
  BY CallType DEF CallStep, Stat, MakeDirs, CreateTemp, Fill, Rename, Cleanup, Crash
<1>2. CASE Stat(w)
  <2>1. File(w) = "index"
    BY <1>2, CallType DEF Stat, StageInv, Files
  <2> QED
    BY <1>2, <2>1 DEF Stat, Sole, TypeOK, StageInv, Goto, Answer, files, File, Key
<1>3. CASE MakeDirs(w)
  BY <1>3 DEF MakeDirs, Error, Sole, TypeOK, Goto, Answer, files, File, Key
<1>4. CASE CreateTemp(w)
  BY <1>4 DEF CreateTemp, Error, Sole, TypeOK, Goto, Answer, files, File, Key
<1>5. CASE Fill(w)
  BY <1>5 DEF Fill, Sole, TypeOK, Goto, File, Key
<1>6. CASE Rename(w)
  <2> DEFINE c == [page |-> call[w].page, whole |-> TRUE]
  <2>1. /\ pc[w] = "rename" /\ result[w] = "none" /\ Key(w) \in Keys /\ File(w) \in Files
        /\ calls' = calls /\ Held(w) = c /\ c \in Contents
    BY <1>6, CallType, HeldWhole DEF Rename, StageInv
  <2>2. CASE Place(w, c) /\ Advance(w)
    <3>1. CASE File(w) = "index" /\ call[w].page.refs
      <4>1. index'[Key(w)] = c
        BY <2>1, <2>2, <3>1 DEF Place, TypeOK
      <4>2. /\ call'[w] = [key |-> Key(w), page |-> call[w].page, file |-> "outbound"]
            /\ result'[w] = "none"
        BY <2>1, <2>2, <3>1, AdvanceCall DEF TypeOK
      <4>3. call'[w].key = Key(w) /\ call'[w].page = call[w].page /\ call'[w].file = "outbound"
        BY <4>2
      <4> QED
        BY <1>1, <2>1, <4>1, <4>2, <4>3 DEF Sole, File, Key
    <3>2. CASE File(w) = "index" /\ ~call[w].page.refs
      <4>1. index'[Key(w)] = c
        BY <2>1, <2>2, <3>2 DEF Place, TypeOK
      <4>2. call' = call /\ pc'[w] = "idle"
        BY <2>1, <2>2, <3>2, AdvanceCall DEF TypeOK
      <4> QED
        BY <1>1, <3>2, <4>1, <4>2 DEF Sole, File, Key
    <3>3. CASE File(w) = "outbound"
      <4>1. outbound'[Key(w)] = c /\ index' = index /\ index[Key(w)] = c
        BY <1>1, <2>1, <2>2, <3>3 DEF Place, TypeOK, Sole
      <4>2. call' = call /\ pc'[w] = "idle"
        BY <2>1, <2>2, <3>3, AdvanceCall DEF TypeOK
      <4> QED
        BY <1>1, <4>1, <4>2 DEF Sole, File, Key
    <3> QED
      BY <2>1, <3>1, <3>2, <3>3 DEF Files
  <2>3. CASE Goto(w, "cleanup") /\ UNCHANGED <<files, calls, call, result>>
    BY <2>1, <2>3 DEF Sole, TypeOK, Goto, files, File, Key
  <2> QED
    BY <1>6, <2>1, <2>2, <2>3, RenameCases
<1>7. CASE Cleanup(w)
  BY <1>7 DEF Cleanup, Sole, TypeOK, Goto, Answer, File, Key
<1>8. CASE Crash(w)
  BY <1>8 DEF Crash, Sole, TypeOK, Goto, Answer, files, File, Key
<1> QED
  BY <1>2, <1>3, <1>4, <1>5, <1>6, <1>7, <1>8 DEF CallStep

(* One call after the other: nobody comes between the steps of a call.     *)
LEMMA SoleStep ==
  TypeOK /\ PageInv /\ StageInv /\ TempInv /\ SoleInv /\ OkIsOnDisk /\ [Next]_vars
    => SoleInv' /\ OkIsOnDisk'
<1> SUFFICES ASSUME TypeOK, PageInv, StageInv, TempInv, SoleInv, OkIsOnDisk, [Next]_vars, orderly'
             PROVE  \A v \in Writers :
                      /\ Sole(v)'
                      /\ pc'[v] # "idle" => \A u \in Writers \ {v} : pc'[u] = "idle"
  BY DEF SoleInv, OkIsOnDisk, Sole
<1> USE NotNone
<1>1. orderly
  BY NextIsCallStep DEF CallStep, Begin, Stat, MakeDirs, Error, CreateTemp, Fill, Rename,
                        Cleanup, Crash, history, vars
<1>2. \A v \in Writers : Sole(v)
  BY <1>1 DEF SoleInv, OkIsOnDisk, Sole
<1>3. \A v \in Writers : pc[v] # "idle" => \A u \in Writers \ {v} : pc[u] = "idle"
  BY <1>1 DEF SoleInv
<1>4. CASE UNCHANGED vars
  BY <1>2, <1>3, <1>4 DEF Sole, vars, File, Key
<1>5. ASSUME NEW w \in Writers, Begin(w)
      PROVE  \A v \in Writers :
               /\ Sole(v)'
               /\ pc'[v] # "idle" => \A u \in Writers \ {v} : pc'[u] = "idle"
  <2>1. /\ pc'[w] = "stat" /\ call'[w].file = "index" /\ result'[w] = "none"
        /\ call'[w].page.n = calls' /\ calls' = calls + 1 /\ calls \in Nat
    BY <1>5, StoreAssumption DEF Begin, TypeOK, Goto
  <2>2. Sole(w)'
    BY <2>1 DEF Sole, File
  <2>3. \A v \in Writers : pc[v] = "idle"
    BY <1>5 DEF Begin
  <2>4. \A v \in Writers \ {w} : pc'[v] = "idle" /\ call'[v] = call[v] /\ result'[v] = result[v]
    BY <1>5, <2>3, OthersCall DEF CallStep
  <2>5. ASSUME NEW v \in Writers \ {w}, result[v] = "ok" PROVE call[v] # None /\ call[v].page.n # calls'
    <3>1. call[v] # None
      BY <1>2, <2>5 DEF Sole
    <3>2. call[v].page.n \in Nat /\ call[v].page.n <= calls
      BY <3>1, StoreAssumption DEF TypeOK, PageInv, Calls, Pages
    <3> QED
      BY <2>1, <3>1, <3>2
  <2> QED
    BY <2>2, <2>4, <2>5 DEF Sole
<1>6. ASSUME NEW w \in Writers, CallStep(w), ~Begin(w)
      PROVE  \A v \in Writers :
               /\ Sole(v)'
               /\ pc'[v] # "idle" => \A u \in Writers \ {v} : pc'[u] = "idle"
  <2>1. Sole(w)'
    BY <1>2, <1>6, SoleOwn
  <2>2. pc[w] # "idle" /\ calls' = calls
    BY <1>6 DEF CallStep, Stat, MakeDirs, Error, CreateTemp, Fill, Rename, Cleanup, Crash
  <2>3. call[w] # None /\ call[w].page.n = calls
    BY <1>2, <2>2, CallType DEF Sole
  <2>4. \A v \in Writers \ {w} : pc'[v] = "idle" /\ call'[v] = call[v] /\ result'[v] = result[v]
    BY <1>3, <1>6, <2>2, OthersCall
  <2>5. \A v \in Writers \ {w} : result[v] = "ok" => call[v] # None /\ call[v].page.n # calls
    BY <1>2, <2>3 DEF Sole, PageInv
  <2> QED
    BY <2>1, <2>2, <2>4, <2>5 DEF Sole
<1> QED
  BY <1>4, <1>5, <1>6, NextIsCallStep

(* One call after the other: an index.md is replaced by a refetch only.    *)
LEMMA KeepStep ==
  ASSUME TypeOK, SoleInv, [Next]_vars,
         NEW k \in Keys, orderly, index[k] # None, index'[k] # index[k]
  PROVE  \E w \in Writers : Refetch[w] /\ pc[w] = "rename" /\ Key(w) = k
<1>1. PICK w \in Writers : /\ pc[w] = "rename"
                           /\ Place(w, Held(w))
  BY FilesChange
<1>2. File(w) = "index" /\ Key(w) = k
  BY <1>1 DEF Place, TypeOK
<1>3. Refetch[w]
  BY <1>1, <1>2, StoreAssumption DEF SoleInv
<1> QED
  BY <1>1, <1>2, <1>3

-----------------------------------------------------------------------------
(***************************************************************************)
(* The refinement: each step of a call is the step of IssueDisk that its   *)
(* place in Write stands for, or none.                                     *)
(***************************************************************************)
page    == [k \in Keys |-> PageOf(k)]
stage   == [w \in Writers |-> StageOf(w)]
request == [w \in Writers |-> RequestOf(w)]

(* At the beginning the disk is as IssueDisk begins.                       *)
LEMMA DiskInitially == Init => Disk!DiskInit
<1> SUFFICES ASSUME Init PROVE Disk!DiskInit
  OBVIOUS
<1> QED
  BY DEF Init, Disk!DiskInit, PageOf, StageOf, RequestOf

(* What the mapping says of one writer follows from its own pc and call.   *)
LEMMA MapOthers ==
  ASSUME TypeOK, NEW v \in Writers, CallStep(v)
  PROVE  \A w \in Writers \ {v} : StageOf(w)' = StageOf(w) /\ RequestOf(w)' = RequestOf(w)
BY OthersCall DEF StageOf, RequestOf, Key, File

(* Without a rename of an index.md no page changes.                        *)
LEMMA MapPage ==
  ASSUME index' = index
  PROVE  page' = page
BY DEF page, PageOf

(* A call keeps its request until it is over.                              *)
LEMMA MapRequest ==
  ASSUME TypeOK, NEW v \in Writers, CallStep(v), ~Begin(v)
  PROVE  request' = request
<1>1. RequestOf(v)' = RequestOf(v)
  <2>1. CASE call' = call
    BY <2>1 DEF RequestOf, Key
  <2>2. CASE Rename(v) /\ Advance(v)
    <3>1. pc[v] # "idle"
      BY <2>2 DEF Rename
    <3>2. call[v] \in Calls /\ call[v] # None
      BY <3>1, CallType, NotNone
    <3>3. CASE call' = call
      BY <3>3 DEF RequestOf, Key
    <3>4. CASE call' = [call EXCEPT ![v] = [key |-> Key(v), page |-> call[v].page,
                                           file |-> "outbound"]]
      <4>1. call'[v] = [key |-> Key(v), page |-> call[v].page, file |-> "outbound"]
        BY <3>4 DEF TypeOK
      <4>a. Key(v) \in Keys /\ call[v].page \in Pages
        BY <3>1, CallType
      <4>2. call'[v] \in Calls
        BY <4>1, <4>a DEF Calls, Files
      <4>3. call'[v] # None /\ call'[v].key = Key(v) /\ call'[v].page = call[v].page
        BY <4>1, <4>2, NotNone
      <4> QED
        BY <3>2, <4>3 DEF RequestOf, Key
    <3> QED
      BY <2>2, <3>1, <3>3, <3>4, AdvanceCall
  <2> QED
    BY <2>1, <2>2, RenameCases
    DEF CallStep, Stat, MakeDirs, Error, CreateTemp, Fill, Cleanup, Crash
<1> QED
  BY <1>1, MapOthers DEF request

(* The stage of the writer that moves, as an update of the function.       *)
LEMMA MapStage ==
  ASSUME TypeOK, NEW v \in Writers, CallStep(v), NEW l, StageOf(v)' = l
  PROVE  stage' = [stage EXCEPT ![v] = l]
BY MapOthers DEF stage

(* Every step of the store is one of IssueDisk, or none.                   *)
LEMMA DiskStep ==
  ASSUME TypeOK, StageInv, PageInv, [Next]_vars
  PROVE  [Disk!DiskNext]_(Disk!dvars)
<1>0. CASE UNCHANGED vars
  BY <1>0 DEF vars, Disk!dvars, PageOf, StageOf, RequestOf, Key, File
<1> SUFFICES ASSUME NEW w \in Writers, CallStep(w)
             PROVE  [Disk!DiskNext]_(Disk!dvars)
  BY <1>0, NextIsCallStep
<1> USE NotNone
<1>a. ASSUME page' = page, stage' = stage, request' = request, result' = result
      PROVE  UNCHANGED Disk!dvars
  BY <1>a DEF Disk!dvars, page, stage, request
<1>b. stage[w] = StageOf(w) /\ request[w] = RequestOf(w)
  BY DEF stage, request
<1>c. pc[w] # "idle" => /\ request[w] = [key |-> Key(w), page |-> call[w].page]
                        /\ Key(w) \in Keys /\ call[w].page \in Pages /\ File(w) \in Files
  BY <1>b, CallType DEF RequestOf
<1>1. CASE Begin(w)
  <2>1. PICK k \in Keys, refs \in BOOLEAN :
          call' = [call EXCEPT ![w] = [key |-> k, page |-> [n |-> calls', refs |-> refs],
                                       file |-> "index"]]
    BY <1>1 DEF Begin
  <2> DEFINE p == [n |-> calls', refs |-> refs]
  <2>2. p \in Pages
    BY <1>1, StoreAssumption DEF Begin, TypeOK, Pages
  <2>3. call'[w] = [key |-> k, page |-> p, file |-> "index"] /\ call'[w] \in Calls
    BY <2>1, <2>2 DEF TypeOK, Calls, Files
  <2>4. RequestOf(w)' = [key |-> k, page |-> p]
    BY <2>3 DEF RequestOf, Key
  <2>5. request' = [request EXCEPT ![w] = [key |-> k, page |-> p]]
    BY <2>4, MapOthers DEF request
  <2>6. pc[w] = "idle" /\ pc'[w] = "stat" /\ index' = index
    BY <1>1 DEF Begin, Goto, TypeOK, files
  <2>7. StageOf(w)' = "asked" /\ stage[w] = "idle"
    BY <2>6, <1>b DEF StageOf
  <2>8. stage' = [stage EXCEPT ![w] = "asked"]
    BY <2>7, MapStage
  <2>9. result' = [result EXCEPT ![w] = "none"]
    BY <1>1 DEF Begin
  <2>10. Disk!Ask(w, k, p)
    BY <2>5, <2>6, <2>7, <2>8, <2>9, MapPage DEF Disk!Ask, page, stage, request
  <2> QED
    BY <2>2, <2>10 DEF Disk!DiskNext
<1>2. CASE Stat(w)
  <2>1. pc[w] = "stat" /\ index' = index /\ call' = call
    BY <1>2 DEF Stat, files
  <2>2. File(w) = "index" /\ stage[w] = "asked" /\ request' = request /\ page' = page
    BY <1>2, <2>1, <1>b, <1>c, MapRequest, MapPage DEF StageInv, Files, StageOf, Begin
  <2>3. page[request[w].key] = None <=> index[Key(w)] = None
    BY <2>1, <1>c DEF page, PageOf, TypeOK, Contents
  <2>4. CASE ~Refetch[w] /\ index[Key(w)] # None /\ Answer(w, "exists")
    <3>1. StageOf(w)' = "idle"
      BY <2>4 DEF Answer, Goto, TypeOK, StageOf
    <3>2. stage' = [stage EXCEPT ![w] = "idle"]
      BY <3>1, MapStage
    <3>3. Disk!Decline(w)
      BY <2>2, <2>3, <2>4, <3>2 DEF Disk!Decline, Disk!Reply, Answer, page, stage, request
    <3> QED
      BY <3>3 DEF Disk!DiskNext
  <2>5. CASE /\ Refetch[w] \/ index[Key(w)] = None \/ "stat" \in Faults
             /\ Goto(w, "mkdir") /\ result' = result
    <3>1. StageOf(w)' = "cleared"
      BY <2>1, <2>2, <2>5 DEF Goto, TypeOK, StageOf, File
    <3>2. stage' = [stage EXCEPT ![w] = "cleared"]
      BY <3>1, MapStage
    <3>3. Disk!Clear(w)
      BY <2>2, <2>3, <2>5, <3>2 DEF Disk!Clear, page, stage, request
    <3> QED
      BY <3>3 DEF Disk!DiskNext
  <2> QED
    BY <1>2, <2>4, <2>5 DEF Stat
<1>3. ASSUME pc[w] \in {"mkdir", "create", "cleanup"}, Answer(w, "error"),
             index' = index, request' = request
      PROVE  Disk!Fail(w)
  <2>1. stage[w] \in {"cleared", "placed"}
    BY <1>3, <1>b DEF StageOf
  <2>2. StageOf(w)' = "idle"
    BY <1>3 DEF Answer, Goto, TypeOK, StageOf
  <2>3. stage' = [stage EXCEPT ![w] = "idle"]
    BY <2>2, MapStage
  <2> QED
    BY <1>3, <2>1, <2>3, MapPage DEF Disk!Fail, Disk!Reply, Answer, page, stage, request
<1>4. ASSUME pc[w] \in {"mkdir", "create", "fill", "rename"}, index' = index, call' = call,
             pc' = [pc EXCEPT ![w] = pc'[w]], result' = result, request' = request,
             pc'[w] \in {"create", "fill", "rename", "cleanup"}
      PROVE  UNCHANGED Disk!dvars
  <2>1. StageOf(w)' = StageOf(w)
    BY <1>4 DEF StageOf, File
  <2>2. stage' = stage
    BY <2>1, MapOthers DEF stage
  <2> QED
    BY <1>a, <1>4, <2>2, MapPage
<1>5. CASE MakeDirs(w) \/ CreateTemp(w) \/ Fill(w)
  <2>1. request' = request /\ index' = index /\ call' = call
    BY <1>5, MapRequest DEF MakeDirs, CreateTemp, Fill, Error, Begin, files
  <2>2. CASE Error(w) /\ pc[w] \in {"mkdir", "create"}
    BY <1>3, <2>1, <2>2 DEF Error, Disk!DiskNext
  <2>3. CASE /\ pc[w] \in {"mkdir", "create", "fill"} /\ result' = result
             /\ Goto(w, "create") \/ Goto(w, "fill") \/ Goto(w, "rename") \/ Goto(w, "cleanup")
    BY <1>4, <2>1, <2>3 DEF Goto, TypeOK
  <2> QED
    BY <1>5, <2>2, <2>3 DEF MakeDirs, CreateTemp, Fill
<1>6. CASE Rename(w)
  <2> DEFINE c == Held(w)
  <2>1. pc[w] = "rename" /\ request' = request
    BY <1>6, MapRequest DEF Rename, Begin
  <2>2. CASE Goto(w, "cleanup") /\ UNCHANGED <<files, calls, call, result>>
    BY <1>4, <2>1, <2>2 DEF Goto, TypeOK, files
  <2>3. CASE Place(w, c) /\ Advance(w) /\ File(w) = "index"
    <3>1. stage[w] = "cleared"
      BY <1>b, <2>1, <2>3 DEF StageOf
    <3>2. index' = [index EXCEPT ![Key(w)] = c]
      BY <2>3 DEF Place
    <3>3. c # None /\ c.page = call[w].page
      BY <2>1, CallType, HeldType
    <3>4. page' = [page EXCEPT ![request[w].key] = request[w].page]
      <4>1. request[w].key = Key(w) /\ request[w].page = call[w].page /\ Key(w) \in Keys
        BY <1>c, <2>1
      <4>2. \A k \in Keys : k = Key(w) => PageOf(k)' = call[w].page
        BY <3>2, <3>3, <4>1 DEF PageOf, TypeOK
      <4>3. \A k \in Keys \ {Key(w)} : PageOf(k)' = PageOf(k)
        BY <3>2 DEF PageOf, TypeOK
      <4> QED
        BY <4>1, <4>2, <4>3 DEF page
    <3>5. CASE call[w].page.refs
      <4>1. call'[w].file = "outbound" /\ pc'[w] = "create" /\ result' = result
        BY <2>1, <2>3, <3>5, AdvanceCall DEF TypeOK
      <4>2. StageOf(w)' = "placed"
        BY <4>1 DEF StageOf, File
      <4>3. stage' = [stage EXCEPT ![w] = "placed"]
        BY <4>2, MapStage
      <4>4. Disk!Put(w)
        BY <2>1, <3>1, <3>4, <4>1, <4>3 DEF Disk!Put, page, stage, request
      <4> QED
        BY <4>4 DEF Disk!DiskNext
    <3>6. CASE ~call[w].page.refs
      <4>1. pc'[w] = "idle" /\ result' = [result EXCEPT ![w] = "ok"]
        BY <2>1, <2>3, <3>6, AdvanceCall DEF TypeOK
      <4>2. stage' = [stage EXCEPT ![w] = "idle"]
        BY <4>1, MapStage DEF StageOf
      <4>3. Disk!Put(w)
        BY <2>1, <3>1, <3>4, <4>1, <4>2 DEF Disk!Put, Disk!Reply, page, stage, request
      <4> QED
        BY <4>3 DEF Disk!DiskNext
    <3> QED
      BY <3>5, <3>6
  <2>4. CASE Place(w, c) /\ Advance(w) /\ File(w) = "outbound"
    <3>1. stage[w] = "placed" /\ index' = index
      BY <1>b, <2>1, <2>4 DEF StageOf, Place
    <3>2. pc'[w] = "idle" /\ result' = [result EXCEPT ![w] = "ok"]
      BY <2>1, <2>4, AdvanceCall DEF TypeOK
    <3>3. stage' = [stage EXCEPT ![w] = "idle"]
      BY <3>2, MapStage DEF StageOf
    <3>4. Disk!Confirm(w)
      BY <2>1, <3>1, <3>2, <3>3, MapPage
      DEF Disk!Confirm, Disk!Reply, page, stage, request
    <3> QED
      BY <3>4 DEF Disk!DiskNext
  <2> QED
    BY <1>6, <1>c, <2>1, <2>2, <2>3, <2>4, RenameCases DEF Files
<1>7. CASE Cleanup(w)
  <2>1. request' = request
    BY <1>7, MapRequest DEF Cleanup, Begin
  <2> QED
    BY <1>3, <1>7, <2>1 DEF Cleanup, Disk!DiskNext
<1>8. CASE Crash(w)
  <2>1. request' = request /\ page' = page
    BY <1>8, MapRequest, MapPage DEF Crash, Begin, files
  <2>2. StageOf(w)' = "idle"
    BY <1>8 DEF Crash, Answer, Goto, TypeOK, StageOf
  <2>3. stage' = [stage EXCEPT ![w] = "idle"]
    BY <2>2, MapStage
  <2>4. Disk!Die(w)
    BY <1>8, <2>1, <2>3 DEF Crash, Answer, Disk!Die, Disk!Reply, page, stage, request
  <2> QED
    BY <2>4 DEF Disk!DiskNext
<1> QED
  BY <1>1, <1>2, <1>5, <1>6, <1>7, <1>8 DEF CallStep

-----------------------------------------------------------------------------
(* The inductive invariant holds.                                          *)
THEOREM StoreInductive == Spec => []StoreInv
<1>1. StoreInv /\ [Next]_vars => StoreInv'
  BY TypeStep, PageStep, StageStep, FileStep, TempStep, NoTempStep, SoleStep DEF StoreInv
<1> QED
  BY <1>1, InitInv, PTL DEF Spec

(* Every variable keeps its type, for any number of runs and calls.        *)
THEOREM StoreTypeCorrect == Spec => []TypeOK
<1>1. StoreInv => TypeOK
  BY DEF StoreInv
<1> QED
  BY <1>1, StoreInductive, PTL

(* No crash, failure or other run leaves half a file under a proper name,  *)
(* though a rename puts in place whatever the temporary file holds:        *)
(* atomicWrite renames after the last byte, and nobody else touches the    *)
(* file meanwhile.                                                         *)
THEOREM FilesAreWhole == Spec => []NeverTorn
<1>1. StoreInv => NeverTorn
  BY DEF StoreInv
<1> QED
  BY <1>1, StoreInductive, PTL

(* An outbound.md never stands without its index.md (the order in Write).  *)
THEOREM IndexComesFirst == Spec => []OutboundHasIndex
<1>1. StoreInv => OutboundHasIndex
  BY DEF StoreInv
<1> QED
  BY <1>1, StoreInductive, PTL

(* Temporary files outlive a call only by a crash or a failed removal      *)
(* (atomicWrite's deferred clean-up).                                      *)
THEOREM TempsAreRemoved == Spec => []NoTempLeft
<1>1. StoreInv => NoTempLeft
  BY DEF StoreInv
<1> QED
  BY <1>1, StoreInductive, PTL

(* As long as no call overlapped another, a successful Write is on the     *)
(* disk until the next one.                                                *)
THEOREM SuccessIsOnDisk == Spec => []OkIsOnDisk
<1>1. StoreInv => OkIsOnDisk
  BY DEF StoreInv
<1> QED
  BY <1>1, StoreInductive, PTL

(* As long as no call overlapped another, Write replaces an index.md only  *)
(* with refetch.                                                           *)
THEOREM ExistingIsKept == Spec => KeepsExisting
<1>1. StoreInv /\ [Next]_vars =>
        [\A k \in Keys : orderly /\ index[k] # None /\ index'[k] # index[k] =>
           \E w \in Writers : Refetch[w] /\ pc[w] = "rename" /\ Key(w) = k]_vars
  BY KeepStep DEF StoreInv
<1> QED
  BY <1>1, StoreInductive, PTL DEF Spec, KeepsExisting

(* Write does what IssueDisk promises, for any number of runs and calls:   *)
(* an issue's page changes in one step, in a call that was cleared to      *)
(* replace it, and a call answers "ok" only after its page is in place.    *)
THEOREM DiskImplemented == Spec => ImplementsDisk
<1>1. StoreInv /\ [Next]_vars => [Disk!DiskNext]_(Disk!dvars)
  BY DiskStep DEF StoreInv
<1> QED
  BY <1>1, StoreInductive, DiskInitially, PTL DEF Spec, ImplementsDisk, Disk!DiskSpec
=============================================================================
