---------------------------- MODULE CrawlProofs ----------------------------
(***************************************************************************)
(* Proofs about Crawl: type correctness, the inductive invariant, the      *)
(* invariants and the refinement that follow from it; then what Crawl      *)
(* accepts and turns away: the issue cap is exact, the depth limit holds,  *)
(* and no reference is lost.                                               *)
(***************************************************************************)
EXTENDS CrawlInvariant, FiniteSetTheorems, SequenceTheorems, TLAPS

-----------------------------------------------------------------------------
(* Work items built from a sequence of keys are a sequence of items.       *)
LEMMA ItemsAtType ==
  ASSUME NEW keys \in Seq(Keys), NEW d \in Nat
  PROVE  ItemsAt(keys, d) \in Seq(Item)
<1>1. DOMAIN keys = 1 .. Len(keys) /\ Len(keys) \in Nat
  OBVIOUS
<1>2. \A i \in 1 .. Len(keys) : [key |-> keys[i], depth |-> d] \in Item
  BY <1>1 DEF Item
<1>3. ItemsAt(keys, d) = [i \in 1 .. Len(keys) |-> [key |-> keys[i], depth |-> d]]
  BY <1>1 DEF ItemsAt
<1> QED
  BY <1>1, <1>2, <1>3

(* The head and tail of a non-empty sequence of items.                     *)
LEMMA ItemSeq ==
  ASSUME NEW s \in Seq(Item), s # <<>>
  PROVE  /\ Head(s) \in Item
         /\ Head(s).key \in Keys /\ Head(s).depth \in Nat
         /\ Tail(s) \in Seq(Item)
         /\ Len(Tail(s)) = Len(s) - 1
         /\ Len(s) \in Nat \ {0}
<1>1. Head(s) \in Item /\ Tail(s) \in Seq(Item) /\ Len(Tail(s)) = Len(s) - 1
  BY HeadTailProperties
<1>2. Len(s) \in Nat \ {0}
  BY EmptySeq
<1> QED
  BY <1>1, <1>2 DEF Item

(* The keys of a sequence of items.                                        *)
LEMMA KeysInType ==
  ASSUME NEW s \in Seq(Item)
  PROVE  KeysIn(s) \subseteq Keys
<1>1. \A i \in DOMAIN s : s[i] \in Item
  BY ElementOfSeq, LenProperties
<1> QED
  BY <1>1 DEF KeysIn, Item

(* The variables have their types at the beginning.                        *)
LEMMA InitType == Init => TypeOK
<1> SUFFICES ASSUME Init PROVE TypeOK
  OBVIOUS
<1> USE CrawlAssumption
<1>1. ItemsAt(StartKeys, 0) \in Seq(Item)
  BY ItemsAtType
<1>2. /\ todo \in [Procs -> Seq(Item)]
      /\ \A p \in Procs : pc[p] = "send" => todo[p] # <<>>
  BY <1>1 DEF Init
<1>3. job \in [Workers -> Job \cup {Idle}]
  BY DEF Init
<1>4. tally \in [Keys -> Seq(Outcomes)] /\ queue \in Seq(Item)
  BY DEF Init
<1>5. /\ pc \in [Procs -> WorkerPCs \cup MainPCs \cup CloserPCs]
      /\ \A w \in Workers : pc[w] \in WorkerPCs
      /\ \A w \in Workers : pc[w] \in InProcess \cup Reported \cup Winding => job[w] \in Job
      /\ \A w \in Workers : pc[w] = "report" => job[w].res \in Outcomes
      /\ pc[Main] \in MainPCs
      /\ pc[Closer] \in CloserPCs
  BY DEF Init, Procs, WorkerPCs, MainPCs, CloserPCs, InProcess, Reported, Winding
<1>6. mu \in Procs \cup {NoOne} /\ pending \in Int /\ visited \subseteq Keys
  BY DEF Init, Procs
<1>9. queueClosed \in BOOLEAN /\ cancelled \in BOOLEAN /\ abortErr \in BOOLEAN
  BY Zenon DEF Init
<1>7. refused \in [Keys -> Nat] /\ links \in [Keys -> SUBSET Keys]
  BY DEF Init
<1>8. disk \in [Keys -> {"none", "issue", "stub"}]
  BY DEF Init
<1> QED
  BY <1>2, <1>3, <1>4, <1>5, <1>6, <1>7, <1>8, <1>9 DEF TypeOK

-----------------------------------------------------------------------------
(***************************************************************************)
(* The actions, grouped by what they touch.                                *)
(***************************************************************************)

(* A step of processIssue before the outcome is counted: the worker moves, *)
(* its key stays, and nothing but the disk and the links changes.          *)
LocalStep(w) ==
  /\ pc[w] \in InProcess \ {"report", "success"}
  /\ \E l \in InProcess : pc' = [pc EXCEPT ![w] = l]
  /\ \E j \in Job :
       /\ job' = [job EXCEPT ![w] = j]
       /\ j.key = job[w].key /\ j.depth = job[w].depth
       /\ pc'[w] = "report" => j.res # "none"
       /\ pc'[w] # "report" => j.res = job[w].res
  /\ UNCHANGED <<mu, todo, queue, queueClosed, pending, visited, refused,
                 tally, cancelled, abortErr>>

(* The surroundings cancel, or change the disk.                            *)
OutsideStep ==
  /\ cancelled' \in {cancelled, TRUE}
  /\ UNCHANGED <<mu, pc, job, todo, queue, queueClosed, pending, visited,
                 refused, tally, abortErr, links>>

(* What a search keeps is a sequence of the children.                      *)
LEMMA PartsAre ==
  ASSUME NEW T, NEW s \in Seq(T), NEW t \in PartsOf(s)
  PROVE  t \in Seq(T) /\ \A i \in DOMAIN t : t[i] \in {s[x] : x \in DOMAIN s}
<1> DEFINE S == {s[i] : i \in DOMAIN s}
<1>1. PICK n \in 0 .. Len(s) : t \in [1 .. n -> S]
  BY DEF PartsOf
<1>2. S \subseteq T
  OBVIOUS
<1> HIDE DEF S
<1>3. t \in Seq(T) /\ \A i \in DOMAIN t : t[i] \in S
  BY <1>1, <1>2
<1> QED
  BY <1>3 DEF S

(* A finer Next: the same steps, the ones of a group put together.         *)
LEMMA LocalSteps ==
  ASSUME TypeOK, NEW w \in Workers,
         \/ Probe(w) \/ Fetch(w) \/ DiscoverChildren(w)
         \/ Snapshot(w) \/ WriteIssue(w) \/ WriteStub(w)
  PROVE  LocalStep(w)
<1> USE DEF TypeOK, Goto, Conclude, Key
<1>0. /\ pc[w] \in InProcess => job[w] \in Job
      /\ \A o \in Outcomes : pc[w] \in InProcess =>
           /\ [job[w] EXCEPT !.res = o] \in Job
           /\ [job EXCEPT ![w].res = o] = [job EXCEPT ![w] = [job[w] EXCEPT !.res = o]]
           /\ [job[w] EXCEPT !.res = o].key = job[w].key
           /\ [job[w] EXCEPT !.res = o].depth = job[w].depth
           /\ [job[w] EXCEPT !.res = o].res = o
           /\ o # "none"
  BY DEF Job, Outcomes
<1>00. pc \in [Procs -> WorkerPCs \cup MainPCs \cup CloserPCs] /\ w \in Procs
  BY DEF Procs
<1>000. pc[w] \in InProcess => [job EXCEPT ![w] = job[w]] = job
  OBVIOUS
<1>1. CASE Probe(w)
  <2>1. CASE Conclude(w, "Skipped")
    BY <1>0, <1>00, <1>1, <2>1 DEF Probe, LocalStep, InProcess, Outcomes
  <2>2. CASE Goto(w, "fetch") /\ UNCHANGED job
    BY <1>0, <1>00, <1>000, <1>1, <2>2 DEF Probe, LocalStep, InProcess
  <2> QED BY <1>1, <2>1, <2>2 DEF Probe
<1>2. CASE Fetch(w)
  <2>1. \/ \E o \in Outcomes : Conclude(w, o)
        \/ \E l \in {"children", "stub"} : Goto(w, l) /\ UNCHANGED job
    BY <1>2 DEF Fetch, Outcomes
  <2>2. CASE \E o \in Outcomes : Conclude(w, o)
    BY <1>0, <1>00, <1>2, <2>2 DEF Fetch, LocalStep, InProcess
  <2>3. CASE \E l \in {"children", "stub"} : Goto(w, l) /\ UNCHANGED job
    BY <1>0, <1>00, <1>000, <1>2, <2>3 DEF Fetch, LocalStep, InProcess
  <2> QED BY <2>1, <2>2, <2>3
<1>3. CASE DiscoverChildren(w)
  <2>1. PICK fs \in PartsOf(Children[Key(w)]) : job' = [job EXCEPT ![w].found = fs]
    BY <1>3 DEF DiscoverChildren
  <2> DEFINE j  == [job[w] EXCEPT !.found = fs]
  <2>2. job[w] \in Job /\ job[w].key \in Keys
    BY <1>3, <1>0 DEF DiscoverChildren, InProcess, Job
  <2>3. Children[job[w].key] \in Seq(Keys)
    BY <2>2, CrawlAssumption
  <2>4. fs \in Seq(Keys)
    BY <2>1, <2>3, PartsAre DEF Key
  <2>5. j \in Job /\ j.key = job[w].key /\ j.depth = job[w].depth /\ j.res = job[w].res
    BY <2>2, <2>4 DEF Job
  <2>6. job' = [job EXCEPT ![w] = j]
    BY <2>1, <2>2
  <2>7. pc' = [pc EXCEPT ![w] = "snapshot"] /\ pc[w] = "children" /\ pc'[w] = "snapshot"
    BY <1>3, <1>00 DEF DiscoverChildren
  <2> HIDE DEF j
  <2> QED
    BY <1>3, <2>5, <2>6, <2>7 DEF DiscoverChildren, LocalStep, InProcess
<1>4. CASE Snapshot(w)
  BY <1>0, <1>00, <1>000, <1>4 DEF Snapshot, LocalStep, InProcess
<1>5. CASE WriteIssue(w)
  <2>1. \/ \E o \in Outcomes : Conclude(w, o)
        \/ Goto(w, "success") /\ UNCHANGED job
    BY <1>5 DEF WriteIssue, Outcomes
  <2>2. CASE \E o \in Outcomes : Conclude(w, o)
    BY <1>0, <1>00, <1>5, <2>2 DEF WriteIssue, LocalStep, InProcess
  <2>3. CASE Goto(w, "success") /\ UNCHANGED job
    BY <1>0, <1>00, <1>000, <1>5, <2>3 DEF WriteIssue, LocalStep, InProcess
  <2> QED BY <2>1, <2>2, <2>3
<1>6. CASE WriteStub(w)
  <2>1. \E o \in Outcomes : Conclude(w, o)
    <3>1. Conclude(w, "Failed") \/ Conclude(w, "Stubbed")
      BY <1>6 DEF WriteStub
    <3> QED
      BY <3>1 DEF Outcomes
  <2>2. /\ pc[w] = "stub"
        /\ UNCHANGED <<mu, todo, queue, queueClosed, pending, visited, refused,
                       tally, cancelled, abortErr>>
    BY <1>6 DEF WriteStub
  <2> QED
    BY <1>0, <1>00, <2>1, <2>2 DEF LocalStep, InProcess
<1> QED
  BY <1>1, <1>2, <1>3, <1>4, <1>5, <1>6

FineNext ==
  \/ \E w \in Workers :
       \/ LocalStep(w) \/ Receive(w) \/ Exit(w) \/ Report(w) \/ ReportFetched(w)
       \/ Unlock(w) \/ Decrement(w) \/ CloseQueue(w) \/ Abort(w)
  \/ \E p \in Workers \cup {Main} :
       EnqueueKnown(p) \/ EnqueueRefuse(p) \/ EnqueueAdmit(p) \/ EnqueueSend(p)
  \/ Start \/ ReturnSummary
  \/ CloserLock \/ DrainItem \/ CloserUnlock
  \/ OutsideStep

(* Every step is one of the finer ones.                                    *)
LEMMA NextIsFine ==
  ASSUME TypeOK, [Next]_vars
  PROVE  FineNext
<1>1. CASE MainStep
  BY <1>1 DEF MainStep, Enqueue, FineNext
<1>2. ASSUME NEW w \in Workers, WorkerStep(w) PROVE FineNext
  BY <1>2, LocalSteps DEF WorkerStep, Enqueue, FineNext
<1>3. CASE CloserStep
  BY <1>3 DEF CloserStep, FineNext
<1>4. CASE Cancel
  BY <1>4 DEF Cancel, OutsideStep, FineNext
<1>5. ASSUME NEW k \in Keys, OtherRunWrites(k) PROVE FineNext
  BY <1>5 DEF OtherRunWrites, OutsideStep, FineNext
<1>6. CASE UNCHANGED vars \/ Finished
  BY <1>6 DEF vars, Finished, OutsideStep, FineNext
<1> QED
  BY <1>1, <1>2, <1>3, <1>4, <1>5, <1>6 DEF Next

-----------------------------------------------------------------------------
(***************************************************************************)
(* Type correctness.                                                       *)
(***************************************************************************)
LEMMA DiskType ==
  ASSUME TypeOK, [Next]_vars
  PROVE  disk' \in [Keys -> {"none", "issue", "stub"}]
<1>1. CASE UNCHANGED disk
  BY <1>1 DEF TypeOK
<1>2. \/ UNCHANGED disk
      \/ \E w \in Workers : WriteIssue(w) \/ WriteStub(w)
      \/ \E k \in Keys : OtherRunWrites(k)
  BY DEF Next, MainStep, WorkerStep, CloserStep, Enqueue, vars, Finished,
         EnqueueKnown, EnqueueRefuse, EnqueueAdmit, EnqueueSend, Start,
         ReturnSummary, Receive, Exit, Probe, Fetch, DiscoverChildren, Snapshot,
         Report, ReportFetched, Unlock, Decrement, CloseQueue, Abort,
         CloserLock, DrainItem, CloserUnlock, Cancel
<1>3. ASSUME NEW w \in Workers, WriteIssue(w) \/ WriteStub(w)
      PROVE  disk' \in [Keys -> {"none", "issue", "stub"}]
  BY <1>3 DEF WriteIssue, WriteStub, TypeOK
<1>4. ASSUME NEW k \in Keys, OtherRunWrites(k)
      PROVE  disk' \in [Keys -> {"none", "issue", "stub"}]
  BY <1>4 DEF OtherRunWrites, TypeOK
<1> QED
  BY <1>1, <1>2, <1>3, <1>4

(* The links of a page are sets of keys.                                   *)
LEMMA LinksType ==
  ASSUME TypeOK, [Next]_vars
  PROVE  links' \in [Keys -> SUBSET Keys]
<1>1. CASE UNCHANGED links
  BY <1>1 DEF TypeOK
<1>2. \/ UNCHANGED links
      \/ \E w \in Workers : Snapshot(w)
  BY DEF Next, MainStep, WorkerStep, CloserStep, Enqueue, vars, Finished,
         EnqueueKnown, EnqueueRefuse, EnqueueAdmit, EnqueueSend, Start,
         ReturnSummary, Receive, Exit, Probe, Fetch, DiscoverChildren, WriteIssue,
         WriteStub, Report, ReportFetched, Unlock, Decrement, CloseQueue, Abort,
         CloserLock, DrainItem, CloserUnlock, Cancel, OtherRunWrites
<1>3. ASSUME NEW w \in Workers, Snapshot(w)
      PROVE  links' \in [Keys -> SUBSET Keys]
  <2> DEFINE found == KeysIn(ItemsAt(job[w].found, 0))
             new   == (visited \cup found) \cap Linkable(Key(w))
  <2>1. links' = [links EXCEPT ![Key(w)] = new]
    BY <1>3 DEF Snapshot
  <2>2. job[w].found \in Seq(Keys)
    BY <1>3 DEF Snapshot, TypeOK, InProcess, Job
  <2>3. found \subseteq Keys
    <3>1. ItemsAt(job[w].found, 0) \in Seq(Item)
      BY <2>2, ItemsAtType
    <3> QED
      BY <3>1, KeysInType
  <2>4. new \in SUBSET Keys
    BY <2>3 DEF TypeOK
  <2> QED
    BY <2>1, <2>4 DEF TypeOK
<1> QED
  BY <1>1, <1>2, <1>3

(* The Boolean variables.                                                  *)
LEMMA FlagTypes ==
  ASSUME TypeOK, [Next]_vars
  PROVE  queueClosed' \in BOOLEAN /\ cancelled' \in BOOLEAN /\ abortErr' \in BOOLEAN
<1>0. queueClosed \in BOOLEAN /\ cancelled \in BOOLEAN /\ abortErr \in BOOLEAN
  BY DEF TypeOK
<1>1. \/ UNCHANGED queueClosed \/ queueClosed' = TRUE \/ queueClosed' = (pending = 0)
  BY DEF Next, MainStep, WorkerStep, CloserStep, Enqueue, vars, Finished,
         EnqueueKnown, EnqueueRefuse, EnqueueAdmit, EnqueueSend, Start,
         ReturnSummary, Receive, Exit, Probe, Fetch, DiscoverChildren, Snapshot,
         WriteIssue, WriteStub, Report, ReportFetched, Unlock, Decrement,
         CloseQueue, Abort, CloserLock, DrainItem, CloserUnlock, Cancel, OtherRunWrites
<1>2. UNCHANGED cancelled \/ cancelled' = TRUE
  BY DEF Next, MainStep, WorkerStep, CloserStep, Enqueue, vars, Finished,
         EnqueueKnown, EnqueueRefuse, EnqueueAdmit, EnqueueSend, Start,
         ReturnSummary, Receive, Exit, Probe, Fetch, DiscoverChildren, Snapshot,
         WriteIssue, WriteStub, Report, ReportFetched, Unlock, Decrement,
         CloseQueue, Abort, CloserLock, DrainItem, CloserUnlock, Cancel, OtherRunWrites
<1>3. UNCHANGED abortErr \/ abortErr' = TRUE
  BY DEF Next, MainStep, WorkerStep, CloserStep, Enqueue, vars, Finished,
         EnqueueKnown, EnqueueRefuse, EnqueueAdmit, EnqueueSend, Start,
         ReturnSummary, Receive, Exit, Probe, Fetch, DiscoverChildren, Snapshot,
         WriteIssue, WriteStub, Report, ReportFetched, Unlock, Decrement,
         CloseQueue, Abort, CloserLock, DrainItem, CloserUnlock, Cancel, OtherRunWrites
<1> QED
  BY <1>0, <1>1, <1>2, <1>3, Zenon

(* Every step keeps the types.                                             *)
LEMMA TypeStep ==
  ASSUME TypeOK, [Next]_vars
  PROVE  TypeOK'
<1> DEFINE CoreType ==
      /\ mu \in Procs \cup {NoOne}
      /\ pc \in [Procs -> WorkerPCs \cup MainPCs \cup CloserPCs]
      /\ \A w \in Workers : pc[w] \in WorkerPCs
      /\ pc[Main] \in MainPCs
      /\ pc[Closer] \in CloserPCs
      /\ job \in [Workers -> Job \cup {Idle}]
      /\ \A w \in Workers : pc[w] \in InProcess \cup Reported \cup Winding => job[w] \in Job
      /\ \A w \in Workers : pc[w] = "report" => job[w].res \in Outcomes
      /\ todo \in [Procs -> Seq(Item)]
      /\ \A p \in Procs : pc[p] = "send" => todo[p] # <<>>
      /\ queue \in Seq(Item)
      /\ pending \in Int
      /\ visited \subseteq Keys
      /\ refused \in [Keys -> Nat]
      /\ tally \in [Keys -> Seq(Outcomes)]
<1>0. CoreType
  BY DEF TypeOK
<1>f. FineNext
  BY NextIsFine
<1>p. Workers \subseteq Procs /\ Main \in Procs /\ Closer \in Procs
      /\ Main \notin Workers /\ Closer \notin Workers /\ Main # Closer
  BY CrawlAssumption DEF Procs
<1> USE <1>0, <1>p DEF Goto, Count, Key, WorkerPCs, MainPCs, CloserPCs, InProcess, Reported, Winding
<1>1. ASSUME NEW w \in Workers, LocalStep(w) PROVE CoreType'
  <2>1. PICK j \in Job : /\ job' = [job EXCEPT ![w] = j]
                         /\ pc'[w] = "report" => j.res # "none"
    BY <1>1 DEF LocalStep
  <2>2. j.res \in Outcomes \cup {"none"}
    BY DEF Job
  <2> QED
    BY <1>1, <2>1, <2>2 DEF LocalStep
<1>2. ASSUME NEW w \in Workers, Receive(w) PROVE CoreType'
  BY <1>2, ItemSeq DEF Receive, Job
<1>3. ASSUME NEW w \in Workers, Exit(w) PROVE CoreType'
  BY <1>3 DEF Exit
<1>4. ASSUME NEW w \in Workers, Report(w) PROVE CoreType'
  <2>1. job[w] \in Job /\ job[w].key \in Keys
    BY <1>4 DEF Report, Job
  <2>2. job[w].res \in Outcomes
    BY <1>4 DEF Report
  <2>3. tally' \in [Keys -> Seq(Outcomes)]
    <3>1. tally[job[w].key] \in Seq(Outcomes)
      BY <2>1
    <3>2. Append(tally[job[w].key], job[w].res) \in Seq(Outcomes)
      BY <2>2, <3>1, AppendProperties
    <3> QED
      BY <1>4, <3>2 DEF Report
  <2> QED
    BY <1>4, <2>3 DEF Report
<1>5. ASSUME NEW w \in Workers, ReportFetched(w) PROVE CoreType'
  <2>1. job[w].key \in Keys /\ job[w].depth \in Nat /\ job[w].found \in Seq(Keys)
    BY <1>5 DEF ReportFetched, Job
  <2>2. Refs[Key(w)] \o job[w].found \in Seq(Keys)
    BY <2>1, CrawlAssumption
  <2>3. ItemsAt(Refs[Key(w)] \o job[w].found, job[w].depth + 1) \in Seq(Item)
    <3> DEFINE keys == Refs[Key(w)] \o job[w].found
               deeper == job[w].depth + 1
    <3>1. keys \in Seq(Keys) /\ deeper \in Nat
      BY <2>1, <2>2
    <3> HIDE DEF keys, deeper
    <3>2. ItemsAt(keys, deeper) \in Seq(Item)
      BY <3>1, ItemsAtType
    <3> QED
      BY <3>2 DEF keys, deeper
  <2>4. tally' \in [Keys -> Seq(Outcomes)]
    <3>1. tally[job[w].key] \in Seq(Outcomes) /\ "Fetched" \in Outcomes
      BY <2>1 DEF Outcomes
    <3>2. Append(tally[job[w].key], "Fetched") \in Seq(Outcomes)
      BY <3>1, AppendProperties
    <3> QED
      BY <1>5, <3>2 DEF ReportFetched
  <2>5. todo' \in [Procs -> Seq(Item)]
    BY <1>5, <2>3 DEF ReportFetched
  <2> QED
    BY <1>5, <2>4, <2>5 DEF ReportFetched
<1>6. ASSUME NEW w \in Workers, Unlock(w) PROVE CoreType'
  BY <1>6 DEF Unlock
<1>7. ASSUME NEW w \in Workers, Decrement(w) PROVE CoreType'
  BY <1>7 DEF Decrement, Leave, NextStop
<1>8. ASSUME NEW w \in Workers, CloseQueue(w) PROVE CoreType'
  BY <1>8 DEF CloseQueue, Leave, NextStop
<1>9. ASSUME NEW w \in Workers, Abort(w) PROVE CoreType'
  BY <1>9 DEF Abort, Leave
<1>10. ASSUME NEW p \in Workers \cup {Main}, EnqueueKnown(p) PROVE CoreType'
  BY <1>10, ItemSeq DEF EnqueueKnown, Expanding
<1>11. ASSUME NEW p \in Workers \cup {Main}, EnqueueRefuse(p) PROVE CoreType'
  BY <1>11, ItemSeq DEF EnqueueRefuse, Expanding
<1>12. ASSUME NEW p \in Workers \cup {Main}, EnqueueAdmit(p) PROVE CoreType'
  BY <1>12, ItemSeq DEF EnqueueAdmit, Expanding
<1>13. ASSUME NEW p \in Workers \cup {Main}, EnqueueSend(p) PROVE CoreType'
  <2>1. p \in Procs /\ todo[p] \in Seq(Item) /\ todo[p] # <<>>
    BY <1>13 DEF EnqueueSend
  <2> QED
    BY <1>13, <2>1, ItemSeq, AppendProperties DEF EnqueueSend
<1>14. ASSUME Start PROVE CoreType'
  BY <1>14 DEF Start
<1>15. ASSUME ReturnSummary PROVE CoreType'
  BY <1>15 DEF ReturnSummary
<1>16. ASSUME CloserLock PROVE CoreType'
  BY <1>16 DEF CloserLock
<1>17. ASSUME DrainItem PROVE CoreType'
  <2>1. /\ Head(queue).key \in Keys
        /\ Tail(queue) \in Seq(Item)
    BY <1>17, ItemSeq DEF DrainItem
  <2>2. tally' \in [Keys -> Seq(Outcomes)]
    <3>1. tally[Head(queue).key] \in Seq(Outcomes) /\ "Dropped" \in Outcomes
      BY <2>1 DEF Outcomes
    <3>2. Append(tally[Head(queue).key], "Dropped") \in Seq(Outcomes)
      BY <3>1, AppendProperties
    <3> QED
      BY <1>17, <3>2 DEF DrainItem
  <2> QED
    BY <1>17, <2>1, <2>2 DEF DrainItem
<1>18. ASSUME CloserUnlock PROVE CoreType'
  BY <1>18 DEF CloserUnlock
<1>19. ASSUME OutsideStep PROVE CoreType'
  BY <1>19 DEF OutsideStep
<1>20. CoreType'
  BY <1>f, <1>1, <1>2, <1>3, <1>4, <1>5, <1>6, <1>7, <1>8, <1>9, <1>10, <1>11,
     <1>12, <1>13, <1>14, <1>15, <1>16, <1>17, <1>18, <1>19 DEF FineNext
<1> QED
  BY <1>20, DiskType, LinksType, FlagTypes DEF TypeOK

(* Every variable keeps its type, whatever the graph, the number of        *)
(* workers, the caps, the replies and the faults.                          *)
THEOREM TypeCorrect == Spec => []TypeOK
<1>1. Init => TypeOK
  BY InitType
<1>2. TypeOK /\ [Next]_vars => TypeOK'
  BY TypeStep
<1> QED
  BY <1>1, <1>2, PTL DEF Spec

-----------------------------------------------------------------------------
(***************************************************************************)
(* Control: the mutex, and who is alive.                                   *)
(***************************************************************************)
LEMMA ProcsDistinct ==
  /\ Workers \subseteq Procs /\ Main \in Procs /\ Closer \in Procs
  /\ Main \notin Workers /\ Closer \notin Workers /\ Main # Closer
  /\ NoOne \notin Procs
  BY CrawlAssumption DEF Procs

(* At the beginning nobody has the mutex.                                  *)
LEMMA InitControl == Init => MutexInv /\ LifeInv
  BY ProcsDistinct DEF Init, MutexInv, LifeInv, Procs, Returned

(* The mutex is with the process that works under it, and references are   *)
(* in hand only there.                                                     *)
LEMMA ControlStep ==
  ASSUME TypeOK, MutexInv, LifeInv, [Next]_vars
  PROVE  MutexInv' /\ LifeInv'
<1>f. FineNext
  BY NextIsFine
<1>t. /\ pc \in [Procs -> WorkerPCs \cup MainPCs \cup CloserPCs]
      /\ \A w \in Workers : pc[w] \in WorkerPCs
      /\ pc[Main] \in MainPCs /\ pc[Closer] \in CloserPCs
      /\ todo \in [Procs -> Seq(Item)]
  BY DEF TypeOK
<1> USE <1>t, ProcsDistinct DEF Goto, MutexInv, LifeInv, Returned, Procs,
        WorkerPCs, MainPCs, CloserPCs, InProcess, Reported, Winding
<1>1. ASSUME NEW w \in Workers, LocalStep(w) PROVE (MutexInv /\ LifeInv)'
  BY <1>1 DEF LocalStep
<1>2. ASSUME NEW w \in Workers, Receive(w) PROVE (MutexInv /\ LifeInv)'
  BY <1>2 DEF Receive
<1>3. ASSUME NEW w \in Workers, Exit(w) PROVE (MutexInv /\ LifeInv)'
  BY <1>3 DEF Exit
<1>4. ASSUME NEW w \in Workers, Report(w) PROVE (MutexInv /\ LifeInv)'
  BY <1>4 DEF Report
<1>5. ASSUME NEW w \in Workers, ReportFetched(w) PROVE (MutexInv /\ LifeInv)'
  BY <1>5 DEF ReportFetched
<1>6. ASSUME NEW w \in Workers, Unlock(w) PROVE (MutexInv /\ LifeInv)'
  BY <1>6 DEF Unlock
<1>7. ASSUME NEW w \in Workers, Decrement(w) PROVE (MutexInv /\ LifeInv)'
  BY <1>7 DEF Decrement, Leave, NextStop
<1>8. ASSUME NEW w \in Workers, CloseQueue(w) PROVE (MutexInv /\ LifeInv)'
  BY <1>8 DEF CloseQueue, Leave, NextStop
<1>9. ASSUME NEW w \in Workers, Abort(w) PROVE (MutexInv /\ LifeInv)'
  BY <1>9 DEF Abort, Leave, NextStop
<1>10. ASSUME NEW p \in Workers \cup {Main}, EnqueueKnown(p) PROVE (MutexInv /\ LifeInv)'
  BY <1>10 DEF EnqueueKnown, Expanding
<1>11. ASSUME NEW p \in Workers \cup {Main}, EnqueueRefuse(p) PROVE (MutexInv /\ LifeInv)'
  BY <1>11 DEF EnqueueRefuse, Expanding
<1>12. ASSUME NEW p \in Workers \cup {Main}, EnqueueAdmit(p) PROVE (MutexInv /\ LifeInv)'
  BY <1>12 DEF EnqueueAdmit, Expanding
<1>13. ASSUME NEW p \in Workers \cup {Main}, EnqueueSend(p) PROVE (MutexInv /\ LifeInv)'
  BY <1>13 DEF EnqueueSend
<1>14. ASSUME Start PROVE (MutexInv /\ LifeInv)'
  BY <1>14 DEF Start
<1>15. ASSUME ReturnSummary PROVE (MutexInv /\ LifeInv)'
  BY <1>15 DEF ReturnSummary
<1>16. ASSUME CloserLock PROVE (MutexInv /\ LifeInv)'
  BY <1>16 DEF CloserLock
<1>17. ASSUME DrainItem PROVE (MutexInv /\ LifeInv)'
  BY <1>17 DEF DrainItem
<1>18. ASSUME CloserUnlock PROVE (MutexInv /\ LifeInv)'
  BY <1>18 DEF CloserUnlock
<1>19. ASSUME OutsideStep PROVE (MutexInv /\ LifeInv)'
  BY <1>19 DEF OutsideStep
<1> QED
  BY <1>f, <1>1, <1>2, <1>3, <1>4, <1>5, <1>6, <1>7, <1>8, <1>9,
     <1>10, <1>11, <1>12, <1>13, <1>14, <1>15, <1>16, <1>17, <1>18, <1>19 DEF FineNext

-----------------------------------------------------------------------------
(***************************************************************************)
(* The counter.                                                            *)
(***************************************************************************)
LEMMA BusySendersFinite ==
  /\ IsFiniteSet(Busy) /\ Cardinality(Busy) \in Nat
  /\ IsFiniteSet(Senders) /\ Cardinality(Senders) \in Nat
<1>1. IsFiniteSet(Procs)
  <2>1. Procs = (Workers \cup {Main}) \cup {Closer}
    BY DEF Procs
  <2> QED
    BY <2>1, CrawlAssumption, FS_AddElement
<1>2. Busy \subseteq Procs /\ Senders \subseteq Procs
  BY DEF Busy, Senders, Procs
<1>3. IsFiniteSet(Busy) /\ IsFiniteSet(Senders)
  BY <1>1, <1>2, FS_Subset
<1> QED
  BY <1>3, FS_CardinalityType

(* At the beginning nothing is pending.                                    *)
LEMMA InitPending == Init => PendingExact
<1> SUFFICES ASSUME Init PROVE PendingExact
  OBVIOUS
<1>1. Busy = {} /\ Senders = {}
  BY ProcsDistinct DEF Init, Busy, Senders, InProcess, Reported, Procs
<1>2. Len(queue) = 0 /\ pending = 0
  BY DEF Init
<1> QED
  BY <1>1, <1>2, FS_EmptySet DEF PendingExact

(* Every step changes the counter with what it counts: the queue, the      *)
(* items in hand and the send under way.                                   *)
LEMMA PendingStep ==
  ASSUME TypeOK, MutexInv, LifeInv, PendingExact, [Next]_vars
  PROVE  PendingExact'
<1>f. FineNext
  BY NextIsFine
<1>c. /\ IsFiniteSet(Busy) /\ Cardinality(Busy) \in Nat
      /\ IsFiniteSet(Senders) /\ Cardinality(Senders) \in Nat
  BY BusySendersFinite
<1>t. queue \in Seq(Item) /\ Len(queue) \in Nat /\ pending \in Int
  BY DEF TypeOK
<1>p. /\ pc \in [Procs -> WorkerPCs \cup MainPCs \cup CloserPCs]
      /\ \A w \in Workers : pc[w] \in WorkerPCs
      /\ pc[Main] \in MainPCs /\ pc[Closer] \in CloserPCs
  BY DEF TypeOK
<1> USE <1>p, ProcsDistinct DEF PendingExact, Goto, Procs,
        WorkerPCs, MainPCs, CloserPCs, InProcess, Reported, Winding
<1>1. ASSUME NEW w \in Workers, LocalStep(w) PROVE PendingExact'
  <2>1. Busy' = Busy /\ Senders' = Senders
    BY <1>1 DEF LocalStep, Busy, Senders
  <2>2. UNCHANGED <<pending, queue>>
    BY <1>1 DEF LocalStep
  <2> QED
    BY <2>1, <2>2
<1>2. ASSUME NEW w \in Workers, Receive(w) PROVE PendingExact'
  <2>1. Busy' = Busy \cup {w} /\ w \notin Busy /\ Senders' = Senders
    BY <1>2 DEF Receive, Busy, Senders
  <2>2. Cardinality(Busy') = Cardinality(Busy) + 1
    BY <1>c, <2>1, FS_AddElement
  <2>3. queue # <<>> /\ queue' = Tail(queue) /\ UNCHANGED pending
    BY <1>2 DEF Receive
  <2>4. Len(queue') = Len(queue) - 1
    BY <1>t, <2>3, ItemSeq
  <2> QED
    BY <1>c, <2>1, <2>2, <2>3, <2>4
<1>3. ASSUME NEW w \in Workers, Exit(w) PROVE PendingExact'
  <2>1. Busy' = Busy /\ Senders' = Senders
    BY <1>3 DEF Exit, Busy, Senders
  <2>2. UNCHANGED <<pending, queue>>
    BY <1>3 DEF Exit
  <2> QED
    BY <2>1, <2>2
<1>4. ASSUME NEW w \in Workers, Report(w) PROVE PendingExact'
  <2>1. Busy' = Busy /\ Senders' = Senders
    BY <1>4 DEF Report, Busy, Senders
  <2>2. UNCHANGED <<pending, queue>>
    BY <1>4 DEF Report
  <2> QED
    BY <2>1, <2>2
<1>5. ASSUME NEW w \in Workers, ReportFetched(w) PROVE PendingExact'
  <2>1. Busy' = Busy /\ Senders' = Senders
    BY <1>5 DEF ReportFetched, Busy, Senders
  <2>2. UNCHANGED <<pending, queue>>
    BY <1>5 DEF ReportFetched
  <2> QED
    BY <2>1, <2>2
<1>6. ASSUME NEW w \in Workers, Unlock(w) PROVE PendingExact'
  <2>1. Busy' = Busy /\ Senders' = Senders
    BY <1>6 DEF Unlock, Busy, Senders
  <2>2. UNCHANGED <<pending, queue>>
    BY <1>6 DEF Unlock
  <2> QED
    BY <2>1, <2>2
<1>7. ASSUME NEW w \in Workers, Decrement(w) PROVE PendingExact'
  <2>1. Busy' = Busy \ {w} /\ w \in Busy /\ Senders' = Senders
    BY <1>7 DEF Decrement, Leave, NextStop, Busy, Senders
  <2>2. Cardinality(Busy') = Cardinality(Busy) - 1
    BY <1>c, <2>1, FS_RemoveElement
  <2>3. pending' = pending - 1 /\ UNCHANGED queue
    BY <1>7 DEF Decrement
  <2> QED
    BY <1>c, <2>1, <2>2, <2>3
<1>8. ASSUME NEW w \in Workers, CloseQueue(w) PROVE PendingExact'
  <2>1. Busy' = Busy /\ Senders' = Senders
    BY <1>8 DEF CloseQueue, Leave, NextStop, Busy, Senders
  <2>2. UNCHANGED <<pending, queue>>
    BY <1>8 DEF CloseQueue, Leave, NextStop
  <2> QED
    BY <2>1, <2>2
<1>9. ASSUME NEW w \in Workers, Abort(w) PROVE PendingExact'
  <2>1. Busy' = Busy /\ Senders' = Senders
    BY <1>9 DEF Abort, Leave, NextStop, Busy, Senders
  <2>2. UNCHANGED <<pending, queue>>
    BY <1>9 DEF Abort, Leave, NextStop
  <2> QED
    BY <2>1, <2>2
<1>10. ASSUME NEW p \in Workers \cup {Main}, EnqueueKnown(p) PROVE PendingExact'
  <2>1. Busy' = Busy /\ Senders' = Senders
    BY <1>10 DEF EnqueueKnown, Expanding, Busy, Senders
  <2>2. UNCHANGED <<pending, queue>>
    BY <1>10 DEF EnqueueKnown, Expanding
  <2> QED
    BY <2>1, <2>2
<1>11. ASSUME NEW p \in Workers \cup {Main}, EnqueueRefuse(p) PROVE PendingExact'
  <2>1. Busy' = Busy /\ Senders' = Senders
    BY <1>11 DEF EnqueueRefuse, Expanding, Busy, Senders
  <2>2. UNCHANGED <<pending, queue>>
    BY <1>11 DEF EnqueueRefuse, Expanding
  <2> QED
    BY <2>1, <2>2
<1>12. ASSUME NEW p \in Workers \cup {Main}, EnqueueAdmit(p) PROVE PendingExact'
  <2>1. Busy' = Busy /\ Senders' = Senders \cup {p} /\ p \notin Senders
    BY <1>12 DEF EnqueueAdmit, Expanding, Busy, Senders
  <2>2. Cardinality(Senders') = Cardinality(Senders) + 1
    BY <1>c, <2>1, FS_AddElement
  <2>3. pending' = pending + 1 /\ UNCHANGED queue
    BY <1>12 DEF EnqueueAdmit
  <2> QED
    BY <1>c, <2>1, <2>2, <2>3
<1>13. ASSUME NEW p \in Workers \cup {Main}, EnqueueSend(p) PROVE PendingExact'
  <2>1. Busy' = Busy /\ Senders' = Senders \ {p} /\ p \in Senders
    BY <1>13 DEF EnqueueSend, Busy, Senders
  <2>2. Cardinality(Senders') = Cardinality(Senders) - 1
    BY <1>c, <2>1, FS_RemoveElement
  <2>3. queue' = Append(queue, Head(todo[p])) /\ UNCHANGED pending
    BY <1>13 DEF EnqueueSend
  <2>4. todo[p] \in Seq(Item) /\ todo[p] # <<>>
    BY <1>13 DEF TypeOK, EnqueueSend
  <2>5. Len(queue') = Len(queue) + 1
    BY <1>t, <2>3, <2>4, ItemSeq, AppendProperties
  <2> QED
    BY <1>c, <2>1, <2>2, <2>3, <2>5
<1>14. ASSUME Start PROVE PendingExact'
  <2>1. Busy' = Busy /\ Senders' = Senders
    BY <1>14 DEF Start, MutexInv, LifeInv, Busy, Senders
  <2>2. UNCHANGED <<pending, queue>>
    BY <1>14 DEF Start
  <2> QED
    BY <2>1, <2>2
<1>15. ASSUME ReturnSummary PROVE PendingExact'
  <2>1. Busy' = Busy /\ Senders' = Senders
    BY <1>15 DEF ReturnSummary, Busy, Senders
  <2>2. UNCHANGED <<pending, queue>>
    BY <1>15 DEF ReturnSummary
  <2> QED
    BY <2>1, <2>2
<1>16. ASSUME CloserLock PROVE PendingExact'
  <2>1. Busy' = Busy /\ Senders' = Senders
    BY <1>16 DEF CloserLock, Busy, Senders
  <2>2. UNCHANGED <<pending, queue>>
    BY <1>16 DEF CloserLock
  <2> QED
    BY <2>1, <2>2
<1>17. ASSUME DrainItem PROVE PendingExact'
  <2>1. Busy' = Busy /\ Senders' = Senders
    BY <1>17 DEF DrainItem, Busy, Senders
  <2>2. queue # <<>> /\ queue' = Tail(queue) /\ pending' = pending - 1
    BY <1>17 DEF DrainItem
  <2>3. Len(queue') = Len(queue) - 1
    BY <1>t, <2>2, ItemSeq
  <2> QED
    BY <1>c, <2>1, <2>2, <2>3
<1>18. ASSUME CloserUnlock PROVE PendingExact'
  <2>1. Busy' = Busy /\ Senders' = Senders
    BY <1>18 DEF CloserUnlock, Busy, Senders
  <2>2. UNCHANGED <<pending, queue>>
    BY <1>18 DEF CloserUnlock
  <2> QED
    BY <2>1, <2>2
<1>19. ASSUME OutsideStep PROVE PendingExact'
  <2>1. Busy' = Busy /\ Senders' = Senders
    BY <1>19 DEF OutsideStep, Busy, Senders
  <2>2. UNCHANGED <<pending, queue>>
    BY <1>19 DEF OutsideStep
  <2> QED
    BY <2>1, <2>2
<1> QED
  BY <1>f, <1>1, <1>2, <1>3, <1>4, <1>5, <1>6, <1>7, <1>8, <1>9,
     <1>10, <1>11, <1>12, <1>13, <1>14, <1>15, <1>16, <1>17, <1>18, <1>19 DEF FineNext

-----------------------------------------------------------------------------
(***************************************************************************)
(* The closing of the queue.                                               *)
(***************************************************************************)
(* When the counter is zero nothing is in the channel or in hand, so       *)
(* nobody is left who could enqueue; and whoever has an item keeps the     *)
(* counter above zero.                                                     *)
LEMMA ZeroMeansDone ==
  ASSUME TypeOK, PendingExact
  PROVE  /\ pending = 0 => queue = <<>> /\ Busy = {} /\ Senders = {}
         /\ pending >= 0
<1>1. queue \in Seq(Item) /\ Len(queue) \in Nat
  BY DEF TypeOK
<1>2. pending >= 0
  BY <1>1, BusySendersFinite DEF PendingExact
<1>3. ASSUME pending = 0 PROVE queue = <<>> /\ Busy = {} /\ Senders = {}
  <2>1. Len(queue) = 0 /\ Cardinality(Busy) = 0 /\ Cardinality(Senders) = 0
    BY <1>1, <1>3, BusySendersFinite DEF PendingExact
  <2>2. queue = <<>>
    BY <1>1, <2>1, EmptySeq
  <2> QED
    BY <2>1, <2>2, BusySendersFinite, FS_EmptySet
<1> QED
  BY <1>2, <1>3

(* At the beginning the queue is open.                                     *)
LEMMA InitClose == Init => CloseInv
  BY ProcsDistinct DEF Init, CloseInv, Procs, Returned

(* Who is about to close the queue saw a zero that stays.                  *)
LEMMA CloseStep ==
  ASSUME TypeOK, MutexInv, LifeInv, PendingExact, CloseInv, [Next]_vars
  PROVE  CloseInv'
<1>f. FineNext
  BY NextIsFine
<1>z. /\ pending = 0 => queue = <<>> /\ Busy = {} /\ Senders = {}
      /\ pending >= 0
  BY ZeroMeansDone
<1>p. /\ pc \in [Procs -> WorkerPCs \cup MainPCs \cup CloserPCs]
      /\ \A w \in Workers : pc[w] \in WorkerPCs
      /\ pc[Main] \in MainPCs /\ pc[Closer] \in CloserPCs
      /\ pending \in Int
  BY DEF TypeOK
<1> USE <1>p, <1>z, ProcsDistinct DEF CloseInv, MutexInv, LifeInv, Returned, Goto, Procs,
        Busy, Senders, WorkerPCs, MainPCs, CloserPCs, InProcess, Reported, Winding
<1>1. ASSUME NEW w \in Workers, LocalStep(w) PROVE CloseInv'
  BY <1>1 DEF LocalStep
<1>2. ASSUME NEW w \in Workers, Receive(w) PROVE CloseInv'
  BY <1>2 DEF Receive
<1>3. ASSUME NEW w \in Workers, Exit(w) PROVE CloseInv'
  BY <1>3 DEF Exit
<1>4. ASSUME NEW w \in Workers, Report(w) PROVE CloseInv'
  BY <1>4 DEF Report
<1>5. ASSUME NEW w \in Workers, ReportFetched(w) PROVE CloseInv'
  BY <1>5 DEF ReportFetched
<1>6. ASSUME NEW w \in Workers, Unlock(w) PROVE CloseInv'
  BY <1>6 DEF Unlock
<1>7. ASSUME NEW w \in Workers, Decrement(w) PROVE CloseInv'
  BY <1>7 DEF Decrement, Leave, NextStop
<1>8. ASSUME NEW w \in Workers, CloseQueue(w) PROVE CloseInv'
  BY <1>8 DEF CloseQueue, Leave, NextStop
<1>9. ASSUME NEW w \in Workers, Abort(w) PROVE CloseInv'
  BY <1>9 DEF Abort, Leave, NextStop
<1>10. ASSUME NEW p \in Workers \cup {Main}, EnqueueKnown(p) PROVE CloseInv'
  BY <1>10 DEF EnqueueKnown, Expanding
<1>11. ASSUME NEW p \in Workers \cup {Main}, EnqueueRefuse(p) PROVE CloseInv'
  BY <1>11 DEF EnqueueRefuse, Expanding
<1>12. ASSUME NEW p \in Workers \cup {Main}, EnqueueAdmit(p) PROVE CloseInv'
  BY <1>12 DEF EnqueueAdmit, Expanding
<1>13. ASSUME NEW p \in Workers \cup {Main}, EnqueueSend(p) PROVE CloseInv'
  BY <1>13 DEF EnqueueSend
<1>14. ASSUME Start PROVE CloseInv'
  BY <1>14 DEF Start
<1>15. ASSUME ReturnSummary PROVE CloseInv'
  BY <1>15 DEF ReturnSummary
<1>16. ASSUME CloserLock PROVE CloseInv'
  BY <1>16 DEF CloserLock
<1>17. ASSUME DrainItem PROVE CloseInv'
  BY <1>17 DEF DrainItem
<1>18. ASSUME CloserUnlock PROVE CloseInv'
  BY <1>18 DEF CloserUnlock
<1>19. ASSUME OutsideStep PROVE CloseInv'
  BY <1>19 DEF OutsideStep
<1> QED
  BY <1>f, <1>1, <1>2, <1>3, <1>4, <1>5, <1>6, <1>7, <1>8, <1>9,
     <1>10, <1>11, <1>12, <1>13, <1>14, <1>15, <1>16, <1>17, <1>18, <1>19 DEF FineNext

(* No send on a closed channel.                                            *)
LEMMA SendSafe ==
  ASSUME MutexInv, CloseInv
  PROVE  NoSendOnClosedQueue
  BY DEF MutexInv, CloseInv, NoSendOnClosedQueue, Senders

(* The queue is closed early only by a cancellation.                       *)
LEMMA CloseSafe ==
  ASSUME TypeOK, LifeInv, PendingExact, CloseInv
  PROVE  ClosedOnlyWhenDone
<1> SUFFICES ASSUME queueClosed
             PROVE  /\ queue = <<>>
                    /\ ~cancelled => Busy = {} /\ \A p \in Procs : todo[p] = <<>>
  BY DEF ClosedOnlyWhenDone
<1>1. queue = <<>>
  BY DEF CloseInv
<1>2. ASSUME ~cancelled PROVE Busy = {} /\ \A p \in Procs : todo[p] = <<>>
  <2>1. pending = 0
    BY <1>2 DEF CloseInv
  <2>2. Busy = {} /\ Senders = {}
    BY <2>1, ZeroMeansDone
  <2>3. \A p \in Procs : pc[p] \notin {"expand", "send"}
    BY <2>2, ProcsDistinct DEF Busy, Senders, Procs, CloseInv, TypeOK, CloserPCs, Reported
  <2> QED
    BY <2>2, <2>3 DEF LifeInv
<1> QED
  BY <1>1, <1>2

-----------------------------------------------------------------------------
(***************************************************************************)
(* Where the keys are.                                                     *)
(***************************************************************************)
InSeq(s, k) == \E i \in 1 .. Len(s) : s[i].key = k

(* Without its head a sequence of items lacks the key of the head, and     *)
(* nothing else.                                                           *)
LEMMA TailKeys ==
  ASSUME NEW s \in Seq(Item), s # <<>>, NoRepeat(s)
  PROVE  /\ NoRepeat(Tail(s))
         /\ InSeq(s, Head(s).key)
         /\ \A k : InSeq(Tail(s), k) <=> InSeq(s, k) /\ k # Head(s).key
<1>1. /\ Len(s) \in Nat \ {0} /\ Len(Tail(s)) = Len(s) - 1
      /\ Head(s) = s[1] /\ \A i \in 1 .. Len(Tail(s)) : Tail(s)[i] = s[i + 1]
  BY ItemSeq, HeadTailProperties
<1>2. NoRepeat(Tail(s))
  BY <1>1 DEF NoRepeat
<1>3. InSeq(s, Head(s).key)
  BY <1>1 DEF InSeq
<1>4. ASSUME NEW k PROVE InSeq(Tail(s), k) <=> InSeq(s, k) /\ k # Head(s).key
  <2>1. ASSUME InSeq(Tail(s), k) PROVE InSeq(s, k) /\ k # Head(s).key
    <3>1. PICK i \in 1 .. Len(Tail(s)) : Tail(s)[i].key = k
      BY <2>1 DEF InSeq
    <3>2. s[i + 1].key = k /\ i + 1 \in 1 .. Len(s) /\ i + 1 # 1 /\ 1 \in 1 .. Len(s)
      BY <1>1, <3>1
    <3> QED
      BY <1>1, <3>2 DEF InSeq, NoRepeat
  <2>2. ASSUME InSeq(s, k), k # Head(s).key PROVE InSeq(Tail(s), k)
    <3>1. PICK i \in 1 .. Len(s) : s[i].key = k
      BY <2>2 DEF InSeq
    <3>2. i # 1
      BY <1>1, <2>2, <3>1
    <3>3. i - 1 \in 1 .. Len(Tail(s)) /\ Tail(s)[i - 1] = s[(i - 1) + 1] /\ (i - 1) + 1 = i
      BY <1>1, <3>2
    <3> QED
      BY <3>1, <3>3 DEF InSeq
  <2> QED
    BY <2>1, <2>2
<1> QED
  BY <1>2, <1>3, <1>4

(* One more item adds its key.                                             *)
LEMMA AppendKeys ==
  ASSUME NEW s \in Seq(Item), NEW it \in Item, NoRepeat(s), ~InSeq(s, it.key)
  PROVE  /\ NoRepeat(Append(s, it))
         /\ \A k : InSeq(Append(s, it), k) <=> InSeq(s, k) \/ k = it.key
<1>1. /\ Len(s) \in Nat /\ Len(Append(s, it)) = Len(s) + 1
      /\ \A i \in 1 .. Len(s) : Append(s, it)[i] = s[i]
      /\ Append(s, it)[Len(s) + 1] = it
  BY AppendProperties
<1>2. NoRepeat(Append(s, it))
  <2> SUFFICES ASSUME NEW i \in 1 .. Len(s) + 1, NEW j \in 1 .. Len(s) + 1,
                      Append(s, it)[i].key = Append(s, it)[j].key
               PROVE  i = j
    BY <1>1 DEF NoRepeat
  <2>1. CASE i \in 1 .. Len(s) /\ j \in 1 .. Len(s)
    BY <1>1, <2>1 DEF NoRepeat
  <2>2. CASE i = Len(s) + 1 /\ j \in 1 .. Len(s)
    BY <1>1, <2>2 DEF InSeq
  <2>3. CASE i \in 1 .. Len(s) /\ j = Len(s) + 1
    BY <1>1, <2>3 DEF InSeq
  <2> QED
    BY <1>1, <2>1, <2>2, <2>3
<1>3. ASSUME NEW k PROVE InSeq(Append(s, it), k) <=> InSeq(s, k) \/ k = it.key
  <2>1. ASSUME InSeq(Append(s, it), k) PROVE InSeq(s, k) \/ k = it.key
    <3>1. PICK i \in 1 .. Len(s) + 1 : Append(s, it)[i].key = k
      BY <1>1, <2>1 DEF InSeq
    <3> QED
      BY <1>1, <3>1 DEF InSeq
  <2>2. ASSUME InSeq(s, k) PROVE InSeq(Append(s, it), k)
    BY <1>1, <2>2 DEF InSeq
  <2>3. InSeq(Append(s, it), it.key)
    BY <1>1 DEF InSeq
  <2> QED
    BY <2>1, <2>2, <2>3
<1> QED
  BY <1>2, <1>3

(* At the beginning no key is anywhere.                                    *)
LEMMA InitPlace == Init => PlaceInv
<1> SUFFICES ASSUME Init PROVE PlaceInv
  OBVIOUS
<1>1. /\ visited = {} /\ queue = <<>> /\ tally = [k \in Keys |-> <<>>]
      /\ \A p \in Procs : pc[p] \in {"expand", "unborn"}
  BY DEF Init
<1>2. 1 .. Len(queue) = {}
  BY <1>1
<1> QED
  BY <1>1, <1>2, ProcsDistinct DEF PlaceInv, OneOutcome, QueuePlace, HeldPlace, SendPlace,
     NoKeyForgotten, NoRepeat, Waiting, Owed, Held, Sending, InProcess

(* What a step leaves in its place stays accounted for.                    *)
LEMMA PlaceFrame ==
  ASSUME PlaceInv,
         UNCHANGED <<queue, visited, tally>>,
         \A v \in Workers : pc'[v] \in InProcess <=> pc[v] \in InProcess,
         \A v \in Workers : pc[v] \in InProcess => job'[v].key = job[v].key,
         \A q \in Procs : pc'[q] = "send" <=> pc[q] = "send",
         \A q \in Procs : pc[q] = "send" => todo'[q] = todo[q]
  PROVE  PlaceInv'
  BY DEF PlaceInv, OneOutcome, QueuePlace, HeldPlace, SendPlace, NoKeyForgotten, NoRepeat,
         Waiting, Owed, Held, Sending, SendKey, Key

(* The counting of an outcome for a key that was owed one.                 *)
LEMMA CountOwed ==
  ASSUME TypeOK, NEW k \in Keys, NEW o \in Outcomes, Owed(k), Count(k, o)
  PROVE  /\ tally'[k] = <<o>>
         /\ \A x \in Keys : x # k => tally'[x] = tally[x]
<1>1. tally' = [tally EXCEPT ![k] = Append(<<>>, o)]
  BY DEF Count, Owed
<1>2. Append(<<>>, o) = <<o>>
  OBVIOUS
<1> QED
  BY <1>1, <1>2 DEF TypeOK

(* The counting steps: Report, ReportFetched and DrainItem.                *)
LEMMA ReportPlace ==
  ASSUME TypeOK, PlaceInv, NEW w \in Workers, Report(w)
  PROVE  PlaceInv'
<1> DEFINE k == job[w].key
<1>1. /\ Held(w) /\ k \in Keys /\ Owed(k)
      /\ \A v \in Workers : Held(v) => job[v].key \in Keys
  BY DEF Report, Held, TypeOK, Job, PlaceInv, HeldPlace, Key, InProcess
<1>2. PICK o \in Outcomes : Count(k, o)
  BY DEF Report, TypeOK, Key, Outcomes
<1>3. tally'[k] = <<o>> /\ \A x \in Keys : x # k => tally'[x] = tally[x]
  BY <1>1, <1>2, CountOwed
<1>4. /\ UNCHANGED <<queue, visited, job>>
      /\ \A v \in Workers : Held(v)' <=> Held(v) /\ v # w
      /\ \A q \in Procs : Sending(q)' <=> Sending(q)
      /\ \A q \in Procs : Sending(q) => SendKey(q)' = SendKey(q)
  BY ProcsDistinct DEF Report, Held, Sending, SendKey, TypeOK, Goto, InProcess, WorkerPCs
<1>5. \A x : Waiting(x)' <=> Waiting(x)
  BY <1>4 DEF Waiting
<1>6. <<o>> # <<>> /\ Len(<<o>>) = 1
  OBVIOUS
<1>7. OneOutcome'
  BY <1>1, <1>3, <1>4, <1>6 DEF PlaceInv, OneOutcome, Owed
<1>8. QueuePlace'
  BY <1>1, <1>3, <1>4, <1>5 DEF PlaceInv, QueuePlace, HeldPlace, NoRepeat, Owed, Key
<1>9. HeldPlace'
  BY <1>1, <1>3, <1>4, <1>5 DEF PlaceInv, HeldPlace, Owed, Key
<1>10. SendPlace'
  <2> SUFFICES ASSUME NEW q \in Procs, Sending(q)
               PROVE  /\ Owed(SendKey(q))' /\ ~Waiting(SendKey(q))'
                      /\ \A v \in Workers : Held(v)' => Key(v)' # SendKey(q)'
    BY <1>4 DEF SendPlace
  <2>1. /\ Owed(SendKey(q)) /\ ~Waiting(SendKey(q)) /\ k # SendKey(q)
        /\ \A v \in Workers : Held(v) => Key(v) # SendKey(q)
    BY <1>1 DEF PlaceInv, SendPlace, Key
  <2>2. SendKey(q) \in Keys
    BY <2>1 DEF Owed, TypeOK
  <2>3. SendKey(q)' = SendKey(q)
    BY <1>4
  <2> QED
    BY <1>3, <1>4, <1>5, <2>1, <2>2, <2>3 DEF Owed, Waiting, Key
<1>11. NoKeyForgotten'
  <2> SUFFICES ASSUME NEW x \in visited, tally'[x] = <<>>
               PROVE  \/ Waiting(x)'
                      \/ \E v \in Workers : Held(v)' /\ Key(v)' = x
                      \/ \E q \in Procs : Sending(q)' /\ SendKey(q)' = x
    BY <1>4 DEF NoKeyForgotten
  <2>1. x # k /\ tally[x] = <<>>
    BY <1>3, <1>6 DEF TypeOK
  <2> QED
    BY <1>4, <1>5, <2>1 DEF PlaceInv, NoKeyForgotten, Key
<1> QED
  BY <1>7, <1>8, <1>9, <1>10, <1>11 DEF PlaceInv

(* Counting an issue as fetched leaves every key accounted for.            *)
LEMMA ReportFetchedPlace ==
  ASSUME TypeOK, PlaceInv, NEW w \in Workers, ReportFetched(w)
  PROVE  PlaceInv'
<1> DEFINE k == job[w].key
<1>1. /\ Held(w) /\ k \in Keys /\ Owed(k)
      /\ \A v \in Workers : Held(v) => job[v].key \in Keys
  BY DEF ReportFetched, Held, TypeOK, Job, PlaceInv, HeldPlace, Key, InProcess
<1>2. PICK o \in Outcomes : Count(k, o)
  BY DEF ReportFetched, TypeOK, Key, Outcomes
<1>3. tally'[k] = <<o>> /\ \A x \in Keys : x # k => tally'[x] = tally[x]
  BY <1>1, <1>2, CountOwed
<1>4. /\ UNCHANGED <<queue, visited, job>>
      /\ \A v \in Workers : Held(v)' <=> Held(v) /\ v # w
      /\ \A q \in Procs : Sending(q)' <=> Sending(q)
      /\ \A q \in Procs : Sending(q) => SendKey(q)' = SendKey(q)
  BY ProcsDistinct DEF ReportFetched, Held, Sending, SendKey, TypeOK, Goto, InProcess, WorkerPCs
<1>5. \A x : Waiting(x)' <=> Waiting(x)
  BY <1>4 DEF Waiting
<1>6. <<o>> # <<>> /\ Len(<<o>>) = 1
  OBVIOUS
<1>7. OneOutcome'
  BY <1>1, <1>3, <1>4, <1>6 DEF PlaceInv, OneOutcome, Owed
<1>8. QueuePlace'
  BY <1>1, <1>3, <1>4, <1>5 DEF PlaceInv, QueuePlace, HeldPlace, NoRepeat, Owed, Key
<1>9. HeldPlace'
  BY <1>1, <1>3, <1>4, <1>5 DEF PlaceInv, HeldPlace, Owed, Key
<1>10. SendPlace'
  <2> SUFFICES ASSUME NEW q \in Procs, Sending(q)
               PROVE  /\ Owed(SendKey(q))' /\ ~Waiting(SendKey(q))'
                      /\ \A v \in Workers : Held(v)' => Key(v)' # SendKey(q)'
    BY <1>4 DEF SendPlace
  <2>1. /\ Owed(SendKey(q)) /\ ~Waiting(SendKey(q)) /\ k # SendKey(q)
        /\ \A v \in Workers : Held(v) => Key(v) # SendKey(q)
    BY <1>1 DEF PlaceInv, SendPlace, Key
  <2>2. SendKey(q) \in Keys
    BY <2>1 DEF Owed, TypeOK
  <2>3. SendKey(q)' = SendKey(q)
    BY <1>4
  <2> QED
    BY <1>3, <1>4, <1>5, <2>1, <2>2, <2>3 DEF Owed, Waiting, Key
<1>11. NoKeyForgotten'
  <2> SUFFICES ASSUME NEW x \in visited, tally'[x] = <<>>
               PROVE  \/ Waiting(x)'
                      \/ \E v \in Workers : Held(v)' /\ Key(v)' = x
                      \/ \E q \in Procs : Sending(q)' /\ SendKey(q)' = x
    BY <1>4 DEF NoKeyForgotten
  <2>1. x # k /\ tally[x] = <<>>
    BY <1>3, <1>6 DEF TypeOK
  <2> QED
    BY <1>4, <1>5, <2>1 DEF PlaceInv, NoKeyForgotten, Key
<1> QED
  BY <1>7, <1>8, <1>9, <1>10, <1>11 DEF PlaceInv

(* So does draining one from the channel.                                  *)
LEMMA DrainItemPlace ==
  ASSUME TypeOK, PlaceInv, DrainItem
  PROVE  PlaceInv'
<1> DEFINE k == Head(queue).key
<1>1. queue \in Seq(Item) /\ queue # <<>> /\ k \in Keys /\ NoRepeat(queue)
  BY ItemSeq DEF DrainItem, TypeOK, PlaceInv, QueuePlace
<1>2. /\ NoRepeat(Tail(queue))
      /\ InSeq(queue, k)
      /\ \A x : InSeq(Tail(queue), x) <=> InSeq(queue, x) /\ x # k
  BY <1>1, TailKeys
<1>3. queue' = Tail(queue)
  BY DEF DrainItem
<1>4. \A x : Waiting(x)' <=> Waiting(x) /\ x # k
  BY <1>2, <1>3 DEF Waiting, InSeq
<1>5. Waiting(k) /\ Owed(k)
  BY <1>1, <1>2 DEF Waiting, InSeq, PlaceInv, QueuePlace
<1>6. Count(k, "Dropped") /\ "Dropped" \in Outcomes
  BY DEF DrainItem, Outcomes
<1>7. tally'[k] = <<"Dropped">> /\ \A x \in Keys : x # k => tally'[x] = tally[x]
  BY <1>1, <1>5, <1>6, CountOwed
<1>8. <<"Dropped">> # <<>> /\ Len(<<"Dropped">>) = 1
  OBVIOUS
<1>9. UNCHANGED <<pc, job, todo, visited>>
  BY DEF DrainItem
<1>10. /\ \A v : Held(v)' <=> Held(v)
       /\ \A v : Key(v)' = Key(v)
       /\ \A q : (Sending(q)' <=> Sending(q)) /\ SendKey(q)' = SendKey(q)
  BY <1>9 DEF Held, Key, Sending, SendKey
<1>11. OneOutcome'
  BY <1>1, <1>5, <1>7, <1>8, <1>9 DEF PlaceInv, OneOutcome, Owed
<1>12. QueuePlace'
  BY <1>2, <1>3, <1>4, <1>7, <1>9 DEF PlaceInv, QueuePlace, NoRepeat, Owed
<1>13. HeldPlace'
  BY <1>4, <1>5, <1>7, <1>9, <1>10 DEF PlaceInv, HeldPlace, Owed, TypeOK
<1>14. SendPlace'
  BY <1>4, <1>5, <1>7, <1>9, <1>10 DEF PlaceInv, SendPlace, Owed, TypeOK
<1>15. NoKeyForgotten'
  BY <1>4, <1>7, <1>8, <1>9, <1>10 DEF PlaceInv, NoKeyForgotten, TypeOK
<1> QED
  BY <1>11, <1>12, <1>13, <1>14, <1>15 DEF PlaceInv

(* Taking an item moves its key from the channel to the worker.            *)
LEMMA ReceivePlace ==
  ASSUME TypeOK, PlaceInv, NEW w \in Workers, Receive(w)
  PROVE  PlaceInv'
<1> DEFINE k == Head(queue).key
<1>1. queue \in Seq(Item) /\ queue # <<>> /\ k \in Keys /\ NoRepeat(queue)
  BY ItemSeq DEF Receive, TypeOK, PlaceInv, QueuePlace
<1>2. /\ NoRepeat(Tail(queue))
      /\ InSeq(queue, k)
      /\ \A x : InSeq(Tail(queue), x) <=> InSeq(queue, x) /\ x # k
  BY <1>1, TailKeys
<1>3. queue' = Tail(queue) /\ UNCHANGED <<todo, visited, tally>>
  BY DEF Receive
<1>4. \A x : Waiting(x)' <=> Waiting(x) /\ x # k
  BY <1>2, <1>3 DEF Waiting, InSeq
<1>5. Waiting(k) /\ Owed(k)
  BY <1>1, <1>2 DEF Waiting, InSeq, PlaceInv, QueuePlace
<1>6. /\ ~Held(w) /\ Held(w)' /\ Key(w)' = k
      /\ \A v \in Workers : v # w => (Held(v)' <=> Held(v)) /\ Key(v)' = Key(v)
      /\ \A q \in Procs : (Sending(q)' <=> Sending(q)) /\ SendKey(q)' = SendKey(q)
  BY ProcsDistinct DEF Receive, Held, Key, Sending, SendKey, TypeOK, Goto, InProcess
<1>7. OneOutcome'
  BY <1>3 DEF PlaceInv, OneOutcome
<1>8. QueuePlace'
  BY <1>2, <1>3, <1>4 DEF PlaceInv, QueuePlace, NoRepeat, Owed
<1>9. HeldPlace'
  BY <1>3, <1>4, <1>5, <1>6 DEF PlaceInv, HeldPlace, Owed
<1>10. SendPlace'
  <2> SUFFICES ASSUME NEW q \in Procs, Sending(q)
               PROVE  /\ Owed(SendKey(q))' /\ ~Waiting(SendKey(q))'
                      /\ \A v \in Workers : Held(v)' => Key(v)' # SendKey(q)'
    BY <1>6 DEF SendPlace
  <2>1. /\ Owed(SendKey(q)) /\ ~Waiting(SendKey(q)) /\ SendKey(q)' = SendKey(q)
        /\ \A v \in Workers : Held(v) => Key(v) # SendKey(q)
    BY <1>6 DEF PlaceInv, SendPlace
  <2>2. k # SendKey(q)
    BY <1>5, <2>1
  <2>3. Owed(SendKey(q))' /\ ~Waiting(SendKey(q))'
    BY <1>3, <1>4, <2>1 DEF Owed, Waiting
  <2> QED
    BY <1>6, <2>1, <2>2, <2>3
<1>11. NoKeyForgotten'
  <2> SUFFICES ASSUME NEW x \in visited, tally[x] = <<>>
               PROVE  \/ Waiting(x)'
                      \/ \E v \in Workers : Held(v)' /\ Key(v)' = x
                      \/ \E q \in Procs : Sending(q)' /\ SendKey(q)' = x
    BY <1>3 DEF NoKeyForgotten
  <2>1. CASE x = k
    BY <1>6, <2>1
  <2>2. CASE x # k
    BY <1>4, <1>6, <2>2 DEF PlaceInv, NoKeyForgotten
  <2> QED
    BY <2>1, <2>2
<1> QED
  BY <1>7, <1>8, <1>9, <1>10, <1>11 DEF PlaceInv

(* An accepted key is new: it was nowhere, and nothing was counted for it. *)
LEMMA EnqueueAdmitPlace ==
  ASSUME TypeOK, PlaceInv, NEW p \in Workers \cup {Main}, EnqueueAdmit(p)
  PROVE  PlaceInv'
<1> DEFINE k == Head(todo[p]).key
<1>1. p \in Procs /\ todo[p] \in Seq(Item) /\ todo[p] # <<>> /\ pc[p] = "expand"
  BY DEF EnqueueAdmit, Expanding, TypeOK, Procs
<1>2. k \in Keys /\ k \notin visited
  BY <1>1, ItemSeq DEF EnqueueAdmit
<1>3. visited' = visited \cup {k} /\ UNCHANGED <<queue, tally, job, todo>>
  BY DEF EnqueueAdmit
<1>4. /\ ~Sending(p) /\ Sending(p)' /\ SendKey(p)' = k
      /\ \A q \in Procs : q # p => (Sending(q)' <=> Sending(q)) /\ SendKey(q)' = SendKey(q)
      /\ \A v \in Workers : (Held(v)' <=> Held(v)) /\ Key(v)' = Key(v)
  BY <1>1, <1>3, ProcsDistinct DEF EnqueueAdmit, Sending, SendKey, Held, Key, TypeOK, Goto, InProcess
<1>5. \A x : Waiting(x)' <=> Waiting(x)
  BY <1>3 DEF Waiting
<1>6. ~Waiting(k) /\ tally[k] = <<>>
  BY <1>2 DEF PlaceInv, QueuePlace, OneOutcome, Owed
<1>7. OneOutcome'
  BY <1>3 DEF PlaceInv, OneOutcome
<1>8. QueuePlace'
  BY <1>3, <1>5 DEF PlaceInv, QueuePlace, NoRepeat, Owed
<1>9. HeldPlace'
  BY <1>3, <1>4, <1>5 DEF PlaceInv, HeldPlace, Owed
<1>10. SendPlace'
  <2> SUFFICES ASSUME NEW q \in Procs, Sending(q)'
               PROVE  /\ Owed(SendKey(q))' /\ ~Waiting(SendKey(q))'
                      /\ \A v \in Workers : Held(v)' => Key(v)' # SendKey(q)'
    BY DEF SendPlace
  <2>1. CASE q = p
    BY <1>2, <1>3, <1>4, <1>5, <1>6, <2>1 DEF PlaceInv, HeldPlace, Owed, Waiting
  <2>2. CASE q # p
    BY <1>3, <1>4, <1>5, <2>2 DEF PlaceInv, SendPlace, Owed, Waiting
  <2> QED
    BY <2>1, <2>2
<1>11. NoKeyForgotten'
  <2> SUFFICES ASSUME NEW x \in visited', tally[x] = <<>>
               PROVE  \/ Waiting(x)'
                      \/ \E v \in Workers : Held(v)' /\ Key(v)' = x
                      \/ \E q \in Procs : Sending(q)' /\ SendKey(q)' = x
    BY <1>3 DEF NoKeyForgotten
  <2>1. CASE x = k
    BY <1>1, <1>4, <2>1
  <2>2. CASE x # k
    BY <1>3, <1>4, <1>5, <2>2 DEF PlaceInv, NoKeyForgotten
  <2> QED
    BY <2>1, <2>2
<1> QED
  BY <1>7, <1>8, <1>9, <1>10, <1>11 DEF PlaceInv

(* The send moves the key to the channel; the mutex makes it the only one. *)
LEMMA EnqueueSendPlace ==
  ASSUME TypeOK, MutexInv, PlaceInv, NEW p \in Workers \cup {Main}, EnqueueSend(p)
  PROVE  PlaceInv'
<1> DEFINE it == Head(todo[p])
           k  == it.key
<1>1. /\ p \in Procs /\ todo[p] \in Seq(Item) /\ todo[p] # <<>> /\ Sending(p)
      /\ queue \in Seq(Item)
  BY DEF EnqueueSend, TypeOK, Procs, Sending
<1>2. it \in Item /\ k \in Keys
  BY <1>1, ItemSeq
<1>3. Owed(k) /\ ~Waiting(k) /\ \A v \in Workers : Held(v) => Key(v) # k
  BY <1>1 DEF PlaceInv, SendPlace, SendKey
<1>4. queue' = Append(queue, it) /\ UNCHANGED <<visited, tally, job>>
  BY DEF EnqueueSend
<1> HIDE DEF it
<1>5. NoRepeat(queue) /\ ~InSeq(queue, k)
  BY <1>3 DEF PlaceInv, QueuePlace, Waiting, InSeq
<1>6. /\ NoRepeat(queue)'
      /\ \A x : Waiting(x)' <=> Waiting(x) \/ x = k
  BY <1>1, <1>2, <1>4, <1>5, AppendKeys DEF Waiting, InSeq, NoRepeat
<1>7. /\ \A q \in Procs : Sending(q) => q = p
      /\ \A q \in Procs : ~Sending(q)'
      /\ \A v \in Workers : (Held(v)' <=> Held(v)) /\ Key(v)' = Key(v)
  BY <1>1, <1>4, ProcsDistinct DEF EnqueueSend, MutexInv, Sending, Held, Key, TypeOK, Goto, InProcess
<1>8. OneOutcome'
  BY <1>4 DEF PlaceInv, OneOutcome
<1>9. QueuePlace'
  BY <1>3, <1>4, <1>6 DEF PlaceInv, QueuePlace, Owed
<1>10. HeldPlace'
  BY <1>3, <1>4, <1>6, <1>7 DEF PlaceInv, HeldPlace, Owed
<1>11. SendPlace'
  BY <1>7 DEF SendPlace
<1>12. NoKeyForgotten'
  <2> SUFFICES ASSUME NEW x \in visited, tally[x] = <<>>
               PROVE  Waiting(x)' \/ \E v \in Workers : Held(v)' /\ Key(v)' = x
    BY <1>4 DEF NoKeyForgotten
  <2>1. \/ Waiting(x)
        \/ \E w \in Workers : Held(w) /\ Key(w) = x
        \/ \E q \in Procs : Sending(q) /\ SendKey(q) = x
    BY DEF PlaceInv, NoKeyForgotten
  <2>2. ASSUME NEW q \in Procs, Sending(q), SendKey(q) = x PROVE x = k
    BY <1>7, <2>2 DEF SendKey, it
  <2> QED
    BY <1>6, <1>7, <2>1, <2>2
<1> QED
  BY <1>8, <1>9, <1>10, <1>11, <1>12, <1>6 DEF PlaceInv

(* An accepted key without an outcome is in one place, through every step. *)
LEMMA PlaceStep ==
  ASSUME TypeOK, MutexInv, LifeInv, PlaceInv, [Next]_vars
  PROVE  PlaceInv'
<1>f. FineNext
  BY NextIsFine
<1>p. /\ pc \in [Procs -> WorkerPCs \cup MainPCs \cup CloserPCs]
      /\ \A w \in Workers : pc[w] \in WorkerPCs
      /\ pc[Main] \in MainPCs /\ pc[Closer] \in CloserPCs
      /\ job \in [Workers -> Job \cup {Idle}]
      /\ todo \in [Procs -> Seq(Item)]
  BY DEF TypeOK
<1> USE <1>p, ProcsDistinct DEF MutexInv, LifeInv, Goto, Procs,
        WorkerPCs, MainPCs, CloserPCs, InProcess, Reported, Winding
<1>1. ASSUME NEW w \in Workers, LocalStep(w) PROVE PlaceInv'
  <2>1. /\ UNCHANGED <<queue, visited, tally>>
        /\ \A v \in Workers : pc'[v] \in InProcess <=> pc[v] \in InProcess
        /\ \A v \in Workers : pc[v] \in InProcess => job'[v].key = job[v].key
        /\ \A q \in Procs : pc'[q] = "send" <=> pc[q] = "send"
        /\ \A q \in Procs : pc[q] = "send" => todo'[q] = todo[q]
    BY <1>1 DEF LocalStep
  <2> QED
    BY <2>1, PlaceFrame
<1>2. ASSUME NEW w \in Workers, Receive(w) PROVE PlaceInv'
  BY <1>2, ReceivePlace
<1>3. ASSUME NEW w \in Workers, Exit(w) PROVE PlaceInv'
  <2>1. /\ UNCHANGED <<queue, visited, tally>>
        /\ \A v \in Workers : pc'[v] \in InProcess <=> pc[v] \in InProcess
        /\ \A v \in Workers : pc[v] \in InProcess => job'[v].key = job[v].key
        /\ \A q \in Procs : pc'[q] = "send" <=> pc[q] = "send"
        /\ \A q \in Procs : pc[q] = "send" => todo'[q] = todo[q]
    BY <1>3 DEF Exit
  <2> QED
    BY <2>1, PlaceFrame
<1>4. ASSUME NEW w \in Workers, Report(w) PROVE PlaceInv'
  BY <1>4, ReportPlace
<1>5. ASSUME NEW w \in Workers, ReportFetched(w) PROVE PlaceInv'
  BY <1>5, ReportFetchedPlace
<1>6. ASSUME NEW w \in Workers, Unlock(w) PROVE PlaceInv'
  <2>1. /\ UNCHANGED <<queue, visited, tally>>
        /\ \A v \in Workers : pc'[v] \in InProcess <=> pc[v] \in InProcess
        /\ \A v \in Workers : pc[v] \in InProcess => job'[v].key = job[v].key
        /\ \A q \in Procs : pc'[q] = "send" <=> pc[q] = "send"
        /\ \A q \in Procs : pc[q] = "send" => todo'[q] = todo[q]
    BY <1>6 DEF Unlock
  <2> QED
    BY <2>1, PlaceFrame
<1>7. ASSUME NEW w \in Workers, Decrement(w) PROVE PlaceInv'
  <2>1. /\ UNCHANGED <<queue, visited, tally>>
        /\ \A v \in Workers : pc'[v] \in InProcess <=> pc[v] \in InProcess
        /\ \A v \in Workers : pc[v] \in InProcess => job'[v].key = job[v].key
        /\ \A q \in Procs : pc'[q] = "send" <=> pc[q] = "send"
        /\ \A q \in Procs : pc[q] = "send" => todo'[q] = todo[q]
    BY <1>7 DEF Decrement, Leave, NextStop
  <2> QED
    BY <2>1, PlaceFrame
<1>8. ASSUME NEW w \in Workers, CloseQueue(w) PROVE PlaceInv'
  <2>1. /\ UNCHANGED <<queue, visited, tally>>
        /\ \A v \in Workers : pc'[v] \in InProcess <=> pc[v] \in InProcess
        /\ \A v \in Workers : pc[v] \in InProcess => job'[v].key = job[v].key
        /\ \A q \in Procs : pc'[q] = "send" <=> pc[q] = "send"
        /\ \A q \in Procs : pc[q] = "send" => todo'[q] = todo[q]
    BY <1>8 DEF CloseQueue, Leave, NextStop
  <2> QED
    BY <2>1, PlaceFrame
<1>9. ASSUME NEW w \in Workers, Abort(w) PROVE PlaceInv'
  <2>1. /\ UNCHANGED <<queue, visited, tally>>
        /\ \A v \in Workers : pc'[v] \in InProcess <=> pc[v] \in InProcess
        /\ \A v \in Workers : pc[v] \in InProcess => job'[v].key = job[v].key
        /\ \A q \in Procs : pc'[q] = "send" <=> pc[q] = "send"
        /\ \A q \in Procs : pc[q] = "send" => todo'[q] = todo[q]
    BY <1>9 DEF Abort, Leave, NextStop
  <2> QED
    BY <2>1, PlaceFrame
<1>10. ASSUME NEW p \in Workers \cup {Main}, EnqueueKnown(p) PROVE PlaceInv'
  <2>1. /\ UNCHANGED <<queue, visited, tally>>
        /\ \A v \in Workers : pc'[v] \in InProcess <=> pc[v] \in InProcess
        /\ \A v \in Workers : pc[v] \in InProcess => job'[v].key = job[v].key
        /\ \A q \in Procs : pc'[q] = "send" <=> pc[q] = "send"
        /\ \A q \in Procs : pc[q] = "send" => todo'[q] = todo[q]
    BY <1>10 DEF EnqueueKnown, Expanding
  <2> QED
    BY <2>1, PlaceFrame
<1>11. ASSUME NEW p \in Workers \cup {Main}, EnqueueRefuse(p) PROVE PlaceInv'
  <2>1. /\ UNCHANGED <<queue, visited, tally>>
        /\ \A v \in Workers : pc'[v] \in InProcess <=> pc[v] \in InProcess
        /\ \A v \in Workers : pc[v] \in InProcess => job'[v].key = job[v].key
        /\ \A q \in Procs : pc'[q] = "send" <=> pc[q] = "send"
        /\ \A q \in Procs : pc[q] = "send" => todo'[q] = todo[q]
    BY <1>11 DEF EnqueueRefuse, Expanding
  <2> QED
    BY <2>1, PlaceFrame
<1>12. ASSUME NEW p \in Workers \cup {Main}, EnqueueAdmit(p) PROVE PlaceInv'
  BY <1>12, EnqueueAdmitPlace
<1>13. ASSUME NEW p \in Workers \cup {Main}, EnqueueSend(p) PROVE PlaceInv'
  BY <1>13, EnqueueSendPlace
<1>14. ASSUME Start PROVE PlaceInv'
  <2>1. /\ UNCHANGED <<queue, visited, tally>>
        /\ \A v \in Workers : pc'[v] \in InProcess <=> pc[v] \in InProcess
        /\ \A v \in Workers : pc[v] \in InProcess => job'[v].key = job[v].key
        /\ \A q \in Procs : pc'[q] = "send" <=> pc[q] = "send"
        /\ \A q \in Procs : pc[q] = "send" => todo'[q] = todo[q]
    BY <1>14 DEF Start
  <2> QED
    BY <2>1, PlaceFrame
<1>15. ASSUME ReturnSummary PROVE PlaceInv'
  <2>1. /\ UNCHANGED <<queue, visited, tally>>
        /\ \A v \in Workers : pc'[v] \in InProcess <=> pc[v] \in InProcess
        /\ \A v \in Workers : pc[v] \in InProcess => job'[v].key = job[v].key
        /\ \A q \in Procs : pc'[q] = "send" <=> pc[q] = "send"
        /\ \A q \in Procs : pc[q] = "send" => todo'[q] = todo[q]
    BY <1>15 DEF ReturnSummary
  <2> QED
    BY <2>1, PlaceFrame
<1>16. ASSUME CloserLock PROVE PlaceInv'
  <2>1. /\ UNCHANGED <<queue, visited, tally>>
        /\ \A v \in Workers : pc'[v] \in InProcess <=> pc[v] \in InProcess
        /\ \A v \in Workers : pc[v] \in InProcess => job'[v].key = job[v].key
        /\ \A q \in Procs : pc'[q] = "send" <=> pc[q] = "send"
        /\ \A q \in Procs : pc[q] = "send" => todo'[q] = todo[q]
    BY <1>16 DEF CloserLock
  <2> QED
    BY <2>1, PlaceFrame
<1>17. ASSUME DrainItem PROVE PlaceInv'
  BY <1>17, DrainItemPlace
<1>18. ASSUME CloserUnlock PROVE PlaceInv'
  <2>1. /\ UNCHANGED <<queue, visited, tally>>
        /\ \A v \in Workers : pc'[v] \in InProcess <=> pc[v] \in InProcess
        /\ \A v \in Workers : pc[v] \in InProcess => job'[v].key = job[v].key
        /\ \A q \in Procs : pc'[q] = "send" <=> pc[q] = "send"
        /\ \A q \in Procs : pc[q] = "send" => todo'[q] = todo[q]
    BY <1>18 DEF CloserUnlock
  <2> QED
    BY <2>1, PlaceFrame
<1>19. ASSUME OutsideStep PROVE PlaceInv'
  <2>1. /\ UNCHANGED <<queue, visited, tally>>
        /\ \A v \in Workers : pc'[v] \in InProcess <=> pc[v] \in InProcess
        /\ \A v \in Workers : pc[v] \in InProcess => job'[v].key = job[v].key
        /\ \A q \in Procs : pc'[q] = "send" <=> pc[q] = "send"
        /\ \A q \in Procs : pc[q] = "send" => todo'[q] = todo[q]
    BY <1>19 DEF OutsideStep
  <2> QED
    BY <2>1, PlaceFrame
<1> QED
  BY <1>f, <1>1, <1>2, <1>3, <1>4, <1>5, <1>6, <1>7, <1>8, <1>9,
     <1>10, <1>11, <1>12, <1>13, <1>14, <1>15, <1>16, <1>17, <1>18, <1>19 DEF FineNext

-----------------------------------------------------------------------------
(***************************************************************************)
(* What has been counted, and the 401.                                     *)
(***************************************************************************)
(* The key and the outcome a counting step counts.                         *)
LEMMA ReportCounts ==
  ASSUME TypeOK, PlaceInv, NEW w \in Workers, Report(w)
  PROVE  /\ Owed(Key(w)) /\ Count(Key(w), job[w].res)
         /\ Key(w) \in Keys /\ job[w].res \in Outcomes
  BY DEF Report, TypeOK, Job, InProcess, PlaceInv, HeldPlace, Held, Key

(* An issue that is counted as fetched was owed its outcome.               *)
LEMMA ReportFetchedCounts ==
  ASSUME TypeOK, PlaceInv, NEW w \in Workers, ReportFetched(w)
  PROVE  Owed(Key(w)) /\ Count(Key(w), "Fetched") /\ Key(w) \in Keys
  BY DEF ReportFetched, TypeOK, Job, InProcess, PlaceInv, HeldPlace, Held, Key

(* A drained key was owed its outcome.                                     *)
LEMMA DrainItemCounts ==
  ASSUME TypeOK, PlaceInv, DrainItem
  PROVE  /\ Owed(Head(queue).key) /\ Count(Head(queue).key, "Dropped")
         /\ Head(queue).key \in Keys
<1>1. queue \in Seq(Item) /\ queue # <<>> /\ Count(Head(queue).key, "Dropped")
  BY DEF DrainItem, TypeOK
<1>2. Head(queue).key \in Keys /\ InSeq(queue, Head(queue).key)
  BY <1>1, ItemSeq, TailKeys DEF PlaceInv, QueuePlace
<1>3. Owed(Head(queue).key)
  BY <1>2 DEF PlaceInv, QueuePlace, Waiting, InSeq
<1> QED
  BY <1>1, <1>2, <1>3

(* A step counts one outcome, for a key that is owed one, or none.         *)
LEMMA CountStep ==
  ASSUME TypeOK, PlaceInv, [Next]_vars
  PROVE  \/ UNCHANGED tally
         \/ \E k \in Keys, o \in Outcomes : Owed(k) /\ Count(k, o)
<1> DEFINE Goal == \/ UNCHANGED tally
                   \/ \E k \in Keys, o \in Outcomes : Owed(k) /\ Count(k, o)
<1>f. FineNext
  BY NextIsFine
<1>1. ASSUME NEW w \in Workers, LocalStep(w) PROVE Goal
  <2>1. UNCHANGED tally
    BY <1>1 DEF LocalStep
  <2> QED
    BY <2>1
<1>2. ASSUME NEW w \in Workers, Receive(w) PROVE Goal
  <2>1. UNCHANGED tally
    BY <1>2 DEF Receive
  <2> QED
    BY <2>1
<1>3. ASSUME NEW w \in Workers, Exit(w) PROVE Goal
  <2>1. UNCHANGED tally
    BY <1>3 DEF Exit
  <2> QED
    BY <2>1
<1>4. ASSUME NEW w \in Workers, Report(w) PROVE Goal
  BY <1>4, ReportCounts
<1>5. ASSUME NEW w \in Workers, ReportFetched(w) PROVE Goal
  BY <1>5, ReportFetchedCounts DEF Outcomes
<1>6. ASSUME NEW w \in Workers, Unlock(w) PROVE Goal
  <2>1. UNCHANGED tally
    BY <1>6 DEF Unlock
  <2> QED
    BY <2>1
<1>7. ASSUME NEW w \in Workers, Decrement(w) PROVE Goal
  <2>1. UNCHANGED tally
    BY <1>7 DEF Decrement, Leave, NextStop
  <2> QED
    BY <2>1
<1>8. ASSUME NEW w \in Workers, CloseQueue(w) PROVE Goal
  <2>1. UNCHANGED tally
    BY <1>8 DEF CloseQueue, Leave, NextStop
  <2> QED
    BY <2>1
<1>9. ASSUME NEW w \in Workers, Abort(w) PROVE Goal
  <2>1. UNCHANGED tally
    BY <1>9 DEF Abort, Leave, NextStop
  <2> QED
    BY <2>1
<1>10. ASSUME NEW p \in Workers \cup {Main}, EnqueueKnown(p) PROVE Goal
  <2>1. UNCHANGED tally
    BY <1>10 DEF EnqueueKnown, Expanding
  <2> QED
    BY <2>1
<1>11. ASSUME NEW p \in Workers \cup {Main}, EnqueueRefuse(p) PROVE Goal
  <2>1. UNCHANGED tally
    BY <1>11 DEF EnqueueRefuse, Expanding
  <2> QED
    BY <2>1
<1>12. ASSUME NEW p \in Workers \cup {Main}, EnqueueAdmit(p) PROVE Goal
  <2>1. UNCHANGED tally
    BY <1>12 DEF EnqueueAdmit, Expanding
  <2> QED
    BY <2>1
<1>13. ASSUME NEW p \in Workers \cup {Main}, EnqueueSend(p) PROVE Goal
  <2>1. UNCHANGED tally
    BY <1>13 DEF EnqueueSend
  <2> QED
    BY <2>1
<1>14. ASSUME Start PROVE Goal
  <2>1. UNCHANGED tally
    BY <1>14 DEF Start
  <2> QED
    BY <2>1
<1>15. ASSUME ReturnSummary PROVE Goal
  <2>1. UNCHANGED tally
    BY <1>15 DEF ReturnSummary
  <2> QED
    BY <2>1
<1>16. ASSUME CloserLock PROVE Goal
  <2>1. UNCHANGED tally
    BY <1>16 DEF CloserLock
  <2> QED
    BY <2>1
<1>17. ASSUME DrainItem PROVE Goal
  BY <1>17, DrainItemCounts DEF Outcomes
<1>18. ASSUME CloserUnlock PROVE Goal
  <2>1. UNCHANGED tally
    BY <1>18 DEF CloserUnlock
  <2> QED
    BY <2>1
<1>19. ASSUME OutsideStep PROVE Goal
  <2>1. UNCHANGED tally
    BY <1>19 DEF OutsideStep
  <2> QED
    BY <2>1
<1> QED
  BY <1>f, <1>1, <1>2, <1>3, <1>4, <1>5, <1>6, <1>7, <1>8, <1>9,
     <1>10, <1>11, <1>12, <1>13, <1>14, <1>15, <1>16, <1>17, <1>18, <1>19 DEF FineNext

(* What has been counted stays.                                            *)
LEMMA CountedStays ==
  ASSUME TypeOK, PlaceInv, [Next]_vars
  PROVE  \A k \in Keys : tally[k] # <<>> => tally'[k] = tally[k]
  BY CountStep, CountOwed DEF Owed

(* At the beginning there is no result and no error.                       *)
LEMMA InitAbort == Init => ResInv /\ AbortInv
<1> SUFFICES ASSUME Init PROVE ResInv /\ AbortInv
  OBVIOUS
<1>1. /\ tally = [k \in Keys |-> <<>>] /\ ~abortErr
      /\ \A w \in Workers : pc[w] = "unborn"
  BY ProcsDistinct DEF Init
<1>2. <<>> # <<"Unauthorized">>
  OBVIOUS
<1> QED
  BY <1>1, <1>2 DEF ResInv, AbortInv, Remembers, InProcess

(* A worker has no result before it is about to report one, and aborts for *)
(* a 401 only.                                                             *)
LEMMA ResStep ==
  ASSUME TypeOK, MutexInv, LifeInv, ResInv, [Next]_vars
  PROVE  ResInv'
<1>f. FineNext
  BY NextIsFine
<1>p. /\ pc \in [Procs -> WorkerPCs \cup MainPCs \cup CloserPCs]
      /\ \A w \in Workers : pc[w] \in WorkerPCs
      /\ job \in [Workers -> Job \cup {Idle}]
      /\ \A w \in Workers : pc[w] \in InProcess \cup Reported \cup Winding => job[w] \in Job
  BY DEF TypeOK
<1> USE <1>p, ProcsDistinct DEF ResInv, Goto, Procs, Key,
        WorkerPCs, MainPCs, CloserPCs, InProcess, Reported, Winding
<1>1. ASSUME NEW w \in Workers, LocalStep(w) PROVE ResInv'
  <2>1. PICK j \in Job : /\ job' = [job EXCEPT ![w] = j]
                         /\ pc'[w] # "report" => j.res = job[w].res
    BY <1>1 DEF LocalStep
  <2> QED
    BY <1>1, <2>1 DEF LocalStep
<1>2. ASSUME NEW w \in Workers, Receive(w) PROVE ResInv'
  BY <1>2 DEF Receive
<1>3. ASSUME NEW w \in Workers, Exit(w) PROVE ResInv'
  BY <1>3 DEF Exit
<1>4. ASSUME NEW w \in Workers, Report(w) PROVE ResInv'
  BY <1>4 DEF Report
<1>5. ASSUME NEW w \in Workers, ReportFetched(w) PROVE ResInv'
  BY <1>5 DEF ReportFetched
<1>6. ASSUME NEW w \in Workers, Unlock(w) PROVE ResInv'
  BY <1>6 DEF Unlock
<1>7. ASSUME NEW w \in Workers, Decrement(w) PROVE ResInv'
  BY <1>7 DEF Decrement, Leave, NextStop
<1>8. ASSUME NEW w \in Workers, CloseQueue(w) PROVE ResInv'
  BY <1>8 DEF CloseQueue, Leave, NextStop
<1>9. ASSUME NEW w \in Workers, Abort(w) PROVE ResInv'
  BY <1>9 DEF Abort, Leave, NextStop
<1>10. ASSUME NEW p \in Workers \cup {Main}, EnqueueKnown(p) PROVE ResInv'
  BY <1>10 DEF EnqueueKnown, Expanding
<1>11. ASSUME NEW p \in Workers \cup {Main}, EnqueueRefuse(p) PROVE ResInv'
  BY <1>11 DEF EnqueueRefuse, Expanding
<1>12. ASSUME NEW p \in Workers \cup {Main}, EnqueueAdmit(p) PROVE ResInv'
  BY <1>12 DEF EnqueueAdmit, Expanding
<1>13. ASSUME NEW p \in Workers \cup {Main}, EnqueueSend(p) PROVE ResInv'
  BY <1>13 DEF EnqueueSend
<1>14. ASSUME Start PROVE ResInv'
  BY <1>14 DEF Start
<1>15. ASSUME ReturnSummary PROVE ResInv'
  BY <1>15 DEF ReturnSummary
<1>16. ASSUME CloserLock PROVE ResInv'
  BY <1>16 DEF CloserLock
<1>17. ASSUME DrainItem PROVE ResInv'
  BY <1>17 DEF DrainItem
<1>18. ASSUME CloserUnlock PROVE ResInv'
  BY <1>18 DEF CloserUnlock
<1>19. ASSUME OutsideStep PROVE ResInv'
  BY <1>19 DEF OutsideStep
<1> QED
  BY <1>f, <1>1, <1>2, <1>3, <1>4, <1>5, <1>6, <1>7, <1>8, <1>9,
     <1>10, <1>11, <1>12, <1>13, <1>14, <1>15, <1>16, <1>17, <1>18, <1>19 DEF FineNext

(* A step that counts nothing and forgets nothing.                         *)
LEMMA AbortFrame ==
  ASSUME AbortInv, UNCHANGED <<tally, abortErr>>,
         \A v \in Workers, k \in Keys : Remembers(v, k)' <=> Remembers(v, k)
  PROVE  AbortInv'
  BY DEF AbortInv

(* A 401 is with the worker that counted it, or recorded.                  *)
LEMMA AbortStep ==
  ASSUME TypeOK, MutexInv, LifeInv, PlaceInv, ResInv, AbortInv, [Next]_vars
  PROVE  AbortInv'
<1>f. FineNext
  BY NextIsFine
<1>p. /\ pc \in [Procs -> WorkerPCs \cup MainPCs \cup CloserPCs]
      /\ \A w \in Workers : pc[w] \in WorkerPCs
      /\ job \in [Workers -> Job \cup {Idle}]
      /\ \A w \in Workers : pc[w] \in InProcess \cup Reported \cup Winding => job[w] \in Job
  BY DEF TypeOK
<1> USE <1>p, ProcsDistinct DEF ResInv, LifeInv, Goto, Procs, Key,
        WorkerPCs, MainPCs, CloserPCs, InProcess, Reported, Winding
<1>1. ASSUME NEW w \in Workers, LocalStep(w) PROVE AbortInv'
  <2>1. /\ UNCHANGED <<tally, abortErr>>
        /\ \A v \in Workers, k \in Keys : Remembers(v, k)' <=> Remembers(v, k)
    BY <1>1 DEF LocalStep, Remembers
  <2> QED
    BY <2>1, AbortFrame
<1>2. ASSUME NEW w \in Workers, Receive(w) PROVE AbortInv'
  <2>1. /\ UNCHANGED <<tally, abortErr>>
        /\ \A v \in Workers, k \in Keys : Remembers(v, k)' <=> Remembers(v, k)
    BY <1>2 DEF Receive, Remembers
  <2> QED
    BY <2>1, AbortFrame
<1>3. ASSUME NEW w \in Workers, Exit(w) PROVE AbortInv'
  <2>1. /\ UNCHANGED <<tally, abortErr>>
        /\ \A v \in Workers, k \in Keys : Remembers(v, k)' <=> Remembers(v, k)
    BY <1>3 DEF Exit, Remembers
  <2> QED
    BY <2>1, AbortFrame
<1>4. ASSUME NEW w \in Workers, Report(w) PROVE AbortInv'
  <2>1. /\ Owed(Key(w)) /\ Count(Key(w), job[w].res)
        /\ Key(w) \in Keys /\ job[w].res \in Outcomes
    BY <1>4, ReportCounts
  <2>2. /\ tally'[Key(w)] = <<job[w].res>>
        /\ \A x \in Keys : x # Key(w) => tally'[x] = tally[x]
    BY <2>1, CountOwed
  <2>3. /\ tally[Key(w)] = <<>> /\ <<>> # <<"Unauthorized">>
        /\ <<job[w].res>> = <<"Unauthorized">> <=> job[w].res = "Unauthorized"
    BY <2>1 DEF Owed
  <2>4. /\ UNCHANGED <<abortErr, job>>
        /\ \A v \in Workers, x \in Keys : v # w => (Remembers(v, x)' <=> Remembers(v, x))
        /\ \A x \in Keys : Remembers(w, x)' <=> x = Key(w) /\ job[w].res = "Unauthorized"
        /\ \A x \in Keys : ~Remembers(w, x)
    BY <1>4 DEF Report, Remembers
  <2> QED
    BY <2>1, <2>2, <2>3, <2>4 DEF AbortInv
<1>5. ASSUME NEW w \in Workers, ReportFetched(w) PROVE AbortInv'
  <2>1. PICK k \in Keys : Owed(k) /\ Count(k, "Fetched")
    BY <1>5, ReportFetchedCounts DEF ReportFetched
  <2>2. tally'[k] = <<"Fetched">> /\ \A x \in Keys : x # k => tally'[x] = tally[x]
    BY <2>1, CountOwed DEF Outcomes
  <2>3. tally[k] = <<>> /\ <<"Fetched">> # <<"Unauthorized">> /\ <<>> # <<"Unauthorized">>
    BY <2>1 DEF Owed
  <2>4. UNCHANGED abortErr /\ \A v \in Workers, x \in Keys : Remembers(v, x)' <=> Remembers(v, x)
    BY <1>5 DEF ReportFetched, Remembers
  <2> QED
    BY <2>2, <2>3, <2>4 DEF AbortInv
<1>6. ASSUME NEW w \in Workers, Unlock(w) PROVE AbortInv'
  <2>1. /\ UNCHANGED <<tally, abortErr>>
        /\ \A v \in Workers, k \in Keys : Remembers(v, k)' <=> Remembers(v, k)
    BY <1>6 DEF Unlock, Remembers
  <2> QED
    BY <2>1, AbortFrame
<1>7. ASSUME NEW w \in Workers, Decrement(w) PROVE AbortInv'
  <2>1. /\ UNCHANGED <<tally, abortErr>>
        /\ \A v \in Workers, k \in Keys : Remembers(v, k)' <=> Remembers(v, k)
    BY <1>7 DEF Decrement, Leave, NextStop, Remembers
  <2> QED
    BY <2>1, AbortFrame
<1>8. ASSUME NEW w \in Workers, CloseQueue(w) PROVE AbortInv'
  <2>1. /\ UNCHANGED <<tally, abortErr>>
        /\ \A v \in Workers, k \in Keys : Remembers(v, k)' <=> Remembers(v, k)
    BY <1>8 DEF CloseQueue, Leave, NextStop, Remembers
  <2> QED
    BY <2>1, AbortFrame
<1>9. ASSUME NEW w \in Workers, Abort(w) PROVE AbortInv'
  <2>1. UNCHANGED tally /\ abortErr'
    BY <1>9 DEF Abort
  <2>2. job[w].res = "Unauthorized" /\ Key(w) \in Keys
    BY <1>9 DEF Abort, Job, ResInv
  <2>3. tally[Key(w)] = <<"Unauthorized">>
    <3>1. Remembers(w, Key(w))
      BY <1>9, <2>2 DEF Abort, Remembers
    <3> QED
      BY <2>2, <3>1 DEF AbortInv
  <2>4. \A v \in Workers, x \in Keys : Remembers(v, x)' => Remembers(v, x)
    BY <1>9 DEF Abort, Remembers, Leave
  <2> QED
    BY <2>1, <2>2, <2>3, <2>4 DEF AbortInv
<1>10. ASSUME NEW p \in Workers \cup {Main}, EnqueueKnown(p) PROVE AbortInv'
  <2>1. /\ UNCHANGED <<tally, abortErr>>
        /\ \A v \in Workers, k \in Keys : Remembers(v, k)' <=> Remembers(v, k)
    BY <1>10 DEF EnqueueKnown, Expanding, Remembers
  <2> QED
    BY <2>1, AbortFrame
<1>11. ASSUME NEW p \in Workers \cup {Main}, EnqueueRefuse(p) PROVE AbortInv'
  <2>1. /\ UNCHANGED <<tally, abortErr>>
        /\ \A v \in Workers, k \in Keys : Remembers(v, k)' <=> Remembers(v, k)
    BY <1>11 DEF EnqueueRefuse, Expanding, Remembers
  <2> QED
    BY <2>1, AbortFrame
<1>12. ASSUME NEW p \in Workers \cup {Main}, EnqueueAdmit(p) PROVE AbortInv'
  <2>1. /\ UNCHANGED <<tally, abortErr>>
        /\ \A v \in Workers, k \in Keys : Remembers(v, k)' <=> Remembers(v, k)
    BY <1>12 DEF EnqueueAdmit, Expanding, Remembers
  <2> QED
    BY <2>1, AbortFrame
<1>13. ASSUME NEW p \in Workers \cup {Main}, EnqueueSend(p) PROVE AbortInv'
  <2>1. /\ UNCHANGED <<tally, abortErr>>
        /\ \A v \in Workers, k \in Keys : Remembers(v, k)' <=> Remembers(v, k)
    BY <1>13 DEF EnqueueSend, Remembers
  <2> QED
    BY <2>1, AbortFrame
<1>14. ASSUME Start PROVE AbortInv'
  <2>1. /\ UNCHANGED <<tally, abortErr>>
        /\ \A v \in Workers, k \in Keys : Remembers(v, k)' <=> Remembers(v, k)
    BY <1>14 DEF Start, Remembers
  <2> QED
    BY <2>1, AbortFrame
<1>15. ASSUME ReturnSummary PROVE AbortInv'
  <2>1. /\ UNCHANGED <<tally, abortErr>>
        /\ \A v \in Workers, k \in Keys : Remembers(v, k)' <=> Remembers(v, k)
    BY <1>15 DEF ReturnSummary, Remembers
  <2> QED
    BY <2>1, AbortFrame
<1>16. ASSUME CloserLock PROVE AbortInv'
  <2>1. /\ UNCHANGED <<tally, abortErr>>
        /\ \A v \in Workers, k \in Keys : Remembers(v, k)' <=> Remembers(v, k)
    BY <1>16 DEF CloserLock, Remembers
  <2> QED
    BY <2>1, AbortFrame
<1>17. ASSUME DrainItem PROVE AbortInv'
  <2>1. PICK k \in Keys : Owed(k) /\ Count(k, "Dropped")
    BY <1>17, DrainItemCounts DEF DrainItem
  <2>2. tally'[k] = <<"Dropped">> /\ \A x \in Keys : x # k => tally'[x] = tally[x]
    BY <2>1, CountOwed DEF Outcomes
  <2>3. tally[k] = <<>> /\ <<"Dropped">> # <<"Unauthorized">> /\ <<>> # <<"Unauthorized">>
    BY <2>1 DEF Owed
  <2>4. UNCHANGED abortErr /\ \A v \in Workers, x \in Keys : Remembers(v, x)' <=> Remembers(v, x)
    BY <1>17 DEF DrainItem, Remembers
  <2> QED
    BY <2>2, <2>3, <2>4 DEF AbortInv
<1>18. ASSUME CloserUnlock PROVE AbortInv'
  <2>1. /\ UNCHANGED <<tally, abortErr>>
        /\ \A v \in Workers, k \in Keys : Remembers(v, k)' <=> Remembers(v, k)
    BY <1>18 DEF CloserUnlock, Remembers
  <2> QED
    BY <2>1, AbortFrame
<1>19. ASSUME OutsideStep PROVE AbortInv'
  <2>1. /\ UNCHANGED <<tally, abortErr>>
        /\ \A v \in Workers, k \in Keys : Remembers(v, k)' <=> Remembers(v, k)
    BY <1>19 DEF OutsideStep, Remembers
  <2> QED
    BY <2>1, AbortFrame
<1> QED
  BY <1>f, <1>1, <1>2, <1>3, <1>4, <1>5, <1>6, <1>7, <1>8, <1>9,
     <1>10, <1>11, <1>12, <1>13, <1>14, <1>15, <1>16, <1>17, <1>18, <1>19 DEF FineNext

-----------------------------------------------------------------------------
(***************************************************************************)
(* The inductive invariant, and what follows from it.                      *)
(***************************************************************************)
LEMMA InitInv == Init => CrawlInv
  BY InitType, InitControl, InitPending, InitClose, InitPlace, InitAbort DEF CrawlInv

(* Every step keeps the parts of the invariant together.                   *)
LEMMA InvStep == CrawlInv /\ [Next]_vars => CrawlInv'
<1> SUFFICES ASSUME CrawlInv, [Next]_vars PROVE CrawlInv'
  OBVIOUS
<1>1. TypeOK /\ MutexInv /\ LifeInv /\ PendingExact /\ CloseInv
  BY DEF CrawlInv
<1>2. PlaceInv /\ ResInv /\ AbortInv
  BY DEF CrawlInv
<1>3. TypeOK'
  BY <1>1, TypeStep
<1>4. MutexInv' /\ LifeInv'
  BY <1>1, ControlStep
<1>5. PendingExact'
  BY <1>1, PendingStep
<1>6. CloseInv'
  BY <1>1, CloseStep
<1>7. PlaceInv'
  BY <1>1, <1>2, PlaceStep
<1>8. ResInv' /\ AbortInv'
  BY <1>1, <1>2, ResStep, AbortStep
<1> QED
  BY <1>3, <1>4, <1>5, <1>6, <1>7, <1>8 DEF CrawlInv

(* The inductive invariant holds for every graph, pool, buffer, cap, reply *)
(* and fault.                                                              *)
THEOREM Inductive == Spec => []CrawlInv
<1>1. Init => CrawlInv
  BY InitInv
<1>2. CrawlInv /\ [Next]_vars => CrawlInv'
  BY InvStep
<1> QED
  BY <1>1, <1>2, PTL DEF Spec

(* No goroutine ever sends on a closed channel: the send of enqueue cannot *)
(* panic, however the closers of the queue interleave with it.             *)
THEOREM SendsAreSafe == Spec => []NoSendOnClosedQueue
<1>1. CrawlInv => NoSendOnClosedQueue
  BY SendSafe DEF CrawlInv
<1> QED
  BY <1>1, Inductive, PTL

(* c.pending is at every moment the number of unfinished items.            *)
THEOREM PendingIsExact == Spec => []PendingExact
<1>1. CrawlInv => PendingExact
  BY DEF CrawlInv
<1> QED
  BY <1>1, Inductive, PTL

(* The queue is closed only when the work is done or cancelled.            *)
THEOREM ClosedInTime == Spec => []ClosedOnlyWhenDone
<1>1. CrawlInv => ClosedOnlyWhenDone
  BY CloseSafe DEF CrawlInv
<1> QED
  BY <1>1, Inductive, PTL

(* No key is counted twice in the Summary's totals.                        *)
THEOREM CountedOnce == Spec => []OneOutcome
<1>1. CrawlInv => OneOutcome
  BY DEF CrawlInv, PlaceInv
<1> QED
  BY <1>1, Inductive, PTL

(* The returned error tells of a 401 exactly when there was one.           *)
THEOREM AbortIsReported == Spec => []AbortReported
<1>1. CrawlInv => AbortReported
  BY DEF CrawlInv, LifeInv, AbortInv, AbortReported, Remembers
<1> QED
  BY <1>1, Inductive, PTL

-----------------------------------------------------------------------------
(***************************************************************************)
(* The refinement of CrawlLedger, and the finality of the Summary.         *)
(***************************************************************************)
(* When the workers have left nothing is queued, held, or being sent.      *)
LEMMA ExitedIsQuiet ==
  ASSUME CrawlInv, pc[Main] \in {"wait", "returned"}, \A w \in Workers : pc[w] = "exited"
  PROVE  /\ queue = <<>>
         /\ \A k \in visited : tally[k] # <<>>
<1>1. \A w \in Workers : pc[w] = "exited"
  OBVIOUS
<1>2. queue = <<>>
  BY <1>1, CrawlAssumption DEF CrawlInv, CloseInv
<1>3. /\ \A w \in Workers : ~Held(w)
      /\ \A p \in Procs : ~Sending(p)
      /\ \A k : ~Waiting(k)
  <2>1. \A w \in Workers : ~Held(w)
    BY <1>1 DEF Held, InProcess
  <2>2. \A p \in Procs : ~Sending(p)
    BY <1>1 DEF CrawlInv, TypeOK, Sending, Procs, CloserPCs
  <2>3. 1 .. Len(queue) = {}
    BY <1>2
  <2> QED
    BY <2>1, <2>2, <2>3 DEF Waiting
<1>4. \A k \in visited : tally[k] # <<>>
  BY <1>3 DEF CrawlInv, PlaceInv, NoKeyForgotten
<1> QED
  BY <1>2, <1>4

(* When the crawl has returned nothing is queued and every worker is gone. *)
LEMMA ReturnedIsQuiet ==
  ASSUME CrawlInv, Returned
  PROVE  queue = <<>> /\ \A w \in Workers : pc[w] = "exited"
<1>1. \A w \in Workers : pc[w] = "exited"
  BY DEF CrawlInv, LifeInv
<1> QED
  BY <1>1, ExitedIsQuiet DEF Returned

(* So no step after it changes the Summary.                                *)
LEMMA SummaryFinalStep ==
  CrawlInv /\ [Next]_vars => [Returned => UNCHANGED <<tally, refused, visited, abortErr>>]_vars
<1> SUFFICES ASSUME CrawlInv, [Next]_vars, Returned
             PROVE  UNCHANGED <<tally, refused, visited, abortErr>>
  OBVIOUS
<1>1. FineNext
  BY NextIsFine DEF CrawlInv
<1>2. queue = <<>> /\ \A w \in Workers : pc[w] = "exited"
  BY ReturnedIsQuiet
<1>3. pc[Main] = "returned"
  BY DEF Returned
<1>4. CASE \E w \in Workers :
             \/ LocalStep(w) \/ Receive(w) \/ Exit(w) \/ Report(w) \/ ReportFetched(w)
             \/ Unlock(w) \/ Decrement(w) \/ CloseQueue(w) \/ Abort(w)
  BY <1>2, <1>4 DEF LocalStep, InProcess, Receive, Exit, Report, ReportFetched, Unlock,
     Decrement, CloseQueue, Abort
<1>5. CASE \E p \in Workers \cup {Main} :
             EnqueueKnown(p) \/ EnqueueRefuse(p) \/ EnqueueAdmit(p) \/ EnqueueSend(p)
  BY <1>2, <1>3, <1>5 DEF EnqueueKnown, EnqueueRefuse, EnqueueAdmit, EnqueueSend, Expanding
<1>6. CASE Start \/ ReturnSummary
  BY <1>3, <1>6 DEF Start, ReturnSummary
<1>7. CASE CloserLock \/ DrainItem \/ CloserUnlock
  BY <1>2, <1>7 DEF CloserLock, DrainItem, CloserUnlock
<1>8. CASE OutsideStep
  <2>1. UNCHANGED <<visited, refused, tally, abortErr>>
    BY <1>8 DEF OutsideStep
  <2> QED
    BY <2>1
<1> QED
  BY <1>1, <1>4, <1>5, <1>6, <1>7, <1>8 DEF FineNext

(* The Summary that was returned does not change any more.                 *)
THEOREM SummaryIsFinal == Spec => SummaryFinal
<1>1. CrawlInv /\ [Next]_vars => [Returned => UNCHANGED <<tally, refused, visited, abortErr>>]_vars
  BY SummaryFinalStep
<1> QED
  BY <1>1, Inductive, PTL DEF Spec, SummaryFinal

(* A step that counts nothing, accepts nothing and does not return is none *)
(* of the ledger's.                                                        *)
LEMMA LedgerStutter ==
  ASSUME UNCHANGED <<visited, tally>>, pc'[Main] = "returned" <=> pc[Main] = "returned"
  PROVE  UNCHANGED Ledger!lvars
<1>1. \A x \in Keys : StatusOf(x)' = StatusOf(x)
  BY DEF StatusOf
<1>2. UNCHANGED Returned
  BY Zenon DEF Returned
<1> QED
  BY <1>1, <1>2 DEF Ledger!lvars

(* An outcome counted for a key that is owed one settles it.               *)
LEMMA LedgerSettle ==
  ASSUME TypeOK, NEW k \in Keys, NEW o \in Outcomes, Owed(k), Count(k, o),
         UNCHANGED <<visited, pc[Main]>>, ~Returned
  PROVE  Ledger!LedgerNext
<1>1. tally'[k] = <<o>> /\ \A x \in Keys : x # k => tally'[x] = tally[x]
  BY CountOwed
<1>2. <<o>> # <<>> /\ Head(<<o>>) = o
  OBVIOUS
<1>3. \A x \in Keys : StatusOf(x)' = IF x = k THEN o ELSE StatusOf(x)
  BY <1>1, <1>2 DEF StatusOf, Owed
<1>4. StatusOf(k) = "owed"
  BY DEF StatusOf, Owed
<1>5. UNCHANGED Returned
  BY Zenon DEF Returned
<1>6. [x \in Keys |-> StatusOf(x)]' = [[x \in Keys |-> StatusOf(x)] EXCEPT ![k] = o]
  BY <1>3
<1>7. Ledger!Settle(k, o)
  BY <1>4, <1>5, <1>6 DEF Ledger!Settle
<1> QED
  BY <1>7 DEF Ledger!LedgerNext

(* Nothing is counted or accepted at the beginning.                        *)
LEMMA LedgerStart == Init => Ledger!LedgerInit
<1> SUFFICES ASSUME Init PROVE Ledger!LedgerInit
  OBVIOUS
<1>1. visited = {} /\ ~Returned
  BY ProcsDistinct DEF Init, Returned
<1> QED
  BY <1>1 DEF Ledger!LedgerInit, StatusOf

(* Every step of the pool is a step of the ledger, or none.                *)
LEMMA LedgerMove ==
  ASSUME CrawlInv, [Next]_vars
  PROVE  Ledger!LedgerNext \/ UNCHANGED Ledger!lvars
<1> DEFINE Goal == Ledger!LedgerNext \/ UNCHANGED Ledger!lvars
<1>p. TypeOK /\ PlaceInv /\ LifeInv /\ pc \in [Procs -> WorkerPCs \cup MainPCs \cup CloserPCs]
  BY DEF CrawlInv, TypeOK
<1>f. FineNext
  BY <1>p, NextIsFine
<1>q. Returned => queue = <<>> /\ \A w \in Workers : pc[w] = "exited"
  BY ReturnedIsQuiet
<1>r. (\A w \in Workers : pc[w] = "exited") /\ pc[Main] = "wait" =>
        \A k \in visited : tally[k] # <<>> /\ Head(tally[k]) # "owed"
  <2> SUFFICES ASSUME \A w \in Workers : pc[w] = "exited", pc[Main] = "wait",
                      NEW k \in visited
               PROVE  tally[k] # <<>> /\ Head(tally[k]) # "owed"
    OBVIOUS
  <2>1. tally[k] # <<>>
    BY ExitedIsQuiet
  <2>2. tally[k] \in Seq(Outcomes)
    BY <1>p DEF TypeOK
  <2>3. Head(tally[k]) \in Outcomes
    BY <2>1, <2>2, HeadTailProperties
  <2> QED
    BY <2>1, <2>3 DEF Outcomes
<1>1. ASSUME NEW w \in Workers, LocalStep(w) PROVE Goal
  <2>1. UNCHANGED <<visited, tally>> /\ (pc'[Main] = "returned" <=> pc[Main] = "returned")
    BY <1>p, ProcsDistinct, <1>1 DEF LocalStep, Goto, TypeOK, MainPCs
  <2> QED
    BY <2>1, LedgerStutter
<1>2. ASSUME NEW w \in Workers, Receive(w) PROVE Goal
  <2>1. UNCHANGED <<visited, tally>> /\ (pc'[Main] = "returned" <=> pc[Main] = "returned")
    BY <1>p, ProcsDistinct, <1>2 DEF Receive, Goto, TypeOK, MainPCs
  <2> QED
    BY <2>1, LedgerStutter
<1>3. ASSUME NEW w \in Workers, Exit(w) PROVE Goal
  <2>1. UNCHANGED <<visited, tally>> /\ (pc'[Main] = "returned" <=> pc[Main] = "returned")
    BY <1>p, ProcsDistinct, <1>3 DEF Exit, Goto, TypeOK, MainPCs
  <2> QED
    BY <2>1, LedgerStutter
<1>4. ASSUME NEW w \in Workers, Report(w) PROVE Goal
  <2>1. Owed(Key(w)) /\ Count(Key(w), job[w].res) /\ Key(w) \in Keys /\ job[w].res \in Outcomes
    BY <1>p, <1>4, ReportCounts DEF Outcomes
  <2>2. UNCHANGED <<visited, pc[Main]>> /\ ~Returned
    BY <1>p, <1>q, ProcsDistinct, <1>4 DEF Report, Goto
  <2> QED
    BY <1>p, <2>1, <2>2, LedgerSettle
<1>5. ASSUME NEW w \in Workers, ReportFetched(w) PROVE Goal
  <2>1. Owed(Key(w)) /\ Count(Key(w), "Fetched") /\ Key(w) \in Keys /\ "Fetched" \in Outcomes
    BY <1>p, <1>5, ReportFetchedCounts DEF Outcomes
  <2>2. UNCHANGED <<visited, pc[Main]>> /\ ~Returned
    BY <1>p, <1>q, ProcsDistinct, <1>5 DEF ReportFetched, Goto
  <2> QED
    BY <1>p, <2>1, <2>2, LedgerSettle
<1>6. ASSUME NEW w \in Workers, Unlock(w) PROVE Goal
  <2>1. UNCHANGED <<visited, tally>> /\ (pc'[Main] = "returned" <=> pc[Main] = "returned")
    BY <1>p, ProcsDistinct, <1>6 DEF Unlock, Goto, TypeOK, MainPCs
  <2> QED
    BY <2>1, LedgerStutter
<1>7. ASSUME NEW w \in Workers, Decrement(w) PROVE Goal
  <2>1. UNCHANGED <<visited, tally>> /\ (pc'[Main] = "returned" <=> pc[Main] = "returned")
    BY <1>p, ProcsDistinct, <1>7 DEF Decrement, Leave, NextStop, Goto, TypeOK, MainPCs
  <2> QED
    BY <2>1, LedgerStutter
<1>8. ASSUME NEW w \in Workers, CloseQueue(w) PROVE Goal
  <2>1. UNCHANGED <<visited, tally>> /\ (pc'[Main] = "returned" <=> pc[Main] = "returned")
    BY <1>p, ProcsDistinct, <1>8 DEF CloseQueue, Leave, NextStop, Goto, TypeOK, MainPCs
  <2> QED
    BY <2>1, LedgerStutter
<1>9. ASSUME NEW w \in Workers, Abort(w) PROVE Goal
  <2>1. UNCHANGED <<visited, tally>> /\ (pc'[Main] = "returned" <=> pc[Main] = "returned")
    BY <1>p, ProcsDistinct, <1>9 DEF Abort, Leave, NextStop, Goto, TypeOK, MainPCs
  <2> QED
    BY <2>1, LedgerStutter
<1>10. ASSUME NEW p \in Workers \cup {Main}, EnqueueKnown(p) PROVE Goal
  <2>1. UNCHANGED <<visited, tally>> /\ (pc'[Main] = "returned" <=> pc[Main] = "returned")
    BY <1>p, ProcsDistinct, <1>10 DEF EnqueueKnown, Expanding, Goto, TypeOK, MainPCs
  <2> QED
    BY <2>1, LedgerStutter
<1>11. ASSUME NEW p \in Workers \cup {Main}, EnqueueRefuse(p) PROVE Goal
  <2>1. UNCHANGED <<visited, tally>> /\ (pc'[Main] = "returned" <=> pc[Main] = "returned")
    BY <1>p, ProcsDistinct, <1>11 DEF EnqueueRefuse, Expanding, Goto, TypeOK, MainPCs
  <2> QED
    BY <2>1, LedgerStutter
<1>12. ASSUME NEW p \in Workers \cup {Main}, EnqueueAdmit(p) PROVE Goal
  <2> DEFINE k == Head(todo[p]).key
  <2>1. k \in Keys /\ k \notin visited /\ tally[k] = <<>>
    <3>1. todo[p] \in Seq(Item) /\ todo[p] # <<>>
      BY <1>p, <1>12 DEF EnqueueAdmit, Expanding, TypeOK, Procs
    <3> QED
      BY <1>p, <1>12, <3>1, ItemSeq DEF EnqueueAdmit, PlaceInv, OneOutcome
  <2>2. visited' = visited \cup {k} /\ UNCHANGED tally
    BY <1>12 DEF EnqueueAdmit
  <2>3. ~Returned /\ UNCHANGED Returned
    <3>1. pc[Main] # "returned" /\ pc'[Main] # "returned"
      BY <1>p, <1>q, <1>12, ProcsDistinct DEF EnqueueAdmit, Expanding, Goto, Returned
    <3> QED
      BY <3>1, Zenon DEF Returned
  <2>4. \A x \in Keys : StatusOf(x)' = IF x = k THEN "owed" ELSE StatusOf(x)
    BY <2>1, <2>2 DEF StatusOf
  <2>5. StatusOf(k) = "unseen"
    BY <2>1 DEF StatusOf
  <2>6. [x \in Keys |-> StatusOf(x)]' = [[x \in Keys |-> StatusOf(x)] EXCEPT ![k] = "owed"]
    BY <2>4
  <2>7. Ledger!Accept(k)
    BY <2>1, <2>3, <2>5, <2>6 DEF Ledger!Accept
  <2> QED
    BY <2>1, <2>7 DEF Ledger!LedgerNext
<1>13. ASSUME NEW p \in Workers \cup {Main}, EnqueueSend(p) PROVE Goal
  <2>1. UNCHANGED <<visited, tally>> /\ (pc'[Main] = "returned" <=> pc[Main] = "returned")
    BY <1>p, ProcsDistinct, <1>13 DEF EnqueueSend, Goto, TypeOK, MainPCs
  <2> QED
    BY <2>1, LedgerStutter
<1>14. ASSUME Start PROVE Goal
  <2>1. UNCHANGED <<visited, tally>> /\ (pc'[Main] = "returned" <=> pc[Main] = "returned")
    BY <1>p, ProcsDistinct, <1>14 DEF Start, Goto, TypeOK, MainPCs
  <2> QED
    BY <2>1, LedgerStutter
<1>15. ASSUME ReturnSummary PROVE Goal
  <2>1. UNCHANGED <<visited, tally>> /\ ~Returned /\ Returned'
    BY <1>p, <1>15, ProcsDistinct DEF ReturnSummary, Goto, Returned
  <2>2. \A x \in Keys : StatusOf(x)' = StatusOf(x)
    BY <2>1 DEF StatusOf
  <2>3. \A x \in Keys : StatusOf(x) # "owed"
    BY <1>p, <1>r, <1>15 DEF ReturnSummary, StatusOf
  <2>4. Ledger!Return
    BY <2>1, <2>2, <2>3 DEF Ledger!Return
  <2> QED
    BY <2>4 DEF Ledger!LedgerNext
<1>16. ASSUME CloserLock PROVE Goal
  <2>1. UNCHANGED <<visited, tally>> /\ (pc'[Main] = "returned" <=> pc[Main] = "returned")
    BY <1>p, ProcsDistinct, <1>16 DEF CloserLock, Goto, TypeOK, MainPCs
  <2> QED
    BY <2>1, LedgerStutter
<1>17. ASSUME DrainItem PROVE Goal
  <2>1. Owed(Head(queue).key) /\ Count(Head(queue).key, "Dropped") /\ Head(queue).key \in Keys /\ "Dropped" \in Outcomes
    BY <1>p, <1>17, DrainItemCounts DEF Outcomes
  <2>2. UNCHANGED <<visited, pc[Main]>> /\ ~Returned
    BY <1>p, <1>q, ProcsDistinct, <1>17 DEF DrainItem, Goto
  <2> QED
    BY <1>p, <2>1, <2>2, LedgerSettle
<1>18. ASSUME CloserUnlock PROVE Goal
  <2>1. UNCHANGED <<visited, tally>> /\ (pc'[Main] = "returned" <=> pc[Main] = "returned")
    BY <1>p, ProcsDistinct, <1>18 DEF CloserUnlock, Goto, TypeOK, MainPCs
  <2> QED
    BY <2>1, LedgerStutter
<1>19. ASSUME OutsideStep PROVE Goal
  <2>1. UNCHANGED <<visited, tally>> /\ (pc'[Main] = "returned" <=> pc[Main] = "returned")
    BY <1>p, ProcsDistinct, <1>19 DEF OutsideStep, Goto, TypeOK, MainPCs
  <2> QED
    BY <2>1, LedgerStutter
<1> QED
  BY <1>f, <1>1, <1>2, <1>3, <1>4, <1>5, <1>6, <1>7, <1>8, <1>9,
     <1>10, <1>11, <1>12, <1>13, <1>14, <1>15, <1>16, <1>17, <1>18, <1>19 DEF FineNext

(* The worker pool, the closer and the counter implement the ledger.       *)
THEOREM LedgerImplemented == Spec => ImplementsLedger
<1>1. Init => Ledger!LedgerInit
  BY LedgerStart
<1>2. CrawlInv /\ [Next]_vars => [Ledger!LedgerNext]_(Ledger!lvars)
  BY LedgerMove
<1> QED
  BY <1>1, <1>2, Inductive, PTL DEF Spec, ImplementsLedger, Ledger!LedgerSpec

-----------------------------------------------------------------------------
(***************************************************************************)
(* The issue cap.                                                          *)
(***************************************************************************)
CapInv == IsFiniteSet(visited) /\ IssueCapExact

(* At the beginning nothing is visited or refused.                         *)
LEMMA InitCap == Init => CapInv
<1> SUFFICES ASSUME Init PROVE CapInv
  OBVIOUS
<1>1. visited = {} /\ \A k \in Keys : refused[k] = 0
  BY DEF Init
<1>2. IsFiniteSet({}) /\ Cardinality({}) = 0
  BY FS_EmptySet
<1> QED
  BY <1>1, <1>2, CrawlAssumption DEF CapInv, IssueCapExact

(* The cap is kept where nothing is accepted or refused.                   *)
LEMMA CapFrame ==
  ASSUME CapInv, UNCHANGED <<visited, refused>>, cancelled => cancelled'
  PROVE  CapInv'
  BY DEF CapInv, IssueCapExact

(* A key is turned away only at the cap, or when the crawl is cancelled.   *)
LEMMA RefuseAtCap ==
  ASSUME CrawlInv, CapInv, NEW p \in Workers \cup {Main}, EnqueueRefuse(p)
  PROVE  CapInv'
<1> SUFFICES ASSUME IssueCap > 0, DepthLimit <= 0, ~cancelled
             PROVE  Cardinality(visited) = IssueCap
  BY DEF CapInv, IssueCapExact, EnqueueRefuse
<1>1. p \in Procs /\ pc[p] = "expand" /\ todo[p] # <<>>
  BY ProcsDistinct DEF EnqueueRefuse, Expanding
<1>2. ~queueClosed
  BY <1>1, CloseSafe DEF CrawlInv, ClosedOnlyWhenDone
<1>3. Cardinality(visited) >= IssueCap
  BY <1>2, CrawlAssumption DEF EnqueueRefuse, CapReached
<1> QED
  BY <1>3, FS_CardinalityType, CrawlAssumption DEF CapInv, IssueCapExact

(* A key is accepted only below the cap.                                   *)
LEMMA AdmitBelowCap ==
  ASSUME CapInv, NEW p \in Workers \cup {Main}, EnqueueAdmit(p)
  PROVE  CapInv'
<1> DEFINE k == Head(todo[p]).key
<1>1. k \notin visited /\ visited' = visited \cup {k} /\ UNCHANGED <<refused, cancelled>>
  BY DEF EnqueueAdmit
<1>2. /\ IsFiniteSet(visited') /\ Cardinality(visited') = Cardinality(visited) + 1
      /\ Cardinality(visited) \in Nat
  BY <1>1, FS_AddElement, FS_CardinalityType DEF CapInv
<1>3. IssueCap > 0 => Cardinality(visited) < IssueCap
  BY <1>2, CrawlAssumption DEF EnqueueAdmit, CapReached
<1> QED
  BY <1>1, <1>2, <1>3, CrawlAssumption DEF CapInv, IssueCapExact

(* Most steps leave the accepted and the refused keys alone.               *)
LEMMA AcceptedStep ==
  ASSUME [Next]_vars
  PROVE  /\ cancelled => cancelled'
         /\ \/ UNCHANGED <<visited, refused>>
            \/ \E p \in Workers \cup {Main} : EnqueueRefuse(p) \/ EnqueueAdmit(p)
<1>1. cancelled => cancelled'
  BY DEF Next, MainStep, WorkerStep, CloserStep, Enqueue, vars, Finished,
         EnqueueKnown, EnqueueRefuse, EnqueueAdmit, EnqueueSend, Start,
         ReturnSummary, Receive, Exit, Probe, Fetch, DiscoverChildren, Snapshot,
         WriteIssue, WriteStub, Report, ReportFetched, Unlock, Decrement,
         CloseQueue, Abort, CloserLock, DrainItem, CloserUnlock, Cancel, OtherRunWrites
<1>2. \/ UNCHANGED <<visited, refused>>
      \/ \E p \in Workers \cup {Main} : EnqueueRefuse(p) \/ EnqueueAdmit(p)
  BY DEF Next, MainStep, WorkerStep, CloserStep, Enqueue, vars, Finished,
         EnqueueKnown, EnqueueSend, Start,
         ReturnSummary, Receive, Exit, Probe, Fetch, DiscoverChildren, Snapshot,
         WriteIssue, WriteStub, Report, ReportFetched, Unlock, Decrement,
         CloseQueue, Abort, CloserLock, DrainItem, CloserUnlock, Cancel, OtherRunWrites
<1> QED
  BY <1>1, <1>2

(* The issue cap is never exceeded, and what is turned away before any     *)
(* cancellation in a crawl without a depth limit is turned away by a cap   *)
(* that has been reached.                                                  *)
THEOREM IssueCapIsExact == Spec => []IssueCapExact
<1>1. Init => CapInv
  BY InitCap
<1>2. CrawlInv /\ CapInv /\ [Next]_vars => CapInv'
  BY AcceptedStep, CapFrame, RefuseAtCap, AdmitBelowCap
<1>3. CapInv => IssueCapExact
  BY DEF CapInv
<1> QED
  BY <1>1, <1>2, <1>3, Inductive, PTL DEF Spec

-----------------------------------------------------------------------------
(***************************************************************************)
(* What a page was rendered with.                                          *)
(***************************************************************************)
LEMMA LinksFrame ==
  ASSUME LinksInv, UNCHANGED links, visited \subseteq visited',
         \A v \in Workers : pc'[v] \in {"write", "success"} =>
                              pc[v] \in {"write", "success"} /\ job'[v] = job[v]
  PROVE  LinksInv'
  BY DEF LinksInv, Key

(* The worker that takes the snapshot holds its key alone.                 *)
LEMMA SnapshotLinks ==
  ASSUME TypeOK, PlaceInv, LinksInv, NEW w \in Workers, Snapshot(w)
  PROVE  LinksInv'
<1> DEFINE new == (visited \cup KeysIn(ItemsAt(job[w].found, 0))) \cap Linkable(Key(w))
<1>1. /\ links' = [links EXCEPT ![Key(w)] = new] /\ UNCHANGED <<job, visited>>
      /\ pc' = [pc EXCEPT ![w] = "write"] /\ pc[w] = "snapshot"
  BY DEF Snapshot, Goto
<1>2. Key(w) \in Keys /\ links \in [Keys -> SUBSET Keys] /\ pc \in [Procs -> WorkerPCs \cup MainPCs \cup CloserPCs]
  BY <1>1 DEF TypeOK, Job, Key, InProcess
<1> SUFFICES ASSUME NEW v \in Workers, pc'[v] \in {"write", "success"}
             PROVE  links'[Key(v)] \subseteq visited \cup KeysIn(ItemsAt(job[v].found, 0))
  BY <1>1 DEF LinksInv, Key
<1>3. CASE v = w
  BY <1>1, <1>2, <1>3
<1>4. CASE v # w
  <2>1. pc[v] \in {"write", "success"}
    BY <1>1, <1>2, <1>4, ProcsDistinct
  <2>2. Key(v) # Key(w)
    BY <1>1, <1>4, <2>1 DEF PlaceInv, HeldPlace, Held, InProcess
  <2>3. links'[Key(v)] = links[Key(v)]
    BY <1>1, <1>2, <2>2
  <2> QED
    BY <2>1, <2>3 DEF LinksInv
<1> QED
  BY <1>3, <1>4

(* What a page was rendered with is known, or is about to be enqueued by   *)
(* the worker that rendered it.                                            *)
LEMMA LinksStep ==
  ASSUME TypeOK, PlaceInv, LinksInv, [Next]_vars
  PROVE  LinksInv'
<1> DEFINE Frame == /\ UNCHANGED links /\ visited \subseteq visited'
                    /\ \A v \in Workers : pc'[v] \in {"write", "success"} =>
                                         pc[v] \in {"write", "success"} /\ job'[v] = job[v]
<1>t. /\ pc \in [Procs -> WorkerPCs \cup MainPCs \cup CloserPCs]
      /\ job \in [Workers -> Job \cup {Idle}]
  BY DEF TypeOK
<1> USE <1>t, ProcsDistinct DEF Goto, Procs
<1>1. ASSUME NEW w \in Workers, Snapshot(w) PROVE LinksInv'
  BY <1>1, SnapshotLinks
<1>2. ASSUME NEW w \in Workers,
             \/ Receive(w) \/ Exit(w) \/ Probe(w) \/ Fetch(w) \/ DiscoverChildren(w)
             \/ WriteIssue(w) \/ WriteStub(w)
      PROVE  Frame
  BY <1>2 DEF Receive, Exit, Probe, Fetch, DiscoverChildren, WriteIssue, WriteStub, Conclude
<1>3. ASSUME NEW w \in Workers,
             \/ Report(w) \/ ReportFetched(w) \/ Unlock(w) \/ Decrement(w) \/ CloseQueue(w) \/ Abort(w)
      PROVE  Frame
  BY <1>3 DEF Report, ReportFetched, Unlock, Decrement, CloseQueue, Abort, Leave, NextStop
<1>4. ASSUME NEW p \in Workers \cup {Main}, Enqueue(p) PROVE Frame
  BY <1>4 DEF Enqueue, EnqueueKnown, EnqueueRefuse, EnqueueAdmit, EnqueueSend, Expanding
<1>5. ASSUME Start \/ ReturnSummary \/ CloserStep PROVE Frame
  BY <1>5 DEF Start, ReturnSummary, CloserStep, CloserLock, DrainItem, CloserUnlock
<1>6. ASSUME Cancel \/ (\E k \in Keys : OtherRunWrites(k)) \/ Finished \/ UNCHANGED vars PROVE Frame
  BY <1>6 DEF Cancel, OtherRunWrites, Finished, vars
<1>7. Frame => LinksInv'
  BY LinksFrame
<1> QED
  BY <1>1, <1>2, <1>3, <1>4, <1>5, <1>6, <1>7 DEF Next, MainStep, WorkerStep

(* What Report counts is never a fetched issue: those are counted by       *)
(* ReportFetched.                                                          *)
LEMMA ReportResStep ==
  ASSUME TypeOK, ReportInv, [Next]_vars
  PROVE  ReportInv'
<1>t. /\ pc \in [Procs -> WorkerPCs \cup MainPCs \cup CloserPCs]
      /\ job \in [Workers -> Job \cup {Idle}]
      /\ \A w \in Workers : pc[w] \in InProcess => job[w] \in Job
  BY DEF TypeOK
<1> USE <1>t, ProcsDistinct DEF Goto, Procs, ReportInv, InProcess
<1>1. ASSUME NEW w \in Workers, NEW o \in Outcomes \ {"Fetched"}, Conclude(w, o), job[w] \in Job
      PROVE  ReportInv'
  BY <1>1 DEF Conclude, Job
<1>2. ASSUME NEW w \in Workers, NEW l \in InProcess \ {"report"}, Goto(w, l), UNCHANGED job
      PROVE  ReportInv'
  BY <1>2
<1>3. ASSUME NEW w \in Workers, Probe(w) PROVE ReportInv'
  BY <1>1, <1>2, <1>3 DEF Probe, Outcomes
<1>4. ASSUME NEW w \in Workers, Fetch(w) PROVE ReportInv'
  <2>1. \/ \E o \in {"Unauthorized", "Dropped", "Failed"} : Conclude(w, o)
        \/ \E l \in {"children", "stub"} : Goto(w, l) /\ UNCHANGED job
    BY <1>4 DEF Fetch
  <2> QED
    BY <1>1, <1>2, <1>4, <2>1 DEF Fetch, Outcomes
<1>5. ASSUME NEW w \in Workers, WriteIssue(w) \/ WriteStub(w) PROVE ReportInv'
  BY <1>1, <1>2, <1>5 DEF WriteIssue, WriteStub, Outcomes
<1>6. ASSUME NEW w \in Workers, Receive(w) \/ Exit(w) \/ DiscoverChildren(w) \/ Snapshot(w)
      PROVE  ReportInv'
  BY <1>6 DEF Receive, Exit, DiscoverChildren, Snapshot
<1>7. ASSUME NEW w \in Workers,
             \/ Report(w) \/ ReportFetched(w) \/ Unlock(w) \/ Decrement(w) \/ CloseQueue(w) \/ Abort(w)
      PROVE  ReportInv'
  BY <1>7 DEF Report, ReportFetched, Unlock, Decrement, CloseQueue, Abort, Leave, NextStop
<1>8. ASSUME NEW p \in Workers \cup {Main}, Enqueue(p) PROVE ReportInv'
  BY <1>8 DEF Enqueue, EnqueueKnown, EnqueueRefuse, EnqueueAdmit, EnqueueSend, Expanding
<1>9. ASSUME Start \/ ReturnSummary \/ CloserStep PROVE ReportInv'
  BY <1>9 DEF Start, ReturnSummary, CloserStep, CloserLock, DrainItem, CloserUnlock
<1>10. ASSUME Cancel \/ (\E k \in Keys : OtherRunWrites(k)) \/ Finished \/ UNCHANGED vars PROVE ReportInv'
  BY <1>10 DEF Cancel, OtherRunWrites, Finished, vars
<1> QED
  BY <1>3, <1>4, <1>5, <1>6, <1>7, <1>8, <1>9, <1>10 DEF Next, MainStep, WorkerStep

(* The links of an issue that was counted do not change.                   *)
LEMMA CountedLinksStay ==
  ASSUME TypeOK, PlaceInv, [Next]_vars
  PROVE  \A k \in Keys : tally[k] # <<>> => links'[k] = links[k]
<1>1. \/ UNCHANGED links
      \/ \E w \in Workers : Snapshot(w)
  BY DEF Next, MainStep, WorkerStep, CloserStep, Enqueue, vars, Finished,
         EnqueueKnown, EnqueueRefuse, EnqueueAdmit, EnqueueSend, Start,
         ReturnSummary, Receive, Exit, Probe, Fetch, DiscoverChildren, WriteIssue,
         WriteStub, Report, ReportFetched, Unlock, Decrement, CloseQueue, Abort,
         CloserLock, DrainItem, CloserUnlock, Cancel, OtherRunWrites
<1>2. ASSUME NEW w \in Workers, Snapshot(w)
      PROVE  \A k \in Keys : tally[k] # <<>> => links'[k] = links[k]
  <2>1. tally[Key(w)] = <<>>
    BY <1>2 DEF Snapshot, PlaceInv, HeldPlace, Held, InProcess, Owed
  <2> QED
    BY <1>2, <2>1 DEF Snapshot, TypeOK
<1> QED
  BY <1>1, <1>2

-----------------------------------------------------------------------------
(***************************************************************************)
(* No reference is lost.                                                   *)
(***************************************************************************)
(* The keys of an issue's references and children, as they are enqueued.   *)
LEMMA EnqueuedKeys ==
  ASSUME NEW s \in Seq(Keys), NEW t \in Seq(Keys), NEW d \in Nat
  PROVE  KeysIn(ItemsAt(s \o t, d)) = KeysIn(ItemsAt(s, 0)) \cup KeysIn(ItemsAt(t, 0))
<1>1. /\ Len(s) \in Nat /\ Len(t) \in Nat /\ Len(s \o t) = Len(s) + Len(t)
      /\ DOMAIN s = 1 .. Len(s) /\ DOMAIN t = 1 .. Len(t) /\ DOMAIN (s \o t) = 1 .. Len(s) + Len(t)
      /\ \A i \in 1 .. Len(s) : (s \o t)[i] = s[i]
      /\ \A i \in 1 .. Len(t) : (s \o t)[Len(s) + i] = t[i]
  BY ConcatProperties
<1>3. ASSUME NEW i \in 1 .. Len(s) + Len(t)
      PROVE  (s \o t)[i] \in {s[j] : j \in 1 .. Len(s)} \cup {t[j] : j \in 1 .. Len(t)}
  <2>1. CASE i \in 1 .. Len(s)
    BY <1>1, <2>1
  <2>2. CASE i \notin 1 .. Len(s)
    <3>1. i - Len(s) \in 1 .. Len(t) /\ Len(s) + (i - Len(s)) = i
      BY <1>1, <2>2
    <3> QED
      BY <1>1, <3>1
  <2> QED
    BY <2>1, <2>2
<1>4. ASSUME NEW j \in 1 .. Len(s) PROVE s[j] \in {(s \o t)[i] : i \in 1 .. Len(s) + Len(t)}
  BY <1>1
<1>5. ASSUME NEW j \in 1 .. Len(t) PROVE t[j] \in {(s \o t)[i] : i \in 1 .. Len(s) + Len(t)}
  <2>1. Len(s) + j \in 1 .. Len(s) + Len(t)
    BY <1>1
  <2> QED
    BY <1>1, <2>1
<1>6. /\ KeysIn(ItemsAt(s \o t, d)) = {(s \o t)[i] : i \in 1 .. Len(s) + Len(t)}
      /\ KeysIn(ItemsAt(s, 0)) = {s[i] : i \in 1 .. Len(s)}
      /\ KeysIn(ItemsAt(t, 0)) = {t[i] : i \in 1 .. Len(t)}
  <2>1. KeysIn(ItemsAt(s \o t, d)) = {(s \o t)[i] : i \in DOMAIN (s \o t)}
    BY DEF KeysIn, ItemsAt
  <2>2. KeysIn(ItemsAt(s, 0)) = {s[i] : i \in DOMAIN s}
    BY DEF KeysIn, ItemsAt
  <2>3. KeysIn(ItemsAt(t, 0)) = {t[i] : i \in DOMAIN t}
    BY DEF KeysIn, ItemsAt
  <2> QED
    BY <1>1, <2>1, <2>2, <2>3, Zenon
<1>7. {(s \o t)[i] : i \in 1 .. Len(s) + Len(t)} \subseteq {s[i] : i \in 1 .. Len(s)} \cup {t[i] : i \in 1 .. Len(t)}
  BY <1>3
<1>8. {s[i] : i \in 1 .. Len(s)} \cup {t[i] : i \in 1 .. Len(t)} \subseteq {(s \o t)[i] : i \in 1 .. Len(s) + Len(t)}
  BY <1>4, <1>5
<1> QED
  BY <1>6, <1>7, <1>8

(* Taking the head of a list of references.                                *)
LEMMA TailKeysIn ==
  ASSUME NEW s \in Seq(Item), s # <<>>
  PROVE  KeysIn(s) \subseteq {Head(s).key} \cup KeysIn(Tail(s))
<1>1. /\ Len(s) \in Nat \ {0} /\ Len(Tail(s)) = Len(s) - 1 /\ Tail(s) \in Seq(Item)
      /\ Head(s) = s[1] /\ \A i \in 1 .. Len(Tail(s)) : Tail(s)[i] = s[i + 1]
      /\ DOMAIN s = 1 .. Len(s) /\ DOMAIN Tail(s) = 1 .. Len(Tail(s))
  BY ItemSeq, HeadTailProperties
<1>2. ASSUME NEW i \in 1 .. Len(s), i # 1 PROVE s[i].key \in KeysIn(Tail(s))
  <2>1. i - 1 \in 1 .. Len(Tail(s)) /\ Tail(s)[i - 1] = s[(i - 1) + 1] /\ (i - 1) + 1 = i
    BY <1>1, <1>2
  <2> QED
    BY <1>1, <2>1 DEF KeysIn
<1> QED
  BY <1>1, <1>2 DEF KeysIn

Has(w, k, r) == pc[w] \in {"expand", "send"} /\ Key(w) = k /\ r \in KeysIn(todo[w])

(* What was in hand stays there, unless it is known or reported now.       *)
LEMMA LostFrame ==
  ASSUME NothingLost,
         \A k \in Keys : tally'[k] = <<"Fetched">> => tally[k] = <<"Fetched">> /\ links'[k] = links[k],
         visited \subseteq visited',
         \A r \in Keys : refused[r] > 0 => refused'[r] > 0,
         \A k \in Keys : links[k] \subseteq Keys /\ KeysIn(ItemsAt(Refs[k], 0)) \subseteq Keys,
         \A v \in Workers, k \in Keys, r \in Keys :
           Has(v, k, r) => Has(v, k, r)' \/ r \in visited' \/ refused'[r] > 0
  PROVE  NothingLost'
<1> SUFFICES ASSUME NEW k \in Keys, tally'[k] = <<"Fetched">>,
                    NEW r \in KeysIn(ItemsAt(Refs[k], 0)) \cup links'[k]
             PROVE  r \in visited' \/ refused'[r] > 0 \/ \E v \in Workers : Has(v, k, r)'
  BY DEF NothingLost, Has, Key
<1>1. tally[k] = <<"Fetched">> /\ r \in KeysIn(ItemsAt(Refs[k], 0)) \cup links[k] /\ r \in Keys
  OBVIOUS
<1>2. r \in visited \/ refused[r] > 0 \/ \E v \in Workers : Has(v, k, r)
  BY <1>1 DEF NothingLost, Has
<1> QED
  BY <1>1, <1>2

(* The keys of the references in hand, of the job and of the links.        *)
LEMMA KeysTyped ==
  ASSUME TypeOK
  PROVE  /\ \A k \in Keys : links[k] \subseteq Keys /\ KeysIn(ItemsAt(Refs[k], 0)) \subseteq Keys
         /\ \A p \in Procs : todo[p] \in Seq(Item) /\ KeysIn(todo[p]) \subseteq Keys
<1>1. \A k \in Keys : links[k] \subseteq Keys /\ Refs[k] \in Seq(Keys)
  BY CrawlAssumption DEF TypeOK
<1>2. \A k \in Keys : KeysIn(ItemsAt(Refs[k], 0)) \subseteq Keys
  BY <1>1, ItemsAtType, KeysInType
<1>3. \A p \in Procs : todo[p] \in Seq(Item) /\ KeysIn(todo[p]) \subseteq Keys
  BY KeysInType DEF TypeOK
<1> QED
  BY <1>1, <1>2, <1>3

(* A step that counts nothing as fetched leaves the fetched ones alone.    *)
LEMMA FetchedStay ==
  ASSUME TypeOK, PlaceInv, [Next]_vars,
         \/ UNCHANGED tally
         \/ \E k \in Keys, o \in Outcomes : Owed(k) /\ Count(k, o) /\ o # "Fetched"
  PROVE  \A k \in Keys : tally'[k] = <<"Fetched">> => tally[k] = <<"Fetched">> /\ links'[k] = links[k]
<1>1. \A k \in Keys : tally[k] # <<>> => links'[k] = links[k]
  BY CountedLinksStay
<1>2. <<>> # <<"Fetched">>
  OBVIOUS
<1>3. CASE UNCHANGED tally
  BY <1>1, <1>2, <1>3
<1>4. ASSUME NEW k \in Keys, NEW o \in Outcomes, Owed(k), Count(k, o), o # "Fetched"
      PROVE  \A x \in Keys : tally'[x] = <<"Fetched">> => tally[x] = <<"Fetched">> /\ links'[x] = links[x]
  <2>1. tally'[k] = <<o>> /\ \A x \in Keys : x # k => tally'[x] = tally[x]
    BY <1>4, CountOwed
  <2>3. <<o>> # <<"Fetched">>
    BY <1>4
  <2> QED
    BY <2>1, <2>3, <1>1, <1>2
<1> QED
  BY <1>3, <1>4

(* Taking a reference from the hand of p, when it is known or reported.    *)
LEMMA TakeOne ==
  ASSUME TypeOK, NEW p \in Procs, todo[p] # <<>>, pc[p] \in {"expand", "send"},
         todo' = [todo EXCEPT ![p] = Tail(@)], UNCHANGED job,
         pc' \in {pc, [pc EXCEPT ![p] = "expand"]},
         Head(todo[p]).key \in visited' \/ refused'[Head(todo[p]).key] > 0
  PROVE  \A v \in Workers, k \in Keys, r \in Keys :
           Has(v, k, r) => Has(v, k, r)' \/ r \in visited' \/ refused'[r] > 0
<1> SUFFICES ASSUME NEW v \in Workers, NEW k \in Keys, NEW r \in Keys, Has(v, k, r)
             PROVE  Has(v, k, r)' \/ r \in visited' \/ refused'[r] > 0
  OBVIOUS
<1>1. v \in Procs /\ todo \in [Procs -> Seq(Item)] /\ pc \in [Procs -> WorkerPCs \cup MainPCs \cup CloserPCs]
  BY DEF TypeOK, Procs
<1>2. CASE v # p
  BY <1>1, <1>2 DEF Has, Key
<1>3. CASE v = p
  <2>1. KeysIn(todo[p]) \subseteq {Head(todo[p]).key} \cup KeysIn(Tail(todo[p]))
    BY <1>1, TailKeysIn
  <2>2. todo'[p] = Tail(todo[p]) /\ pc'[p] \in {"expand", "send"}
    BY <1>1
  <2> QED
    BY <1>3, <2>1, <2>2 DEF Has, Key
<1> QED
  BY <1>2, <1>3

(* The worker that counts its issue as fetched takes in hand all that the  *)
(* issue refers to, and the children its page links to.                    *)
LEMMA FetchedKeepsAll ==
  ASSUME CrawlInv, LinksInv, NothingLost, NEW w \in Workers, ReportFetched(w), Next
  PROVE  NothingLost'
<1> DEFINE k == Key(w)
<1>1. /\ TypeOK /\ PlaceInv /\ LifeInv /\ MutexInv
      /\ pc[w] = "success" /\ mu = NoOne /\ UNCHANGED <<visited, refused, job, links>>
      /\ pc' = [pc EXCEPT ![w] = "expand"]
      /\ todo' = [todo EXCEPT ![w] = ItemsAt(Refs[k] \o job[w].found, job[w].depth + 1)]
  BY DEF CrawlInv, ReportFetched, Goto
<1>2. /\ w \in Procs /\ job[w] \in Job /\ k \in Keys
      /\ todo \in [Procs -> Seq(Item)] /\ pc \in [Procs -> WorkerPCs \cup MainPCs \cup CloserPCs]
  BY <1>1 DEF TypeOK, Procs, InProcess, Job, Key
<1>3. Owed(k) /\ Count(k, "Fetched")
  BY <1>1, ReportFetchedCounts
<1>4. tally'[k] = <<"Fetched">> /\ \A x \in Keys : x # k => tally'[x] = tally[x]
  BY <1>1, <1>2, <1>3, CountOwed DEF Outcomes
<1>5. KeysIn(todo'[w]) = KeysIn(ItemsAt(Refs[k], 0)) \cup KeysIn(ItemsAt(job[w].found, 0))
  <2>1. Refs[k] \in Seq(Keys) /\ job[w].found \in Seq(Keys) /\ job[w].depth + 1 \in Nat
    BY <1>2, CrawlAssumption DEF Job
  <2>2. todo'[w] = ItemsAt(Refs[k] \o job[w].found, job[w].depth + 1)
    BY <1>1, <1>2
  <2> QED
    BY <2>1, <2>2, EnqueuedKeys
<1>6. links[k] \subseteq visited \cup KeysIn(ItemsAt(job[w].found, 0))
  BY <1>1 DEF LinksInv
<1>7. pc'[w] = "expand" /\ job'[w].key = k
  BY <1>1, <1>2 DEF Key
<1> SUFFICES ASSUME NEW x \in Keys, tally'[x] = <<"Fetched">>,
                    NEW r \in KeysIn(ItemsAt(Refs[x], 0)) \cup links[x]
             PROVE  r \in visited \/ refused[r] > 0 \/ \E v \in Workers : Has(v, x, r)'
  BY <1>1 DEF NothingLost, Has, Key
<1>8. CASE x = k
  <2>1. r \in visited \/ r \in KeysIn(todo'[w])
    BY <1>5, <1>6, <1>8
  <2> QED
    BY <2>1, <1>7, <1>8 DEF Has, Key
<1>9. CASE x # k
  <2>1. r \in visited \/ refused[r] > 0 \/ \E v \in Workers : Has(v, x, r)
    BY <1>4, <1>9 DEF NothingLost, Has
  <2>2. ASSUME NEW v \in Workers, Has(v, x, r) PROVE Has(v, x, r)'
    <3>1. v # w
      BY <1>1, <2>2 DEF Has
    <3>2. v \in Procs /\ pc'[v] = pc[v] /\ todo'[v] = todo[v] /\ job'[v] = job[v]
      BY <1>1, <1>2, <3>1 DEF Procs
    <3> QED
      BY <2>2, <3>2 DEF Has, Key
  <2> QED
    BY <2>1, <2>2
<1> QED
  BY <1>8, <1>9

(* Every other step leaves in hand what is there, or knows what becomes of *)
(* it.                                                                     *)
InHandStays ==
  \A v \in Workers, k \in Keys, r \in Keys :
    Has(v, k, r) => Has(v, k, r)' \/ r \in visited' \/ refused'[r] > 0

CountsNoFetch ==
  \/ UNCHANGED tally
  \/ \E k \in Keys, o \in Outcomes : Owed(k) /\ Count(k, o) /\ o # "Fetched"

OnlyMore == visited \subseteq visited' /\ \A r \in Keys : refused[r] > 0 => refused'[r] > 0

(* A step that leaves in hand what is there, counts no fetch and only adds *)
(* to what is known, loses no reference.                                   *)
LEMMA OtherLost ==
  ASSUME CrawlInv, NothingLost, [Next]_vars, InHandStays, CountsNoFetch, OnlyMore
  PROVE  NothingLost'
<1>1. TypeOK /\ PlaceInv
  BY DEF CrawlInv
<1>2. \A k \in Keys : tally'[k] = <<"Fetched">> => tally[k] = <<"Fetched">> /\ links'[k] = links[k]
  BY <1>1, FetchedStay DEF CountsNoFetch
<1> QED
  BY <1>1, <1>2, KeysTyped, LostFrame DEF InHandStays, OnlyMore

(* No step loses a reference.                                              *)
LEMMA LostStep ==
  ASSUME CrawlInv, LinksInv, ReportInv, NothingLost, [Next]_vars
  PROVE  NothingLost'
<1>i. TypeOK /\ MutexInv /\ LifeInv /\ PlaceInv /\ CloseInv /\ ResInv
  BY DEF CrawlInv
<1>f. FineNext
  BY <1>i, NextIsFine
<1>p. /\ pc \in [Procs -> WorkerPCs \cup MainPCs \cup CloserPCs]
      /\ job \in [Workers -> Job \cup {Idle}]
      /\ todo \in [Procs -> Seq(Item)]
      /\ refused \in [Keys -> Nat]
      /\ \A p \in Procs : todo[p] # <<>> => Head(todo[p]).key \in Keys
  BY <1>i, ItemSeq DEF TypeOK
<1>m. \A r \in Keys : refused[r] \in Nat
  BY <1>p
<1>o. UNCHANGED <<visited, refused>> => OnlyMore
  BY DEF OnlyMore
<1>t. UNCHANGED tally => CountsNoFetch
  BY DEF CountsNoFetch
<1>h. ASSUME UNCHANGED todo, \A v \in Workers : pc[v] \in {"expand", "send"} =>
                pc'[v] \in {"expand", "send"} /\ job'[v] = job[v]
      PROVE  InHandStays
  BY <1>h DEF InHandStays, Has, Key
<1> USE <1>p, ProcsDistinct DEF Goto, Procs
<1>1. ASSUME NEW w \in Workers, LocalStep(w) PROVE NothingLost'
  <2>1. InHandStays
    BY <1>1, <1>h DEF LocalStep, InProcess
  <2> QED
    BY <1>1, <2>1, <1>o, <1>t, OtherLost DEF LocalStep
<1>2. ASSUME NEW w \in Workers, Receive(w) \/ Exit(w) PROVE NothingLost'
  <2>1. InHandStays
    BY <1>2, <1>h DEF Receive, Exit
  <2> QED
    BY <1>2, <2>1, <1>o, <1>t, OtherLost DEF Receive, Exit
<1>3. ASSUME NEW w \in Workers, Report(w) PROVE NothingLost'
  <2>1. InHandStays
    BY <1>3, <1>h DEF Report
  <2>2. CountsNoFetch
    <3>1. Owed(Key(w)) /\ Count(Key(w), job[w].res) /\ Key(w) \in Keys /\ job[w].res \in Outcomes
      BY <1>3, <1>i, ReportCounts
    <3>2. job[w].res # "Fetched"
      BY <1>3 DEF Report, ReportInv
    <3> QED
      BY <3>1, <3>2 DEF CountsNoFetch
  <2> QED
    BY <1>3, <2>1, <2>2, <1>o, OtherLost DEF Report
<1>4. ASSUME NEW w \in Workers, ReportFetched(w) PROVE NothingLost'
  <2>1. Next
    BY <1>4 DEF Next, WorkerStep
  <2> QED
    BY <1>4, <2>1, FetchedKeepsAll
<1>5. ASSUME NEW w \in Workers, Unlock(w) PROVE NothingLost'
  <2>1. KeysIn(todo[w]) = {}
    BY <1>5 DEF Unlock, KeysIn
  <2>2. InHandStays
    BY <1>5, <2>1 DEF Unlock, InHandStays, Has, Key
  <2> QED
    BY <1>5, <2>2, <1>o, <1>t, OtherLost DEF Unlock
<1>6. ASSUME NEW w \in Workers, Decrement(w) \/ CloseQueue(w) \/ Abort(w) PROVE NothingLost'
  <2>1. InHandStays
    BY <1>6, <1>h DEF Decrement, CloseQueue, Abort, Leave, NextStop
  <2> QED
    BY <1>6, <2>1, <1>o, <1>t, OtherLost DEF Decrement, CloseQueue, Abort
<1>7. ASSUME NEW p \in Workers \cup {Main}, EnqueueKnown(p) PROVE NothingLost'
  <2>1. InHandStays
    BY <1>7, <1>i, TakeOne DEF EnqueueKnown, Expanding, InHandStays
  <2> QED
    BY <1>7, <2>1, <1>o, <1>t, OtherLost DEF EnqueueKnown
<1>8. ASSUME NEW p \in Workers \cup {Main}, EnqueueRefuse(p) PROVE NothingLost'
  <2>1. /\ \A r \in Keys : refused[r] > 0 => refused'[r] > 0
        /\ refused'[Head(todo[p]).key] > 0
        /\ visited' = visited /\ UNCHANGED <<tally, job, pc>>
    BY <1>8, <1>m DEF EnqueueRefuse, Expanding
  <2>2. InHandStays
    BY <1>8, <2>1, <1>i, TakeOne DEF EnqueueRefuse, Expanding, InHandStays
  <2> QED
    BY <2>1, <2>2, <1>t, OtherLost DEF OnlyMore
<1>9. ASSUME NEW p \in Workers \cup {Main}, EnqueueAdmit(p) PROVE NothingLost'
  <2>1. InHandStays
    BY <1>9, <1>h DEF EnqueueAdmit, Expanding
  <2>2. OnlyMore
    BY <1>9 DEF EnqueueAdmit, OnlyMore
  <2> QED
    BY <1>9, <2>1, <2>2, <1>t, OtherLost DEF EnqueueAdmit
<1>10. ASSUME NEW p \in Workers \cup {Main}, EnqueueSend(p) PROVE NothingLost'
  <2>1. Head(todo[p]).key \in visited /\ todo[p] # <<>>
    BY <1>10, <1>i DEF EnqueueSend, PlaceInv, SendPlace, Sending, SendKey, Owed, TypeOK
  <2>2. InHandStays
    BY <1>10, <1>i, <2>1, TakeOne DEF EnqueueSend, InHandStays
  <2> QED
    BY <1>10, <2>2, <1>o, <1>t, OtherLost DEF EnqueueSend
<1>11. ASSUME Start \/ ReturnSummary PROVE NothingLost'
  <2>1. InHandStays
    BY <1>11, <1>h, <1>i DEF Start, ReturnSummary, LifeInv
  <2> QED
    BY <1>11, <2>1, <1>o, <1>t, OtherLost DEF Start, ReturnSummary
<1>12. ASSUME CloserLock \/ CloserUnlock \/ OutsideStep PROVE NothingLost'
  <2>1. InHandStays
    BY <1>12, <1>h DEF CloserLock, CloserUnlock, OutsideStep
  <2> QED
    BY <1>12, <2>1, <1>o, <1>t, OtherLost DEF CloserLock, CloserUnlock, OutsideStep
<1>13. ASSUME DrainItem PROVE NothingLost'
  <2>1. InHandStays
    BY <1>13, <1>h DEF DrainItem
  <2>2. CountsNoFetch
    BY <1>13, <1>i, DrainItemCounts DEF CountsNoFetch, Outcomes
  <2> QED
    BY <1>13, <2>1, <2>2, <1>o, OtherLost DEF DrainItem
<1> QED
  BY <1>f, <1>1, <1>2, <1>3, <1>4, <1>5, <1>6, <1>7, <1>8, <1>9, <1>10, <1>11, <1>12, <1>13
     DEF FineNext

(* At the beginning there is none to lose.                                 *)
LEMMA InitLost == Init => LinksInv /\ ReportInv /\ NothingLost
<1> SUFFICES ASSUME Init PROVE LinksInv /\ ReportInv /\ NothingLost
  OBVIOUS
<1>1. <<>> # <<"Fetched">>
  OBVIOUS
<1> QED
  BY <1>1, ProcsDistinct DEF Init, LinksInv, ReportInv, NothingLost, Procs

(* A reference of a fetched issue, or an issue its page links to, is       *)
(* accepted, reported, or still in hand, at every moment of every crawl.   *)
THEOREM NothingIsLost == Spec => []NothingLost
<1>1. Init => LinksInv /\ ReportInv /\ NothingLost
  BY InitLost
<1>2. CrawlInv /\ LinksInv /\ ReportInv /\ NothingLost /\ [Next]_vars
        => LinksInv' /\ ReportInv' /\ NothingLost'
  BY LinksStep, ReportResStep, LostStep DEF CrawlInv
<1> QED
  BY <1>1, <1>2, Inductive, PTL DEF Spec

-----------------------------------------------------------------------------
(***************************************************************************)
(* The depth limit.                                                        *)
(***************************************************************************)
LEMMA FoundStep ==
  ASSUME TypeOK, FoundInv, [Next]_vars
  PROVE  FoundInv'
<1>t. /\ pc \in [Procs -> WorkerPCs \cup MainPCs \cup CloserPCs]
      /\ job \in [Workers -> Job \cup {Idle}]
      /\ \A w \in Workers : pc[w] \in InProcess => job[w] \in Job
  BY DEF TypeOK
<1> DEFINE Keeps == \A v \in Workers : pc'[v] \in InProcess =>
                      /\ pc[v] \in InProcess
                      /\ job'[v].key = job[v].key /\ job'[v].found = job[v].found
<1>k. Keeps => FoundInv'
  BY DEF FoundInv, Key
<1> USE <1>t, ProcsDistinct DEF Goto, Procs, InProcess
<1>1. ASSUME NEW w \in Workers, Receive(w) PROVE FoundInv'
  <2>1. \A v \in Workers : v # w /\ pc'[v] \in InProcess => pc[v] \in InProcess /\ job'[v] = job[v]
    BY <1>1 DEF Receive
  <2>2. job'[w].found = <<>>
    BY <1>1 DEF Receive
  <2>3. KeysIn(ItemsAt(<<>>, 0)) = {}
    BY DEF KeysIn, ItemsAt
  <2> QED
    BY <2>1, <2>2, <2>3 DEF FoundInv, Key
<1>2. ASSUME NEW w \in Workers, DiscoverChildren(w) PROVE FoundInv'
  <2> DEFINE c == Children[Key(w)]
  <2>1. PICK fs \in PartsOf(c) : job' = [job EXCEPT ![w].found = fs]
    BY <1>2 DEF DiscoverChildren
  <2>2. Key(w) \in Keys /\ job[w] \in Job
    BY <1>2 DEF DiscoverChildren, Job, Key
  <2>3. c \in Seq(Keys)
    BY <2>2, CrawlAssumption
  <2>4. job'[w].found = fs /\ job'[w].key = Key(w)
    BY <2>1, <2>2 DEF Job, Key
  <2>5. \A v \in Workers : v # w => job'[v] = job[v] /\ pc'[v] = pc[v]
    BY <1>2, <2>1 DEF DiscoverChildren
  <2>6. KeysIn(ItemsAt(fs, 0)) \subseteq KeysIn(ItemsAt(c, 0))
    <3>1. KeysIn(ItemsAt(fs, 0)) = {fs[i] : i \in DOMAIN fs}
      BY DEF KeysIn, ItemsAt
    <3>2. KeysIn(ItemsAt(c, 0)) = {c[i] : i \in DOMAIN c}
      BY DEF KeysIn, ItemsAt
    <3> HIDE DEF c
    <3>3. \A i \in DOMAIN fs : fs[i] \in {c[x] : x \in DOMAIN c}
      BY <2>1, <2>3, PartsAre
    <3> QED
      BY <3>1, <3>2, <3>3
  <2> QED
    BY <2>4, <2>5, <2>6 DEF FoundInv, Key
<1>3. ASSUME NEW w \in Workers, NEW o \in Outcomes, Conclude(w, o), job[w] \in Job, pc[w] \in InProcess
      PROVE  Keeps
  BY <1>3 DEF Conclude, Job
<1>4. ASSUME NEW w \in Workers, NEW l \in InProcess, Goto(w, l), UNCHANGED job, pc[w] \in InProcess
      PROVE  Keeps
  BY <1>4
<1>5. ASSUME NEW w \in Workers, Probe(w) PROVE Keeps
  BY <1>3, <1>4, <1>5 DEF Probe, Outcomes
<1>6. ASSUME NEW w \in Workers, Fetch(w) PROVE Keeps
  <2>1. \/ \E o \in {"Unauthorized", "Dropped", "Failed"} : Conclude(w, o)
        \/ \E l \in {"children", "stub"} : Goto(w, l) /\ UNCHANGED job
    BY <1>6 DEF Fetch
  <2> QED
    BY <1>3, <1>4, <1>6, <2>1 DEF Fetch, Outcomes
<1>7. ASSUME NEW w \in Workers, WriteIssue(w) \/ WriteStub(w) PROVE Keeps
  BY <1>3, <1>4, <1>7 DEF WriteIssue, WriteStub, Outcomes
<1>8. ASSUME NEW w \in Workers,
             \/ Exit(w) \/ Snapshot(w) \/ Report(w) \/ ReportFetched(w) \/ Unlock(w)
             \/ Decrement(w) \/ CloseQueue(w) \/ Abort(w)
      PROVE  Keeps
  BY <1>8 DEF Exit, Snapshot, Report, ReportFetched, Unlock, Decrement, CloseQueue, Abort, Leave, NextStop
<1>9. ASSUME NEW p \in Workers \cup {Main}, Enqueue(p) PROVE Keeps
  BY <1>9 DEF Enqueue, EnqueueKnown, EnqueueRefuse, EnqueueAdmit, EnqueueSend, Expanding
<1>10. ASSUME Start \/ ReturnSummary \/ CloserStep PROVE Keeps
  BY <1>10 DEF Start, ReturnSummary, CloserStep, CloserLock, DrainItem, CloserUnlock
<1>11. ASSUME Cancel \/ (\E k \in Keys : OtherRunWrites(k)) \/ Finished \/ UNCHANGED vars PROVE Keeps
  BY <1>11 DEF Cancel, OtherRunWrites, Finished, vars
<1> QED
  BY <1>k, <1>1, <1>2, <1>5, <1>6, <1>7, <1>8, <1>9, <1>10, <1>11 DEF Next, MainStep, WorkerStep

(* The parts of a list of references.                                      *)
Among(t, s) == \A i \in 1 .. Len(t) : \E j \in 1 .. Len(s) : t[i] = s[j]

(* The items behind the head are among the items.                          *)
LEMMA TailAmong ==
  ASSUME NEW s \in Seq(Item), s # <<>>
  PROVE  Among(Tail(s), s) /\ Head(s) = s[1] /\ 1 \in 1 .. Len(s)
<1>1. /\ Len(s) \in Nat \ {0} /\ Len(Tail(s)) = Len(s) - 1
      /\ Head(s) = s[1] /\ \A i \in 1 .. Len(Tail(s)) : Tail(s)[i] = s[i + 1]
  BY ItemSeq, HeadTailProperties
<1>2. \A i \in 1 .. Len(Tail(s)) : i + 1 \in 1 .. Len(s)
  BY <1>1
<1> QED
  BY <1>1, <1>2 DEF Among

InHand(w) == pc[w] \in {"expand", "send"}

(* A step that admits nothing and moves nothing keeps the ranks.           *)
LEMMA DepthFrame ==
  ASSUME TypeOK, PlaceInv, [Next]_vars, NEW rank, DepthInv(rank), UNCHANGED visited,
         \A i \in 1 .. Len(queue') : rank[queue'[i].key] = queue'[i].depth,
         \A w \in Workers : Held(w)' \/ InHand(w)' => rank[job'[w].key] = job'[w].depth,
         \A p \in Procs : pc'[p] = "send" => pc[p] = "send" /\ todo'[p] = todo[p],
         Among(todo'[Main], todo[Main]),
         \A w \in Workers : InHand(w)' =>
            InHand(w) /\ job'[w] = job[w] /\ Among(todo'[w], todo[w])
  PROVE  DepthInv(rank)'
<1>1. <<>> # <<"Fetched">> /\ visited \subseteq Keys
  BY DEF TypeOK
<1>2. \A k \in Keys : tally[k] = <<"Fetched">> => tally'[k] = <<"Fetched">>
  BY <1>1, CountedStays
<1>3. Routed(rank)'
  BY <1>1, <1>2 DEF DepthInv, Routed
<1>4. \A p \in Procs : Sending(p)' => rank[SendKey(p)'] = Head(todo'[p]).depth
  BY DEF DepthInv, Sending, SendKey
<1>5. \A i \in 1 .. Len(todo'[Main]) : todo'[Main][i].key \in KeysIn(ItemsAt(StartKeys, 0))
  BY DEF DepthInv, Among
<1>6. ASSUME NEW w \in Workers, InHand(w)'
      PROVE  /\ job'[w].key \in visited' /\ tally'[job'[w].key] = <<"Fetched">>
             /\ \A i \in 1 .. Len(todo'[w]) :
                  todo'[w][i].key \in Linkable(job'[w].key) /\ todo'[w][i].depth > job'[w].depth
  <2>1. InHand(w) /\ job'[w] = job[w] /\ Among(todo'[w], todo[w])
    BY <1>6
  <2>2. /\ job[w].key \in visited /\ tally[job[w].key] = <<"Fetched">>
        /\ \A i \in 1 .. Len(todo[w]) :
             todo[w][i].key \in Linkable(job[w].key) /\ todo[w][i].depth > job[w].depth
    BY <2>1 DEF DepthInv, InHand, Key
  <2> QED
    BY <1>1, <1>2, <2>1, <2>2 DEF Among
<1> QED
  BY <1>3, <1>4, <1>5, <1>6 DEF DepthInv, InHand, Key

(* A worker that takes an item has its depth from the queue.               *)
LEMMA ReceiveDepth ==
  ASSUME CrawlInv, NEW rank, DepthInv(rank), NEW w \in Workers, Receive(w), [Next]_vars
  PROVE  DepthInv(rank)'
<1>1. /\ TypeOK /\ PlaceInv
      /\ queue \in Seq(Item) /\ queue # <<>> /\ queue' = Tail(queue)
      /\ UNCHANGED <<visited, todo>>
      /\ pc' = [pc EXCEPT ![w] = "probe"] /\ pc[w] = "recv"
      /\ job' = [job EXCEPT ![w] = [key |-> Head(queue).key, depth |-> Head(queue).depth,
                                    found |-> <<>>, res |-> "none"]]
  BY DEF CrawlInv, TypeOK, Receive, Goto
<1>2. /\ pc \in [Procs -> WorkerPCs \cup MainPCs \cup CloserPCs]
      /\ job \in [Workers -> Job \cup {Idle}] /\ w \in Procs
  BY <1>1 DEF TypeOK, Procs
<1>3. Among(Tail(queue), queue) /\ Head(queue) = queue[1] /\ 1 \in 1 .. Len(queue)
  BY <1>1, TailAmong
<1>4. \A i \in 1 .. Len(queue') : rank[queue'[i].key] = queue'[i].depth
  BY <1>1, <1>3 DEF Among, DepthInv
<1>5. \A v \in Workers : Held(v)' \/ InHand(v)' => rank[job'[v].key] = job'[v].depth
  <2>1. job'[w].key = Head(queue).key /\ job'[w].depth = Head(queue).depth
    BY <1>1, <1>2
  <2>2. \A v \in Workers : v # w => job'[v] = job[v] /\ pc'[v] = pc[v]
    BY <1>1, <1>2, ProcsDistinct
  <2> QED
    BY <1>3, <2>1, <2>2 DEF DepthInv, Held, InHand, Key
<1>6. \A p \in Procs : pc'[p] = "send" => pc[p] = "send" /\ todo'[p] = todo[p]
  BY <1>1, <1>2
<1>7. \A v \in Workers : InHand(v)' => InHand(v) /\ job'[v] = job[v] /\ Among(todo'[v], todo[v])
  BY <1>1, <1>2, ProcsDistinct DEF InHand, Among
<1> QED
  BY <1>1, <1>4, <1>5, <1>6, <1>7, DepthFrame DEF Among

(* Taking a reference from the hand: known, refused, or sent.              *)
LEMMA TakeDepth ==
  ASSUME CrawlInv, NEW rank, DepthInv(rank), [Next]_vars,
         NEW p \in Workers \cup {Main}, todo[p] # <<>>, p \in Workers => InHand(p),
         todo' = [todo EXCEPT ![p] = Tail(@)], UNCHANGED <<visited, job>>,
         pc' = [pc EXCEPT ![p] = "expand"],
         \A i \in 1 .. Len(queue') : rank[queue'[i].key] = queue'[i].depth
  PROVE  DepthInv(rank)'
<1>1. /\ TypeOK /\ PlaceInv /\ p \in Procs
      /\ pc \in [Procs -> WorkerPCs \cup MainPCs \cup CloserPCs] /\ todo \in [Procs -> Seq(Item)]
  BY DEF CrawlInv, TypeOK, Procs
<1>2. Among(Tail(todo[p]), todo[p])
  BY <1>1, TailAmong
<1>3. \A q \in Procs : Among(todo'[q], todo[q])
  BY <1>1, <1>2 DEF Among
<1>4. \A v \in Workers : Held(v)' \/ InHand(v)' => rank[job'[v].key] = job'[v].depth
  BY <1>1, ProcsDistinct DEF DepthInv, Held, InHand, Key, InProcess
<1>5. \A q \in Procs : pc'[q] = "send" => pc[q] = "send" /\ todo'[q] = todo[q]
  BY <1>1
<1>6. \A v \in Workers : InHand(v)' => InHand(v) /\ job'[v] = job[v] /\ Among(todo'[v], todo[v])
  BY <1>1, <1>3, ProcsDistinct DEF InHand
<1>7. Main \in Procs
  BY DEF Procs
<1> QED
  BY <1>1, <1>3, <1>4, <1>5, <1>6, <1>7, DepthFrame

(* The item that is sent has the depth it was accepted with.               *)
LEMMA SendDepth ==
  ASSUME CrawlInv, NEW rank, DepthInv(rank), NEW p \in Workers \cup {Main}, EnqueueSend(p), [Next]_vars
  PROVE  DepthInv(rank)'
<1> DEFINE it == Head(todo[p])
<1>1. /\ p \in Procs /\ pc[p] = "send" /\ todo[p] # <<>> /\ todo[p] \in Seq(Item)
      /\ queue \in Seq(Item) /\ queue' = Append(queue, it)
      /\ todo' = [todo EXCEPT ![p] = Tail(@)] /\ UNCHANGED <<visited, job>>
      /\ pc' = [pc EXCEPT ![p] = "expand"]
  BY DEF CrawlInv, TypeOK, EnqueueSend, Goto, Procs
<1>2. it \in Item /\ rank[it.key] = it.depth
  BY <1>1, ItemSeq DEF DepthInv, Sending, SendKey
<1> HIDE DEF it
<1>3. /\ Len(queue) \in Nat /\ Len(queue') = Len(queue) + 1
      /\ \A i \in 1 .. Len(queue) : queue'[i] = queue[i]
      /\ queue'[Len(queue) + 1] = it
  BY <1>1, <1>2
<1>4. \A i \in 1 .. Len(queue') : i \in 1 .. Len(queue) \/ i = Len(queue) + 1
  BY <1>3
<1>5. \A i \in 1 .. Len(queue') : rank[queue'[i].key] = queue'[i].depth
  BY <1>2, <1>3, <1>4 DEF DepthInv
<1> QED
  BY <1>1, <1>5, TakeDepth DEF InHand

(* The references of a fetched issue are one deeper than the issue.        *)
LEMMA FetchedDepth ==
  ASSUME CrawlInv, FoundInv, NEW rank, DepthInv(rank), NEW w \in Workers, ReportFetched(w), [Next]_vars
  PROVE  DepthInv(rank)'
<1> DEFINE k == Key(w)
           kids == KeysIn(ItemsAt(Children[k], 0))
           refs == Refs[k] \o job[w].found
<1>1. /\ TypeOK /\ PlaceInv
      /\ pc[w] = "success" /\ UNCHANGED <<visited, job, queue>>
      /\ pc' = [pc EXCEPT ![w] = "expand"]
      /\ todo' = [todo EXCEPT ![w] = ItemsAt(refs, job[w].depth + 1)]
  BY DEF CrawlInv, ReportFetched, Goto
<1>2. /\ w \in Procs /\ w # Main /\ job[w] \in Job /\ k \in Keys
      /\ todo \in [Procs -> Seq(Item)] /\ pc \in [Procs -> WorkerPCs \cup MainPCs \cup CloserPCs]
  BY <1>1, ProcsDistinct DEF TypeOK, Procs, InProcess, Job, Key
<1>3. Owed(k) /\ Count(k, "Fetched")
  BY <1>1, ReportFetchedCounts
<1>4. tally'[k] = <<"Fetched">> /\ \A x \in Keys : x # k => tally'[x] = tally[x]
  BY <1>1, <1>2, <1>3, CountOwed DEF Outcomes
<1>5. /\ Refs[k] \in Seq(Keys) /\ Children[k] \in Seq(Keys) /\ job[w].found \in Seq(Keys)
      /\ job[w].depth \in Nat /\ refs \in Seq(Keys)
  BY <1>2, CrawlAssumption DEF Job
<1>6. KeysIn(ItemsAt(refs, job[w].depth + 1)) \subseteq Linkable(k)
  <2>1. job[w].depth + 1 \in Nat
    BY <1>5
  <2>2. KeysIn(ItemsAt(refs, job[w].depth + 1))
          = KeysIn(ItemsAt(Refs[k], 0)) \cup KeysIn(ItemsAt(job[w].found, 0))
    BY <1>5, <2>1, EnqueuedKeys
  <2>3. Linkable(k) = KeysIn(ItemsAt(Refs[k], 0)) \cup kids
    BY <1>5, EnqueuedKeys DEF Linkable
  <2>4. KeysIn(ItemsAt(job[w].found, 0)) \subseteq kids
    BY <1>1 DEF FoundInv, InProcess
  <2> QED
    BY <2>2, <2>3, <2>4
<1>7. \A i \in 1 .. Len(todo'[w]) :
        todo'[w][i].key \in Linkable(k) /\ todo'[w][i].depth > job[w].depth
  <2> HIDE DEF refs
  <2>1. todo'[w] = ItemsAt(refs, job[w].depth + 1)
    BY <1>1, <1>2
  <2>2. DOMAIN ItemsAt(refs, job[w].depth + 1) = 1 .. Len(refs) /\ Len(refs) \in Nat
    BY <1>5 DEF ItemsAt
  <2>3. Len(ItemsAt(refs, job[w].depth + 1)) = Len(refs)
    BY <1>5, <2>2, ItemsAtType
  <2>4. \A i \in 1 .. Len(refs) : ItemsAt(refs, job[w].depth + 1)[i].depth = job[w].depth + 1
    BY <2>2 DEF ItemsAt
  <2>5. \A i \in 1 .. Len(refs) :
          ItemsAt(refs, job[w].depth + 1)[i].key \in KeysIn(ItemsAt(refs, job[w].depth + 1))
    BY <2>2 DEF KeysIn
  <2>6. job[w].depth + 1 > job[w].depth
    BY <1>5
  <2> QED
    BY <1>6, <2>1, <2>3, <2>4, <2>5, <2>6
<1>8. <<>> # <<"Fetched">> /\ visited \subseteq Keys /\ k \in visited
  BY <1>1, <1>3 DEF TypeOK, Owed
<1>9. Routed(rank)'
  <2>1. \A x \in Keys : tally[x] = <<"Fetched">> => tally'[x] = <<"Fetched">>
    BY <1>4
  <2> QED
    BY <1>1, <1>8, <2>1 DEF DepthInv, Routed
<1>10. ASSUME NEW v \in Workers, InHand(v)'
       PROVE  /\ job[v].key \in visited /\ tally'[job[v].key] = <<"Fetched">>
              /\ \A i \in 1 .. Len(todo'[v]) :
                   todo'[v][i].key \in Linkable(job[v].key) /\ todo'[v][i].depth > job[v].depth
  <2>1. CASE v = w
    BY <1>4, <1>7, <1>8, <2>1 DEF Key
  <2>2. CASE v # w
    <3>1. v \in Procs /\ pc'[v] = pc[v] /\ todo'[v] = todo[v]
      BY <1>1, <1>2, <2>2 DEF Procs
    <3>2. /\ job[v].key \in visited /\ tally[job[v].key] = <<"Fetched">>
          /\ \A i \in 1 .. Len(todo[v]) :
               todo[v][i].key \in Linkable(job[v].key) /\ todo[v][i].depth > job[v].depth
      BY <1>10, <3>1 DEF DepthInv, InHand, Key
    <3>3. job[v].key # k
      BY <1>3, <1>8, <3>2 DEF Owed
    <3> QED
      BY <1>4, <1>8, <3>1, <3>2, <3>3
  <2> QED
    BY <2>1, <2>2
<1>11. \A v \in Workers : Held(v)' \/ InHand(v)' => rank[job[v].key] = job[v].depth
  BY <1>1, <1>2, ProcsDistinct DEF DepthInv, Held, InHand, Key, InProcess
<1>12. \A p \in Procs : pc'[p] = "send" => pc[p] = "send" /\ todo'[p] = todo[p]
  BY <1>1, <1>2
<1>13. todo'[Main] = todo[Main]
  BY <1>1, <1>2 DEF Procs
<1>14. \A p \in Procs : Sending(p)' => rank[SendKey(p)'] = Head(todo'[p]).depth
  BY <1>12 DEF DepthInv, Sending, SendKey
<1> QED
  BY <1>1, <1>9, <1>10, <1>11, <1>13, <1>14 DEF DepthInv, InHand, Key

(* An accepted key gets the depth it was met at as its rank.               *)
LEMMA AdmitDepth ==
  ASSUME CrawlInv, DepthLimit > 0, NEW rank \in [Keys -> 0 .. DepthLimit], DepthInv(rank),
         NEW p \in Workers \cup {Main}, EnqueueAdmit(p)
  PROVE  \E new \in [Keys -> 0 .. DepthLimit] : DepthInv(new)'
<1> DEFINE k == Head(todo[p]).key
           d == Head(todo[p]).depth
<1>1. /\ TypeOK /\ PlaceInv /\ MutexInv /\ p \in Procs
      /\ pc[p] = "expand" /\ todo[p] # <<>> /\ k \notin visited
      /\ visited' = visited \cup {k} /\ UNCHANGED <<job, todo, queue, tally>>
      /\ pc' = [pc EXCEPT ![p] = "send"] /\ ~CapReached(Head(todo[p]))
  BY DEF CrawlInv, EnqueueAdmit, Expanding, Goto, Procs
<1>2. /\ todo[p] \in Seq(Item) /\ k \in Keys /\ d \in Nat
      /\ pc \in [Procs -> WorkerPCs \cup MainPCs \cup CloserPCs]
      /\ visited \subseteq Keys
  BY <1>1, ItemSeq DEF TypeOK
<1>3. d \in 0 .. DepthLimit
  BY <1>1, <1>2, CrawlAssumption DEF CapReached
<1>4. PICK new \in [Keys -> 0 .. DepthLimit] : new = [rank EXCEPT ![k] = d]
  BY <1>2, <1>3
<1>5. new[k] = d /\ \A x \in visited : new[x] = rank[x]
  BY <1>1, <1>2, <1>4
<1> HIDE DEF k, d
<1>6. Routed(new)'
  <2>1. ASSUME NEW x \in visited
        PROVE  \/ x \in KeysIn(ItemsAt(StartKeys, 0))
               \/ \E q \in visited : tally[q] = <<"Fetched">> /\ x \in Linkable(q) /\ new[q] < new[x]
    BY <1>5, <2>1 DEF DepthInv, Routed
  <2>2. \/ k \in KeysIn(ItemsAt(StartKeys, 0))
        \/ \E q \in visited : tally[q] = <<"Fetched">> /\ k \in Linkable(q) /\ new[q] < new[k]
    <3>1. Head(todo[p]) = todo[p][1] /\ 1 \in 1 .. Len(todo[p])
      BY <1>1, <1>2, TailAmong
    <3>2. CASE p = Main
      BY <3>1, <3>2 DEF DepthInv, k
    <3>3. CASE p \in Workers
      <4>1. /\ job[p].key \in visited /\ tally[job[p].key] = <<"Fetched">>
            /\ k \in Linkable(job[p].key) /\ d > job[p].depth /\ rank[job[p].key] = job[p].depth
        BY <1>1, <3>1, <3>3 DEF DepthInv, Key, k, d
      <4>2. new[job[p].key] < new[k]
        <5>1. new[job[p].key] \in 0 .. DepthLimit /\ new[k] \in 0 .. DepthLimit
          BY <1>2, <1>4, <4>1
        <5> QED
          BY <1>5, <4>1, <5>1, CrawlAssumption
      <4> QED
        BY <4>1, <4>2
    <3> QED
      BY <3>2, <3>3
  <2>3. visited \subseteq visited' /\ tally' = tally /\ \A x \in visited' : x \in visited \/ x = k
    BY <1>1 DEF k
  <2>4. ASSUME NEW x \in visited'
        PROVE  \/ x \in KeysIn(ItemsAt(StartKeys, 0))
               \/ \E q \in visited' : tally'[q] = <<"Fetched">> /\ x \in Linkable(q) /\ new[q] < new[x]
    BY <2>1, <2>2, <2>3, Zenon
  <2> QED
    BY <2>4 DEF Routed
<1>7. \A i \in 1 .. Len(queue) : new[queue[i].key] = queue[i].depth
  <2>1. \A i \in 1 .. Len(queue) : queue[i].key \in Keys
    <3>1. queue \in Seq(Item)
      BY <1>1 DEF TypeOK
    <3>2. \A i \in 1 .. Len(queue) : queue[i] \in Item
      BY <3>1
    <3> QED
      BY <3>2 DEF Item
  <2>2. \A i \in 1 .. Len(queue) : queue[i].key \in visited
    BY <1>1, <2>1 DEF PlaceInv, QueuePlace, Waiting, Owed
  <2> QED
    BY <1>5, <2>2 DEF DepthInv
<1>8. \A w \in Workers : InHand(w)' => InHand(w)
  BY <1>1, <1>2, ProcsDistinct DEF InHand
<1>9. \A w \in Workers : Held(w)' \/ InHand(w)' => new[job[w].key] = job[w].depth
  <2>1. \A w \in Workers : Held(w)' => Held(w)
    BY <1>1, <1>2, ProcsDistinct DEF Held, InProcess
  <2>2. \A w \in Workers : Held(w) \/ InHand(w) => job[w].key \in visited
    BY <1>1 DEF DepthInv, InHand, PlaceInv, HeldPlace, Owed, Key
  <2> QED
    BY <1>5, <1>8, <2>1, <2>2 DEF DepthInv, InHand, Key
<1>10. \A q \in Procs : pc'[q] = "send" => new[Head(todo[q]).key] = Head(todo[q]).depth
  <2>1. ASSUME NEW q \in Procs, q # p, pc'[q] = "send" PROVE FALSE
    BY <1>1, <1>2, <2>1 DEF MutexInv
  <2> QED
    BY <1>5, <2>1 DEF k, d
<1>11. \A w \in Workers : InHand(w)' =>
         /\ job[w].key \in visited' /\ tally[job[w].key] = <<"Fetched">>
         /\ \A i \in 1 .. Len(todo[w]) :
              todo[w][i].key \in Linkable(job[w].key) /\ todo[w][i].depth > job[w].depth
  BY <1>1, <1>8 DEF DepthInv, InHand, Key
<1>12. \A i \in 1 .. Len(todo[Main]) : todo[Main][i].key \in KeysIn(ItemsAt(StartKeys, 0))
  BY DEF DepthInv
<1>13. DepthInv(new)'
  BY <1>1, <1>6, <1>7, <1>9, <1>10, <1>11, <1>12 DEF DepthInv, InHand, Key, Sending, SendKey
<1> QED
  BY <1>13

(* A step that accepts no key keeps the ranks as they are.                 *)
LEMMA SameRank ==
  ASSUME CrawlInv, FoundInv, NEW rank, DepthInv(rank), [Next]_vars,
         \A p \in Workers \cup {Main} : ~EnqueueAdmit(p)
  PROVE  DepthInv(rank)'
<1>i. TypeOK /\ MutexInv /\ LifeInv /\ PlaceInv
  BY DEF CrawlInv
<1>f. FineNext
  BY <1>i, NextIsFine
<1>p. /\ pc \in [Procs -> WorkerPCs \cup MainPCs \cup CloserPCs]
      /\ job \in [Workers -> Job \cup {Idle}]
      /\ todo \in [Procs -> Seq(Item)]
      /\ queue \in Seq(Item)
  BY <1>i DEF TypeOK
<1>q. \A s : Among(s, s)
  BY DEF Among
<1>r. /\ \A i \in 1 .. Len(queue) : rank[queue[i].key] = queue[i].depth
      /\ \A w \in Workers : Held(w) \/ InHand(w) => rank[job[w].key] = job[w].depth
  BY DEF DepthInv, InHand, Key
<1>s. ASSUME UNCHANGED <<visited, todo>>,
             \A i \in 1 .. Len(queue') : rank[queue'[i].key] = queue'[i].depth,
             \A w \in Workers : Held(w)' => Held(w) /\ job'[w].key = job[w].key /\ job'[w].depth = job[w].depth,
             \A w \in Workers : InHand(w)' => InHand(w) /\ job'[w] = job[w],
             \A p \in Procs : pc'[p] = "send" => pc[p] = "send"
      PROVE  DepthInv(rank)'
  BY <1>i, <1>q, <1>r, <1>s, DepthFrame
<1> USE <1>p, ProcsDistinct DEF Goto, Procs
<1>1. ASSUME NEW w \in Workers, LocalStep(w) PROVE DepthInv(rank)'
  BY <1>1, <1>r, <1>s DEF LocalStep, Held, InHand, InProcess
<1>2. ASSUME NEW w \in Workers, Receive(w) PROVE DepthInv(rank)'
  BY <1>2, ReceiveDepth
<1>3. ASSUME NEW w \in Workers, Exit(w) \/ Report(w) \/ Unlock(w) PROVE DepthInv(rank)'
  BY <1>3, <1>r, <1>s DEF Exit, Report, Unlock, Held, InHand, InProcess
<1>4. ASSUME NEW w \in Workers, ReportFetched(w) PROVE DepthInv(rank)'
  BY <1>4, FetchedDepth
<1>5. ASSUME NEW w \in Workers, Decrement(w) \/ CloseQueue(w) \/ Abort(w) PROVE DepthInv(rank)'
  BY <1>5, <1>r, <1>s DEF Decrement, CloseQueue, Abort, Leave, NextStop, Held, InHand, InProcess
<1>6. ASSUME NEW p \in Workers \cup {Main}, EnqueueKnown(p) \/ EnqueueRefuse(p) PROVE DepthInv(rank)'
  <2>1. pc' = [pc EXCEPT ![p] = "expand"] /\ (p \in Workers => InHand(p))
    BY <1>6 DEF EnqueueKnown, EnqueueRefuse, Expanding, InHand
  <2> QED
    BY <1>6, <1>r, <2>1, TakeDepth DEF EnqueueKnown, EnqueueRefuse, Expanding
<1>7. ASSUME NEW p \in Workers \cup {Main}, EnqueueSend(p) PROVE DepthInv(rank)'
  BY <1>7, SendDepth
<1>8. ASSUME Start \/ ReturnSummary PROVE DepthInv(rank)'
  BY <1>8, <1>r, <1>s DEF Start, ReturnSummary, Held, InHand, InProcess
<1>9. ASSUME CloserLock \/ CloserUnlock \/ OutsideStep PROVE DepthInv(rank)'
  BY <1>9, <1>r, <1>s DEF CloserLock, CloserUnlock, OutsideStep, Held, InHand, InProcess
<1>10. ASSUME DrainItem PROVE DepthInv(rank)'
  <2>1. \A i \in 1 .. Len(queue') : rank[queue'[i].key] = queue'[i].depth
    BY <1>10, <1>r, TailAmong DEF DrainItem, Among
  <2> QED
    BY <1>10, <2>1, <1>s DEF DrainItem, Held, InHand, InProcess
<1> QED
  BY <1>f, <1>1, <1>2, <1>3, <1>4, <1>5, <1>6, <1>7, <1>8, <1>9, <1>10 DEF FineNext

(* Every step keeps that there are ranks; an accepted key gets the depth   *)
(* of its item.                                                            *)
LEMMA RanksStep ==
  ASSUME CrawlInv, FoundInv, RanksInv, [Next]_vars
  PROVE  RanksInv'
<1> SUFFICES ASSUME DepthLimit > 0 PROVE \E new \in [Keys -> 0 .. DepthLimit] : DepthInv(new)'
  BY DEF RanksInv
<1>1. PICK rank \in [Keys -> 0 .. DepthLimit] : DepthInv(rank)
  BY DEF RanksInv
<1>2. CASE \E p \in Workers \cup {Main} : EnqueueAdmit(p)
  BY <1>1, <1>2, AdmitDepth
<1>3. CASE \A p \in Workers \cup {Main} : ~EnqueueAdmit(p)
  BY <1>1, <1>3, SameRank
<1> QED
  BY <1>2, <1>3

(* At the beginning no key needs a rank.                                   *)
LEMMA InitRanks == Init => FoundInv /\ RanksInv
<1> SUFFICES ASSUME Init PROVE FoundInv /\ RanksInv
  OBVIOUS
<1>1. /\ visited = {} /\ queue = <<>>
      /\ \A w \in Workers : pc[w] = "unborn"
      /\ \A p \in Procs : pc[p] # "send"
      /\ todo[Main] = ItemsAt(StartKeys, 0)
  BY ProcsDistinct DEF Init, Procs
<1>2. FoundInv
  BY <1>1 DEF FoundInv, InProcess
<1>3. \A i \in 1 .. Len(todo[Main]) : todo[Main][i].key \in KeysIn(ItemsAt(StartKeys, 0))
  <2>1. ItemsAt(StartKeys, 0) \in Seq(Item)
    BY CrawlAssumption, ItemsAtType
  <2> QED
    BY <1>1, <2>1 DEF KeysIn
<1>4. 1 .. Len(queue) = {}
  BY <1>1
<1>5. ASSUME DepthLimit > 0 PROVE \E rank \in [Keys -> 0 .. DepthLimit] : DepthInv(rank)
  <2>1. [k \in Keys |-> 0] \in [Keys -> 0 .. DepthLimit]
    BY <1>5, CrawlAssumption
  <2>2. DepthInv([k \in Keys |-> 0])
    BY <1>1, <1>3, <1>4 DEF DepthInv, Routed, Held, InProcess, Sending
  <2> QED
    BY <2>1, <2>2
<1> QED
  BY <1>2, <1>5 DEF RanksInv

(* However references and children are met, and in whatever order, every   *)
(* accepted issue is within the depth limit of a start key.                *)
THEOREM DepthLimitIsKept == Spec => []DepthLimitHolds
<1>1. Init => FoundInv /\ RanksInv
  BY InitRanks
<1>2. CrawlInv /\ FoundInv /\ RanksInv /\ [Next]_vars => FoundInv' /\ RanksInv'
  BY FoundStep, RanksStep DEF CrawlInv
<1>3. RanksInv => DepthLimitHolds
  BY DEF RanksInv, DepthInv, DepthLimitHolds
<1> QED
  BY <1>1, <1>2, <1>3, Inductive, PTL DEF Spec
=============================================================================
