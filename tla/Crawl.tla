------------------------------- MODULE Crawl -------------------------------
(***************************************************************************)
(* The crawl orchestrator of internal/crawl/crawl.go: a pool of worker     *)
(* goroutines that take issue keys from a bounded channel, fetch, render   *)
(* and write each issue, and put the issues it references back on the same *)
(* channel; a mutex over the visited set, the Summary and every send and   *)
(* close of the channel; an atomic counter of unfinished work whose zero   *)
(* closes the channel; and a closer goroutine that drains the channel when *)
(* the crawl's context is cancelled.                                       *)
(*                                                                         *)
(* A critical section that cannot block is one action.  The one that can,  *)
(* enqueueing under the mutex on a channel that may be full, is a step per *)
(* reference, with the channel send a step of its own.                     *)
(***************************************************************************)
EXTENDS Integers, Sequences, FiniteSets

CONSTANTS
  Keys,        \* issue keys, already upper-cased
  StartKeys,   \* the sequence of keys the caller starts from
  Refs,        \* Refs[k]: the Jira keys extract.Extract finds in k, in order
  Children,    \* Children[k]: the hierarchy children of k, in order
  Workers,     \* the worker goroutines (cfg.Concurrency of them)
  Main,        \* the goroutine that runs crawlImpl
  Closer,      \* the goroutine that waits for the context to be done
  NoOne,       \* nobody: the value of mu when it is free
  QueueBuf,    \* capacity of the queue channel
  IssueCap,    \* cfg.IssueCap; zero or less: no cap
  DepthLimit,  \* cfg.DepthLimit; zero or less: no cap
  Refetch,     \* cfg.Refetch
  OnDisk,      \* the keys whose index.md exists before the crawl
  Replies,     \* what the tracker may answer to a fetch
  Faults       \* what else may happen around the crawl

(* "ok"; 401; 403 or 404; 429 after the client's retries; any other error; *)
(* and an issue that cannot be parsed, extracted or rendered.              *)
AllReplies == {"ok", "unauthorized", "denied", "ratelimited", "network", "unusable"}

(* A failing child search; a failing Store.Write; a cancelled parent       *)
(* context or an expired time cap; another run on the same output          *)
(* directory.                                                              *)
AllFaults == {"children", "write", "cancel", "other_run"}

Procs == Workers \cup {Main, Closer}

ASSUME CrawlAssumption ==
  /\ StartKeys \in Seq(Keys)
  /\ Refs \in [Keys -> Seq(Keys)]
  /\ Children \in [Keys -> Seq(Keys)]
  /\ IsFiniteSet(Workers) /\ Workers # {}
  /\ Main \notin Workers /\ Closer \notin Workers /\ Main # Closer
  /\ NoOne \notin Procs
  /\ QueueBuf \in Nat /\ QueueBuf > Len(StartKeys)
  /\ IssueCap \in Int /\ DepthLimit \in Int
  /\ Refetch \in BOOLEAN
  /\ OnDisk \subseteq Keys
  /\ Replies \subseteq AllReplies
  /\ Faults \subseteq AllFaults

(* How the Summary accounts for an accepted key.  "Unauthorized" is Failed *)
(* with that reason; "Dropped" is CapLimited for a key that had been       *)
(* accepted (drained by the closer, or its fetch cut by the cancellation). *)
Outcomes == {"Fetched", "Skipped", "Stubbed", "Failed", "Unauthorized", "Dropped"}

Item == [key : Keys, depth : Nat]

(* The local variables of processIssue: found is childKeys, res the        *)
(* outcome about to be counted.                                            *)
Job  == [key : Keys, depth : Nat, found : Seq(Keys), res : Outcomes \cup {"none"}]
Idle == [key |-> NoOne]

VARIABLES
  mu,           \* c.mu: the goroutine that holds it, or NoOne
  pc,           \* where each goroutine is
  job,          \* the issue each worker is processing
  todo,         \* the references a goroutine still has to enqueue
  queue,        \* c.queue
  queueClosed,  \* c.queueClosed, which is also whether the channel is closed
  pending,      \* c.pending
  visited,      \* c.visited
  refused,      \* refused[k]: times enqueue counted k as CapLimited
  tally,        \* tally[k]: the outcomes the Summary counted for k
  cancelled,    \* crawlCtx.Err() # nil
  abortErr,     \* c.abortErr # nil
  disk,         \* disk[k]: what <OutputDir>/k/index.md holds
  links         \* links[k]: the neighbours index.md of k was rendered with

vars == <<mu, pc, job, todo, queue, queueClosed, pending, visited, refused,
          tally, cancelled, abortErr, disk, links>>

ItemsAt(keys, d) == [i \in DOMAIN keys |-> [key |-> keys[i], depth |-> d]]
KeysIn(items)    == {items[i].key : i \in DOMAIN items}
Linkable(k)      == KeysIn(ItemsAt(Refs[k] \o Children[k], 0))

Init ==
  /\ mu = Main
  /\ pc = [p \in Procs |-> IF p = Main THEN "expand" ELSE "unborn"]
  /\ job = [w \in Workers |-> Idle]
  /\ todo = [p \in Procs |-> IF p = Main THEN ItemsAt(StartKeys, 0) ELSE <<>>]
  /\ queue = <<>>
  /\ queueClosed = FALSE
  /\ pending = 0
  /\ visited = {}
  /\ refused = [k \in Keys |-> 0]
  /\ tally = [k \in Keys |-> <<>>]
  /\ cancelled = FALSE
  /\ abortErr = FALSE
  /\ disk = [k \in Keys |-> IF k \in OnDisk THEN "issue" ELSE "none"]
  /\ links = [k \in Keys |-> {}]

Goto(p, l)  == pc' = [pc EXCEPT ![p] = l]
Count(k, o) == tally' = [tally EXCEPT ![k] = Append(@, o)]

(***************************************************************************)
(* enqueue, called with the mutex held for each reference in turn.         *)
(***************************************************************************)
(* Slips (each is a way to get the next definition wrong, see the README). *)
CapReachedLate(it) ==
  \/ IssueCap > 0 /\ Cardinality(visited) > IssueCap
  \/ DepthLimit > 0 /\ it.depth > DepthLimit + 1

CapReached(it) ==
  \/ IssueCap > 0 /\ Cardinality(visited) >= IssueCap
  \/ DepthLimit > 0 /\ it.depth > DepthLimit

Expanding(p) == pc[p] = "expand" /\ todo[p] # <<>>

(* The key is known already: nothing happens.                              *)
EnqueueKnown(p) ==
  /\ Expanding(p)
  /\ Head(todo[p]).key \in visited
  /\ todo' = [todo EXCEPT ![p] = Tail(@)]
  /\ UNCHANGED <<mu, pc, job, queue, queueClosed, pending, visited, refused,
                 tally, cancelled, abortErr, disk, links>>

(* Slip: turn a key away without counting it.                              *)
EnqueueRefuseSilently(p) ==
  /\ Expanding(p)
  /\ Head(todo[p]).key \notin visited
  /\ CapReached(Head(todo[p])) \/ queueClosed
  /\ todo' = [todo EXCEPT ![p] = Tail(@)]
  /\ UNCHANGED <<mu, pc, job, queue, queueClosed, pending, visited, refused,
                 tally, cancelled, abortErr, disk, links>>

(* A cap, or a closed queue: CapLimited is counted, the key is not marked. *)
EnqueueRefuse(p) ==
  /\ Expanding(p)
  /\ Head(todo[p]).key \notin visited
  /\ CapReached(Head(todo[p])) \/ queueClosed
  /\ refused' = [refused EXCEPT ![Head(todo[p]).key] = @ + 1]
  /\ todo' = [todo EXCEPT ![p] = Tail(@)]
  /\ UNCHANGED <<mu, pc, job, queue, queueClosed, pending, visited, tally,
                 cancelled, abortErr, disk, links>>

(* Slip: forget to look the key up in visited.                             *)
EnqueueAdmitAgain(p) ==
  /\ Expanding(p)
  /\ ~CapReached(Head(todo[p])) /\ ~queueClosed
  /\ visited' = visited \cup {Head(todo[p]).key}
  /\ pending' = pending + 1
  /\ Goto(p, "send")
  /\ UNCHANGED <<mu, job, todo, queue, queueClosed, refused, tally, cancelled,
                 abortErr, disk, links>>

(* The key is marked and counted before the channel send.                  *)
EnqueueAdmit(p) ==
  /\ Expanding(p)
  /\ Head(todo[p]).key \notin visited
  /\ ~CapReached(Head(todo[p])) /\ ~queueClosed
  /\ visited' = visited \cup {Head(todo[p]).key}
  /\ pending' = pending + 1
  /\ Goto(p, "send")
  /\ UNCHANGED <<mu, job, todo, queue, queueClosed, refused, tally, cancelled,
                 abortErr, disk, links>>

(* The send itself, which waits, mutex in hand, while the channel is full. *)
EnqueueSend(p) ==
  /\ pc[p] = "send"
  /\ Len(queue) < QueueBuf
  /\ queue' = Append(queue, Head(todo[p]))
  /\ todo' = [todo EXCEPT ![p] = Tail(@)]
  /\ Goto(p, "expand")
  /\ UNCHANGED <<mu, job, queueClosed, pending, visited, refused, tally,
                 cancelled, abortErr, disk, links>>

Enqueue(p) == EnqueueKnown(p) \/ EnqueueRefuse(p) \/ EnqueueAdmit(p) \/ EnqueueSend(p)

(***************************************************************************)
(* crawlImpl: seed the queue, start the other goroutines, wait for the     *)
(* workers, return.                                                        *)
(***************************************************************************)
(* All start keys are enqueued: unlock, closing a queue nothing entered,   *)
(* and start the closer and the workers.                                   *)
Start ==
  /\ pc[Main] = "expand" /\ todo[Main] = <<>>
  /\ queueClosed' = (pending = 0)
  /\ mu' = NoOne
  /\ pc' = [p \in Procs |-> IF p = Main THEN "wait" ELSE IF p = Closer THEN "watch" ELSE "recv"]
  /\ UNCHANGED <<job, todo, queue, pending, visited, refused, tally, cancelled,
                 abortErr, disk, links>>

(* Slip: wait for one worker only.                                         *)
ReturnEarly ==
  /\ pc[Main] = "wait"
  /\ \E w \in Workers : pc[w] = "exited"
  /\ Goto(Main, "returned")
  /\ cancelled' = TRUE
  /\ UNCHANGED <<mu, job, todo, queue, queueClosed, pending, visited, refused,
                 tally, abortErr, disk, links>>

(* wg.Wait is over: the Summary goes to the caller; the deferred           *)
(* cancelCrawl runs.                                                       *)
ReturnSummary ==
  /\ pc[Main] = "wait"
  /\ \A w \in Workers : pc[w] = "exited"
  /\ Goto(Main, "returned")
  /\ cancelled' = TRUE
  /\ UNCHANGED <<mu, job, todo, queue, queueClosed, pending, visited, refused,
                 tally, abortErr, disk, links>>

(***************************************************************************)
(* The worker loop and processIssue.                                       *)
(***************************************************************************)
Key(w) == job[w].key

(* The end of processIssue with outcome o still to be counted.             *)
Conclude(w, o) ==
  /\ job' = [job EXCEPT ![w].res = o]
  /\ Goto(w, "report")

(* Take an item; the channel is FIFO.                                      *)
Receive(w) ==
  /\ pc[w] = "recv"
  /\ queue # <<>>
  /\ queue' = Tail(queue)
  /\ job' = [job EXCEPT ![w] = [key |-> Head(queue).key, depth |-> Head(queue).depth,
                                found |-> <<>>, res |-> "none"]]
  /\ Goto(w, "probe")
  /\ UNCHANGED <<mu, todo, queueClosed, pending, visited, refused, tally,
                 cancelled, abortErr, disk, links>>

(* The range loop ends on a closed and empty channel.                      *)
Exit(w) ==
  /\ pc[w] = "recv"
  /\ queue = <<>> /\ queueClosed
  /\ Goto(w, "exited")
  /\ UNCHANGED <<mu, job, todo, queue, queueClosed, pending, visited, refused,
                 tally, cancelled, abortErr, disk, links>>

(* indexExists before the fetch: an issue already on disk is Skipped.      *)
Probe(w) ==
  /\ pc[w] = "probe"
  /\ \/ /\ ~Refetch /\ disk[Key(w)] # "none"
        /\ Conclude(w, "Skipped")
     \/ /\ Refetch \/ disk[Key(w)] = "none"
        /\ Goto(w, "fetch")
        /\ UNCHANGED job
  /\ UNCHANGED <<mu, todo, queue, queueClosed, pending, visited, refused,
                 tally, cancelled, abortErr, disk, links>>

(* The fetch and handleFetchError.  A fetch cut by the cancellation fails  *)
(* with the context's error, or, the logging transport hiding an error in  *)
(* the middle of a body, returns half an issue that cannot be parsed.      *)
Fetch(w) ==
  /\ pc[w] = "fetch"
  /\ \E reply \in IF cancelled THEN {"network"} \cup (Replies \cap {"unusable"}) ELSE Replies :
       CASE reply = "ok"           -> Goto(w, "children") /\ UNCHANGED job
         [] reply = "unauthorized" -> Conclude(w, "Unauthorized")
         [] reply = "denied"       -> Goto(w, "stub") /\ UNCHANGED job
         [] reply = "network"      -> IF cancelled THEN Conclude(w, "Dropped")
                                      ELSE Goto(w, "stub") /\ UNCHANGED job
         [] OTHER                  -> Conclude(w, "Failed")
  /\ UNCHANGED <<mu, todo, queue, queueClosed, pending, visited, refused,
                 tally, cancelled, abortErr, disk, links>>

(* The child search: of its two queries either may fail, or be cancelled,  *)
(* and it keeps, in order, what it has got.  No child is found twice.      *)
PartsOf(s) ==
  {t \in UNION {[1 .. n -> {s[i] : i \in DOMAIN s}] : n \in 0 .. Len(s)} :
     \A i, j \in DOMAIN t : i < j => \E x, y \in DOMAIN s : x < y /\ t[i] = s[x] /\ t[j] = s[y]}
DiscoverChildren(w) ==
  /\ pc[w] = "children"
  /\ \E found \in PartsOf(Children[Key(w)]) :
       /\ "children" \in Faults \/ cancelled \/ found = Children[Key(w)]
       /\ job' = [job EXCEPT ![w].found = found]
  /\ Goto(w, "snapshot")
  /\ UNCHANGED <<mu, todo, queue, queueClosed, pending, visited, refused,
                 tally, cancelled, abortErr, disk, links>>

(* Under the mutex, the neighbours the renderer links to by relative path: *)
(* the keys visited so far and the children just found (of them, those     *)
(* this issue mentions).  Then the rendering, which is local.              *)
Snapshot(w) ==
  /\ pc[w] = "snapshot"
  /\ mu = NoOne
  /\ links' = [links EXCEPT ![Key(w)] =
                 (visited \cup KeysIn(ItemsAt(job[w].found, 0))) \cap Linkable(Key(w))]
  /\ Goto(w, "write")
  /\ UNCHANGED <<mu, job, todo, queue, queueClosed, pending, visited, refused,
                 tally, cancelled, abortErr, disk>>

(* Store.Write of the rendered issue.  A failed write may have put         *)
(* index.md in place already (outbound.md is written after it).            *)
WriteIssue(w) ==
  /\ pc[w] = "write"
  /\ \/ /\ ~Refetch /\ disk[Key(w)] # "none"
        /\ Conclude(w, "Skipped")
        /\ UNCHANGED disk
     \/ /\ "write" \in Faults /\ (Refetch \/ disk[Key(w)] = "none")
        /\ disk' \in {disk, [disk EXCEPT ![Key(w)] = "issue"]}
        /\ Conclude(w, "Failed")
     \/ /\ Refetch \/ disk[Key(w)] = "none"
        /\ disk' = [disk EXCEPT ![Key(w)] = "issue"]
        /\ Goto(w, "success")
        /\ UNCHANGED job
  /\ UNCHANGED <<mu, todo, queue, queueClosed, pending, visited, refused,
                 tally, cancelled, abortErr, links>>

(* writeStub: any error of its write, ErrAlreadyExists too, is a failure.  *)
WriteStub(w) ==
  /\ pc[w] = "stub"
  /\ \/ /\ "write" \in Faults \/ (~Refetch /\ disk[Key(w)] # "none")
        /\ Conclude(w, "Failed")
        /\ UNCHANGED disk
     \/ /\ Refetch \/ disk[Key(w)] = "none"
        /\ disk' = [disk EXCEPT ![Key(w)] = "stub"]
        /\ Conclude(w, "Stubbed")
  /\ UNCHANGED <<mu, todo, queue, queueClosed, pending, visited, refused,
                 tally, cancelled, abortErr, links>>

(* Lock, count an outcome other than Fetched, unlock.                      *)
Report(w) ==
  /\ pc[w] = "report"
  /\ mu = NoOne
  /\ Count(Key(w), job[w].res)
  /\ Goto(w, "dec")
  /\ UNCHANGED <<mu, job, todo, queue, queueClosed, pending, visited, refused,
                 cancelled, abortErr, disk, links>>

(* Lock, count Fetched, and keep the mutex to enqueue the references and   *)
(* then the children, one level deeper.                                    *)
ReportFetched(w) ==
  /\ pc[w] = "success"
  /\ mu = NoOne
  /\ mu' = w
  /\ Count(Key(w), "Fetched")
  /\ todo' = [todo EXCEPT ![w] = ItemsAt(Refs[Key(w)] \o job[w].found, job[w].depth + 1)]
  /\ Goto(w, "expand")
  /\ UNCHANGED <<job, queue, queueClosed, pending, visited, refused, cancelled,
                 abortErr, disk, links>>

Unlock(w) ==
  /\ pc[w] = "expand" /\ todo[w] = <<>>
  /\ mu' = NoOne
  /\ Goto(w, "dec")
  /\ UNCHANGED <<job, todo, queue, queueClosed, pending, visited, refused,
                 tally, cancelled, abortErr, disk, links>>

(* After the item: a 401 aborts the crawl, otherwise the next item.        *)
NextStop(w) == IF job[w].res = "Unauthorized" THEN "abort" ELSE "recv"
Leave(w, l) ==
  /\ Goto(w, l)
  /\ job' = IF l = "recv" THEN [job EXCEPT ![w] = Idle] ELSE job

(* Slip: test the old value.                                               *)
DecrementTestsOldValue(w) ==
  /\ pc[w] = "dec"
  /\ pending' = pending - 1
  /\ Leave(w, IF pending = 0 THEN "close" ELSE NextStop(w))
  /\ UNCHANGED <<mu, todo, queue, queueClosed, visited, refused, tally,
                 cancelled, abortErr, disk, links>>

(* decrementPending: whoever takes the counter to zero closes the queue.   *)
Decrement(w) ==
  /\ pc[w] = "dec"
  /\ pending' = pending - 1
  /\ Leave(w, IF pending = 1 THEN "close" ELSE NextStop(w))
  /\ UNCHANGED <<mu, todo, queue, queueClosed, visited, refused, tally,
                 cancelled, abortErr, disk, links>>

(* Slip: the 401 of the last item is forgotten.                            *)
CloseQueueForgetsAbort(w) ==
  /\ pc[w] = "close"
  /\ mu = NoOne
  /\ queueClosed' = TRUE
  /\ Leave(w, "recv")
  /\ UNCHANGED <<mu, todo, queue, pending, visited, refused, tally, cancelled,
                 abortErr, disk, links>>

CloseQueue(w) ==
  /\ pc[w] = "close"
  /\ mu = NoOne
  /\ queueClosed' = TRUE
  /\ Leave(w, NextStop(w))
  /\ UNCHANGED <<mu, todo, queue, pending, visited, refused, tally, cancelled,
                 abortErr, disk, links>>

Abort(w) ==
  /\ pc[w] = "abort"
  /\ abortErr' = TRUE
  /\ cancelled' = TRUE
  /\ Leave(w, "recv")
  /\ UNCHANGED <<mu, todo, queue, queueClosed, pending, visited, refused,
                 tally, disk, links>>

WorkerStep(w) ==
  \/ Receive(w) \/ Exit(w) \/ Probe(w) \/ Fetch(w) \/ DiscoverChildren(w)
  \/ Snapshot(w) \/ WriteIssue(w) \/ WriteStub(w) \/ Report(w)
  \/ ReportFetched(w) \/ Enqueue(w) \/ Unlock(w)
  \/ Decrement(w) \/ CloseQueue(w) \/ Abort(w)

(***************************************************************************)
(* The closer goroutine, woken by the end of the context.                  *)
(***************************************************************************)
(* Slip: drain without the mutex.                                          *)
CloserUnlocked ==
  /\ pc[Closer] = "watch"
  /\ cancelled
  /\ mu' = Closer
  /\ Goto(Closer, "drain")
  /\ UNCHANGED <<job, todo, queue, queueClosed, pending, visited, refused,
                 tally, cancelled, abortErr, disk, links>>

CloserLock ==
  /\ pc[Closer] = "watch"
  /\ cancelled
  /\ mu = NoOne
  /\ mu' = Closer
  /\ Goto(Closer, "drain")
  /\ UNCHANGED <<job, todo, queue, queueClosed, pending, visited, refused,
                 tally, cancelled, abortErr, disk, links>>

(* Slip: drain without the Summary.                                        *)
DrainUncounted ==
  /\ pc[Closer] = "drain"
  /\ queue # <<>>
  /\ queue' = Tail(queue)
  /\ pending' = pending - 1
  /\ UNCHANGED <<mu, pc, job, todo, queueClosed, visited, refused, tally,
                 cancelled, abortErr, disk, links>>

(* Workers may still take items between two of these steps.                *)
DrainItem ==
  /\ pc[Closer] = "drain"
  /\ queue # <<>>
  /\ queue' = Tail(queue)
  /\ pending' = pending - 1
  /\ Count(Head(queue).key, "Dropped")
  /\ UNCHANGED <<mu, pc, job, todo, queueClosed, visited, refused, cancelled,
                 abortErr, disk, links>>

CloserUnlock ==
  /\ pc[Closer] = "drain"
  /\ queue = <<>>
  /\ queueClosed' = TRUE
  /\ mu' = NoOne
  /\ Goto(Closer, "exited")
  /\ UNCHANGED <<job, todo, queue, pending, visited, refused, tally, cancelled,
                 abortErr, disk, links>>

CloserStep == CloserLock \/ DrainItem \/ CloserUnlock
MainStep   == Enqueue(Main) \/ Start \/ ReturnSummary

(***************************************************************************)
(* The surroundings.                                                       *)
(***************************************************************************)
(* SIGINT, a client that goes away, or the time cap.                       *)
Cancel ==
  /\ "cancel" \in Faults
  /\ ~cancelled
  /\ cancelled' = TRUE
  /\ UNCHANGED <<mu, pc, job, todo, queue, queueClosed, pending, visited,
                 refused, tally, abortErr, disk, links>>

(* A second crawl on the same output directory writes an issue.            *)
OtherRunWrites(k) ==
  /\ "other_run" \in Faults
  /\ disk[k] = "none"
  /\ disk' = [disk EXCEPT ![k] = "issue"]
  /\ UNCHANGED <<mu, pc, job, todo, queue, queueClosed, pending, visited,
                 refused, tally, cancelled, abortErr, links>>

(* The Summary is returned and every goroutine has ended.                  *)
Finished ==
  /\ pc[Main] = "returned" /\ pc[Closer] = "exited"
  /\ UNCHANGED vars

Next ==
  \/ MainStep
  \/ \E w \in Workers : WorkerStep(w)
  \/ CloserStep
  \/ Cancel
  \/ \E k \in Keys : OtherRunWrites(k)
  \/ Finished

Spec == Init /\ [][Next]_vars

(* The Go scheduler runs every runnable goroutine, the HTTP client bounds  *)
(* every request, and a goroutine waiting for the mutex gets it: weak      *)
(* fairness of each goroutine.  Nothing makes the surroundings act.        *)
Fairness ==
  /\ WF_vars(MainStep)
  /\ \A w \in Workers : WF_vars(WorkerStep(w))
  /\ WF_vars(CloserStep)

FairSpec == Spec /\ Fairness

-----------------------------------------------------------------------------
(***************************************************************************)
(* What is checked.                                                        *)
(***************************************************************************)
InProcess  == {"probe", "fetch", "children", "snapshot", "write", "stub", "success", "report"}
Reported   == {"expand", "send", "dec"}
Winding    == {"close", "abort"}
WorkerPCs  == InProcess \cup Reported \cup Winding \cup {"unborn", "recv", "exited"}
MainPCs    == {"expand", "send", "wait", "returned"}
CloserPCs  == {"unborn", "watch", "drain", "exited"}

(* Every variable has its type.                                            *)
TypeOK ==
  /\ mu \in Procs \cup {NoOne}
  /\ pc \in [Procs -> WorkerPCs \cup MainPCs \cup CloserPCs]
  /\ \A w \in Workers : pc[w] \in WorkerPCs
  /\ pc[Main] \in MainPCs
  /\ pc[Closer] \in CloserPCs
  /\ job \in [Workers -> Job \cup {Idle}]
  /\ \A w \in Workers : pc[w] \in InProcess \cup Reported \cup Winding => job[w] \in Job
  /\ \A w \in Workers : pc[w] = "report" => job[w].res \in Outcomes
  /\ todo \in [Procs -> Seq(Item)]
  /\ \A p \in Procs : pc[p] = "send" => todo[p] # <<>>
  /\ queue \in Seq(Item)
  /\ queueClosed \in BOOLEAN
  /\ pending \in Int
  /\ visited \subseteq Keys
  /\ refused \in [Keys -> Nat]
  /\ tally \in [Keys -> Seq(Outcomes)]
  /\ cancelled \in BOOLEAN
  /\ abortErr \in BOOLEAN
  /\ disk \in [Keys -> {"none", "issue", "stub"}]
  /\ links \in [Keys -> SUBSET Keys]

Busy      == {w \in Workers : pc[w] \in InProcess \cup Reported}
Senders   == {p \in Procs : pc[p] = "send"}
Returned  == pc[Main] = "returned"

(* enqueue tests queueClosed, then marks, counts and emits, and only then  *)
(* sends: no close comes in between, so no send panics.                    *)
NoSendOnClosedQueue ==
  \A p \in Senders : mu = p /\ ~queueClosed

(* c.pending, kept by atomic operations outside the mutex, is at every     *)
(* moment the number of unfinished items: those in the channel, those with *)
(* a worker, and the one whose send is under way.                          *)
PendingExact ==
  pending = Len(queue) + Cardinality(Busy) + Cardinality(Senders)

(* The queue closes early only because of a cancellation: otherwise, when  *)
(* it is closed, no item waits, none is in a worker's hands, and nobody    *)
(* has a reference left to enqueue.                                        *)
ClosedOnlyWhenDone ==
  queueClosed =>
    /\ queue = <<>>
    /\ ~cancelled => Busy = {} /\ \A p \in Procs : todo[p] = <<>>

(* However the workers, the closer and a cancellation interleave, a key    *)
(* enters the Summary's totals once at most, and only if it was accepted.  *)
OneOutcome ==
  \A k \in Keys : tally[k] # <<>> => Len(tally[k]) = 1 /\ k \in visited

(* Every reference of a fetched issue, and every issue that its page links *)
(* to by a relative path, has been accepted, or is reported as CapLimited, *)
(* or is still in the hands of the worker that fetched the issue.          *)
NothingLost ==
  \A k \in Keys : tally[k] = <<"Fetched">> =>
    \A r \in KeysIn(ItemsAt(Refs[k], 0)) \cup links[k] :
      \/ r \in visited
      \/ refused[r] > 0
      \/ \E w \in Workers : /\ pc[w] \in {"expand", "send"} /\ Key(w) = k
                            /\ r \in KeysIn(todo[w])

(* The returned error tells of a 401 exactly when an issue was answered    *)
(* with one, although the worker that met it decrements pending, and may   *)
(* let the queue close and the others leave, before it records the error.  *)
AbortReported ==
  Returned => (abortErr <=> \E k \in Keys : tally[k] = <<"Unauthorized">>)

(* Once the Summary is returned no goroutine, the closer woken by the      *)
(* deferred cancelCrawl included, changes what it says.                    *)
SummaryFinal ==
  [][Returned => UNCHANGED <<tally, refused, visited, abortErr>>]_vars

(* The issue cap bounds what is accepted, and nothing is turned away by    *)
(* the issue cap before it is reached.                                     *)
IssueCapExact ==
  IssueCap > 0 =>
    /\ Cardinality(visited) <= IssueCap
    /\ (DepthLimit <= 0 /\ ~cancelled /\ \E k \in Keys : refused[k] > 0)
         => Cardinality(visited) = IssueCap

(* The accepted issues have routes: a start key, or an issue that one with *)
(* a smaller rank, fetched and accepted, refers to or has as a child.      *)
Routed(rank) ==
  \A k \in visited :
    \/ k \in KeysIn(ItemsAt(StartKeys, 0))
    \/ \E p \in visited : /\ tally[p] = <<"Fetched">> /\ k \in Linkable(p)
                         /\ rank[p] < rank[k]

(* Nothing farther from the start keys than the depth limit is accepted,   *)
(* on whatever route, in whatever order, references and children are met:  *)
(* ranks up to the limit are enough for a route to every issue.            *)
DepthLimitHolds ==
  DepthLimit > 0 => \E rank \in [Keys -> 0 .. DepthLimit] : Routed(rank)

(* The crawl returns, whatever happens to it.                              *)
Termination == <>Returned

(* After a cancellation the crawl returns.                                 *)
GracefulShutdown == cancelled ~> Returned

-----------------------------------------------------------------------------
(***************************************************************************)
(* The refinement of CrawlLedger.                                          *)
(***************************************************************************)
StatusOf(k) ==
  IF k \notin visited THEN "unseen"
  ELSE IF tally[k] = <<>> THEN "owed" ELSE Head(tally[k])

Ledger == INSTANCE CrawlLedger
            WITH status <- [k \in Keys |-> StatusOf(k)], returned <- Returned

(* The worker pool keeps the crawl's promise: each accepted key is settled *)
(* once, and the Summary is returned only when nothing is owed.            *)
ImplementsLedger == Ledger!LedgerSpec

=============================================================================
