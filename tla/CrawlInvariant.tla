-------------------------- MODULE CrawlInvariant ---------------------------
(***************************************************************************)
(* The inductive invariant of Crawl: why the invariants and the refinement *)
(* stated there hold.                                                      *)
(***************************************************************************)
EXTENDS Crawl

(* The mutex is held from lock to unlock, by one goroutine.                *)
MutexInv ==
  \A p \in Procs : mu = p <=> pc[p] \in {"expand", "send", "drain"}

(* Which goroutines are alive, and who has references in hand.             *)
LifeInv ==
  /\ \A p \in Workers \cup {Closer} : pc[p] = "unborn" <=> pc[Main] \in {"expand", "send"}
  /\ Returned => \A w \in Workers : pc[w] = "exited"
  /\ \A p \in Procs : todo[p] # <<>> => pc[p] \in {"expand", "send"}

(* The queue closes when the work is done or cancelled, and empty; a       *)
(* worker on its way to close it has seen the last item.                   *)
CloseInv ==
  /\ \A p \in Procs : pc[p] = "send" => ~queueClosed
  /\ pc[Main] \in {"expand", "send"} => ~queueClosed
  /\ queueClosed => queue = <<>>
  /\ \A w \in Workers : pc[w] = "close" => pending = 0
  /\ queueClosed /\ ~cancelled => pending = 0
  /\ \A w \in Workers : pc[w] = "exited" => queueClosed
  /\ pc[Closer] \in {"drain", "exited"} => cancelled
  /\ abortErr \/ Returned => cancelled

(* A key is owed an outcome from its acceptance to its report, and is      *)
(* meanwhile in one place: being sent, in the queue, or with a worker.     *)
Owed(k)     == k \in visited /\ tally[k] = <<>>
Held(w)     == pc[w] \in InProcess
Sending(p)  == pc[p] = "send"
SendKey(p)  == Head(todo[p]).key
NoRepeat(s) == \A i, j \in 1 .. Len(s) : s[i].key = s[j].key => i = j
Waiting(k)  == \E i \in 1 .. Len(queue) : queue[i].key = k

QueuePlace ==
  /\ NoRepeat(queue)
  /\ \A k \in Keys : Waiting(k) => Owed(k)

HeldPlace ==
  /\ \A w \in Workers : Held(w) => Owed(Key(w)) /\ ~Waiting(Key(w))
  /\ \A v, w \in Workers : Held(v) /\ Held(w) /\ Key(v) = Key(w) => v = w

SendPlace ==
  \A p \in Procs : Sending(p) =>
    /\ Owed(SendKey(p)) /\ ~Waiting(SendKey(p))
    /\ \A w \in Workers : Held(w) => Key(w) # SendKey(p)

NoKeyForgotten ==
  \A k \in visited : tally[k] = <<>> =>
    \/ Waiting(k)
    \/ \E w \in Workers : Held(w) /\ Key(w) = k
    \/ \E p \in Procs : Sending(p) /\ SendKey(p) = k

PlaceInv == OneOutcome /\ QueuePlace /\ HeldPlace /\ SendPlace /\ NoKeyForgotten

(* The outcome of an item is chosen at the end of processIssue.            *)
ResInv ==
  /\ \A w \in Workers : pc[w] \in (InProcess \ {"report"}) \cup {"expand", "send"} =>
       job[w].res = "none"
  /\ \A w \in Workers : pc[w] = "abort" => job[w].res = "Unauthorized"

(* A 401 is counted, then remembered by its worker until it is recorded.   *)
Remembers(w, k) ==
  pc[w] \in {"dec", "close", "abort"} /\ Key(w) = k /\ job[w].res = "Unauthorized"

AbortInv ==
  /\ \A w \in Workers, k \in Keys : Remembers(w, k) => tally[k] = <<"Unauthorized">>
  /\ abortErr => \E k \in Keys : tally[k] = <<"Unauthorized">>
  /\ \A k \in Keys : tally[k] = <<"Unauthorized">> =>
       abortErr \/ \E w \in Workers : Remembers(w, k)

(* The whole: what is proved to be inductive.                              *)
CrawlInv ==
  /\ TypeOK /\ MutexInv /\ LifeInv /\ PendingExact /\ CloseInv
  /\ PlaceInv /\ ResInv /\ AbortInv

-----------------------------------------------------------------------------
(***************************************************************************)
(* What is proved with its help: no reference is lost, the issue cap is    *)
(* exact, and the depth limit holds.                                       *)
(***************************************************************************)
(* What a page was rendered with is known, or is about to be enqueued.     *)
LinksInv ==
  \A w \in Workers : pc[w] \in {"write", "success"} =>
    links[Key(w)] \subseteq visited \cup KeysIn(ItemsAt(job[w].found, 0))

(* An issue that was fetched is counted by the worker that goes on to its  *)
(* references.                                                             *)
ReportInv == \A w \in Workers : pc[w] = "report" => job[w].res # "Fetched"

(* What the child search found are children of the issue.                  *)
FoundInv ==
  \A w \in Workers : pc[w] \in InProcess =>
    KeysIn(ItemsAt(job[w].found, 0)) \subseteq KeysIn(ItemsAt(Children[Key(w)], 0))

(* The depth of an item is the rank of its issue, and the references in    *)
(* hand are one deeper than the fetched issue that makes them.             *)
DepthInv(rank) ==
  /\ Routed(rank)
  /\ \A i \in 1 .. Len(queue) : rank[queue[i].key] = queue[i].depth
  /\ \A w \in Workers : Held(w) \/ pc[w] \in {"expand", "send"} => rank[Key(w)] = job[w].depth
  /\ \A p \in Procs : Sending(p) => rank[SendKey(p)] = Head(todo[p]).depth
  /\ \A i \in 1 .. Len(todo[Main]) : todo[Main][i].key \in KeysIn(ItemsAt(StartKeys, 0))
  /\ \A w \in Workers : pc[w] \in {"expand", "send"} =>
       /\ Key(w) \in visited /\ tally[Key(w)] = <<"Fetched">>
       /\ \A i \in 1 .. Len(todo[w]) :
            todo[w][i].key \in Linkable(Key(w)) /\ todo[w][i].depth > job[w].depth

RanksInv == DepthLimit > 0 => \E rank \in [Keys -> 0 .. DepthLimit] : DepthInv(rank)
=============================================================================
