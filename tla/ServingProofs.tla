--------------------------- MODULE ServingProofs ----------------------------
(***************************************************************************)
(* The inductive invariant of Serving, and what follows from it: a stop    *)
(* cuts no call, a call runs with its own configuration, a success is      *)
(* complete, and the progress of a crawl is faithful.                      *)
(***************************************************************************)
EXTENDS Serving, SequenceTheorems, FiniteSetTheorems, FunctionTheorems, TLAPS

-----------------------------------------------------------------------------
(* Every variable has its type.                                            *)
Tellings == {"", "Unauthenticated", "PermissionDenied", "NotFound", "ResourceExhausted",
             "InvalidArgument", "FailedPrecondition", "Internal", "unclassified"} \cup Causes
CallState == [req : Request, at : {"new", "refused", "waiting", "ok", "error", "cut"},
              sum : BOOLEAN, told : Tellings]
HandlerState == [at : {"none", "running", "ended"}, on : {"", "server", "session"},
                 cfg : Config, cause : Causes \cup {""}, done : Nat]

TypeOK ==
  /\ server \in {"down", "listening", "draining", "returned"}
  /\ exit \in {"", "nil", "error"}
  /\ signalled \in BOOLEAN
  /\ cfg \in Config
  /\ call \in [Calls -> CallState]
  /\ handler \in [Calls -> HandlerState]
  /\ worker \in [Calls -> [Workers -> {"fetch", "sending", "overlapped", "notify", "done"}]]
  /\ number \in [Calls -> [Workers -> Nat]]
  /\ stream \in [Calls -> Seq({"fetched", "summary"})]
  /\ progress \in [Calls -> Seq(Nat)]

(* A stop is asked for before it begins, and ends when no call is left.    *)
StopInv ==
  /\ server \in {"down", "listening", "draining"} => exit = ""
  /\ server = "draining" => signalled
  /\ StopWaits

(* A call has a handler once it is accepted, on the side that it asked.    *)
PlaceInv ==
  \A c \in Calls :
    /\ handler[c].at = "none" <=> call[c].at \in {"new", "refused"}
    /\ handler[c].at # "none" => (handler[c].on = "server" <=> Remote(c))

(* The server's configuration is never written to, and what a call runs    *)
(* with is that configuration with the call's own message applied to it.   *)
OwnMessage(c) ==
  handler[c].cfg = IF Remote(c) /\ call[c].req.kind = "graph" THEN Overridden(Defaults, Asks(c))
                   ELSE Defaults
ConfigInv == cfg = Defaults /\ \A c \in Calls : handler[c].at # "none" => OwnMessage(c)

(* The summary of a crawl that succeeded is with its caller, or on its way.*)
OnItsWay(c) == \E i \in 1 .. Len(stream[c]) : stream[c][i] = "summary"
SummaryInv ==
  \A c \in Calls :
    /\ call[c].at = "waiting" /\ handler[c].at = "ended" /\ handler[c].cause = ""
    /\ Crawls(c) /\ Remote(c)
    => call[c].sum \/ OnItsWay(c)

(* The progress of a crawl: over the bridge the events are counted as they *)
(* come; in the session each worker has a number of its own, up to the     *)
(* counter, and the notified ones are those of the workers that are done.  *)
Counted(c) == {w \in Workers : worker[c][w] # "fetch"}
DoneIn(c)  == {w \in Workers : worker[c][w] = "done"}

SessionProgress(c) ==
  /\ \A w \in Workers : worker[c][w] \in {"fetch", "notify", "done"}
  /\ handler[c].done = Cardinality(Counted(c))
  /\ \A w \in Counted(c) : number[c][w] \in 1 .. handler[c].done
  /\ \A v, w \in Counted(c) : number[c][v] = number[c][w] => v = w
  /\ \A i \in 1 .. Len(progress[c]) : \E w \in DoneIn(c) : number[c][w] = progress[c][i]
  /\ \A w \in DoneIn(c) : \E i \in 1 .. Len(progress[c]) : number[c][w] = progress[c][i]
  /\ \A i, j \in 1 .. Len(progress[c]) : progress[c][i] = progress[c][j] => i = j
  /\ handler[c].at = "ended" /\ handler[c].cause = "" /\ Crawls(c) => DoneIn(c) = Workers

ServerProgress(c) ==
  /\ \A w \in Workers : worker[c][w] # "notify"
  /\ IF ByBridge(c) THEN \A i \in 1 .. Len(progress[c]) : progress[c][i] = i
     ELSE progress[c] = << >>

NoProgress(c) ==
  /\ \A w \in Workers : worker[c][w] = "fetch"
  /\ handler[c].done = 0 /\ progress[c] = << >>

ProgressFor(c) ==
  /\ handler[c].at = "none" <=> handler[c].on = ""
  /\ handler[c].on = "" => NoProgress(c)
  /\ handler[c].on = "server" => ServerProgress(c)
  /\ handler[c].on = "session" => SessionProgress(c)
ProgressInv == \A c \in Calls : ProgressFor(c)

ServingInv == TypeOK /\ StopInv /\ PlaceInv /\ ConfigInv /\ SummaryInv /\ SuccessIsComplete

-----------------------------------------------------------------------------
(* The invariant holds at the beginning.                                   *)
LEMMA InitServing == Init => ServingInv
<1> SUFFICES ASSUME Init PROVE ServingInv
  OBVIOUS
<1>1. PICK r \in Requests : call = [c \in Calls |-> NewCall(r[c])]
  BY DEF Init
<1>2. /\ call \in [Calls -> CallState]
      /\ \A c \in Calls : call[c].at = "new"
  <2>1. \A c \in Calls : r[c] \in Request
    BY ServingAssumption
  <2>2. \A c \in Calls : NewCall(r[c]) \in CallState
    BY <2>1 DEF NewCall, CallState, Tellings
  <2> QED
    BY <1>1, <2>2 DEF NewCall
<1>3. NoHandler \in HandlerState /\ NoHandler.at = "none"
  BY ServingAssumption DEF NoHandler, HandlerState
<1>4. handler = [c \in Calls |-> NoHandler]
  BY DEF Init
<1>5. TypeOK
  <2>1. << >> \in Seq({"fetched", "summary"}) /\ << >> \in Seq(Nat)
    OBVIOUS
  <2>2. /\ worker \in [Calls -> [Workers -> {"fetch", "sending", "overlapped", "notify", "done"}]]
        /\ number \in [Calls -> [Workers -> Nat]]
        /\ stream \in [Calls -> Seq({"fetched", "summary"})] /\ progress \in [Calls -> Seq(Nat)]
    BY <2>1 DEF Init
  <2>3. /\ server \in {"down", "listening", "draining", "returned"} /\ exit \in {"", "nil", "error"}
        /\ signalled \in BOOLEAN /\ cfg \in Config
    BY ServingAssumption DEF Init
  <2>4. handler \in [Calls -> HandlerState]
    BY <1>3, <1>4
  <2> QED
    BY <1>2, <2>2, <2>3, <2>4 DEF TypeOK
<1>6. StopInv
  BY DEF Init, StopInv, StopWaits
<1> QED
  BY <1>2, <1>3, <1>4, <1>5, <1>6
  DEF Init, ServingInv, PlaceInv, ConfigInv, SummaryInv, SuccessIsComplete

-----------------------------------------------------------------------------
(* Who changes what.                                                       *)
LEMMA WhoChanges ==
  ASSUME [Next]_vars
  PROVE  /\ mode' = mode /\ cfg' = cfg
         /\ \/ UNCHANGED call
            \/ \E c \in Calls : Make(c) \/ Answer(c) \/ Receive(c) \/ Break(c)
            \/ AcceptFails \/ CloseSession
         /\ \/ UNCHANGED handler
            \/ \E c \in Calls : Make(c) \/ Succeed(c) \/ HandlerFails(c) \/ \E w \in Workers : Count(c, w)
            \/ AcceptFails
         /\ \/ UNCHANGED stream
            \/ \E c \in Calls : Succeed(c) \/ Receive(c) \/ \E w \in Workers : EndSend(c, w)
         /\ \/ UNCHANGED <<worker, number>>
            \/ \E c \in Calls, w \in Workers :
                 BeginSend(c, w) \/ EndSend(c, w) \/ Count(c, w) \/ Notify(c, w)
         /\ \/ UNCHANGED progress
            \/ \E c \in Calls : Receive(c) \/ \E w \in Workers : Notify(c, w)
<1> USE DEF Next, Work, vars, mcp, emitting, lifecycle
<1>1. mode' = mode /\ cfg' = cfg
  BY DEF Listen, Signal, GracefulStop, Drained, AcceptFails, ServeMCP, CloseSession,
         Make, BeginSend, EndSend, Count, Notify, Succeed, HandlerFails, End, Receive, Answer, Break
<1>2. \/ UNCHANGED call
      \/ \E c \in Calls : Make(c) \/ Answer(c) \/ Receive(c) \/ Break(c)
      \/ AcceptFails \/ CloseSession
  BY DEF Listen, Signal, GracefulStop, Drained, ServeMCP,
         BeginSend, EndSend, Count, Notify, Succeed, HandlerFails, End
<1>3. \/ UNCHANGED handler
      \/ \E c \in Calls : Make(c) \/ Succeed(c) \/ HandlerFails(c) \/ \E w \in Workers : Count(c, w)
      \/ AcceptFails
  BY DEF Listen, Signal, GracefulStop, Drained, ServeMCP, CloseSession,
         BeginSend, EndSend, Notify, Receive, Answer, Break
<1>4. \/ UNCHANGED stream
      \/ \E c \in Calls : Succeed(c) \/ Receive(c) \/ \E w \in Workers : EndSend(c, w)
  BY DEF Listen, Signal, GracefulStop, Drained, AcceptFails, ServeMCP, CloseSession,
         Make, BeginSend, Count, Notify, HandlerFails, End, Answer, Break
<1>5. \/ UNCHANGED <<worker, number>>
      \/ \E c \in Calls, w \in Workers :
           BeginSend(c, w) \/ EndSend(c, w) \/ Count(c, w) \/ Notify(c, w)
  BY DEF Listen, Signal, GracefulStop, Drained, AcceptFails, ServeMCP, CloseSession,
         Make, Succeed, HandlerFails, End, Receive, Answer, Break
<1>6. \/ UNCHANGED progress
      \/ \E c \in Calls : Receive(c) \/ \E w \in Workers : Notify(c, w)
  BY DEF Listen, Signal, GracefulStop, Drained, AcceptFails, ServeMCP, CloseSession,
         Make, BeginSend, EndSend, Count, Succeed, HandlerFails, End, Answer, Break
<1> QED
  BY <1>1, <1>2, <1>3, <1>4, <1>5, <1>6

(* How a call and its handler change.                                      *)
CallTo(c, at)    == call' = [call EXCEPT ![c] = [call[c] EXCEPT !.at = at]]
HandlerEnds(c)   == \E cause \in Causes \cup {""} :
  handler' = [handler EXCEPT ![c] = [handler[c] EXCEPT !.at = "ended", !.cause = cause]]
HandlerStarts(c) == handler' = [handler EXCEPT ![c] =
  [handler[c] EXCEPT !.at = "running", !.cfg = ConfigFor(c), !.on = IF Remote(c) THEN "server" ELSE "session"]]

(* A call is refused, or waits while its handler starts; over the network  *)
(* the server listens.                                                     *)
LEMMA MakeEffect ==
  ASSUME NEW c \in Calls, Make(c)
  PROVE  /\ call[c].at = "new"
         /\ \/ CallTo(c, "refused") /\ UNCHANGED handler
            \/ CallTo(c, "waiting") /\ HandlerStarts(c) /\ (Remote(c) => server = "listening")
BY DEF Make, Place, Refuse, Start, CallTo, HandlerStarts

(* A handler that succeeds or fails ends.                                  *)
LEMMA EndEffect ==
  ASSUME NEW c \in Calls, Succeed(c) \/ HandlerFails(c)
  PROVE  HandlerEnds(c)
BY DEF Succeed, HandlerFails, End, HandlerEnds

(* What a caller is told is one of the tellings.                           *)
LEMMA ToldType ==
  ASSUME TypeOK, NEW c \in Calls
  PROVE  Told(c) \in Tellings
<1>1. handler[c].cause \in Causes \cup {""}
  BY DEF TypeOK, HandlerState
<1>2. ToStatusError(handler[c].cause) \in Tellings
  BY DEF ToStatusError, Tellings
<1>3. ClassifyError(handler[c].cause) \in Tellings
  BY <1>1 DEF ClassifyError, Tellings
<1> QED
  BY <1>2, <1>3 DEF Told, Tellings

(* A call is answered ok exactly when its handler has no cause for an      *)
(* error.                                                                  *)
LEMMA AnswerEffect ==
  ASSUME TypeOK, NEW c \in Calls, Answer(c)
  PROVE  \E a \in {"ok", "error"}, t \in Tellings :
           /\ call' = [call EXCEPT ![c] = [call[c] EXCEPT !.at = a, !.told = t]]
           /\ a = "ok" <=> handler[c].cause = ""
<1>1. "" \in Tellings /\ Told(c) \in Tellings
  BY ToldType DEF Tellings
<1> DEFINE at == IF handler[c].cause = "" THEN "ok" ELSE "error"
           t == IF handler[c].cause = "" THEN "" ELSE Told(c)
<1>2. call' = [call EXCEPT ![c] = [call[c] EXCEPT !.at = at, !.told = t]]
  BY DEF Answer
<1>3. at \in {"ok", "error"} /\ t \in Tellings /\ (at = "ok" <=> handler[c].cause = "")
  BY <1>1
<1> QED
  BY <1>2, <1>3

(* A summary that was received, or is received now, is noted.              *)
LEMMA ReceiveEffect ==
  ASSUME NEW c \in Calls, Receive(c)
  PROVE  \E b \in BOOLEAN :
           /\ call' = [call EXCEPT ![c] = [call[c] EXCEPT !.sum = b]]
           /\ call[c].sum \/ Head(stream[c]) = "summary" => b
<1> DEFINE b == call[c].sum \/ Head(stream[c]) = "summary"
<1>1. call' = [call EXCEPT ![c] = [call[c] EXCEPT !.sum = b]]
  BY DEF Receive
<1>2. b \in BOOLEAN
  OBVIOUS
<1> QED
  BY <1>1, <1>2

(* Every step keeps the types of the calls.                                *)
LEMMA CallType ==
  ASSUME TypeOK, [Next]_vars
  PROVE  call' \in [Calls -> CallState]
<1>t. call \in [Calls -> CallState]
  BY DEF TypeOK
<1>1. ASSUME NEW c \in Calls, Make(c) PROVE call' \in [Calls -> CallState]
  BY <1>1, <1>t, MakeEffect DEF CallTo, CallState
<1>2. ASSUME NEW c \in Calls, Answer(c) PROVE call' \in [Calls -> CallState]
  <2>1. \A a \in {"ok", "error"}, u \in Tellings : [call[c] EXCEPT !.at = a, !.told = u] \in CallState
    BY <1>t DEF CallState
  <2>2. \E x \in CallState : call' = [call EXCEPT ![c] = x]
    BY <1>2, <2>1, AnswerEffect
  <2> QED
    BY <1>t, <2>2
<1>3. ASSUME NEW c \in Calls, Receive(c) PROVE call' \in [Calls -> CallState]
  BY <1>3, <1>t, ReceiveEffect DEF CallState
<1>4. ASSUME NEW c \in Calls, Break(c) PROVE call' \in [Calls -> CallState]
  BY <1>4, <1>t DEF Break, CallState
<1>5. ASSUME AcceptFails \/ CloseSession PROVE call' \in [Calls -> CallState]
  <2>1. \A c \in Calls : [call[c] EXCEPT !.at = "cut"] \in CallState /\ call[c] \in CallState
    BY <1>t DEF CallState
  <2> QED
    BY <1>5, <2>1 DEF AcceptFails, CloseSession
<1> QED
  BY <1>t, <1>1, <1>2, <1>3, <1>4, <1>5, WhoChanges

(* Every step keeps the types of the handlers.                             *)
LEMMA HandlerType ==
  ASSUME TypeOK, [Next]_vars
  PROVE  handler' \in [Calls -> HandlerState]
<1>t. handler \in [Calls -> HandlerState]
  BY DEF TypeOK
<1>p. ASSUME NEW c \in Calls, NEW x \in HandlerState, handler' = [handler EXCEPT ![c] = x]
      PROVE  handler' \in [Calls -> HandlerState]
  BY <1>t, <1>p
<1>h. \A c \in Calls : handler[c] \in HandlerState
  BY <1>t
<1>i. ASSUME NEW h \in HandlerState
      PROVE  /\ \A k \in Config, o \in {"", "server", "session"} :
                  [h EXCEPT !.at = "running", !.cfg = k, !.on = o] \in HandlerState
             /\ \A x \in Causes \cup {""} : [h EXCEPT !.at = "ended", !.cause = x] \in HandlerState
             /\ [h EXCEPT !.at = "ended"] \in HandlerState
             /\ [h EXCEPT !.done = h.done + 1] \in HandlerState
  <2>1. \A k \in Config, o \in {"", "server", "session"} :
          [h EXCEPT !.at = "running", !.cfg = k, !.on = o] \in HandlerState
    BY DEF HandlerState
  <2>2. \A x \in Causes \cup {""} : [h EXCEPT !.at = "ended", !.cause = x] \in HandlerState
    BY DEF HandlerState
  <2>3. [h EXCEPT !.at = "ended"] \in HandlerState
    BY DEF HandlerState
  <2>4. [h EXCEPT !.done = h.done + 1] \in HandlerState
    <3>0. h.done \in Nat
      BY DEF HandlerState
    <3>1. h.done + 1 \in Nat
      BY <3>0
    <3>2. \A n \in Nat : [h EXCEPT !.done = n] \in HandlerState
      BY DEF HandlerState
    <3> QED
      BY <3>1, <3>2
  <2> QED
    BY <2>1, <2>2, <2>3, <2>4
<1>1. ASSUME NEW c \in Calls, HandlerStarts(c) PROVE handler' \in [Calls -> HandlerState]
  <2>1. cfg \in Config /\ call[c] \in CallState
    BY DEF TypeOK
  <2>2. Asks(c) \in Request
    <3>1. call[c].req \in Request
      BY <2>1 DEF CallState
    <3>2. \A n \in Int, b \in BOOLEAN : [call[c].req EXCEPT !.issueCap = n, !.children = b] \in Request
      BY <3>1 DEF Request
    <3>3. 0 \in Int /\ FALSE \in BOOLEAN
      OBVIOUS
    <3>4. [call[c].req EXCEPT !.issueCap = 0, !.children = FALSE] \in Request
      BY <3>2, <3>3, Zenon
    <3> QED
      BY <3>1, <3>4, Zenon DEF Asks
  <2>3. ConfigFor(c) \in Config
    BY <2>1, <2>2 DEF ConfigFor, Overridden, Config, Request
  <2>4. [handler[c] EXCEPT !.at = "running", !.cfg = ConfigFor(c),
                           !.on = IF Remote(c) THEN "server" ELSE "session"] \in HandlerState
    BY <1>h, <1>i, <2>3
  <2> QED
    BY <1>1, <1>p, <2>4 DEF HandlerStarts
<1>2. ASSUME NEW c \in Calls, HandlerEnds(c) PROVE handler' \in [Calls -> HandlerState]
  BY <1>2, <1>p, <1>h, <1>i DEF HandlerEnds
<1>3. ASSUME NEW c \in Calls, NEW w \in Workers, Count(c, w) PROVE handler' \in [Calls -> HandlerState]
  <2>1. handler' = [handler EXCEPT ![c] = [handler[c] EXCEPT !.done = handler[c].done + 1]]
    BY <1>3 DEF Count
  <2> QED
    BY <1>p, <1>h, <1>i, <2>1
<1>4. ASSUME AcceptFails PROVE handler' \in [Calls -> HandlerState]
  BY <1>4, <1>h, <1>i DEF AcceptFails
<1> QED
  BY <1>t, <1>1, <1>2, <1>3, <1>4, WhoChanges, MakeEffect, EndEffect

(* Every step keeps the types of the workers and of what they emit.        *)
LEMMA EmitType ==
  ASSUME TypeOK, [Next]_vars
  PROVE  /\ worker' \in [Calls -> [Workers -> {"fetch", "sending", "overlapped", "notify", "done"}]]
         /\ number' \in [Calls -> [Workers -> Nat]]
         /\ stream' \in [Calls -> Seq({"fetched", "summary"})]
         /\ progress' \in [Calls -> Seq(Nat)]
<1> DEFINE At == {"fetch", "sending", "overlapped", "notify", "done"}
<1>t. /\ worker \in [Calls -> [Workers -> At]]
      /\ number \in [Calls -> [Workers -> Nat]]
      /\ stream \in [Calls -> Seq({"fetched", "summary"})]
      /\ progress \in [Calls -> Seq(Nat)]
      /\ handler' \in [Calls -> HandlerState]
  BY HandlerType DEF TypeOK
<1>1. worker' \in [Calls -> [Workers -> At]] /\ number' \in [Calls -> [Workers -> Nat]]
  <2>1. ASSUME NEW c \in Calls, NEW w \in Workers, BeginSend(c, w)
        PROVE  worker' \in [Calls -> [Workers -> At]] /\ number' \in [Calls -> [Workers -> Nat]]
    BY <1>t, <2>1 DEF BeginSend
  <2>2. ASSUME NEW c \in Calls, NEW w \in Workers, EndSend(c, w) \/ Notify(c, w)
        PROVE  worker' \in [Calls -> [Workers -> At]] /\ number' \in [Calls -> [Workers -> Nat]]
    <3>1. worker' = [worker EXCEPT ![c] = [worker[c] EXCEPT ![w] = "done"]] /\ number' = number
      BY <2>2 DEF EndSend, Notify
    <3> QED
      BY <1>t, <3>1
  <2>3. ASSUME NEW c \in Calls, NEW w \in Workers, Count(c, w)
        PROVE  worker' \in [Calls -> [Workers -> At]] /\ number' \in [Calls -> [Workers -> Nat]]
    <3>1. /\ worker' = [worker EXCEPT ![c] = [worker[c] EXCEPT ![w] = "notify"]]
          /\ number' = [number EXCEPT ![c] = [number[c] EXCEPT ![w] = handler'[c].done]]
      BY <2>3 DEF Count
    <3>2. handler'[c].done \in Nat
      BY <1>t DEF HandlerState
    <3> QED
      BY <1>t, <3>1, <3>2
  <2> QED
    BY <1>t, <2>1, <2>2, <2>3, WhoChanges
<1>2. stream' \in [Calls -> Seq({"fetched", "summary"})]
  <2>0. \A c \in Calls, e \in {"fetched", "summary"} : Append(stream[c], e) \in Seq({"fetched", "summary"})
    BY <1>t
  <2>1. ASSUME NEW c \in Calls, Succeed(c) \/ (\E w \in Workers : EndSend(c, w))
        PROVE  stream' \in [Calls -> Seq({"fetched", "summary"})]
    <3>1. \/ UNCHANGED stream
          \/ \E e \in {"fetched", "summary"} : stream' = [stream EXCEPT ![c] = Append(stream[c], e)]
      BY <2>1 DEF Succeed, EndSend
    <3> QED
      BY <1>t, <2>0, <3>1
  <2>2. ASSUME NEW c \in Calls, Receive(c) PROVE stream' \in [Calls -> Seq({"fetched", "summary"})]
    <3>1. Tail(stream[c]) \in Seq({"fetched", "summary"})
      BY <1>t, <2>2, HeadTailProperties DEF Receive
    <3> QED
      BY <1>t, <2>2, <3>1 DEF Receive
  <2> QED
    BY <1>t, <2>1, <2>2, WhoChanges
<1>3. progress' \in [Calls -> Seq(Nat)]
  <2>1. ASSUME NEW c \in Calls, NEW w \in Workers, Notify(c, w) PROVE progress' \in [Calls -> Seq(Nat)]
    BY <1>t, <2>1 DEF Notify
  <2>2. ASSUME NEW c \in Calls, Receive(c) PROVE progress' \in [Calls -> Seq(Nat)]
    <3>1. Append(progress[c], Len(progress[c]) + 1) \in Seq(Nat)
      BY <1>t
    <3> QED
      BY <1>t, <2>2, <3>1 DEF Receive
  <2> QED
    BY <1>t, <2>1, <2>2, WhoChanges
<1> QED
  BY <1>1, <1>2, <1>3

(* Every step keeps the types of the server.                               *)
LEMMA ServerType ==
  ASSUME TypeOK, [Next]_vars
  PROVE  /\ server' \in {"down", "listening", "draining", "returned"}
         /\ exit' \in {"", "nil", "error"}
         /\ signalled' \in BOOLEAN
<1>t. /\ server \in {"down", "listening", "draining", "returned"}
      /\ exit \in {"", "nil", "error"}
      /\ signalled \in BOOLEAN
  BY DEF TypeOK
<1>1. UNCHANGED server \/ server' \in {"listening", "draining", "returned"}
  BY DEF Next, Work, vars, mcp, emitting, lifecycle,
         Listen, Signal, GracefulStop, Drained, AcceptFails, ServeMCP, CloseSession,
         Make, BeginSend, EndSend, Count, Notify, Succeed, HandlerFails, End, Receive, Answer, Break
<1>2. UNCHANGED exit \/ exit' \in {"nil", "error"}
  BY DEF Next, Work, vars, mcp, emitting, lifecycle,
         Listen, Signal, GracefulStop, Drained, AcceptFails, ServeMCP, CloseSession,
         Make, BeginSend, EndSend, Count, Notify, Succeed, HandlerFails, End, Receive, Answer, Break
<1>3. UNCHANGED signalled \/ signalled' = TRUE
  BY DEF Next, Work, vars, mcp, emitting, lifecycle,
         Listen, Signal, GracefulStop, Drained, AcceptFails, ServeMCP, CloseSession,
         Make, BeginSend, EndSend, Count, Notify, Succeed, HandlerFails, End, Receive, Answer, Break
<1>4. signalled' \in BOOLEAN
  BY <1>t, <1>3, Zenon
<1> QED
  BY <1>t, <1>1, <1>2, <1>4

(* Every step keeps all of them.                                           *)
LEMMA TypeStep ==
  ASSUME TypeOK, [Next]_vars
  PROVE  TypeOK'
<1>1. cfg' \in Config
  BY WhoChanges DEF TypeOK
<1> QED
  BY <1>1, CallType, HandlerType, EmitType, ServerType DEF TypeOK

-----------------------------------------------------------------------------
(* What a caller asked for, and over which side, does not change.          *)
LEMMA AsksStay ==
  ASSUME TypeOK, [Next]_vars
  PROVE  \A c \in Calls : call'[c].req = call[c].req
<1>t. call \in [Calls -> CallState]
  BY DEF TypeOK
<1>1. ASSUME NEW c \in Calls, NEW at, CallTo(c, at) PROVE \A d \in Calls : call'[d].req = call[d].req
  BY <1>1, <1>t DEF CallTo, CallState
<1>2. ASSUME NEW c \in Calls, Answer(c) PROVE \A d \in Calls : call'[d].req = call[d].req
  <2>1. PICK a \in {"ok", "error"}, u \in Tellings :
           call' = [call EXCEPT ![c] = [call[c] EXCEPT !.at = a, !.told = u]]
    BY <1>2, AnswerEffect
  <2> QED
    BY <1>t, <2>1 DEF CallState
<1>3. ASSUME NEW c \in Calls, Receive(c) PROVE \A d \in Calls : call'[d].req = call[d].req
  BY <1>3, <1>t, ReceiveEffect DEF CallState
<1>4. ASSUME NEW c \in Calls, Break(c) PROVE CallTo(c, "cut")
  BY <1>4 DEF Break, CallTo
<1>5. ASSUME AcceptFails \/ CloseSession PROVE \A d \in Calls : call'[d].req = call[d].req
  BY <1>5, <1>t DEF AcceptFails, CloseSession, CallState
<1> QED
  BY <1>1, <1>2, <1>3, <1>4, <1>5, MakeEffect, WhoChanges

(* What a call is, and what it asks for, stays.                            *)
LEMMA SidesStay ==
  ASSUME TypeOK, [Next]_vars
  PROVE  \A c \in Calls : /\ Remote(c)' <=> Remote(c)
                          /\ Crawls(c)' <=> Crawls(c)
                          /\ ByBridge(c)' <=> ByBridge(c)
                          /\ Asks(c)' = Asks(c)
BY AsksStay, WhoChanges DEF Remote, Crawls, ByBridge, Asks

(* A call and its handler, from one state to the next.                     *)
SameCall(c) == call'[c].at = call[c].at /\ (call[c].sum => call'[c].sum)
SameSide(c) == handler'[c].on = handler[c].on /\ handler'[c].cfg = handler[c].cfg
SameHandler(c) ==
  SameSide(c) /\ handler'[c].at = handler[c].at /\ handler'[c].cause = handler[c].cause

Moves(c) ==
  \/ SameCall(c) /\ SameHandler(c)
  \/ call[c].at = "new" /\ call'[c].at = "refused" /\ SameHandler(c)
  \/ /\ call[c].at = "new" /\ call'[c].at = "waiting"
     /\ handler'[c].at = "running" /\ handler'[c].cfg = ConfigFor(c)
     /\ handler'[c].on = IF Remote(c) THEN "server" ELSE "session"
     /\ Remote(c) => server = "listening"
  \/ /\ Running(c) /\ handler'[c].at = "ended" /\ SameSide(c) /\ SameCall(c)
     /\ handler'[c].cause = "" /\ Served(c) /\ Crawls(c) => OnItsWay(c)'
  \/ /\ Running(c) /\ handler'[c].at = "ended" /\ SameSide(c)
     /\ call'[c].at = IF call[c].at = "waiting" THEN "cut" ELSE call[c].at
     /\ call'[c].sum = call[c].sum
  \/ call[c].at = "waiting" /\ call'[c].at \in {"error", "cut"} /\ SameHandler(c)
  \/ /\ call[c].at = "waiting" /\ call'[c].at = "ok" /\ SameHandler(c)
     /\ handler[c].at = "ended" /\ handler[c].cause = "" /\ stream[c] = << >>
     /\ call'[c].sum = call[c].sum

(* A step does to a call one of the things above, or nothing.              *)
LEMMA CallMoves ==
  ASSUME TypeOK, [Next]_vars
  PROVE  \A c \in Calls : Moves(c)
<1>t. /\ call \in [Calls -> CallState] /\ handler \in [Calls -> HandlerState]
      /\ stream \in [Calls -> Seq({"fetched", "summary"})]
  BY DEF TypeOK
<1>s. UNCHANGED <<call, handler>> => \A c \in Calls : Moves(c)
  BY DEF Moves, SameCall, SameHandler, SameSide
<1>1. ASSUME NEW c \in Calls, Make(c) PROVE \A d \in Calls : Moves(d)
  <2>1. CASE CallTo(c, "refused") /\ UNCHANGED handler
    BY <1>t, <1>1, <2>1, MakeEffect DEF CallTo, CallState, Moves, SameCall, SameHandler, SameSide
  <2>2. CASE CallTo(c, "waiting") /\ HandlerStarts(c) /\ (Remote(c) => server = "listening")
    <3>1. call[c].at = "new"
      BY <1>1, MakeEffect
    <3>2. \A d \in Calls : d # c => call'[d] = call[d] /\ handler'[d] = handler[d]
      BY <1>t, <2>2 DEF CallTo, HandlerStarts
    <3>3. call'[c].at = "waiting"
      BY <1>t, <2>2 DEF CallTo, CallState
    <3>4. /\ handler'[c].at = "running" /\ handler'[c].cfg = ConfigFor(c)
          /\ handler'[c].on = IF Remote(c) THEN "server" ELSE "session"
      BY <1>t, <2>2 DEF HandlerStarts, HandlerState
    <3> QED
      BY <2>2, <3>1, <3>2, <3>3, <3>4 DEF Moves, SameCall, SameHandler, SameSide
  <2> QED
    BY <1>1, <2>1, <2>2, MakeEffect
<1>2. ASSUME NEW c \in Calls, Succeed(c) \/ HandlerFails(c) PROVE \A d \in Calls : Moves(d)
  <2>1. Running(c) /\ UNCHANGED call /\ HandlerEnds(c)
    BY <1>2, EndEffect DEF Succeed, HandlerFails
  <2>2. \A d \in Calls : d # c => handler'[d] = handler[d]
    BY <1>t, <2>1 DEF HandlerEnds
  <2>3. handler'[c].at = "ended" /\ SameSide(c)
    BY <1>t, <2>1 DEF HandlerEnds, HandlerState, SameSide
  <2>4. handler'[c].cause = "" /\ Served(c) /\ Crawls(c) => OnItsWay(c)'
    <3>1. ASSUME HandlerFails(c) PROVE handler'[c].cause # ""
      <4>1. PICK cause \in Causes : handler' = [handler EXCEPT ![c] = [handler[c] EXCEPT !.at = "ended", !.cause = cause]]
        BY <3>1 DEF HandlerFails, End
      <4> QED
        BY <1>t, <4>1, ServingAssumption DEF HandlerState
    <3>2. ASSUME Succeed(c), Served(c), Crawls(c) PROVE OnItsWay(c)'
      <4>1. stream'[c] = Append(stream[c], "summary") /\ stream[c] \in Seq({"fetched", "summary"})
        BY <1>t, <3>2 DEF Succeed
      <4>2. Len(stream'[c]) = Len(stream[c]) + 1 /\ Len(stream[c]) \in Nat
            /\ stream'[c][Len(stream[c]) + 1] = "summary"
        BY <4>1
      <4>3. Len(stream[c]) + 1 \in 1 .. Len(stream'[c])
        BY <4>2
      <4> QED
        BY <4>2, <4>3 DEF OnItsWay
    <3> QED
      BY <1>2, <3>1, <3>2
  <2> QED
    BY <2>1, <2>2, <2>3, <2>4 DEF Moves, SameCall, SameHandler, SameSide
<1>3. ASSUME NEW c \in Calls, NEW w \in Workers, Count(c, w) PROVE \A d \in Calls : Moves(d)
  <2>1. handler' = [handler EXCEPT ![c] = [handler[c] EXCEPT !.done = handler[c].done + 1]] /\ UNCHANGED call
    BY <1>3 DEF Count
  <2>2. \A d \in Calls : SameHandler(d)
    BY <1>t, <2>1 DEF HandlerState, SameHandler, SameSide
  <2> QED
    BY <2>1, <2>2 DEF Moves, SameCall
<1>4. ASSUME NEW c \in Calls, Receive(c) PROVE \A d \in Calls : Moves(d)
  <2>1. UNCHANGED handler /\ \A d \in Calls : SameCall(d)
    BY <1>t, <1>4, ReceiveEffect DEF Receive, SameCall, CallState
  <2> QED
    BY <2>1 DEF Moves, SameHandler, SameSide
<1>5. ASSUME NEW c \in Calls, Answer(c) PROVE \A d \in Calls : Moves(d)
  <2>1. /\ UNCHANGED handler /\ call[c].at = "waiting" /\ handler[c].at = "ended" /\ stream[c] = << >>
    BY <1>5 DEF Answer, Answered
  <2>2. \A d \in Calls : d # c => call'[d] = call[d]
    BY <1>t, <1>5, AnswerEffect
  <2>3. /\ call'[c].at = IF handler[c].cause = "" THEN "ok" ELSE "error"
        /\ call'[c].sum = call[c].sum
    <3>1. PICK a \in {"ok", "error"}, u \in Tellings :
             /\ call' = [call EXCEPT ![c] = [call[c] EXCEPT !.at = a, !.told = u]]
             /\ a = "ok" <=> handler[c].cause = ""
      BY <1>5, AnswerEffect
    <3>2. call'[c].at = a /\ call'[c].sum = call[c].sum
      BY <1>t, <3>1 DEF CallState
    <3> QED
      BY <3>1, <3>2
  <2> QED
    BY <2>1, <2>2, <2>3 DEF Moves, SameCall, SameHandler, SameSide
<1>6. ASSUME NEW c \in Calls, Break(c) PROVE \A d \in Calls : Moves(d)
  BY <1>t, <1>6 DEF Break, CallState, Moves, SameCall, SameHandler, SameSide
<1>7. ASSUME CloseSession PROVE \A d \in Calls : Moves(d)
  BY <1>t, <1>7 DEF CloseSession, CallState, Moves, SameCall, SameHandler, SameSide
<1>8. ASSUME AcceptFails, NEW d \in Calls PROVE Moves(d)
  <2>1. /\ call' = [c \in Calls |-> IF Served(c) /\ call[c].at = "waiting"
                                    THEN [call[c] EXCEPT !.at = "cut"] ELSE call[c]]
        /\ handler' = [c \in Calls |-> IF Served(c) THEN [handler[c] EXCEPT !.at = "ended"]
                                       ELSE handler[c]]
        /\ UNCHANGED <<cfg, stream>>
    BY <1>8 DEF AcceptFails, emitting
  <2>2. CASE ~Served(d)
    <3>1. call'[d] = call[d] /\ handler'[d] = handler[d]
      BY <2>1, <2>2
    <3>2. SameCall(d) /\ SameHandler(d)
      BY <3>1 DEF SameCall, SameHandler, SameSide
    <3> QED
      BY <3>2 DEF Moves
  <2>3. CASE Served(d)
    <3>1. /\ call'[d] = IF call[d].at = "waiting" THEN [call[d] EXCEPT !.at = "cut"] ELSE call[d]
          /\ handler'[d] = [handler[d] EXCEPT !.at = "ended"]
      BY <2>1, <2>3
    <3>2. /\ call'[d].at = IF call[d].at = "waiting" THEN "cut" ELSE call[d].at
          /\ call'[d].sum = call[d].sum
      BY <1>t, <3>1 DEF CallState
    <3>3. handler'[d].at = "ended" /\ SameSide(d)
      <4>1. ASSUME NEW h \in HandlerState
            PROVE  /\ [h EXCEPT !.at = "ended"].at = "ended"
                   /\ [h EXCEPT !.at = "ended"].on = h.on
                   /\ [h EXCEPT !.at = "ended"].cfg = h.cfg
        BY DEF HandlerState
      <4> QED
        BY <1>t, <3>1, <4>1 DEF SameSide
    <3>4. Running(d)
      BY <2>3 DEF Served
    <3> QED
      BY <3>2, <3>3, <3>4 DEF Moves
  <2> QED
    BY <2>2, <2>3
<1>9. \/ UNCHANGED <<call, handler>>
      \/ \E c \in Calls : Make(c) \/ Succeed(c) \/ HandlerFails(c) \/ Receive(c) \/ Answer(c)
                          \/ Break(c) \/ \E w \in Workers : Count(c, w)
      \/ CloseSession \/ AcceptFails
  BY DEF Next, Work, vars, Listen, Signal, GracefulStop, Drained, ServeMCP, BeginSend, EndSend, Notify
<1> QED
  BY <1>s, <1>1, <1>2, <1>3, <1>4, <1>5, <1>6, <1>7, <1>8, <1>9

(* A handler stays where its call and the server allow it to be.           *)
LEMMA PlaceStep ==
  ASSUME TypeOK, PlaceInv, [Next]_vars
  PROVE  PlaceInv'
<1>1. ASSUME NEW c \in Calls
      PROVE  /\ handler'[c].at = "none" <=> call'[c].at \in {"new", "refused"}
             /\ handler'[c].at # "none" => (handler'[c].on = "server" <=> Remote(c))
  <2>1. Moves(c)
    BY CallMoves
  <2> QED
    BY <2>1 DEF Moves, SameCall, SameHandler, SameSide, PlaceInv, Running
<1> QED
  BY <1>1, SidesStay DEF PlaceInv

(* The server does not exit before it stops, and drains after a signal     *)
(* only.                                                                   *)
LEMMA StopStep ==
  ASSUME TypeOK, StopInv, [Next]_vars
  PROVE  StopInv'
<1>1. \A c \in Calls : Served(c)' => Served(c) \/ server = "listening"
  <2>1. ASSUME NEW c \in Calls, Served(c)' PROVE Served(c) \/ server = "listening"
    <3>1. Moves(c)
      BY CallMoves
    <3> QED
      BY <2>1, <3>1 DEF Moves, SameHandler, SameSide, Served, Running
  <2> QED
    BY <2>1
<1>s. signalled => signalled'
  BY DEF Next, Work, vars, lifecycle, Listen, Signal, GracefulStop, Drained, AcceptFails, ServeMCP, CloseSession,
         Make, BeginSend, EndSend, Count, Notify, Succeed, HandlerFails, End, Receive, Answer, Break
<1>2. \/ UNCHANGED <<server, exit>>
      \/ Listen \/ Signal \/ GracefulStop \/ Drained \/ AcceptFails
  <2>1. ASSUME NEW c \in Calls,
               \/ Make(c) \/ Work(c) \/ HandlerFails(c) \/ Receive(c) \/ Answer(c) \/ Break(c)
        PROVE  UNCHANGED <<server, exit>>
    BY <2>1 DEF Work, lifecycle, Make, BeginSend, EndSend, Count, Notify, Succeed, HandlerFails,
                End, Receive, Answer, Break
  <2>2. ASSUME ServeMCP \/ CloseSession \/ UNCHANGED vars PROVE UNCHANGED <<server, exit>>
    BY <2>2 DEF vars, lifecycle, ServeMCP, CloseSession
  <2> QED
    BY <2>1, <2>2 DEF Next
<1>3. CASE UNCHANGED <<server, exit>>
  BY <1>1, <1>3, <1>s DEF StopInv, StopWaits
<1>4. CASE Listen \/ Signal \/ GracefulStop
  BY <1>1, <1>4, <1>s DEF StopInv, StopWaits, Listen, Signal, GracefulStop
<1>5. CASE Drained
  BY <1>1, <1>5, <1>s DEF StopInv, StopWaits, Drained
<1>6. CASE AcceptFails
  BY <1>6 DEF StopInv, StopWaits, AcceptFails
<1> QED
  BY <1>2, <1>3, <1>4, <1>5, <1>6

(* The configuration of the server never changes.                          *)
LEMMA ConfigStep ==
  ASSUME TypeOK, ConfigInv, [Next]_vars
  PROVE  ConfigInv'
<1>1. cfg' = Defaults
  BY WhoChanges DEF ConfigInv
<1>2. ASSUME NEW c \in Calls, handler'[c].at # "none"
      PROVE  handler'[c].cfg = IF Remote(c) /\ call[c].req.kind = "graph"
                               THEN Overridden(Defaults, Asks(c)) ELSE Defaults
  <2>1. Moves(c)
    BY CallMoves
  <2> QED
    BY <1>2, <2>1 DEF Moves, SameHandler, SameSide, ConfigInv, OwnMessage, ConfigFor, Running
<1> QED
  BY <1>1, <1>2, SidesStay, AsksStay DEF ConfigInv, OwnMessage

(* The caller takes the events one by one, and keeps the summary.          *)
LEMMA SummaryKept ==
  ASSUME TypeOK, [Next]_vars, NEW c \in Calls, OnItsWay(c)
  PROVE  OnItsWay(c)' \/ call'[c].sum
<1>u. stream \in [Calls -> Seq({"fetched", "summary"})] /\ call \in [Calls -> CallState]
  BY DEF TypeOK
<1>v. stream[c] \in Seq({"fetched", "summary"})
  BY <1>u
<1>t. /\ stream \in [Calls -> Seq({"fetched", "summary"})] /\ call \in [Calls -> CallState]
      /\ stream[c] \in Seq({"fetched", "summary"}) /\ Len(stream[c]) \in Nat
  BY <1>u, <1>v
<1>1. PICK i \in 1 .. Len(stream[c]) : stream[c][i] = "summary"
  BY DEF OnItsWay
<1>2. CASE stream'[c] = stream[c]
  BY <1>2 DEF OnItsWay
<1>3. ASSUME NEW e \in {"fetched", "summary"}, stream'[c] = Append(stream[c], e) PROVE OnItsWay(c)'
  <2>1. i \in 1 .. Len(stream'[c]) /\ stream'[c][i] = "summary"
    BY <1>t, <1>1, <1>3
  <2> QED
    BY <2>1 DEF OnItsWay
<1>4. CASE Receive(c)
  <2>1. stream'[c] = Tail(stream[c]) /\ stream[c] # << >>
    BY <1>t, <1>4 DEF Receive
  <2>2. CASE i = 1
    <3>1. Head(stream[c]) = "summary"
      BY <1>t, <1>1, <2>1, <2>2
    <3>2. PICK b \in BOOLEAN : /\ call' = [call EXCEPT ![c] = [call[c] EXCEPT !.sum = b]]
                               /\ call[c].sum \/ Head(stream[c]) = "summary" => b
      BY <1>4, ReceiveEffect
    <3> QED
      BY <1>t, <3>1, <3>2 DEF CallState
  <2>3. CASE i # 1
    <3>1. i - 1 \in 1 .. Len(stream'[c]) /\ stream'[c][i - 1] = "summary"
      <4>1. /\ Len(Tail(stream[c])) = Len(stream[c]) - 1
            /\ \A j \in 1 .. Len(Tail(stream[c])) : Tail(stream[c])[j] = stream[c][j + 1]
        BY <1>t, <2>1, HeadTailProperties
      <4>2. i - 1 \in 1 .. Len(stream[c]) - 1 /\ (i - 1) + 1 = i
        BY <1>t, <1>1, <2>3
      <4> QED
        BY <1>1, <2>1, <4>1, <4>2
    <3> QED
      BY <3>1 DEF OnItsWay
  <2> QED
    BY <2>2, <2>3
<1>5. \/ stream'[c] = stream[c]
      \/ \E e \in {"fetched", "summary"} : stream'[c] = Append(stream[c], e)
      \/ Receive(c)
  <2>1. ASSUME NEW d \in Calls, Receive(d) PROVE stream'[c] = stream[c] \/ Receive(c)
    BY <1>t, <2>1 DEF Receive
  <2>2. ASSUME NEW d \in Calls, Succeed(d) \/ \E w \in Workers : EndSend(d, w)
        PROVE  \/ stream'[c] = stream[c]
               \/ \E e \in {"fetched", "summary"} : stream'[c] = Append(stream[c], e)
    BY <1>t, <2>2 DEF Succeed, EndSend
  <2> QED
    BY <2>1, <2>2, WhoChanges
<1> QED
  BY <1>2, <1>3, <1>4, <1>5

(* The summary of a crawl that succeeded is received, or the last on its   *)
(* stream.                                                                 *)
LEMMA SummaryStep ==
  ASSUME TypeOK, PlaceInv, SummaryInv, SuccessIsComplete, [Next]_vars
  PROVE  SummaryInv' /\ SuccessIsComplete'
<1> SUFFICES ASSUME NEW c \in Calls
             PROVE  /\ /\ call'[c].at = "waiting" /\ handler'[c].at = "ended" /\ handler'[c].cause = ""
                       /\ Crawls(c) /\ Remote(c)
                       => call'[c].sum \/ OnItsWay(c)'
                    /\ call'[c].at = "ok" =>
                         /\ handler'[c].at = "ended" /\ handler'[c].cause = ""
                         /\ Crawls(c) /\ Remote(c) => call'[c].sum
  BY SidesStay DEF SummaryInv, SuccessIsComplete
<1>1. Moves(c)
  BY CallMoves
<1>2. OnItsWay(c) => OnItsWay(c)' \/ call'[c].sum
  BY SummaryKept
<1>3. handler[c].at # "none" => (handler[c].on = "server" <=> Remote(c))
  BY DEF PlaceInv
<1>4. stream[c] = << >> => ~OnItsWay(c)
  BY DEF OnItsWay
<1>5. /\ call[c].at = "waiting" /\ handler[c].at = "ended" /\ handler[c].cause = ""
      /\ Crawls(c) /\ Remote(c)
      => call[c].sum \/ OnItsWay(c)
  BY DEF SummaryInv
<1>6. call[c].at = "ok" => /\ handler[c].at = "ended" /\ handler[c].cause = ""
                           /\ Crawls(c) /\ Remote(c) => call[c].sum
  BY DEF SuccessIsComplete
<1>7. handler[c].at = "none" <=> call[c].at \in {"new", "refused"}
  BY DEF PlaceInv
<1> QED
  BY <1>1, <1>2, <1>3, <1>4, <1>5, <1>6, <1>7 DEF Moves, SameCall, SameHandler, SameSide, Running, Served

(* Every step keeps the parts of the invariant together.                   *)
LEMMA InvStep == ServingInv /\ [Next]_vars => ServingInv'
BY TypeStep, PlaceStep, StopStep, ConfigStep, SummaryStep DEF ServingInv

(* The invariant holds for any number of calls and workers.                *)
LEMMA Inductive == Spec => []ServingInv
<1>1. Init => ServingInv
  BY InitServing
<1>2. ServingInv /\ [Next]_vars => ServingInv'
  BY InvStep
<1> QED
  BY <1>1, <1>2, PTL DEF Spec

(* Serve returns nil only when no call is left: a stop cuts none.          *)
THEOREM StopCutsNothing == Spec => []StopWaits
<1>1. ServingInv => StopWaits
  BY DEF ServingInv, StopInv
<1> QED
  BY <1>1, Inductive, PTL

(* A call runs with the server's own configuration and its own overrides:  *)
(* no other call's, and its own wherever its message sets one.             *)
THEOREM ConfigIsOwn == Spec => []OwnConfig
<1>1. ServingInv => OwnConfig
  <2> SUFFICES ASSUME ServingInv, NEW c \in Calls, handler[c].at # "none"
               PROVE  LET asked == Asks(c)
                          used  == handler[c].cfg
                      IN  IF Remote(c) /\ call[c].req.kind = "graph"
                          THEN /\ used.issueCap = IF asked.issueCap # 0 THEN asked.issueCap
                                                  ELSE Defaults.issueCap
                               /\ asked.children => used.children
                               /\ used.children => asked.children \/ Defaults.children
                          ELSE used = Defaults
    BY DEF OwnConfig
  <2>1. OwnMessage(c)
    BY DEF ServingInv, ConfigInv
  <2>2. CASE Remote(c) /\ call[c].req.kind = "graph"
    <3>1. handler[c].cfg = Overridden(Defaults, Asks(c))
      BY <2>1, <2>2 DEF OwnMessage
    <3>2. /\ Overridden(Defaults, Asks(c)).children = Asks(c).children
          /\ Overridden(Defaults, Asks(c)).issueCap = IF Asks(c).issueCap # 0 THEN Asks(c).issueCap
                                                     ELSE Defaults.issueCap
      BY DEF Overridden
    <3> QED
      BY <2>2, <3>1, <3>2
  <2>3. CASE ~(Remote(c) /\ call[c].req.kind = "graph")
    BY <2>1, <2>3 DEF OwnMessage
  <2> QED
    BY <2>2, <2>3
<1> QED
  BY <1>1, Inductive, PTL

(* A success that is reported is complete: the summary of the crawl has    *)
(* arrived, on whichever side of the bridge the caller is.                 *)
THEOREM SuccessIsWhole == Spec => []SuccessIsComplete
<1>1. ServingInv => SuccessIsComplete
  BY DEF ServingInv
<1> QED
  BY <1>1, Inductive, PTL

-----------------------------------------------------------------------------
(* The progress of a crawl, one kind of step at a time.  A step is quiet   *)
(* for a call when its progress, its workers and its counter stay.         *)
Quiet(c) ==
  /\ worker'[c] = worker[c] /\ number'[c] = number[c] /\ progress'[c] = progress[c]
  /\ handler'[c].on = handler[c].on /\ handler'[c].done = handler[c].done
  /\ handler'[c].at = "none" <=> handler[c].at = "none"
  /\ handler'[c].at = "ended" /\ handler'[c].cause = "" /\ Crawls(c) /\ handler[c].on = "session"
     => (handler[c].at = "ended" /\ handler[c].cause = "") \/ DoneIn(c) = Workers

Begins(c) ==
  /\ worker'[c] = worker[c] /\ number'[c] = number[c] /\ progress'[c] = progress[c]
  /\ handler[c].at = "none" /\ handler'[c].at = "running" /\ handler'[c].on \in {"server", "session"}
  /\ handler'[c].done = handler[c].done

Works(c) == \E w \in Workers : BeginSend(c, w) \/ EndSend(c, w) \/ Count(c, w) \/ Notify(c, w)

(* The types of what is notified, as facts to count with.                  *)
LEMMA ProgressType ==
  ASSUME TypeOK, NEW c \in Calls
  PROVE  /\ progress[c] \in Seq(Nat) /\ Len(progress[c]) \in Nat
         /\ DOMAIN progress[c] = 1 .. Len(progress[c])
         /\ progress[c] = << >> <=> Len(progress[c]) = 0
         /\ handler[c].on \in {"", "server", "session"} /\ handler[c].done \in Nat
         /\ \A w \in Workers : number[c][w] \in Nat
<1>1. progress[c] \in Seq(Nat)
  BY DEF TypeOK
<1>2. /\ Len(progress[c]) \in Nat /\ DOMAIN progress[c] = 1 .. Len(progress[c])
      /\ progress[c] = << >> <=> Len(progress[c]) = 0
  BY <1>1, EmptySeq
<1>3. handler[c] \in HandlerState /\ number[c] \in [Workers -> Nat]
  BY DEF TypeOK
<1>4. handler[c].on \in {"", "server", "session"} /\ handler[c].done \in Nat
  BY <1>3 DEF HandlerState
<1> QED
  BY <1>1, <1>2, <1>3, <1>4

(* Starting and ending a handler leave its counter alone.                  *)
LEMMA DoneStays ==
  ASSUME NEW h \in HandlerState
  PROVE  /\ \A k, o : [h EXCEPT !.at = "running", !.cfg = k, !.on = o].done = h.done
         /\ \A x : [h EXCEPT !.at = "ended", !.cause = x].done = h.done
         /\ \A x : [h EXCEPT !.at = "ended", !.cause = x].cause = x
BY Zenon DEF HandlerState

(* A step leaves the progress of a call alone, begins it, or is one of its *)
(* workers' or its caller's.                                               *)
LEMMA ProgressMoves ==
  ASSUME TypeOK, PlaceInv, [Next]_vars
  PROVE  \A c \in Calls : Quiet(c) \/ Begins(c) \/ Works(c) \/ Receive(c)
<1>t. /\ handler \in [Calls -> HandlerState]
      /\ DOMAIN worker = Calls /\ DOMAIN number = Calls /\ DOMAIN progress = Calls
      /\ worker = [c \in Calls |-> worker[c]] /\ number = [c \in Calls |-> number[c]]
      /\ progress = [c \in Calls |-> progress[c]]
  BY DEF TypeOK
<1>s. UNCHANGED <<worker, number, progress, handler>> => \A c \in Calls : Quiet(c)
  BY DEF Quiet
<1>1. ASSUME NEW c \in Calls, Make(c) PROVE \A d \in Calls : Quiet(d) \/ Begins(d)
  <2>1. UNCHANGED <<worker, number, progress>>
    BY <1>1 DEF Make, emitting
  <2>2. CASE UNCHANGED handler
    BY <1>s, <2>1, <2>2
  <2>3. CASE HandlerStarts(c)
    <3>1. \A d \in Calls : d # c => handler'[d] = handler[d]
      BY <1>t, <2>3 DEF HandlerStarts
    <3>2. /\ handler'[c].at = "running" /\ handler'[c].on \in {"server", "session"}
          /\ handler'[c].done = handler[c].done
      <4>1. handler[c] \in HandlerState
        BY <1>t
      <4>2. handler'[c] = [handler[c] EXCEPT !.at = "running", !.cfg = ConfigFor(c),
                                             !.on = IF Remote(c) THEN "server" ELSE "session"]
        BY <1>t, <2>3 DEF HandlerStarts
      <4>3. handler'[c].done = handler[c].done
        BY <4>1, <4>2, DoneStays
      <4>4. /\ handler'[c].at = "running" /\ handler'[c].on \in {"server", "session"}
        BY <4>1, <4>2 DEF HandlerState
      <4> QED
        BY <4>3, <4>4
    <3>3. handler[c].at = "none"
      BY <1>1, MakeEffect DEF PlaceInv
    <3> QED
      BY <2>1, <3>1, <3>2, <3>3 DEF Quiet, Begins
  <2> QED
    BY <1>1, <2>2, <2>3, MakeEffect
<1>2. ASSUME NEW c \in Calls, Succeed(c) \/ HandlerFails(c) PROVE \A d \in Calls : Quiet(d)
  <2>1. UNCHANGED <<worker, number, progress>> /\ Running(c) /\ HandlerEnds(c)
    BY <1>2, EndEffect DEF Succeed, HandlerFails, End
  <2>2. \A d \in Calls : d # c => handler'[d] = handler[d]
    BY <1>t, <2>1 DEF HandlerEnds
  <2>3. /\ handler'[c].at = "ended" /\ handler'[c].on = handler[c].on
        /\ handler'[c].done = handler[c].done
    <3>1. handler[c] \in HandlerState
      BY <1>t
    <3>2. PICK cause \in Causes \cup {""} : handler'[c] = [handler[c] EXCEPT !.at = "ended", !.cause = cause]
      BY <1>t, <2>1 DEF HandlerEnds
    <3>3. handler'[c].done = handler[c].done
      <4>1. [handler[c] EXCEPT !.at = "ended", !.cause = cause].done = handler[c].done
        BY <3>1, DoneStays
      <4> QED
        BY <3>2, <4>1
    <3>4. handler'[c].at = "ended" /\ handler'[c].on = handler[c].on
      BY <3>1, <3>2 DEF HandlerState
    <3> QED
      BY <3>3, <3>4
  <2>4. handler'[c].cause = "" /\ Crawls(c) => DoneIn(c) = Workers
    <3>1. ASSUME HandlerFails(c) PROVE handler'[c].cause # ""
      <4>1. PICK cause \in Causes : handler' = [handler EXCEPT ![c] = [handler[c] EXCEPT !.at = "ended", !.cause = cause]]
        BY <3>1 DEF HandlerFails, End
      <4> QED
        <5>1. handler[c] \in HandlerState /\ handler'[c] = [handler[c] EXCEPT !.at = "ended", !.cause = cause]
          BY <1>t, <4>1
        <5>2. handler'[c].cause = cause
          BY <5>1, DoneStays
        <5> QED
          BY <5>2, ServingAssumption
    <3>2. ASSUME Succeed(c), Crawls(c) PROVE DoneIn(c) = Workers
      BY <3>2 DEF Succeed, DoneIn
    <3> QED
      BY <1>2, <3>1, <3>2
  <2> QED
    BY <2>1, <2>2, <2>3, <2>4 DEF Quiet, Running
<1>3. ASSUME NEW c \in Calls, NEW w \in Workers, BeginSend(c, w) \/ EndSend(c, w) \/ Count(c, w) \/ Notify(c, w)
      PROVE  \A d \in Calls : d # c => Quiet(d)
  <2>1. ASSUME NEW d \in Calls, d # c
        PROVE  worker'[d] = worker[d] /\ number'[d] = number[d] /\ progress'[d] = progress[d] /\ handler'[d] = handler[d]
    <3>1. CASE BeginSend(c, w)
      BY <1>t, <2>1, <3>1 DEF BeginSend
    <3>2. CASE EndSend(c, w)
      BY <1>t, <2>1, <3>2 DEF EndSend
    <3>3. CASE Count(c, w)
      BY <1>t, <2>1, <3>3 DEF Count
    <3>4. CASE Notify(c, w)
      BY <1>t, <2>1, <3>4 DEF Notify
    <3> QED
      BY <1>3, <3>1, <3>2, <3>3, <3>4
  <2> QED
    BY <2>1 DEF Quiet
<1>4. ASSUME NEW c \in Calls, Receive(c) PROVE \A d \in Calls : d # c => Quiet(d)
  <2>1. UNCHANGED <<worker, number, handler>> /\ \A d \in Calls : d # c => progress'[d] = progress[d]
    BY <1>t, <1>4 DEF Receive
  <2> QED
    BY <2>1 DEF Quiet
<1>5. ASSUME AcceptFails PROVE \A d \in Calls : Quiet(d)
  <2>1. UNCHANGED <<worker, number, progress>>
    BY <1>5 DEF AcceptFails, emitting
  <2>2. ASSUME NEW d \in Calls
        PROVE  /\ handler'[d].on = handler[d].on /\ handler'[d].done = handler[d].done
               /\ handler'[d].at = "none" <=> handler[d].at = "none"
               /\ handler[d].on = "session" => handler'[d] = handler[d]
    BY <1>t, <1>5 DEF AcceptFails, Served, Running, HandlerState
  <2> QED
    BY <2>1, <2>2 DEF Quiet
<1>6. \/ UNCHANGED <<worker, number, progress, handler>>
      \/ \E c \in Calls : \/ Make(c) \/ Succeed(c) \/ HandlerFails(c) \/ Receive(c)
                          \/ \E w \in Workers : BeginSend(c, w) \/ EndSend(c, w) \/ Count(c, w) \/ Notify(c, w)
      \/ AcceptFails
  BY DEF Next, Work, vars, emitting, Listen, Signal, GracefulStop, Drained, ServeMCP, CloseSession, Answer, Break
<1> QED
  BY <1>s, <1>1, <1>2, <1>3, <1>4, <1>5, <1>6 DEF Works

(* The progress of a call that is left alone stays faithful.               *)
LEMMA ProgressOfQuiet ==
  ASSUME TypeOK, ProgressInv, [Next]_vars, NEW c \in Calls, Quiet(c)
  PROVE  ProgressFor(c)'
<1>1. DoneIn(c)' = DoneIn(c) /\ Counted(c)' = Counted(c)
  BY DEF Quiet, DoneIn, Counted
<1>2. (ByBridge(c)' <=> ByBridge(c)) /\ (Crawls(c)' <=> Crawls(c))
  BY SidesStay
<1>3. ProgressFor(c)
  BY DEF ProgressInv
<1>4. NoProgress(c) => NoProgress(c)'
  BY DEF NoProgress, Quiet
<1>5. ServerProgress(c) => ServerProgress(c)'
  BY <1>2 DEF ServerProgress, Quiet
<1>6. SessionProgress(c) /\ handler[c].on = "session" => SessionProgress(c)'
  <2> SUFFICES ASSUME SessionProgress(c), handler[c].on = "session" PROVE SessionProgress(c)'
    OBVIOUS
  <2>1. worker'[c] = worker[c] /\ number'[c] = number[c] /\ progress'[c] = progress[c]
        /\ handler'[c].done = handler[c].done
    BY DEF Quiet
  <2>2. handler'[c].at = "ended" /\ handler'[c].cause = "" /\ Crawls(c) => DoneIn(c) = Workers
    BY DEF Quiet, SessionProgress
  <2>3. /\ \A w \in Workers : worker'[c][w] \in {"fetch", "notify", "done"}
        /\ handler'[c].done = Cardinality(Counted(c)')
    BY <1>1, <2>1 DEF SessionProgress
  <2>4. /\ \A w \in Counted(c)' : number'[c][w] \in 1 .. handler'[c].done
        /\ \A v, w \in Counted(c)' : number'[c][v] = number'[c][w] => v = w
    <3>1. /\ \A w \in Counted(c) : number[c][w] \in 1 .. handler[c].done
          /\ \A v, w \in Counted(c) : number[c][v] = number[c][w] => v = w
      BY DEF SessionProgress
    <3> QED
      BY <1>1, <2>1, <3>1
  <2>5. /\ \A i \in 1 .. Len(progress'[c]) : \E w \in DoneIn(c)' : number'[c][w] = progress'[c][i]
        /\ \A w \in DoneIn(c)' : \E i \in 1 .. Len(progress'[c]) : number'[c][w] = progress'[c][i]
        /\ \A i, j \in 1 .. Len(progress'[c]) : progress'[c][i] = progress'[c][j] => i = j
    <3>1. /\ \A i \in 1 .. Len(progress[c]) : \E w \in DoneIn(c) : number[c][w] = progress[c][i]
          /\ \A w \in DoneIn(c) : \E i \in 1 .. Len(progress[c]) : number[c][w] = progress[c][i]
          /\ \A i, j \in 1 .. Len(progress[c]) : progress[c][i] = progress[c][j] => i = j
      BY DEF SessionProgress
    <3> QED
      BY <1>1, <2>1, <3>1
  <2> QED
    BY <1>1, <1>2, <2>2, <2>3, <2>4, <2>5 DEF SessionProgress
<1> QED
  BY <1>3, <1>4, <1>5, <1>6 DEF ProgressFor, Quiet

(* That of a call that begins is empty.                                    *)
LEMMA ProgressOfBegin ==
  ASSUME TypeOK, ProgressInv, [Next]_vars, NEW c \in Calls, Begins(c)
  PROVE  ProgressFor(c)'
<1>1. NoProgress(c) /\ handler[c].at = "none"
  BY DEF ProgressInv, ProgressFor, Begins
<1>2. ServerProgress(c)'
  <2>1. \A w \in Workers : worker'[c][w] # "notify"
    BY <1>1 DEF NoProgress, Begins
  <2>2. progress'[c] = << >>
    BY <1>1 DEF NoProgress, Begins
  <2>3. Len(progress'[c]) = 0
    BY <2>2
  <2>4. \A i \in 1 .. Len(progress'[c]) : progress'[c][i] = i
    BY <2>3
  <2> QED
    BY <2>1, <2>2, <2>4 DEF ServerProgress
<1>3. SessionProgress(c)'
  <2>1. \A w \in Workers : worker'[c][w] = "fetch"
    BY <1>1 DEF NoProgress, Begins
  <2>2. Counted(c)' = {} /\ DoneIn(c)' = {}
    BY <2>1 DEF Counted, DoneIn
  <2>3. handler'[c].done = 0 /\ handler'[c].at # "ended"
    BY <1>1 DEF NoProgress, Begins
  <2>4. handler'[c].done = Cardinality(Counted(c)')
    BY <2>2, <2>3, FS_EmptySet
  <2>5. Len(progress'[c]) = 0
    BY <1>1 DEF NoProgress, Begins
  <2>6. 1 .. Len(progress'[c]) = {}
    BY <2>5
  <2> QED
    BY <2>1, <2>2, <2>3, <2>4, <2>6 DEF SessionProgress
<1> QED
  BY <1>2, <1>3 DEF ProgressFor, Begins

(* A worker that counts has a number that no other has.                    *)
LEMMA ProgressOfSend ==
  ASSUME TypeOK, ProgressInv, [Next]_vars, NEW c \in Calls, NEW w \in Workers,
         BeginSend(c, w) \/ EndSend(c, w)
  PROVE  ProgressFor(c)'
<1>t. worker \in [Calls -> [Workers -> {"fetch", "sending", "overlapped", "notify", "done"}]]
  BY DEF TypeOK
<1>1. ProgressFor(c)
  BY DEF ProgressInv
<1>2. handler[c].on = "server"
  BY <1>1 DEF BeginSend, EndSend, Served, ProgressFor, NoProgress, SessionProgress, TypeOK, HandlerState
<1>3. UNCHANGED <<handler, progress>>
  BY DEF BeginSend, EndSend
<1>4. \A v \in Workers : worker'[c][v] # "notify"
  <2>1. \A v \in Workers : worker[c][v] # "notify"
    BY <1>1, <1>2 DEF ProgressFor, ServerProgress
  <2>2. CASE BeginSend(c, w)
    BY <1>t, <2>1, <2>2 DEF BeginSend
  <2>3. CASE EndSend(c, w)
    BY <1>t, <2>1, <2>3 DEF EndSend
  <2> QED
    BY <2>2, <2>3
<1>5. ServerProgress(c)'
  BY <1>1, <1>2, <1>3, <1>4, SidesStay DEF ProgressFor, ServerProgress
<1> QED
  BY <1>1, <1>2, <1>3, <1>5 DEF ProgressFor

(* A worker that counts takes a number that no worker has.                 *)
LEMMA ProgressOfCount ==
  ASSUME TypeOK, ProgressInv, [Next]_vars, NEW c \in Calls, NEW w \in Workers, Count(c, w)
  PROVE  ProgressFor(c)'
<1>t. /\ worker \in [Calls -> [Workers -> {"fetch", "sending", "overlapped", "notify", "done"}]]
      /\ number \in [Calls -> [Workers -> Nat]]
      /\ handler \in [Calls -> HandlerState] /\ handler[c].done \in Nat
  BY DEF TypeOK, HandlerState
<1>1. /\ handler[c].on = "session" /\ handler[c].at = "running" /\ SessionProgress(c)
      /\ worker[c][w] = "fetch"
  BY DEF ProgressInv, ProgressFor, Count, Running
<1>2. /\ \A v \in Workers \ {w} : worker'[c][v] = worker[c][v] /\ number'[c][v] = number[c][v]
      /\ worker'[c][w] = "notify" /\ number'[c][w] = handler[c].done + 1
      /\ handler'[c].done = handler[c].done + 1 /\ progress' = progress
  <2>1. handler'[c].done = handler[c].done + 1
    BY <1>t DEF Count, HandlerState
  <2> QED
    BY <1>t, <2>1 DEF Count
<1>3. handler'[c].on = "session" /\ handler'[c].at = "running"
  BY <1>t, <1>1 DEF Count, HandlerState
<1>4. Counted(c)' = Counted(c) \cup {w} /\ w \notin Counted(c) /\ DoneIn(c)' = DoneIn(c)
  BY <1>1, <1>2 DEF Counted, DoneIn
<1>5. handler'[c].done = Cardinality(Counted(c)')
  <2>1. IsFiniteSet(Counted(c))
    BY FS_Subset, ServingAssumption DEF Counted
  <2>2. Cardinality(Counted(c) \cup {w}) = Cardinality(Counted(c)) + 1
    BY <1>4, <2>1, FS_AddElement
  <2>3. handler[c].done = Cardinality(Counted(c))
    BY <1>1 DEF SessionProgress
  <2> QED
    BY <1>2, <1>4, <2>2, <2>3
<1>6. \A v \in Counted(c)' : number'[c][v] \in 1 .. handler'[c].done
  <2>1. \A v \in Counted(c) : number'[c][v] \in 1 .. handler[c].done
    BY <1>1, <1>2, <1>4 DEF SessionProgress, Counted
  <2> QED
    BY <1>t, <1>2, <1>4, <2>1
<1>7. \A u, v \in Counted(c)' : number'[c][u] = number'[c][v] => u = v
  <2>1. \A v \in Counted(c) : number'[c][v] = number[c][v] /\ number[c][v] \in 1 .. handler[c].done
    BY <1>1, <1>2, <1>4 DEF SessionProgress, Counted
  <2>2. \A v \in Counted(c) : number'[c][v] # number'[c][w]
    BY <1>t, <1>2, <2>1
  <2>3. \A u, v \in Counted(c) : number[c][u] = number[c][v] => u = v
    BY <1>1 DEF SessionProgress
  <2> QED
    BY <1>4, <2>1, <2>2, <2>3
<1>8. \A v \in DoneIn(c) : number'[c][v] = number[c][v]
  BY <1>1, <1>2 DEF DoneIn
<1>9. SessionProgress(c)'
  BY <1>1, <1>2, <1>3, <1>4, <1>5, <1>6, <1>7, <1>8 DEF SessionProgress
<1> QED
  BY <1>3, <1>9 DEF ProgressFor

(* What is notified is the number of the worker, and no other notified it. *)
LEMMA ProgressOfNotify ==
  ASSUME TypeOK, ProgressInv, [Next]_vars, NEW c \in Calls, NEW w \in Workers, Notify(c, w)
  PROVE  ProgressFor(c)'
<1>t. /\ worker \in [Calls -> [Workers -> {"fetch", "sending", "overlapped", "notify", "done"}]]
      /\ number \in [Calls -> [Workers -> Nat]] /\ progress \in [Calls -> Seq(Nat)]
      /\ progress[c] \in Seq(Nat) /\ Len(progress[c]) \in Nat /\ number[c][w] \in Nat
  BY ProgressType DEF TypeOK
<1>1. handler[c].on = "session" /\ SessionProgress(c) /\ worker[c][w] = "notify"
  BY DEF ProgressInv, ProgressFor, Notify, NoProgress, ServerProgress, TypeOK, HandlerState
<1>2. /\ UNCHANGED <<handler, number>> /\ progress'[c] = Append(progress[c], number[c][w])
      /\ worker'[c][w] = "done" /\ \A v \in Workers \ {w} : worker'[c][v] = worker[c][v]
  BY <1>t DEF Notify
<1>3. /\ Counted(c)' = Counted(c) /\ DoneIn(c)' = DoneIn(c) \cup {w}
      /\ w \in Counted(c) /\ w \notin DoneIn(c) /\ DoneIn(c) \subseteq Counted(c)
  BY <1>1, <1>2 DEF Counted, DoneIn
<1>4. /\ Len(progress'[c]) = Len(progress[c]) + 1
      /\ \A i \in 1 .. Len(progress[c]) : progress'[c][i] = progress[c][i]
      /\ progress'[c][Len(progress[c]) + 1] = number[c][w]
  BY <1>t, <1>2
<1>5. \A i \in 1 .. Len(progress'[c]) : i \in 1 .. Len(progress[c]) \/ i = Len(progress[c]) + 1
  BY <1>t, <1>4
<1>6. 1 .. Len(progress[c]) \subseteq 1 .. Len(progress'[c]) /\ Len(progress[c]) + 1 \in 1 .. Len(progress'[c])
  BY <1>t, <1>4
<1>7. \A i \in 1 .. Len(progress'[c]) : \E v \in DoneIn(c)' : number'[c][v] = progress'[c][i]
  <2>1. \A i \in 1 .. Len(progress[c]) : \E v \in DoneIn(c) : number[c][v] = progress[c][i]
    BY <1>1 DEF SessionProgress
  <2>2. ASSUME NEW i \in 1 .. Len(progress'[c]) PROVE \E v \in DoneIn(c)' : number'[c][v] = progress'[c][i]
    <3>1. CASE i \in 1 .. Len(progress[c])
      BY <1>2, <1>3, <1>4, <2>1, <3>1
    <3>2. CASE i = Len(progress[c]) + 1
      BY <1>2, <1>3, <1>4, <3>2
    <3> QED
      BY <1>5, <3>1, <3>2
  <2> QED
    BY <2>2
<1>8. \A v \in DoneIn(c)' : \E i \in 1 .. Len(progress'[c]) : number'[c][v] = progress'[c][i]
  <2>1. \A v \in DoneIn(c) : \E i \in 1 .. Len(progress[c]) : number[c][v] = progress[c][i]
    BY <1>1 DEF SessionProgress
  <2> QED
    BY <1>2, <1>3, <1>4, <1>6, <2>1
<1>9. \A i, j \in 1 .. Len(progress'[c]) : progress'[c][i] = progress'[c][j] => i = j
  <2>1. \A i, j \in 1 .. Len(progress[c]) : progress[c][i] = progress[c][j] => i = j
    BY <1>1 DEF SessionProgress
  <2>2. \A i \in 1 .. Len(progress[c]) : progress[c][i] # number[c][w]
    <3>1. \A i \in 1 .. Len(progress[c]) : \E v \in DoneIn(c) : number[c][v] = progress[c][i]
      BY <1>1 DEF SessionProgress
    <3>2. \A u, v \in Counted(c) : number[c][u] = number[c][v] => u = v
      BY <1>1 DEF SessionProgress
    <3> QED
      BY <1>3, <3>1, <3>2
  <2> QED
    BY <1>4, <1>5, <2>1, <2>2
<1>10. handler[c].at = "ended" /\ handler[c].cause = "" /\ Crawls(c) => DoneIn(c)' = Workers
  BY <1>1, <1>3 DEF SessionProgress, Counted
<1>11. \A v \in Workers : worker'[c][v] \in {"fetch", "notify", "done"}
  BY <1>1, <1>2 DEF SessionProgress
<1>12. Crawls(c)' <=> Crawls(c)
  BY SidesStay
<1>13. SessionProgress(c)'
  <2>1. /\ handler'[c].done = Cardinality(Counted(c)')
        /\ \A v \in Counted(c)' : number'[c][v] \in 1 .. handler'[c].done
        /\ \A u, v \in Counted(c)' : number'[c][u] = number'[c][v] => u = v
    <3>1. /\ handler[c].done = Cardinality(Counted(c))
          /\ \A v \in Counted(c) : number[c][v] \in 1 .. handler[c].done
          /\ \A u, v \in Counted(c) : number[c][u] = number[c][v] => u = v
      BY <1>1 DEF SessionProgress
    <3> QED
      BY <1>2, <1>3, <3>1
  <2>2. handler'[c].at = "ended" /\ handler'[c].cause = "" /\ Crawls(c)' => DoneIn(c)' = Workers
    BY <1>2, <1>10, <1>12
  <2> QED
    BY <1>7, <1>8, <1>9, <1>11, <2>1, <2>2 DEF SessionProgress
<1>14. handler'[c].at # "none"
  BY <1>1, <1>2 DEF ProgressInv, ProgressFor
<1> QED
  BY <1>1, <1>2, <1>13, <1>14 DEF ProgressFor

(* Over the bridge the numbers are those of the events, one by one.        *)
LEMMA ProgressOfReceive ==
  ASSUME TypeOK, PlaceInv, ProgressInv, [Next]_vars, NEW c \in Calls, Receive(c)
  PROVE  ProgressFor(c)'
<1>t. progress \in [Calls -> Seq(Nat)] /\ progress[c] \in Seq(Nat) /\ Len(progress[c]) \in Nat
  BY ProgressType DEF TypeOK
<1>1. UNCHANGED <<handler, worker, number>> /\ call[c].at = "waiting"
  BY DEF Receive
<1>2. CASE progress'[c] = progress[c]
  BY <1>1, <1>2, ProgressOfQuiet DEF Quiet
<1>3. CASE ByBridge(c) /\ progress'[c] = Append(progress[c], Len(progress[c]) + 1)
  <2>1. handler[c].on = "server" /\ handler[c].at # "none" /\ ServerProgress(c)
    BY <1>1, <1>3 DEF PlaceInv, ProgressInv, ProgressFor, Remote
  <2>2. \A i \in 1 .. Len(progress[c]) : progress[c][i] = i
    BY <1>3, <2>1 DEF ServerProgress
  <2>3. \A i \in 1 .. Len(progress'[c]) : progress'[c][i] = i
    BY <1>t, <1>3, <2>2
  <2>4. ByBridge(c)'
    BY <1>3, SidesStay
  <2>5. ServerProgress(c)'
    BY <1>1, <2>1, <2>3, <2>4 DEF ServerProgress
  <2> QED
    BY <1>1, <2>1, <2>5 DEF ProgressFor
<1> QED
  BY <1>t, <1>2, <1>3 DEF Receive

(* Every step keeps the progress of every call faithful.                   *)
LEMMA ProgressStep == ServingInv /\ ProgressInv /\ [Next]_vars => ProgressInv'
<1> SUFFICES ASSUME ServingInv, ProgressInv, [Next]_vars, NEW c \in Calls
             PROVE  ProgressFor(c)'
  BY DEF ProgressInv
<1>1. Quiet(c) \/ Begins(c) \/ Works(c) \/ Receive(c)
  BY ProgressMoves DEF ServingInv
<1> QED
  BY <1>1, ProgressOfQuiet, ProgressOfBegin, ProgressOfSend, ProgressOfCount, ProgressOfNotify, ProgressOfReceive
  DEF Works, ServingInv

(* At the beginning there is none.                                         *)
LEMMA ProgressInit == Init => ProgressInv
<1> SUFFICES ASSUME Init, NEW c \in Calls PROVE ProgressFor(c)
  BY DEF ProgressInv
<1>1. handler[c] = NoHandler /\ progress[c] = << >> /\ worker[c] = [w \in Workers |-> "fetch"]
  BY DEF Init
<1>2. NoHandler.at = "none" /\ NoHandler.on = "" /\ NoHandler.done = 0
  BY DEF NoHandler
<1> QED
  BY <1>1, <1>2 DEF ProgressFor, NoProgress

(* From this it follows that no number repeats, and that none is missing   *)
(* after a success.                                                        *)
LEMMA ProgressShown == ServingInv /\ ProgressInv => ProgressFaithful
<1> SUFFICES ASSUME ServingInv, ProgressInv, NEW c \in Calls
             PROVE  /\ \A i, j \in DOMAIN progress[c] : progress[c][i] = progress[c][j] => i = j
                    /\ ByBridge(c) => \A i \in DOMAIN progress[c] : progress[c][i] = i
                    /\ Crawls(c) /\ call[c].req.by = "mcp" /\ handler[c].on = "session" /\ call[c].at = "ok" =>
                         {progress[c][i] : i \in DOMAIN progress[c]} = 1 .. Cardinality(Workers)
  BY DEF ProgressFaithful
<1>t. /\ progress[c] \in Seq(Nat) /\ DOMAIN progress[c] = 1 .. Len(progress[c])
      /\ handler[c].on \in {"", "server", "session"}
  BY ProgressType DEF ServingInv
<1>1. ProgressFor(c)
  BY DEF ProgressInv
<1>2. progress[c] = << >> => DOMAIN progress[c] = {}
  <2>1. progress[c] = << >> => Len(progress[c]) = 0
    BY ProgressType DEF ServingInv
  <2>2. Len(progress[c]) = 0 => 1 .. Len(progress[c]) = {}
    OBVIOUS
  <2> QED
    BY <1>t, <2>1, <2>2
<1>3. CASE handler[c].on = ""
  BY <1>1, <1>2, <1>3 DEF ProgressFor, NoProgress
<1>4. CASE handler[c].on = "server"
  BY <1>t, <1>1, <1>2, <1>4 DEF ProgressFor, ServerProgress
<1>5. CASE handler[c].on = "session"
  <2>1. SessionProgress(c)
    BY <1>1, <1>5 DEF ProgressFor
  <2>2. \A i, j \in DOMAIN progress[c] : progress[c][i] = progress[c][j] => i = j
    BY <1>t, <2>1 DEF SessionProgress
  <2>3. ~ByBridge(c)
    BY <1>1, <1>5 DEF ServingInv, PlaceInv, Remote, ProgressFor
  <2>4. ASSUME Crawls(c), call[c].at = "ok"
        PROVE  {progress[c][i] : i \in DOMAIN progress[c]} = 1 .. Cardinality(Workers)
    <3> DEFINE f == [w \in Workers |-> number[c][w]]
               N == Cardinality(Workers)
    <3>1. DoneIn(c) = Workers
      BY <2>1, <2>4 DEF ServingInv, SuccessIsComplete, SessionProgress
    <3>2. Counted(c) = Workers
      BY <3>1 DEF DoneIn, Counted
    <3>3. N \in Nat
      BY FS_CardinalityType, ServingAssumption
    <3>4. f \in Injection(Workers, 1 .. N)
      <4>1. \A w \in Workers : number[c][w] \in 1 .. N
        BY <2>1, <3>2 DEF SessionProgress
      <4>2. \A v, w \in Workers : number[c][v] = number[c][w] => v = w
        BY <2>1, <3>2 DEF SessionProgress
      <4> QED
        BY <4>1, <4>2 DEF Injection, IsInjective
    <3>5. IsFiniteSet(1 .. N) /\ Cardinality(1 .. N) = N
      BY <3>3, FS_Interval
    <3>6. f \in Surjection(Workers, 1 .. N)
      BY <3>4, <3>5, FS_Injection
    <3>7. \A n \in 1 .. N : \E w \in Workers : number[c][w] = n
      BY <3>6 DEF Surjection
    <3>8. ASSUME NEW i \in DOMAIN progress[c] PROVE progress[c][i] \in 1 .. N
      <4>1. \E w \in Workers : number[c][w] = progress[c][i]
        BY <1>t, <2>1, <3>1, <3>8 DEF SessionProgress
      <4> QED
        BY <4>1, <2>1, <3>2 DEF SessionProgress
    <3>9. ASSUME NEW n \in 1 .. N PROVE \E i \in DOMAIN progress[c] : progress[c][i] = n
      <4>1. PICK w \in Workers : number[c][w] = n
        BY <3>7, <3>9
      <4> QED
        BY <1>t, <2>1, <3>1, <4>1 DEF SessionProgress
    <3> QED
      BY <3>8, <3>9
  <2> QED
    BY <2>2, <2>3, <2>4
<1> QED
  BY <1>t, <1>3, <1>4, <1>5

(* The MCP client sees no number twice, over the bridge it sees them in    *)
(* order, and of a crawl in the session that succeeded it sees them all.   *)
THEOREM ProgressIsFaithful == Spec => []ProgressFaithful
<1>1. Init => ProgressInv
  BY ProgressInit
<1>2. ServingInv /\ ProgressInv /\ [Next]_vars => ProgressInv'
  BY ProgressStep
<1>3. ServingInv /\ ProgressInv => ProgressFaithful
  BY ProgressShown
<1> QED
  BY <1>1, <1>2, <1>3, Inductive, PTL DEF Spec
=============================================================================
