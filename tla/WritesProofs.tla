---------------------------- MODULE WritesProofs ----------------------------
(***************************************************************************)
(* What the outcome of a write tells of its effect, where a transition by  *)
(* status leads, what a list of versions has, and that a write sets the    *)
(* fields that are asked for and no other: for every workflow, every       *)
(* request, every number of calls, lost answers, pages and changes by      *)
(* other users.                                                            *)
(***************************************************************************)
EXTENDS Writes, SequenceTheorems, FiniteSetTheorems, TLAPS

-----------------------------------------------------------------------------
RequestFields == {"front", "op", "on", "name", "given", "raw", "verbs", "dry", "id", "target"}
CallFields == {"at", "req", "id", "matches", "out", "carried", "lost", "startAt", "got", "there", "cut"}

Shape(h) ==
  /\ DOMAIN h = CallFields /\ DOMAIN h.req = RequestFields
  /\ h.carried \in Nat /\ h.lost \in Nat

(* A request in hand is one of the operation that it belongs to.           *)
Stage(h) ==
  /\ h.at \in {"begin", "list", "resolve", "page", "write", "done"}
  /\ h.at = "list" => h.req.op = "transition"
  /\ h.at = "resolve" => h.req.op = "createVersion"
  /\ h.at = "page" => h.req.op = "listVersions"
  /\ h.at = "write" => h.req.op # "listVersions"
  /\ h.at = "begin" => h.carried = 0
  /\ h.at # "done" => h.out = ""

(* Every execution but that of the last answer belongs to a lost answer.   *)
Effect(h) ==
  /\ h.carried = IF h.out = "ok" /\ h.req.op # "listVersions" THEN h.lost + 1 ELSE h.lost
  /\ h.req.dry => h.at \in {"begin", "done"} /\ h.carried = 0 /\ h.out # "ok"

(* The transition that is to be executed is the one that leads to the      *)
(* status asked for.                                                       *)
Chosen(h) ==
  h.req.op = "transition" /\ h.req.target # Empty =>
    /\ h.at = "begin" => h.id = h.req.id
    /\ h.at = "write" => /\ h.matches = 1
                         /\ \E t \in Workflow : t.id = h.id /\ Fold[t.to] = Fold[h.req.target]

Right(h) == Shape(h) /\ Stage(h) /\ Effect(h) /\ Chosen(h)
WritesInv == DOMAIN call = Calls /\ \A c \in Calls : Right(call[c])

(* The invariant holds at the beginning.                                   *)
LEMMA InitWrites == Init => WritesInv
<1> SUFFICES ASSUME Init PROVE WritesInv
  OBVIOUS
<1>1. PICK r \in Requests : call = [c \in Calls |-> NewCall(r[c])]
  BY DEF Init
<1>2. ASSUME NEW c \in Calls PROVE Right(NewCall(r[c]))
  <2> DEFINE h == NewCall(r[c])
  <2>1. /\ h.at = "begin" /\ h.req = r[c] /\ h.id = r[c].id /\ h.out = "" /\ h.carried = 0 /\ h.lost = 0
        /\ DOMAIN h = CallFields
    BY DEF NewCall, CallFields
  <2>2. DOMAIN r[c] = RequestFields
    BY WritesAssumption DEF IsRequest, RequestFields
  <2>3. Shape(h)
    <3>0. h.carried = 0 /\ h.lost = 0
      BY <2>1
    <3>1. h.carried \in Nat /\ h.lost \in Nat
      BY <3>0
    <3> QED
      BY <2>1, <2>2, <3>1 DEF Shape
  <2>4. Stage(h)
    BY <2>1 DEF Stage
  <2>5. Effect(h)
    BY <2>1 DEF Effect
  <2>6. Chosen(h)
    BY <2>1 DEF Chosen
  <2> QED
    BY <2>3, <2>4, <2>5, <2>6 DEF Right
<1> QED
  BY <1>1, <1>2 DEF WritesInv

-----------------------------------------------------------------------------
(* A step of one call leaves the others alone.                             *)
LEMMA OneCall ==
  ASSUME WritesInv, NEW c \in Calls, NEW h, Set(c, h), Right(h)
  PROVE  WritesInv'
BY DEF WritesInv, Set

(* A call ends without success and without effect.                         *)
LEMMA EndsUnchanged ==
  ASSUME NEW h, Right(h), h.at # "done", NEW out \in {"refused", "preview", "failed"}
  PROVE  Right([h EXCEPT !.at = "done", !.out = out])
<1> DEFINE n == [h EXCEPT !.at = "done", !.out = out]
<1>1. /\ n.at = "done" /\ n.out = out /\ n.req = h.req /\ n.carried = h.carried /\ n.lost = h.lost
      /\ DOMAIN n = CallFields
  BY DEF Right, Shape, CallFields
<1> HIDE DEF n
<1>2. h.out = "" /\ out # "ok"
  BY DEF Right, Stage
<1>3. Shape(n) /\ Stage(n) /\ Chosen(n)
  BY <1>1 DEF Right, Shape, Stage, Chosen
<1>4. Effect(n)
  BY <1>1, <1>2 DEF Right, Effect
<1> QED
  BY <1>3, <1>4 DEF Right, n

(* A transition that is let through names a transition or a status, not    *)
(* both: through every front end.                                          *)
LEMMA OneOfTwo ==
  ASSUME NEW req, req.op = "transition", ~Refused(req), req.target # Empty
  PROVE  req.id = Empty
<1>1. PlanOf(req).ok
  BY DEF Refused
<1>2. CASE req.front = "cli"
  BY <1>1, <1>2 DEF PlanOf, CLI, RunTransition, Plan, OneOf
<1>3. CASE req.front = "self"
  BY <1>1, <1>3 DEF PlanOf, Self, FacadeTransitionIssue, Plan, OneOf
<1>4. CASE req.front \notin {"cli", "self"}
  BY <1>1, <1>4 DEF PlanOf, Bridge, BridgeTransitionIssue, Plan, OneOf
<1> QED
  BY <1>2, <1>3, <1>4

(* A call that begins is right: it is refused, or in its first stage.      *)
LEMMA BeginStep ==
  ASSUME WritesInv, NEW c \in Calls, Begin(c)
  PROVE  WritesInv'
<1> DEFINE h == call[c]
<1>1. Right(h) /\ h.at = "begin"
  BY DEF WritesInv, Begin
<1>2. CASE \E out \in {"refused", "preview", "failed"} : Done(c, out)
  BY <1>1, <1>2, EndsUnchanged, OneCall DEF Done
<1>3. CASE /\ ~Refused(h.req) /\ ~h.req.dry
           /\ Set(c, [h EXCEPT !.at = FirstRequest(h.req), !.there = Ids(versions)])
  <2> DEFINE n == [h EXCEPT !.at = FirstRequest(h.req), !.there = Ids(versions)]
  <2>1. /\ n.at = FirstRequest(h.req) /\ n.req = h.req /\ n.id = h.id /\ n.out = h.out
        /\ n.carried = h.carried /\ n.lost = h.lost /\ n.matches = h.matches /\ DOMAIN n = CallFields
    BY <1>1 DEF Right, Shape, CallFields
  <2>2. /\ FirstRequest(h.req) \in {"list", "resolve", "page", "write"}
        /\ FirstRequest(h.req) = "list" => h.req.op = "transition"
        /\ FirstRequest(h.req) = "resolve" => h.req.op = "createVersion"
        /\ FirstRequest(h.req) = "page" => h.req.op = "listVersions"
        /\ FirstRequest(h.req) = "write" => h.req.op # "listVersions"
        /\ FirstRequest(h.req) = "write" /\ h.req.op = "transition" => h.req.id # Empty
    BY DEF FirstRequest
  <2>3. h.req.op = "transition" /\ h.req.target # Empty => FirstRequest(h.req) # "write"
    BY <1>3, <2>2, OneOfTwo
  <2> HIDE DEF n
  <2>4. Shape(n) /\ Stage(n)
    BY <1>1, <2>1, <2>2 DEF Right, Shape, Stage
  <2>5. Effect(n)
    BY <1>1, <1>3, <2>1, <2>2 DEF Right, Effect
  <2>6. Chosen(n)
    BY <2>1, <2>2, <2>3 DEF Chosen
  <2>7. Set(c, n)
    BY <1>3 DEF n
  <2> QED
    BY <2>4, <2>5, <2>6, <2>7, OneCall DEF Right
<1> QED
  BY <1>2, <1>3 DEF Begin

(* What a call does next is the one transition that leads to the status.   *)
LEMMA ChooseStep ==
  ASSUME WritesInv, NEW c \in Calls, ChooseTransition(c)
  PROVE  WritesInv'
<1> DEFINE h == call[c]
<1>1. Right(h) /\ h.at = "list"
  BY DEF WritesInv, ChooseTransition
<1>2. CASE Done(c, "failed")
  BY <1>1, <1>2, EndsUnchanged, OneCall DEF Done
<1>3. ASSUME NEW t \in Leading(h.req.target), Set(c, [h EXCEPT !.at = "write", !.id = t.id, !.matches = 1])
      PROVE  WritesInv'
  <2> DEFINE n == [h EXCEPT !.at = "write", !.id = t.id, !.matches = 1]
  <2>1. /\ n.at = "write" /\ n.req = h.req /\ n.id = t.id /\ n.out = h.out /\ n.matches = 1
        /\ n.carried = h.carried /\ n.lost = h.lost /\ DOMAIN n = CallFields
    BY <1>1 DEF Right, Shape, CallFields
  <2>2. t \in Workflow /\ Fold[t.to] = Fold[h.req.target]
    BY DEF Leading, Available
  <2>3. ~h.req.dry
    BY <1>1 DEF Right, Effect
  <2> HIDE DEF n
  <2>4. Shape(n) /\ Stage(n)
    BY <1>1, <2>1 DEF Right, Shape, Stage
  <2>5. Effect(n)
    BY <1>1, <2>1, <2>3 DEF Right, Effect
  <2>6. Chosen(n)
    BY <2>1, <2>2 DEF Chosen
  <2>7. Set(c, n)
    BY <1>3 DEF n
  <2> QED
    BY <2>4, <2>5, <2>6, <2>7, OneCall DEF Right
<1> QED
  BY <1>2, <1>3 DEF ChooseTransition

(* A call that looks up its project stays right.                           *)
LEMMA ResolveStep ==
  ASSUME WritesInv, NEW c \in Calls, ResolveProjectID(c)
  PROVE  WritesInv'
<1> DEFINE h == call[c]
<1>1. Right(h) /\ h.at = "resolve"
  BY DEF WritesInv, ResolveProjectID
<1>2. CASE Done(c, "failed")
  BY <1>1, <1>2, EndsUnchanged, OneCall DEF Done
<1>3. ASSUME NEW id, Set(c, [h EXCEPT !.at = "write", !.req.on = id]) PROVE WritesInv'
  <2> DEFINE n == [h EXCEPT !.at = "write", !.req.on = id]
  <2>1. /\ n.at = "write" /\ n.req = [h.req EXCEPT !.on = id] /\ n.out = h.out
        /\ n.carried = h.carried /\ n.lost = h.lost /\ DOMAIN n = CallFields
    BY <1>1 DEF Right, Shape, CallFields
  <2>2. DOMAIN n.req = RequestFields /\ n.req.op = h.req.op /\ n.req.dry = h.req.dry
    BY <1>1, <2>1 DEF Right, Shape, RequestFields
  <2>3. ~h.req.dry /\ h.req.op = "createVersion"
    BY <1>1 DEF Right, Effect, Stage
  <2> HIDE DEF n
  <2>4. Shape(n) /\ Stage(n)
    BY <1>1, <2>1, <2>2, <2>3 DEF Right, Shape, Stage
  <2>5. Effect(n)
    BY <1>1, <2>1, <2>2, <2>3 DEF Right, Effect
  <2>6. Chosen(n)
    BY <2>2, <2>3 DEF Chosen
  <2>7. Set(c, n)
    BY <1>3 DEF n
  <2> QED
    BY <2>4, <2>5, <2>6, <2>7, OneCall DEF Right
<1> QED
  BY <1>2, <1>3 DEF ResolveProjectID

(* A call that writes, answered or not, stays right.                       *)
LEMMA WriteStep ==
  ASSUME WritesInv, NEW c \in Calls, Write(c) \/ WriteUnanswered(c)
  PROVE  WritesInv'
<1> DEFINE h == call[c]
<1>1. Right(h) /\ h.at = "write"
  BY DEF WritesInv, Write, WriteUnanswered, CarryOut
<1>2. h.carried \in Nat /\ h.lost \in Nat /\ DOMAIN h = CallFields /\ ~h.req.dry
      /\ h.out = "" /\ h.req.op # "listVersions" /\ h.carried = h.lost
  BY <1>1 DEF Right, Shape, Effect, Stage
<1>n. h.carried \in Nat /\ h.lost \in Nat
  BY <1>1 DEF Right, Shape
<1>3. CASE Write(c)
  <2> DEFINE n == [h EXCEPT !.at = "done", !.out = "ok", !.carried = h.carried + 1]
  <2>1. /\ n.at = "done" /\ n.req = h.req /\ n.out = "ok"
        /\ n.carried = h.carried + 1 /\ n.lost = h.lost /\ DOMAIN n = CallFields
    BY <1>2 DEF CallFields
  <2>2. Set(c, n)
    BY <1>3 DEF Write
  <2> HIDE DEF n
  <2>3. Shape(n)
    <3>0. n.carried = h.carried + 1 /\ n.lost = h.lost
      BY <2>1
    <3>1. n.carried \in Nat /\ n.lost \in Nat
      BY <1>n, <3>0
    <3>2. DOMAIN n.req = RequestFields
      BY <1>1, <2>1 DEF Right, Shape
    <3> QED
      BY <2>1, <3>1, <3>2 DEF Shape
  <2>4. Stage(n) /\ Chosen(n)
    BY <2>1 DEF Stage, Chosen
  <2>5. Effect(n)
    BY <1>2, <2>1 DEF Effect
  <2> QED
    BY <2>2, <2>3, <2>4, <2>5, OneCall DEF Right
<1>4. CASE WriteUnanswered(c)
  <2> DEFINE n == [h EXCEPT !.carried = h.carried + 1, !.lost = h.lost + 1]
  <2>1. /\ n.at = h.at /\ n.req = h.req /\ n.out = h.out /\ n.id = h.id /\ n.matches = h.matches
        /\ n.carried = h.carried + 1 /\ n.lost = h.lost + 1 /\ DOMAIN n = CallFields
    BY <1>2 DEF CallFields
  <2>2. Set(c, n)
    BY <1>4 DEF WriteUnanswered
  <2> HIDE DEF n
  <2>3. Shape(n)
    <3>0. n.carried = h.carried + 1 /\ n.lost = h.lost + 1
      BY <2>1
    <3>1. n.carried \in Nat /\ n.lost \in Nat
      BY <1>n, <3>0
    <3>2. DOMAIN n.req = RequestFields
      BY <1>1, <2>1 DEF Right, Shape
    <3> QED
      BY <2>1, <3>1, <3>2 DEF Shape
  <2>4. Stage(n)
    BY <1>1, <1>2, <2>1 DEF Right, Stage
  <2>5. Effect(n)
    BY <1>2, <2>1 DEF Effect
  <2>6. Chosen(n)
    BY <1>1, <2>1 DEF Right, Chosen
  <2> QED
    BY <2>2, <2>3, <2>4, <2>5, <2>6, OneCall DEF Right
<1> QED
  BY <1>3, <1>4

(* A call that reads a page of versions stays right.                       *)
LEMMA ListStep ==
  ASSUME WritesInv, NEW c \in Calls, ListPage(c)
  PROVE  WritesInv'
<1> DEFINE h == call[c]
<1>1. Right(h) /\ h.at = "page"
  BY DEF WritesInv, ListPage
<1>2. DOMAIN h = CallFields /\ ~h.req.dry /\ h.req.op = "listVersions" /\ h.carried = h.lost /\ h.out = ""
  BY <1>1 DEF Right, Shape, Effect, Stage
<1>3. \E g, s : LET more == [h EXCEPT !.got = g, !.startAt = s]
                IN  Set(c, more) \/ Set(c, [more EXCEPT !.at = "done", !.out = "ok"])
  BY DEF ListPage
<1>4. PICK g, s : LET more == [h EXCEPT !.got = g, !.startAt = s]
                  IN  Set(c, more) \/ Set(c, [more EXCEPT !.at = "done", !.out = "ok"])
  BY <1>3
<1> DEFINE more == [h EXCEPT !.got = g, !.startAt = s]
           last == [more EXCEPT !.at = "done", !.out = "ok"]
<1>5. /\ more.at = h.at /\ more.req = h.req /\ more.out = h.out
      /\ more.carried = h.carried /\ more.lost = h.lost /\ DOMAIN more = CallFields
  BY <1>2 DEF CallFields
<1>6. /\ last.at = "done" /\ last.req = h.req /\ last.out = "ok"
      /\ last.carried = h.carried /\ last.lost = h.lost /\ DOMAIN last = CallFields
  BY <1>2 DEF CallFields
<1>7. Set(c, more) \/ Set(c, last)
  BY <1>4
<1> HIDE DEF more, last
<1>8. Right(more)
  BY <1>1, <1>2, <1>5 DEF Right, Shape, Stage, Effect, Chosen
<1>9. Right(last)
  BY <1>1, <1>2, <1>6 DEF Right, Shape, Stage, Effect, Chosen
<1> QED
  BY <1>7, <1>8, <1>9, OneCall

(* What others do leaves every call right.                                 *)
LEMMA OthersStep ==
  ASSUME WritesInv, Others
  PROVE  WritesInv'
<1>1. CASE UNCHANGED call
  BY <1>1 DEF WritesInv
<1>2. CASE DeleteVersion
  <2>1. ASSUME NEW c \in Calls, NEW b PROVE Right([call[c] EXCEPT !.cut = b])
    <3> DEFINE h == call[c]
               n == [call[c] EXCEPT !.cut = b]
    <3>1. Right(h)
      BY DEF WritesInv
    <3>2. /\ n.at = h.at /\ n.req = h.req /\ n.out = h.out /\ n.id = h.id /\ n.matches = h.matches
          /\ n.carried = h.carried /\ n.lost = h.lost /\ DOMAIN n = CallFields
      BY <3>1 DEF Right, Shape, CallFields
    <3> HIDE DEF n
    <3>3. Shape(n) /\ Stage(n) /\ Effect(n) /\ Chosen(n)
      BY <3>1, <3>2 DEF Right, Shape, Stage, Effect, Chosen
    <3> QED
      BY <3>3 DEF Right, n
  <2> QED
    BY <1>2, <2>1 DEF DeleteVersion, WritesInv
<1> QED
  BY <1>1, <1>2 DEF Others, MoveIssue, AddVersion

(* Every step keeps every call right.                                      *)
LEMMA WritesStep == WritesInv /\ [Next]_vars => WritesInv'
<1> SUFFICES ASSUME WritesInv, [Next]_vars PROVE WritesInv'
  OBVIOUS
<1>1. ASSUME NEW c \in Calls, Fail(c) PROVE WritesInv'
  <2>1. Right(call[c]) /\ call[c].at # "done" /\ Set(c, [call[c] EXCEPT !.at = "done", !.out = "failed"])
    BY <1>1 DEF Fail, Done, WritesInv
  <2> QED
    BY <2>1, EndsUnchanged, OneCall
<1>2. CASE UNCHANGED vars
  BY <1>2 DEF vars, WritesInv
<1> QED
  BY <1>1, <1>2, BeginStep, ChooseStep, ResolveStep, WriteStep, ListStep, OthersStep DEF Next

(* The invariant holds for every set of calls and requests.                *)
LEMMA WritesInductive == Spec => []WritesInv
<1>1. Init => WritesInv
  BY InitWrites
<1>2. WritesInv /\ [Next]_vars => WritesInv'
  BY WritesStep
<1> QED
  BY <1>1, <1>2, PTL DEF Spec

(* A call that reports a failure, a refusal or a preview changed nothing   *)
(* in Jira but what a lost answer hides; one that reports success was      *)
(* carried out, once for its answer and once for each that was lost.       *)
THEOREM OutcomeIsEffect == Spec => []OutcomeTellsEffect
<1>1. WritesInv => OutcomeTellsEffect
  BY DEF WritesInv, Right, Effect, OutcomeTellsEffect
<1> QED
  BY <1>1, WritesInductive, PTL

-----------------------------------------------------------------------------
(* Only a write that Jira carries out is counted as one.                   *)
LEMMA CarriedByWrite ==
  ASSUME WritesInv, [Next]_vars, NEW c \in Calls, call'[c].carried > call[c].carried
  PROVE  CarryOut(c)
<1>1. call[c].carried \in Nat /\ DOMAIN call[c] = CallFields /\ DOMAIN call = Calls
  BY DEF WritesInv, Right, Shape
<1>2. call'[c].carried # call[c].carried
  BY <1>1
<1>3. ASSUME NEW d \in Calls, Write(d) \/ WriteUnanswered(d) PROVE CarryOut(c)
  <2>1. d # c => call'[c] = call[c]
    BY <1>1, <1>3 DEF Write, WriteUnanswered, Set
  <2> QED
    BY <1>2, <1>3, <2>1 DEF Write, WriteUnanswered
<1>4. ASSUME NEW d \in Calls, Begin(d) \/ Fail(d) \/ ChooseTransition(d) \/ ResolveProjectID(d) \/ ListPage(d)
      PROVE  call'[c].carried = call[c].carried
  <2>1. DOMAIN call[d] = CallFields
    BY DEF WritesInv, Right, Shape
  <2>2. ASSUME NEW n, Set(d, n), n.carried = call[d].carried PROVE call'[c].carried = call[c].carried
    BY <1>1, <2>2 DEF Set
  <2>3. /\ \A out : [call[d] EXCEPT !.at = "done", !.out = out].carried = call[d].carried
        /\ \A a, s : [call[d] EXCEPT !.at = a, !.there = s].carried = call[d].carried
        /\ \A i : [call[d] EXCEPT !.at = "write", !.id = i, !.matches = 1].carried = call[d].carried
        /\ \A p : [call[d] EXCEPT !.at = "write", !.req.on = p].carried = call[d].carried
    BY <2>1 DEF CallFields
  <2>4. CASE Begin(d) \/ Fail(d)
    BY <2>2, <2>3, <2>4 DEF Begin, Fail, Done
  <2>5. CASE ChooseTransition(d)
    BY <2>2, <2>3, <2>5 DEF ChooseTransition, Done
  <2>6. CASE ResolveProjectID(d)
    BY <2>2, <2>3, <2>6 DEF ResolveProjectID, Done
  <2>7. CASE ListPage(d)
    <3>1. PICK g, s : LET more == [call[d] EXCEPT !.got = g, !.startAt = s]
                      IN  Set(d, more) \/ Set(d, [more EXCEPT !.at = "done", !.out = "ok"])
      BY <2>7 DEF ListPage
    <3>2. LET more == [call[d] EXCEPT !.got = g, !.startAt = s]
          IN  /\ more.carried = call[d].carried
              /\ [more EXCEPT !.at = "done", !.out = "ok"].carried = call[d].carried
      BY <2>1 DEF CallFields
    <3> QED
      BY <2>2, <3>1, <3>2
  <2> QED
    BY <1>4, <2>4, <2>5, <2>6, <2>7
<1>5. Others => call'[c].carried = call[c].carried
  BY <1>1 DEF Others, MoveIssue, AddVersion, DeleteVersion, CallFields
<1>6. UNCHANGED vars => call'[c].carried = call[c].carried
  BY DEF vars
<1> QED
  BY <1>2, <1>3, <1>4, <1>5, <1>6 DEF Next

(* Whatever moves the issue between the list of the transitions and the    *)
(* execution of one, a transition by status ends in that status, or fails. *)
THEOREM TransitionIsOnTarget == Spec => TransitionHitsTarget
<1> DEFINE OnTarget(c) ==
      /\ call'[c].carried > call[c].carried
      /\ call[c].req.op = "transition" /\ call[c].req.target # Empty
      => call[c].matches = 1 /\ Fold[status'] = Fold[call[c].req.target]
<1>1. WritesInv /\ [Next]_vars => \A c \in Calls : OnTarget(c)
  <2> SUFFICES ASSUME WritesInv, [Next]_vars, NEW c \in Calls,
                      call'[c].carried > call[c].carried,
                      call[c].req.op = "transition", call[c].req.target # Empty
               PROVE  call[c].matches = 1 /\ Fold[status'] = Fold[call[c].req.target]
    OBVIOUS
  <2>1. CarryOut(c)
    BY CarriedByWrite
  <2>2. call[c].at = "write" /\ Transition(c)
    BY <2>1 DEF CarryOut
  <2>3. PICK t \in Workflow : t.id = call[c].id /\ status' = t.to
    BY <2>2 DEF Transition, Available
  <2>4. PICK u \in Workflow : u.id = call[c].id /\ Fold[u.to] = Fold[call[c].req.target]
    BY <2>2 DEF WritesInv, Right, Chosen
  <2>5. call[c].matches = 1
    BY <2>2 DEF WritesInv, Right, Chosen
  <2> QED
    BY <2>3, <2>4, <2>5, WritesAssumption
<1> QED
  BY <1>1, WritesInductive, PTL DEF Spec, TransitionHitsTarget

-----------------------------------------------------------------------------
IsSeq(s) == \E S : s \in Seq(S)

(* The length and the positions of a sequence.                             *)
LEMMA Sequence ==
  ASSUME NEW s, IsSeq(s)
  PROVE  Len(s) \in Nat /\ DOMAIN s = 1 .. Len(s)
BY LenProperties DEF IsSeq

(* A sequence with one more element, position by position.                 *)
LEMMA Appended ==
  ASSUME NEW s, IsSeq(s), NEW e
  PROVE  /\ IsSeq(Append(s, e)) /\ Len(Append(s, e)) = Len(s) + 1
         /\ Append(s, e)[Len(s) + 1] = e
         /\ \A i \in 1 .. Len(s) : Append(s, e)[i] = s[i]
<1>1. PICK S : s \in Seq(S)
  BY DEF IsSeq
<1>2. s \in Seq(S \cup {e})
  BY <1>1, SeqMonotonic
<1> QED
  BY <1>2, AppendProperties DEF IsSeq

(* Two sequences put together, position by position.                       *)
LEMMA Joined ==
  ASSUME NEW s, IsSeq(s), NEW t, IsSeq(t)
  PROVE  /\ IsSeq(s \o t) /\ Len(s \o t) = Len(s) + Len(t)
         /\ \A i \in 1 .. Len(s) : (s \o t)[i] = s[i]
         /\ \A i \in 1 .. Len(t) : (s \o t)[Len(s) + i] = t[i]
<1>1. PICK S, T : s \in Seq(S) /\ t \in Seq(T)
  BY DEF IsSeq
<1>2. s \in Seq(S \cup T) /\ t \in Seq(S \cup T)
  BY <1>1, SeqMonotonic
<1>3. Len(s) \in Nat /\ Len(t) \in Nat
  BY Sequence
<1>4. \A i \in 1 .. Len(s) + Len(t) : (s \o t)[i] = IF i <= Len(s) THEN s[i] ELSE t[i - Len(s)]
  BY <1>2, ConcatProperties
<1>5. \A i \in 1 .. Len(t) : (s \o t)[Len(s) + i] = t[i]
  BY <1>3, <1>4
<1> QED
  BY <1>2, <1>3, <1>4, <1>5, ConcatProperties DEF IsSeq

(* A part of a sequence, position by position.                             *)
LEMMA Part ==
  ASSUME NEW s, IsSeq(s), NEW m \in 1 .. Len(s) + 1, NEW n \in Nat, n <= Len(s)
  PROVE  /\ IsSeq(SubSeq(s, m, n)) /\ Len(SubSeq(s, m, n)) = IF m <= n THEN n - m + 1 ELSE 0
         /\ \A i \in 1 .. n - m + 1 : SubSeq(s, m, n)[i] = s[m + i - 1]
<1>1. PICK S : s \in Seq(S)
  BY DEF IsSeq
<1>2. Len(s) \in Nat
  BY Sequence
<1>3. \A i \in m .. n : s[i] \in S
  BY <1>1, <1>2, ElementOfSeq
<1>4. m \in Int /\ n \in Int
  BY <1>2
<1>5. /\ SubSeq(s, m, n) \in Seq(S)
      /\ Len(SubSeq(s, m, n)) = IF m <= n THEN n - m + 1 ELSE 0
      /\ \A i \in 1 .. n - m + 1 : SubSeq(s, m, n)[i] = s[m + i - 1]
  BY <1>3, <1>4, SubSeqProperties
<1> QED
  BY <1>5, Zenon DEF IsSeq

(* What is left of a sequence without one element, at its old position.    *)
LEMMA Removed ==
  ASSUME NEW s, IsSeq(s), NEW k \in 1 .. Len(s)
  PROVE  /\ IsSeq(RemoveAt(s, k)) /\ Len(RemoveAt(s, k)) = Len(s) - 1
         /\ \A i \in 1 .. k - 1 : RemoveAt(s, k)[i] = s[i]
         /\ \A i \in k .. Len(s) - 1 : RemoveAt(s, k)[i] = s[i + 1]
<1> DEFINE a == SubSeq(s, 1, k - 1)
           b == SubSeq(s, k + 1, Len(s))
<1>1. Len(s) \in Nat
  BY Sequence
<1>2. /\ 1 \in 1 .. Len(s) + 1 /\ k - 1 \in Nat /\ k - 1 <= Len(s)
      /\ k + 1 \in 1 .. Len(s) + 1 /\ Len(s) <= Len(s)
  BY <1>1
<1>3. IsSeq(a) /\ Len(a) = k - 1 /\ \A i \in 1 .. k - 1 : a[i] = s[i]
  <2>1. /\ IsSeq(a) /\ Len(a) = IF 1 <= k - 1 THEN (k - 1) - 1 + 1 ELSE 0
        /\ \A i \in 1 .. (k - 1) - 1 + 1 : a[i] = s[1 + i - 1]
    BY <1>2, Part
  <2> HIDE DEF a
  <2> QED
    BY <2>1, <1>1
<1>4. IsSeq(b) /\ Len(b) = Len(s) - k /\ \A i \in 1 .. Len(s) - k : b[i] = s[k + i]
  <2>1. /\ IsSeq(b) /\ Len(b) = IF k + 1 <= Len(s) THEN Len(s) - (k + 1) + 1 ELSE 0
        /\ \A i \in 1 .. Len(s) - (k + 1) + 1 : b[i] = s[(k + 1) + i - 1]
    BY <1>1, <1>2, Part
  <2> HIDE DEF b
  <2> QED
    BY <2>1, <1>1
<1> HIDE DEF a, b
<1>e. IsSeq(a) /\ IsSeq(b)
  BY <1>3, <1>4
<1>5. /\ IsSeq(a \o b) /\ Len(a \o b) = Len(a) + Len(b)
      /\ \A i \in 1 .. Len(a) : (a \o b)[i] = a[i]
      /\ \A i \in 1 .. Len(b) : (a \o b)[Len(a) + i] = b[i]
  BY <1>e, Joined
<1>6. Len(a \o b) = Len(s) - 1
  BY <1>1, <1>3, <1>4, <1>5
<1>7. \A i \in 1 .. k - 1 : (a \o b)[i] = s[i]
  BY <1>1, <1>3, <1>5
<1>8. ASSUME NEW i \in k .. Len(s) - 1 PROVE (a \o b)[i] = s[i + 1]
  <2>1. PICK m \in 1 .. Len(s) - k : i = (k - 1) + m /\ i + 1 = k + m
    <3>1. i - (k - 1) \in 1 .. Len(s) - k
      BY <1>1
    <3> QED
      BY <3>1, <1>1
  <2>2. b[m] = s[k + m] /\ (a \o b)[(k - 1) + m] = b[m]
    BY <1>3, <1>4, <1>5
  <2> QED
    BY <2>1, <2>2
<1> QED
  BY <1>5, <1>6, <1>7, <1>8 DEF RemoveAt, a, b

-----------------------------------------------------------------------------
(* The project's versions have different ids, all of them ids that Jira    *)
(* has given.                                                              *)
Versioned(vs, n) ==
  /\ IsSeq(vs) /\ n \in Nat
  /\ \A i \in 1 .. Len(vs) : DOMAIN vs[i] = {"id", "body"}
  /\ \A i \in 1 .. Len(vs) : \E k \in DOMAIN VersionIds : k \in 1 .. n /\ vs[i].id = VersionIds[k]
  /\ \A i, j \in 1 .. Len(vs) : vs[i].id = vs[j].id => i = j

(* What a listing has so far is the beginning of the project's versions,   *)
(* and none of those that it is to have was deleted.                       *)
Along(got, startAt, there, vs) ==
  /\ IsSeq(got) /\ startAt = Len(got) /\ Len(got) <= Len(vs)
  /\ \A i \in 1 .. Len(got) : got[i].id = vs[i].id
  /\ there \subseteq Ids(vs)

Complete(got, there) == IsInjective(got) /\ there \subseteq Ids(got)

Listing(h, vs) ==
  /\ h.at = "begin" => h.got = << >> /\ h.startAt = 0
  /\ h.at = "page" /\ ~h.cut => Along(h.got, h.startAt, h.there, vs)
  /\ h.at = "done" /\ h.req.op = "listVersions" /\ h.out = "ok" /\ ~h.cut => Complete(h.got, h.there)

ListingInv ==
  /\ Versioned(versions, made)
  /\ \A c \in Calls : Listing(call[c], versions)

(* Versions that are added or edited leave the listings under way right.   *)
Grows(vs, new) ==
  /\ IsSeq(new) /\ Len(vs) <= Len(new)
  /\ \A i \in 1 .. Len(vs) : new[i].id = vs[i].id

(* What was read so far fits the versions still when they have grown.      *)
LEMMA AlongGrows ==
  ASSUME NEW vs, IsSeq(vs), NEW new, Grows(vs, new), NEW got, NEW startAt, NEW there, Along(got, startAt, there, vs)
  PROVE  Along(got, startAt, there, new)
<1>1. /\ Len(vs) \in Nat /\ DOMAIN vs = 1 .. Len(vs)
      /\ Len(new) \in Nat /\ DOMAIN new = 1 .. Len(new)
      /\ Len(got) \in Nat
  BY Sequence DEF Grows, Along
<1>2. Ids(vs) \subseteq Ids(new)
  BY <1>1 DEF Ids, Grows
<1>3. Len(got) <= Len(new)
  BY <1>1 DEF Grows, Along
<1>4. \A i \in 1 .. Len(got) : got[i].id = new[i].id
  BY <1>1 DEF Grows, Along
<1> QED
  BY <1>2, <1>3, <1>4 DEF Along

(* When as many were read as there are, all that were there at the         *)
(* beginning were read, each once.                                         *)
LEMMA Whole ==
  ASSUME NEW vs, NEW n, Versioned(vs, n), NEW got, NEW startAt, NEW there,
         Along(got, startAt, there, vs), Len(got) = Len(vs)
  PROVE  Complete(got, there)
<1>1. /\ DOMAIN vs = 1 .. Len(vs) /\ DOMAIN got = 1 .. Len(vs)
  BY Sequence DEF Versioned, Along
<1>2. IsInjective(got)
  BY <1>1 DEF IsInjective, Versioned, Along
<1>3. Ids(got) = Ids(vs)
  BY <1>1 DEF Ids, Along
<1> QED
  BY <1>2, <1>3 DEF Complete, Along

(* One more page fits where the last one ended.                            *)
LEMMA NextPage ==
  ASSUME NEW vs, NEW n, Versioned(vs, n), NEW got, NEW startAt, NEW there, Along(got, startAt, there, vs),
         NEW k \in Nat, startAt + k <= Len(vs)
  PROVE  LET more == got \o SubSeq(vs, startAt + 1, startAt + k)
         IN  Along(more, startAt + k, there, vs)
<1> DEFINE page == SubSeq(vs, startAt + 1, startAt + k)
<1>1. IsSeq(vs) /\ IsSeq(got) /\ Len(vs) \in Nat /\ Len(got) \in Nat /\ startAt = Len(got)
  BY Sequence DEF Versioned, Along
<1>2. startAt + 1 \in 1 .. Len(vs) + 1 /\ startAt + k \in Nat /\ startAt + k <= Len(vs)
  BY <1>1 DEF Along
<1>3. /\ IsSeq(page) /\ Len(page) = IF startAt + 1 <= startAt + k THEN (startAt + k) - (startAt + 1) + 1 ELSE 0
      /\ \A i \in 1 .. (startAt + k) - (startAt + 1) + 1 : page[i] = vs[(startAt + 1) + i - 1]
  BY <1>1, <1>2, Part
<1> HIDE DEF page
<1>4. IsSeq(page) /\ Len(page) = k /\ \A i \in 1 .. k : page[i] = vs[startAt + i]
  BY <1>1, <1>3
<1>5. /\ IsSeq(got \o page) /\ Len(got \o page) = Len(got) + Len(page)
      /\ \A i \in 1 .. Len(got) : (got \o page)[i] = got[i]
      /\ \A i \in 1 .. Len(page) : (got \o page)[Len(got) + i] = page[i]
  <2>1. IsSeq(got) /\ IsSeq(page)
    BY <1>1, <1>4
  <2> QED
    BY <2>1, Joined
<1>6. Len(got \o page) = startAt + k /\ startAt + k <= Len(vs)
  BY <1>1, <1>2, <1>4, <1>5
<1>7. ASSUME NEW i \in 1 .. startAt + k PROVE (got \o page)[i].id = vs[i].id
  <2>1. CASE i <= startAt
    BY <2>1, <1>1, <1>5 DEF Along
  <2>2. CASE i > startAt
    <3>1. PICK m \in 1 .. k : i = startAt + m
      <4>1. i - startAt \in 1 .. k
        BY <2>2, <1>1
      <4> QED
        BY <4>1, <1>1
    <3>2. (got \o page)[startAt + m] = page[m] /\ page[m] = vs[startAt + m]
      BY <1>1, <1>4, <1>5
    <3> QED
      BY <3>1, <3>2
  <2>3. i <= startAt \/ i > startAt
    BY <1>1
  <2> QED
    BY <2>1, <2>2, <2>3
<1> QED
  BY <1>5, <1>6, <1>7 DEF Along, page

-----------------------------------------------------------------------------
(* A version that is new has an id of its own.                             *)
LEMMA NewIsVersioned ==
  ASSUME Versioned(versions, made), NEW body, NewVersion(body)
  PROVE  Versioned(versions', made') /\ Grows(versions, versions')
<1> DEFINE v == [id |-> VersionIds[made'], body |-> body]
<1>1. v.id = VersionIds[made'] /\ DOMAIN v = {"id", "body"}
  OBVIOUS
<1>2. versions' = Append(versions, v) /\ made' = made + 1 /\ made' \in DOMAIN VersionIds
  BY DEF NewVersion
<1> HIDE DEF v
<1>3. IsSeq(versions) /\ Len(versions) \in Nat /\ made \in Nat
  BY Sequence DEF Versioned
<1>4. /\ IsSeq(versions') /\ Len(versions') = Len(versions) + 1
      /\ versions'[Len(versions) + 1] = v
      /\ \A i \in 1 .. Len(versions) : versions'[i] = versions[i]
  BY <1>2, <1>3, Appended
<1>5. Grows(versions, versions')
  BY <1>3, <1>4 DEF Grows
<1>6. ASSUME NEW i \in 1 .. Len(versions') PROVE i \in 1 .. Len(versions) \/ i = Len(versions) + 1
  BY <1>3, <1>4
<1>7. \A i \in 1 .. Len(versions) : \E k \in DOMAIN VersionIds : k \in 1 .. made /\ versions[i].id = VersionIds[k]
  BY DEF Versioned
<1>8. ASSUME NEW i \in 1 .. Len(versions') 
      PROVE  /\ DOMAIN versions'[i] = {"id", "body"}
             /\ \E k \in DOMAIN VersionIds : k \in 1 .. made' /\ versions'[i].id = VersionIds[k]
  <2>1. CASE i \in 1 .. Len(versions)
    <3>1. versions'[i] = versions[i]
      BY <2>1, <1>4
    <3>2. PICK k \in DOMAIN VersionIds : k \in 1 .. made /\ versions[i].id = VersionIds[k]
      BY <2>1, <1>7
    <3>3. k \in 1 .. made'
      BY <3>2, <1>2, <1>3
    <3> QED
      BY <2>1, <3>1, <3>2, <3>3 DEF Versioned
  <2>2. CASE i = Len(versions) + 1
    <3>1. made' \in 1 .. made'
      BY <1>2, <1>3
    <3> QED
      BY <2>2, <3>1, <1>1, <1>2, <1>4
  <2> QED
    BY <1>6, <2>1, <2>2
<1>9. ASSUME NEW i \in 1 .. Len(versions) PROVE versions[i].id # v.id
  <2>1. PICK k \in DOMAIN VersionIds : k \in 1 .. made /\ versions[i].id = VersionIds[k]
    BY <1>7
  <2>2. k # made'
    BY <2>1, <1>2, <1>3
  <2> QED
    BY <2>1, <2>2, <1>1, <1>2, WritesAssumption DEF IsInjective
<1>10. \A i, j \in 1 .. Len(versions) : versions[i].id = versions[j].id => i = j
  BY DEF Versioned
<1>11. ASSUME NEW i \in 1 .. Len(versions'), NEW j \in 1 .. Len(versions'), versions'[i].id = versions'[j].id
       PROVE  i = j
  BY <1>4, <1>6, <1>9, <1>10, <1>11
<1>12. made' \in Nat
  BY <1>2, <1>3
<1> QED
  BY <1>4, <1>5, <1>8, <1>11, <1>12 DEF Versioned

(* An update of a version leaves the ids and their order alone.            *)
LEMMA EditedIsVersioned ==
  ASSUME Versioned(versions, made), NEW req, UpdateVersion(req)
  PROVE  Versioned(versions', made') /\ Grows(versions, versions')
<1>1. PICK k \in DOMAIN versions : versions' = [versions EXCEPT ![k].body = Onto(@, RenderUpdateBody(req))]
  BY DEF UpdateVersion
<1> DEFINE v == [versions[k] EXCEPT !.body = Onto(@, RenderUpdateBody(req))]
<1>2. IsSeq(versions) /\ DOMAIN versions = 1 .. Len(versions) /\ made' = made
  BY Sequence DEF Versioned, UpdateVersion
<1>3. v.id = versions[k].id /\ DOMAIN v = {"id", "body"}
  BY <1>2 DEF Versioned
<1>4. versions' = [versions EXCEPT ![k] = v]
  BY <1>1
<1> HIDE DEF v
<1>5. IsSeq(versions') /\ Len(versions') = Len(versions)
  <2>1. PICK S : versions \in Seq(S)
    BY <1>2 DEF IsSeq
  <2>2. versions \in Seq(S \cup {v})
    BY <2>1, SeqMonotonic
  <2>3. v \in S \cup {v} /\ k \in 1 .. Len(versions)
    BY <1>2
  <2>4. versions' \in Seq(S \cup {v}) /\ Len(versions') = Len(versions)
    BY <2>2, <2>3, <1>4, ExceptSeq
  <2> QED
    BY <2>4 DEF IsSeq
<1>6. ASSUME NEW i \in 1 .. Len(versions) PROVE versions'[i].id = versions[i].id /\ DOMAIN versions'[i] = {"id", "body"}
  BY <1>2, <1>3, <1>4 DEF Versioned
<1>7. Grows(versions, versions')
  <2>1. Len(versions) \in Nat
    BY <1>2, Sequence
  <2> QED
    BY <2>1, <1>5, <1>6 DEF Grows
<1> QED
  BY <1>2, <1>5, <1>6, <1>7 DEF Versioned

(* Without a deleted version the ids are still given once.                 *)
LEMMA DeletedIsVersioned ==
  ASSUME Versioned(versions, made), DeleteVersion
  PROVE  Versioned(versions', made')
<1>1. PICK k \in DOMAIN versions : versions' = RemoveAt(versions, k)
  BY DEF DeleteVersion
<1>2. IsSeq(versions) /\ Len(versions) \in Nat /\ DOMAIN versions = 1 .. Len(versions) /\ made' = made
  BY Sequence DEF Versioned, DeleteVersion
<1>3. /\ IsSeq(versions') /\ Len(versions') = Len(versions) - 1
      /\ \A i \in 1 .. k - 1 : versions'[i] = versions[i]
      /\ \A i \in k .. Len(versions) - 1 : versions'[i] = versions[i + 1]
  BY <1>1, <1>2, Removed
<1> DEFINE old(i) == IF i < k THEN i ELSE i + 1
<1>4. ASSUME NEW i \in 1 .. Len(versions') PROVE old(i) \in 1 .. Len(versions) /\ versions'[i] = versions[old(i)]
  <2>1. CASE i < k
    BY <2>1, <1>2, <1>3
  <2>2. CASE i >= k
    BY <2>2, <1>2, <1>3
  <2> QED
    BY <2>1, <2>2, <1>2, <1>3
<1>5. ASSUME NEW i \in 1 .. Len(versions'), NEW j \in 1 .. Len(versions'), old(i) = old(j) PROVE i = j
  BY <1>2, <1>3, <1>5
<1> HIDE DEF old
<1>6. \A i \in 1 .. Len(versions') : DOMAIN versions'[i] = {"id", "body"}
  BY <1>4 DEF Versioned
<1>7. ASSUME NEW i \in 1 .. Len(versions')
      PROVE  \E n \in DOMAIN VersionIds : n \in 1 .. made' /\ versions'[i].id = VersionIds[n]
  <2>1. \A m \in 1 .. Len(versions) :
          \E n \in DOMAIN VersionIds : n \in 1 .. made /\ versions[m].id = VersionIds[n]
    BY DEF Versioned
  <2>2. old(i) \in 1 .. Len(versions) /\ versions'[i] = versions[old(i)]
    BY <1>4
  <2> QED
    BY <1>2, <2>1, <2>2
<1>8. ASSUME NEW i \in 1 .. Len(versions'), NEW j \in 1 .. Len(versions'), versions'[i].id = versions'[j].id
      PROVE  i = j
  <2>1. \A m, n \in 1 .. Len(versions) : versions[m].id = versions[n].id => m = n
    BY DEF Versioned
  <2>2. /\ old(i) \in 1 .. Len(versions) /\ versions'[i] = versions[old(i)]
        /\ old(j) \in 1 .. Len(versions) /\ versions'[j] = versions[old(j)]
    BY <1>4
  <2>3. old(i) = old(j)
    BY <2>1, <2>2, <1>8
  <2> QED
    BY <1>5, <2>3
<1> QED
  BY <1>2, <1>3, <1>6, <1>7, <1>8 DEF Versioned

-----------------------------------------------------------------------------
(* Only a call that is listing, or has listed, has a listing to be right.  *)
LEMMA NoListing ==
  ASSUME NEW n, NEW vs, n.at \in {"list", "resolve", "write"} \/ (n.at = "done" /\ n.out # "ok")
  PROVE  Listing(n, vs)
BY DEF Listing

(* A call that changes its own listing only keeps the others'.             *)
LEMMA SetListing ==
  ASSUME ListingInv, NEW c \in Calls, NEW h, Set(c, h), DOMAIN call = Calls,
         versions' = versions, made' = made, Listing(h, versions)
  PROVE  ListingInv'
BY DEF ListingInv, Set

(* At the beginning no page was read.                                      *)
LEMMA InitListing == Init => ListingInv
<1> SUFFICES ASSUME Init PROVE ListingInv
  OBVIOUS
<1>1. PICK r \in Requests : call = [c \in Calls |-> NewCall(r[c])]
  BY DEF Init
<1>2. ASSUME NEW c \in Calls PROVE Listing(NewCall(r[c]), versions)
  <2>1. NewCall(r[c]).at = "begin" /\ NewCall(r[c]).got = << >> /\ NewCall(r[c]).startAt = 0
    BY DEF NewCall
  <2> QED
    BY <2>1 DEF Listing
<1> DEFINE v(i) == [id |-> VersionIds[i], body |-> << >>]
<1>3. versions = [i \in 1 .. 2 |-> v(i)] /\ made = 2
  BY DEF Init
<1>4. \A i \in 1 .. 2 : v(i).id = VersionIds[i] /\ DOMAIN v(i) = {"id", "body"}
  OBVIOUS
<1> HIDE DEF v
<1>5. IsSeq(versions) /\ Len(versions) = 2
  <2>1. versions \in [1 .. 2 -> {v(1), v(2)}]
    BY <1>3
  <2>2. versions \in Seq({v(1), v(2)})
    BY <2>1, SeqDef
  <2>3. Len(versions) \in Nat /\ 1 .. Len(versions) = 1 .. 2
    BY <2>1, <2>2, LenProperties
  <2>4. 2 \in 1 .. Len(versions) /\ 3 \notin 1 .. Len(versions)
    BY <2>3
  <2>5. Len(versions) = 2
    <3>1. Len(versions) \in Nat
      BY <2>3
    <3>2. \A n \in Nat : 2 \in 1 .. n /\ 3 \notin 1 .. n => n = 2
      OBVIOUS
    <3> QED
      BY <3>1, <3>2, <2>4, Zenon
  <2> QED
    BY <2>2, <2>5 DEF IsSeq
<1>6. Versioned(versions, made)
  <2>1. \A i \in 1 .. 2 : versions[i].id = VersionIds[i] /\ DOMAIN versions[i] = {"id", "body"} /\ i \in DOMAIN VersionIds
    BY <1>3, <1>4, WritesAssumption
  <2>2. \A i, j \in 1 .. 2 : VersionIds[i] = VersionIds[j] => i = j
    BY <2>1, WritesAssumption DEF IsInjective
  <2> QED
    BY <1>3, <1>5, <2>1, <2>2 DEF Versioned
<1> QED
  BY <1>1, <1>2, <1>6 DEF ListingInv

(* A call that begins has read nothing.                                    *)
LEMMA BeginListing ==
  ASSUME WritesInv, ListingInv, NEW c \in Calls, Begin(c)
  PROVE  ListingInv'
<1> DEFINE h == call[c]
<1>1. /\ Right(h) /\ h.at = "begin" /\ Listing(h, versions) /\ DOMAIN h = CallFields /\ DOMAIN call = Calls
      /\ versions' = versions /\ made' = made
  BY DEF WritesInv, Begin, ListingInv, Right, Shape, jira
<1>2. ASSUME NEW out \in {"refused", "preview", "failed"}, Done(c, out) PROVE ListingInv'
  <2> DEFINE n == [h EXCEPT !.at = "done", !.out = out]
  <2>1. n.at = "done" /\ n.out = out /\ Set(c, n) /\ out # "ok"
    BY <1>1, <1>2 DEF CallFields, Done
  <2> HIDE DEF n
  <2> QED
    BY <1>1, <2>1, NoListing, SetListing
<1>3. ASSUME Set(c, [h EXCEPT !.at = FirstRequest(h.req), !.there = Ids(versions)]) PROVE ListingInv'
  <2> DEFINE n == [h EXCEPT !.at = FirstRequest(h.req), !.there = Ids(versions)]
  <2>1. /\ n.at \in {"list", "resolve", "page", "write"} /\ n.got = h.got /\ n.startAt = h.startAt
        /\ n.there = Ids(versions) /\ Set(c, n)
    BY <1>1, <1>3 DEF CallFields, FirstRequest
  <2> HIDE DEF n
  <2>2. n.got = << >> /\ n.startAt = 0
    BY <1>1, <2>1 DEF Listing
  <2>3. Along(<< >>, 0, Ids(versions), versions)
    <3>1. IsSeq(<< >>) /\ Len(<< >>) = 0
      BY EmptySeq DEF IsSeq
    <3>2. Len(versions) \in Nat
      BY Sequence DEF ListingInv, Versioned
    <3> QED
      BY <3>1, <3>2 DEF Along
  <2>4. Listing(n, versions)
    BY <2>1, <2>2, <2>3 DEF Listing
  <2> QED
    BY <1>1, <2>1, <2>4, SetListing
<1> QED
  BY <1>2, <1>3 DEF Begin

(* A page that is read goes on where the last one ended.                   *)
LEMMA PageListing ==
  ASSUME WritesInv, ListingInv, NEW c \in Calls, ListPage(c)
  PROVE  ListingInv'
<1> DEFINE h == call[c]
           left == Len(versions) - h.startAt
<1>1. /\ h.at = "page" /\ Listing(h, versions) /\ DOMAIN h = CallFields /\ DOMAIN call = Calls
      /\ versions' = versions /\ made' = made /\ Versioned(versions, made)
  BY DEF WritesInv, ListPage, ListingInv, Right, Shape, jira
<1>2. PICK k \in IF left <= 0 THEN {0} ELSE 1 .. PageSize :
        /\ k <= left \/ k = 0
        /\ LET more == [h EXCEPT !.got = @ \o PageOf(h.startAt, k), !.startAt = @ + k]
           IN  IF k = 0 \/ k = left THEN Set(c, [more EXCEPT !.at = "done", !.out = "ok"]) ELSE Set(c, more)
  BY DEF ListPage
<1> DEFINE more == [h EXCEPT !.got = @ \o PageOf(h.startAt, k), !.startAt = @ + k]
           last == [more EXCEPT !.at = "done", !.out = "ok"]
<1>3. /\ more.at = h.at /\ more.got = h.got \o PageOf(h.startAt, k) /\ more.startAt = h.startAt + k
      /\ more.there = h.there /\ more.cut = h.cut
  BY <1>1 DEF CallFields
<1>4. /\ last.at = "done" /\ last.got = more.got
      /\ last.there = h.there /\ last.cut = h.cut
  BY <1>1 DEF CallFields
<1>5. IF k = 0 \/ k = left THEN Set(c, last) ELSE Set(c, more)
  BY <1>2
<1>6. k <= left \/ k = 0
  BY <1>2
<1> HIDE DEF more, last
<1>7. ASSUME ~h.cut
      PROVE  /\ Along(more.got, more.startAt, h.there, versions)
             /\ k = 0 \/ k = left => Complete(more.got, h.there)
  <2>1. Along(h.got, h.startAt, h.there, versions)
    BY <1>1, <1>7 DEF Listing
  <2>2. Len(versions) \in Nat /\ h.startAt \in Nat /\ h.startAt <= Len(versions)
    <3>1. Len(versions) \in Nat /\ Len(h.got) \in Nat
      BY <1>1, <2>1, Sequence DEF Versioned, Along
    <3> QED
      BY <2>1, <3>1 DEF Along
  <2>3. k \in Nat /\ h.startAt + k <= Len(versions) /\ (k = 0 \/ k = left => h.startAt + k = Len(versions))
    <3>1. CASE left <= 0
      BY <3>1, <2>2
    <3>2. CASE ~(left <= 0)
      BY <3>2, <2>2, <1>6, WritesAssumption
    <3> QED
      BY <3>1, <3>2
  <2>4. Along(more.got, more.startAt, h.there, versions)
    BY <1>1, <1>3, <2>1, <2>3, NextPage DEF PageOf
  <2>5. k = 0 \/ k = left => Len(more.got) = Len(versions)
    BY <1>3, <2>3, <2>4 DEF Along
  <2> QED
    BY <1>1, <2>4, <2>5, Whole
<1>8. CASE k = 0 \/ k = left
  <2>1. Listing(last, versions)
    BY <1>4, <1>7, <1>8 DEF Listing
  <2> QED
    BY <1>1, <1>5, <1>8, <2>1, SetListing
<1>9. CASE ~(k = 0 \/ k = left)
  <2>1. Listing(more, versions)
    BY <1>1, <1>3, <1>7 DEF Listing
  <2> QED
    BY <1>1, <1>5, <1>9, <2>1, SetListing
<1> QED
  BY <1>8, <1>9

(* What any other step of a call leaves of its listing.                    *)
LEMMA ElseListing ==
  ASSUME WritesInv, ListingInv, NEW c \in Calls, Fail(c) \/ ChooseTransition(c) \/ ResolveProjectID(c)
  PROVE  ListingInv'
<1> DEFINE h == call[c]
<1>1. /\ Listing(h, versions) /\ DOMAIN h = CallFields /\ DOMAIN h.req = RequestFields /\ DOMAIN call = Calls
      /\ versions' = versions /\ made' = made
  BY DEF WritesInv, Fail, ChooseTransition, ResolveProjectID, ListingInv, Right, Shape, jira
<1>2. ASSUME Done(c, "failed") PROVE ListingInv'
  <2> DEFINE n == [h EXCEPT !.at = "done", !.out = "failed"]
  <2>1. n.at = "done" /\ n.out = "failed" /\ Set(c, n)
    BY <1>1, <1>2 DEF CallFields, Done
  <2> HIDE DEF n
  <2> QED
    BY <1>1, <2>1, NoListing, SetListing
<1>3. ASSUME NEW i, Set(c, [h EXCEPT !.at = "write", !.id = i, !.matches = 1]) PROVE ListingInv'
  <2> DEFINE n == [h EXCEPT !.at = "write", !.id = i, !.matches = 1]
  <2>1. n.at = "write" /\ Set(c, n)
    BY <1>1, <1>3 DEF CallFields
  <2> HIDE DEF n
  <2> QED
    BY <1>1, <2>1, NoListing, SetListing
<1>4. ASSUME NEW i, Set(c, [h EXCEPT !.at = "write", !.req.on = i]) PROVE ListingInv'
  <2> DEFINE n == [h EXCEPT !.at = "write", !.req.on = i]
  <2>1. n.at = "write" /\ Set(c, n)
    BY <1>1, <1>4 DEF CallFields
  <2> HIDE DEF n
  <2> QED
    BY <1>1, <2>1, NoListing, SetListing
<1> QED
  BY <1>2, <1>3, <1>4 DEF Fail, ChooseTransition, ResolveProjectID

(* What was read so far fits, for every call, when versions are added.     *)
LEMMA GrowsListing ==
  ASSUME ListingInv, Versioned(versions', made'), Grows(versions, versions')
  PROVE  \A c \in Calls : Listing(call[c], versions')
<1>1. IsSeq(versions)
  BY DEF ListingInv, Versioned
<1>2. ASSUME NEW c \in Calls PROVE Listing(call[c], versions')
  <2> DEFINE h == call[c]
  <2>1. Listing(h, versions)
    BY DEF ListingInv
  <2>2. Along(h.got, h.startAt, h.there, versions) => Along(h.got, h.startAt, h.there, versions')
    BY <1>1, AlongGrows
  <2> HIDE DEF h
  <2>3. Listing(h, versions')
    BY <2>1, <2>2 DEF Listing
  <2> QED
    BY <2>3 DEF h
<1> QED
  BY <1>2

(* Versions that stay the same have grown by nothing.                      *)
LEMMA SameGrows ==
  ASSUME ListingInv, versions' = versions, made' = made
  PROVE  Versioned(versions', made') /\ Grows(versions, versions')
<1>1. IsSeq(versions) /\ Len(versions) \in Nat
  BY Sequence DEF ListingInv, Versioned
<1> QED
  BY <1>1 DEF ListingInv, Grows

(* A write adds a version at the end, edits one or deletes one.            *)
LEMMA WriteListing ==
  ASSUME WritesInv, ListingInv, NEW c \in Calls, Write(c) \/ WriteUnanswered(c)
  PROVE  ListingInv'
<1> DEFINE h == call[c]
<1>1. CarryOut(c)
  BY DEF Write, WriteUnanswered
<1>2. h.at = "write" /\ DOMAIN h = CallFields /\ DOMAIN call = Calls /\ h.req.op # "listVersions"
  BY <1>1 DEF CarryOut, WritesInv, Right, Shape, Stage
<1>3. Versioned(versions', made') /\ Grows(versions, versions')
  <2>1. CASE UNCHANGED <<versions, made>>
    BY <2>1, SameGrows
  <2>2. CASE CreateVersion(h.req)
    BY <2>2, NewIsVersioned DEF CreateVersion, ListingInv
  <2>3. CASE UpdateVersion(h.req)
    BY <2>3, EditedIsVersioned DEF ListingInv
  <2> QED
    BY <1>1, <2>1, <2>2, <2>3 DEF CarryOut, Update, Transition
<1>4. \A d \in Calls : Listing(call[d], versions')
  BY <1>3, GrowsListing
<1>5. PICK n : Set(c, n) /\ n.at \in {"write", "done"} /\ n.req = h.req
  <2>1. CASE Write(c)
    <3> DEFINE n == [h EXCEPT !.at = "done", !.out = "ok", !.carried = @ + 1]
    <3>1. n.at = "done" /\ n.req = h.req /\ Set(c, n)
      BY <2>1, <1>2 DEF Write, CallFields
    <3> HIDE DEF n
    <3> QED
      BY <3>1
  <2>2. CASE WriteUnanswered(c)
    <3> DEFINE n == [h EXCEPT !.carried = @ + 1, !.lost = @ + 1]
    <3>1. n.at = "write" /\ n.req = h.req /\ Set(c, n)
      BY <2>2, <1>2 DEF WriteUnanswered, CallFields
    <3> HIDE DEF n
    <3> QED
      BY <3>1
  <2> QED
    BY <2>1, <2>2
<1>6. Listing(n, versions')
  BY <1>2, <1>5 DEF Listing
<1>7. \A d \in Calls : call'[d] = IF d = c THEN n ELSE call[d]
  BY <1>2, <1>5 DEF Set
<1> QED
  BY <1>3, <1>4, <1>6, <1>7 DEF ListingInv

(* So do others.                                                           *)
LEMMA OthersListing ==
  ASSUME WritesInv, ListingInv, Others
  PROVE  ListingInv'
<1>1. CASE MoveIssue
  <2>1. versions' = versions /\ made' = made /\ call' = call
    BY <1>1 DEF MoveIssue
  <2> QED
    BY <2>1 DEF ListingInv
<1>2. CASE AddVersion
  <2>1. Versioned(versions', made') /\ Grows(versions, versions') /\ call' = call
    BY <1>2, NewIsVersioned DEF AddVersion, ListingInv
  <2> QED
    BY <2>1, GrowsListing DEF ListingInv
<1>3. CASE DeleteVersion
  <2>1. Versioned(versions', made')
    BY <1>3, DeletedIsVersioned DEF ListingInv
  <2>2. ASSUME NEW c \in Calls PROVE Listing(call'[c], versions')
    <3> DEFINE h == call[c]
               n == [call[c] EXCEPT !.cut = @ \/ call[c].at = "page"]
    <3>1. Listing(h, versions) /\ DOMAIN h = CallFields
      BY DEF ListingInv, WritesInv, Right, Shape
    <3>2. call'[c] = n
      BY <1>3 DEF DeleteVersion
    <3>3. /\ n.at = h.at /\ n.got = h.got /\ n.startAt = h.startAt /\ n.there = h.there
          /\ n.req = h.req /\ n.out = h.out /\ n.cut = (h.cut \/ h.at = "page")
      BY <3>1 DEF CallFields
    <3> HIDE DEF n
    <3>4. (~n.cut) => (~h.cut) /\ n.at # "page"
      BY <3>3
    <3>5. Listing(n, versions')
      BY <3>1, <3>3, <3>4 DEF Listing
    <3> QED
      BY <3>2, <3>5
  <2> QED
    BY <2>1, <2>2 DEF ListingInv
<1> QED
  BY <1>1, <1>2, <1>3 DEF Others

(* Every step keeps every listing right.                                   *)
LEMMA ListingStep == WritesInv /\ ListingInv /\ [Next]_vars => ListingInv'
<1> SUFFICES ASSUME WritesInv, ListingInv, [Next]_vars PROVE ListingInv'
  OBVIOUS
<1>1. CASE UNCHANGED vars
  BY <1>1 DEF vars, jira, ListingInv
<1> QED
  BY <1>1, BeginListing, PageListing, ElseListing, WriteListing, OthersListing DEF Next

(* A listing that succeeds has nothing twice, and every version that was   *)
(* there from its first page to its last, however many were added on the   *)
(* way and however many values Jira gives per page.                        *)
THEOREM ListingIsComplete == Spec => []ListingComplete
<1>1. Init => ListingInv
  BY InitListing
<1>2. WritesInv /\ ListingInv /\ [Next]_vars => ListingInv'
  BY ListingStep
<1>3. WritesInv /\ ListingInv => ListingComplete
  BY DEF WritesInv, Right, Stage, ListingInv, Listing, Complete, ListingComplete
<1> QED
  BY <1>1, <1>2, <1>3, WritesInductive, PTL DEF Spec

-----------------------------------------------------------------------------
(* What a sequence holds up to its i-th element.                           *)
First(s, i) == {s[j] : j \in 1 .. i}

(* The first elements of a sequence, one more at a time.                   *)
LEMMA FirstGrows ==
  ASSUME NEW s, IsSeq(s)
  PROVE  /\ First(s, 0) = {} /\ First(s, Len(s)) = ToSet(s)
         /\ \A i \in 1 .. Len(s) : First(s, i) = First(s, i - 1) \cup {s[i]}
<1>1. Len(s) \in Nat /\ DOMAIN s = 1 .. Len(s)
  BY Sequence
<1>2. First(s, 0) = {} /\ First(s, Len(s)) = ToSet(s)
  BY <1>1 DEF First, ToSet
<1>3. ASSUME NEW i \in 1 .. Len(s) PROVE First(s, i) = First(s, i - 1) \cup {s[i]}
  <2>1. 1 .. i = (1 .. i - 1) \cup {i}
    BY <1>1
  <2> QED
    BY <2>1 DEF First
<1> QED
  BY <1>2, <1>3

OnlyBody(set, some, x) == IF x \in set THEN Append(some, x) ELSE some
OnlyKept(d, i, some) == IsSeq(some) /\ ToSet(some) = First(d.s, i) \cap d.set
OnlyLoop == INSTANCE LoopProofs WITH Body <- OnlyBody, Kept <- OnlyKept

(* Only keeps the elements that are in the set, and no others.             *)
LEMMA OnlyHas ==
  ASSUME NEW s, IsSeq(s), NEW set
  PROVE  IsSeq(Only(s, set)) /\ ToSet(Only(s, set)) = ToSet(s) \cap set
<1> DEFINE f(t) == OnlyLoop!Loop(t, s, << >>)
           d == [s |-> s, set |-> set]
<1>1. Only(s, set) = CHOOSE v \in {f(t) : t \in {set}} : TRUE
  BY DEF Only, ForEach, Apply, OnlyLoop!Loop, OnlyLoop!ForEach, OnlyLoop!Apply, OnlyBody
<1>2. d.s = s /\ d.set = set
  OBVIOUS
<1> HIDE DEF f, d
<1>3. Only(s, set) = f(set)
  BY <1>1
<1>4. Len(s) \in Nat
  BY Sequence
<1>5. OnlyKept(d, 0, << >>)
  <2>1. IsSeq(<< >>) /\ DOMAIN << >> = {}
    BY EmptySeq, Sequence DEF IsSeq
  <2> QED
    BY <1>2, <2>1, FirstGrows DEF OnlyKept, ToSet
<1>6. ASSUME NEW i \in 1 .. Len(s), NEW v, OnlyKept(d, i - 1, v)
      PROVE  OnlyKept(d, i, OnlyBody(set, v, s[i]))
  <2>1. First(s, i) = First(s, i - 1) \cup {s[i]}
    BY FirstGrows
  <2>2. IsSeq(v) /\ ToSet(v) = First(s, i - 1) \cap set
    BY <1>2, <1>6 DEF OnlyKept
  <2>3. IsSeq(Append(v, s[i])) /\ ToSet(Append(v, s[i])) = ToSet(v) \cup {s[i]}
    <3> DEFINE t == Append(v, s[i])
    <3>1. /\ IsSeq(t) /\ Len(t) = Len(v) + 1 /\ t[Len(v) + 1] = s[i]
          /\ \A j \in 1 .. Len(v) : t[j] = v[j]
      BY <2>2, Appended
    <3> HIDE DEF t
    <3>2. DOMAIN v = 1 .. Len(v) /\ DOMAIN t = 1 .. Len(v) + 1 /\ Len(v) \in Nat
      BY <2>2, <3>1, Sequence
    <3>3. DOMAIN t = DOMAIN v \cup {Len(v) + 1}
      BY <3>2
    <3> QED
      BY <3>1, <3>2, <3>3 DEF t, ToSet
  <2> QED
    BY <1>2, <2>1, <2>2, <2>3 DEF OnlyKept, OnlyBody
<1>7. OnlyKept(d, Len(s), OnlyLoop!Loop(set, s, << >>))
  BY <1>4, <1>5, <1>6, OnlyLoop!LoopKeeps
<1> QED
  BY <1>2, <1>3, <1>7, FirstGrows DEF OnlyKept, f

(* The elements of a finite set, in some order.                            *)
LEMMA SetToSeqHas ==
  ASSUME NEW S, IsFiniteSet(S)
  PROVE  IsSeq(SetToSeq(S)) /\ ToSet(SetToSeq(S)) = S
<1> DEFINE n == Cardinality(S)
           f == SetToSeq(S)
<1>1. n \in Nat /\ ExistsBijection(1 .. n, S)
  BY FS_CardinalityType
<1>2. \E g \in [1 .. n -> S] : IsInjective(g)
  BY <1>1 DEF ExistsBijection, Bijection, Injection, IsInjective
<1>3. f \in [1 .. n -> S] /\ IsInjective(f)
  BY <1>2 DEF SetToSeq
<1> HIDE DEF f
<1>4. f \in Injection(1 .. n, S)
  BY <1>3 DEF Injection, IsInjective
<1>5. Cardinality(1 .. n) = n
  BY <1>1, FS_Interval
<1>6. f \in Surjection(1 .. n, S)
  BY <1>4, <1>5, FS_Injection
<1>7. ToSet(f) = S
  BY <1>3, <1>6 DEF ToSet, Surjection
<1>8. IsSeq(f)
  BY <1>1, <1>3, SeqDef DEF IsSeq
<1> QED
  BY <1>7, <1>8 DEF f

(* A sequence made element by element of another one.                      *)
LEMMA MapIs ==
  ASSUME NEW s, IsSeq(s), NEW t, t = [i \in DOMAIN s |-> t[i]]
  PROVE  IsSeq(t) /\ DOMAIN t = DOMAIN s
<1>1. Len(s) \in Nat /\ DOMAIN s = 1 .. Len(s)
  BY Sequence
<1> DEFINE S == {t[i] : i \in DOMAIN s}
<1>2. t \in [1 .. Len(s) -> S]
  BY <1>1
<1>3. t \in Seq(S)
  BY <1>1, <1>2, SeqDef
<1> QED
  BY <1>1, <1>2, <1>3 DEF IsSeq

-----------------------------------------------------------------------------
(* The options that a set of fields gives, and those of raw fields.        *)
Gives(opts, m, wanted) ==
  /\ IsSeq(opts)
  /\ \A i \in DOMAIN opts : \E g \in wanted : opts[i] = Option(FieldOf(g), Own(g, Given(m, g)))
  /\ \A g \in wanted : \E i \in DOMAIN opts : opts[i] = Option(FieldOf(g), Own(g, Given(m, g)))

RawGives(opts, raw) ==
  /\ IsSeq(opts)
  /\ \A i \in DOMAIN opts : \E g \in DOMAIN raw : opts[i] = Option(g, raw[g])
  /\ \A g \in DOMAIN raw : \E i \in DOMAIN opts : opts[i] = Option(g, raw[g])

(* Each wanted field has an option with its value, and there are no        *)
(* others.                                                                 *)
LEMMA OptionsGive ==
  ASSUME NEW m, NEW names, IsSeq(names), NEW wanted, wanted \subseteq ToSet(names)
  PROVE  Gives(Options(m, names, wanted), m, wanted)
<1> DEFINE chosen == Only(names, wanted)
           opts == Options(m, names, wanted)
<1>1. IsSeq(chosen) /\ ToSet(chosen) = wanted
  BY OnlyHas
<1>2. opts = [i \in DOMAIN chosen |-> Option(FieldOf(chosen[i]), Own(chosen[i], Given(m, chosen[i])))]
  BY DEF Options
<1> HIDE DEF chosen, opts
<1>3. opts = [i \in DOMAIN chosen |-> opts[i]]
  BY <1>2
<1>4. IsSeq(opts) /\ DOMAIN opts = DOMAIN chosen
  BY <1>1, <1>3, MapIs
<1>5. \A i \in DOMAIN chosen : opts[i] = Option(FieldOf(chosen[i]), Own(chosen[i], Given(m, chosen[i])))
  BY <1>2
<1> QED
  BY <1>1, <1>4, <1>5 DEF Gives, ToSet, opts

(* Each raw field has an option with its value, in whatever order the map  *)
(* gives them.                                                             *)
LEMMA RawOptionsGive ==
  ASSUME NEW raw, IsFiniteSet(DOMAIN raw)
  PROVE  RawGives(RawOptions(raw), raw)
<1> DEFINE ids == SetToSeq(DOMAIN raw)
           opts == RawOptions(raw)
<1>1. IsSeq(ids) /\ ToSet(ids) = DOMAIN raw
  BY SetToSeqHas
<1>2. opts = [i \in DOMAIN ids |-> Option(ids[i], raw[ids[i]])]
  BY DEF RawOptions
<1> HIDE DEF ids, opts
<1>3. opts = [i \in DOMAIN ids |-> opts[i]]
  BY <1>2
<1>4. IsSeq(opts) /\ DOMAIN opts = DOMAIN ids
  BY <1>1, <1>3, MapIs
<1>5. \A i \in DOMAIN ids : opts[i] = Option(ids[i], raw[ids[i]])
  BY <1>2
<1> QED
  BY <1>1, <1>4, <1>5 DEF RawGives, ToSet, opts

-----------------------------------------------------------------------------
(* The fields that are no options of the user.                             *)
Fixed == {"project", "issuetype", "name", "projectId", "fixVersionIds"}

(* The options of a request set what is asked and nothing else.            *)
Answers(req, opts) ==
  /\ IsSeq(opts)
  /\ \A f : f \notin Fixed /\ ~LostByBridge(req, f) =>
       /\ \A i \in DOMAIN opts : opts[i].field = f => opts[i].value \in Asked(req, f)
       /\ Asked(req, f) # {} => \E i \in DOMAIN opts : opts[i].field = f

(* What a front end passes on, the values of some fields of a message and  *)
(* raw fields, is what is asked: nothing else, and something of all of it. *)
Carries(req, m, wanted, raw) ==
  \A f : f \notin Fixed /\ ~LostByBridge(req, f) =>
    /\ \A g \in wanted : FieldOf(g) = f => Own(g, Given(m, g)) \in Asked(req, f)
    /\ f \in DOMAIN raw => raw[f] \in Asked(req, f)
    /\ Asked(req, f) # {} => f \in DOMAIN raw \/ \E g \in wanted : FieldOf(g) = f

(* An option has its field and its value.                                  *)
LEMMA OptionHas == \A f, v : Option(f, v).field = f /\ Option(f, v).value = v
BY DEF Option

(* Options made of what is asked answer the request, with raw fields or    *)
(* without.                                                                *)
LEMMA TogetherAnswer ==
  ASSUME NEW req, NEW m, NEW wanted, NEW raw, Carries(req, m, wanted, raw),
         NEW a, Gives(a, m, wanted), NEW b, RawGives(b, raw)
  PROVE  Answers(req, a \o b)
<1> DEFINE o == a \o b
<1>1. IsSeq(a) /\ IsSeq(b)
  BY DEF Gives, RawGives
<1>2. /\ IsSeq(o) /\ Len(o) = Len(a) + Len(b)
      /\ \A i \in 1 .. Len(a) : o[i] = a[i]
      /\ \A i \in 1 .. Len(b) : o[Len(a) + i] = b[i]
  BY <1>1, Joined
<1> HIDE DEF o
<1>3. /\ DOMAIN a = 1 .. Len(a) /\ DOMAIN b = 1 .. Len(b) /\ DOMAIN o = 1 .. Len(a) + Len(b)
      /\ Len(a) \in Nat /\ Len(b) \in Nat
  BY <1>1, <1>2, Sequence
<1>4. ASSUME NEW i \in DOMAIN o PROVE (\E j \in DOMAIN a : o[i] = a[j]) \/ (\E j \in DOMAIN b : o[i] = b[j])
  <2>1. CASE i \in 1 .. Len(a)
    BY <1>2, <1>3, <2>1
  <2>2. CASE i \notin 1 .. Len(a)
    <3>1. i - Len(a) \in 1 .. Len(b) /\ Len(a) + (i - Len(a)) = i
      BY <1>3, <2>2
    <3>2. PICK j \in 1 .. Len(b) : Len(a) + j = i
      BY <3>1
    <3> QED
      BY <1>2, <1>3, <3>2
  <2> QED
    BY <2>1, <2>2
<1>5. \A j \in DOMAIN a : j \in DOMAIN o /\ o[j] = a[j]
  BY <1>2, <1>3
<1>6. \A j \in DOMAIN b : Len(a) + j \in DOMAIN o /\ o[Len(a) + j] = b[j]
  BY <1>2, <1>3
<1>7. ASSUME NEW f, f \notin Fixed, ~LostByBridge(req, f)
      PROVE  /\ \A i \in DOMAIN o : o[i].field = f => o[i].value \in Asked(req, f)
             /\ Asked(req, f) # {} => \E i \in DOMAIN o : o[i].field = f
  <2>1. ASSUME NEW i \in DOMAIN a, a[i].field = f PROVE a[i].value \in Asked(req, f)
    BY <1>7, <2>1, OptionHas DEF Gives, Carries
  <2>2. ASSUME NEW i \in DOMAIN b, b[i].field = f PROVE b[i].value \in Asked(req, f)
    BY <1>7, <2>2, OptionHas DEF RawGives, Carries
  <2>3. ASSUME Asked(req, f) # {} PROVE \E i \in DOMAIN o : o[i].field = f
    <3>1. CASE f \in DOMAIN raw
      <4>1. PICK j \in DOMAIN b : b[j] = Option(f, raw[f])
        BY <3>1 DEF RawGives
      <4> QED
        BY <1>6, <4>1, OptionHas
    <3>2. CASE \E g \in wanted : FieldOf(g) = f
      <4>1. PICK g \in wanted : FieldOf(g) = f
        BY <3>2
      <4>2. PICK j \in DOMAIN a : a[j] = Option(f, Own(g, Given(m, g)))
        BY <4>1 DEF Gives
      <4> QED
        BY <1>5, <4>2, OptionHas
    <3> QED
      BY <1>7, <2>3, <3>1, <3>2 DEF Carries
  <2> QED
    BY <1>4, <2>1, <2>2, <2>3
<1> QED
  BY <1>2, <1>7 DEF Answers, o

(* Without raw fields the options of the wanted ones answer the request.   *)
LEMMA AloneAnswers ==
  ASSUME NEW req, NEW m, NEW wanted, NEW raw, DOMAIN raw = {}, Carries(req, m, wanted, raw),
         NEW a, Gives(a, m, wanted)
  PROVE  Answers(req, a)
<1>1. ASSUME NEW f, f \notin Fixed, ~LostByBridge(req, f)
      PROVE  /\ \A i \in DOMAIN a : a[i].field = f => a[i].value \in Asked(req, f)
             /\ Asked(req, f) # {} => \E i \in DOMAIN a : a[i].field = f
  <2>1. ASSUME NEW i \in DOMAIN a, a[i].field = f PROVE a[i].value \in Asked(req, f)
    BY <1>1, <2>1, OptionHas DEF Gives, Carries
  <2>2. ASSUME Asked(req, f) # {} PROVE \E i \in DOMAIN a : a[i].field = f
    <3>1. PICK g \in wanted : FieldOf(g) = f
      BY <1>1, <2>2 DEF Carries
    <3>2. PICK j \in DOMAIN a : a[j] = Option(f, Own(g, Given(m, g)))
      BY <3>1 DEF Gives
    <3> QED
      BY <3>2, OptionHas
  <2> QED
    BY <2>1, <2>2
<1> QED
  BY <1>1 DEF Answers, Gives

-----------------------------------------------------------------------------
(* What a body holds of a sequence of options.                             *)
HoldsOf(opts, b) ==
  /\ \A f : f \in DOMAIN b <=> \E o \in opts : o.field = f
  /\ \A f \in DOMAIN b : \E o \in opts : o.field = f /\ b[f] = o.value

LayBody(c, b, o) == Onto(b, [f \in {o.field} |-> o.value])
LayKept(opts, i, b) == HoldsOf(First(opts, i), b)
LayLoop == INSTANCE LoopProofs WITH Body <- LayBody, Kept <- LayKept

(* The body has of every field the value of an option for it.              *)
LEMMA BodyHas ==
  ASSUME NEW opts, IsSeq(opts)
  PROVE  HoldsOf(ToSet(opts), Body(opts))
<1>1. Body(opts) = LayLoop!Loop(opts, opts, << >>)
  BY DEF Body, ForEach, Apply, LayLoop!Loop, LayLoop!ForEach, LayLoop!Apply, LayBody
<1>2. Len(opts) \in Nat
  BY Sequence
<1>3. LayKept(opts, 0, << >>)
  <2>1. DOMAIN << >> = {}
    BY EmptySeq, Sequence DEF IsSeq
  <2> QED
    BY <2>1, FirstGrows DEF LayKept, HoldsOf
<1>4. ASSUME NEW i \in 1 .. Len(opts), NEW b, LayKept(opts, i - 1, b)
      PROVE  LayKept(opts, i, LayBody(opts, b, opts[i]))
  <2> DEFINE o == opts[i]
             n == LayBody(opts, b, o)
             before == First(opts, i - 1)
  <2>1. First(opts, i) = before \cup {o}
    BY FirstGrows
  <2>2. HoldsOf(before, b)
    BY <1>4 DEF LayKept
  <2>3. /\ DOMAIN n = DOMAIN b \cup {o.field} /\ n[o.field] = o.value
        /\ \A f \in DOMAIN b \ {o.field} : n[f] = b[f]
    BY DEF LayBody, Onto
  <2> HIDE DEF o, n, before
  <2>4. HoldsOf(before \cup {o}, n)
    BY <2>2, <2>3 DEF HoldsOf
  <2> QED
    BY <2>1, <2>4 DEF LayKept, o, n
<1>5. LayKept(opts, Len(opts), LayLoop!Loop(opts, opts, << >>))
  BY <1>2, <1>3, <1>4, LayLoop!LoopKeeps
<1> QED
  BY <1>1, <1>5, FirstGrows DEF LayKept

(* Options that answer a request, with those that every request of its     *)
(* kind has, laid over what was there.                                     *)
LEMMA BodyOverlays ==
  ASSUME NEW req, NEW opts, Answers(req, opts), NEW all, ToSet(opts) \subseteq all,
         \A o \in all : o \in ToSet(opts) \/ o.field \in Fixed,
         NEW b, HoldsOf(all, b), NEW old, NEW new,
         \A f : f \in DOMAIN new <=> f \in DOMAIN old \/ f \in DOMAIN b,
         \A f \in DOMAIN new : new[f] = IF f \in DOMAIN b THEN b[f] ELSE old[f]
  PROVE  Overlays(new, old, req)
<1>1. SUFFICES ASSUME NEW f, f \notin Fixed, ~LostByBridge(req, f)
               PROVE  IF Asked(req, f) = {}
                      THEN f \in DOMAIN new <=> f \in DOMAIN old /\ (f \in DOMAIN old => new[f] = old[f])
                      ELSE f \in DOMAIN new /\ new[f] \in Asked(req, f)
  BY DEF Overlays, Fixed
<1>2. \A o \in ToSet(opts) : o.field = f => o.value \in Asked(req, f)
  BY <1>1 DEF Answers, ToSet
<1>3. Asked(req, f) # {} => \E o \in ToSet(opts) : o.field = f
  BY <1>1 DEF Answers, ToSet
<1>4. f \in DOMAIN b <=> \E o \in ToSet(opts) : o.field = f
  BY <1>1 DEF HoldsOf
<1>5. f \in DOMAIN b => b[f] \in Asked(req, f)
  BY <1>1, <1>2 DEF HoldsOf
<1> QED
  BY <1>3, <1>4, <1>5

(* The elements of two sequences, one after the other.                     *)
LEMMA ToSetOfSeq ==
  ASSUME NEW a, IsSeq(a), NEW b, IsSeq(b)
  PROVE  ToSet(a \o b) = ToSet(a) \cup ToSet(b)
<1> DEFINE o == a \o b
<1>2. /\ IsSeq(o) /\ Len(o) = Len(a) + Len(b)
      /\ \A i \in 1 .. Len(a) : o[i] = a[i]
      /\ \A i \in 1 .. Len(b) : o[Len(a) + i] = b[i]
  BY Joined
<1> HIDE DEF o
<1>3. /\ DOMAIN a = 1 .. Len(a) /\ DOMAIN b = 1 .. Len(b) /\ DOMAIN o = 1 .. Len(a) + Len(b)
      /\ Len(a) \in Nat /\ Len(b) \in Nat
  BY <1>2, Sequence
<1>4. ASSUME NEW i \in DOMAIN o PROVE (\E j \in DOMAIN a : o[i] = a[j]) \/ (\E j \in DOMAIN b : o[i] = b[j])
  <2>1. CASE i \in 1 .. Len(a)
    BY <1>2, <1>3, <2>1
  <2>2. CASE i \notin 1 .. Len(a)
    <3>1. i - Len(a) \in 1 .. Len(b) /\ Len(a) + (i - Len(a)) = i
      BY <1>3, <2>2
    <3>2. PICK j \in 1 .. Len(b) : Len(a) + j = i
      BY <3>1
    <3> QED
      BY <1>2, <1>3, <3>2
  <2> QED
    BY <2>1, <2>2
<1>5. \A j \in DOMAIN a : j \in DOMAIN o /\ o[j] = a[j]
  BY <1>2, <1>3
<1>6. \A j \in DOMAIN b : Len(a) + j \in DOMAIN o /\ o[Len(a) + j] = b[j]
  BY <1>2, <1>3
<1>7. ASSUME NEW x \in ToSet(o) PROVE x \in ToSet(a) \cup ToSet(b)
  <2>1. PICK i \in DOMAIN o : x = o[i]
    BY <1>7 DEF ToSet
  <2> QED
    BY <1>4, <2>1 DEF ToSet
<1>8. ASSUME NEW x \in ToSet(a) PROVE x \in ToSet(o)
  BY <1>5, <1>8 DEF ToSet
<1>9. ASSUME NEW x \in ToSet(b) PROVE x \in ToSet(o)
  BY <1>6, <1>9 DEF ToSet
<1> QED
  BY <1>7, <1>8, <1>9 DEF o

-----------------------------------------------------------------------------
(* What a front end offers, and what of it is asked.                       *)
LEMMA FieldsOffered ==
  /\ IsSeq(EditFields) /\ IsSeq(CreateFields) /\ IsSeq(VersionFields)
  /\ ToSet(EditFields) = {"summary", "description", "assignee", "labels", "fixVersions", "fixVersionIds"}
  /\ ToSet(CreateFields) = ToSet(EditFields) \cup {"parent"}
  /\ ToSet(VersionFields) = {"description", "released", "archived", "releaseDate", "startDate"}
<1>1. IsSeq(EditFields) /\ IsSeq(CreateFields) /\ IsSeq(VersionFields)
  <2>1. EditFields \in Seq({"summary", "description", "assignee", "labels", "fixVersions", "fixVersionIds"})
    BY DEF EditFields
  <2>2. CreateFields \in Seq({"summary", "description", "assignee", "labels", "parent", "fixVersions", "fixVersionIds"})
    BY DEF CreateFields
  <2>3. VersionFields \in Seq({"description", "released", "archived", "releaseDate", "startDate"})
    BY DEF VersionFields
  <2> QED
    BY <2>1, <2>2, <2>3 DEF IsSeq
<1>2. ToSet(EditFields) = {"summary", "description", "assignee", "labels", "fixVersions", "fixVersionIds"}
  BY DEF EditFields, ToSet
<1>3. ToSet(CreateFields) = {"summary", "description", "assignee", "labels", "parent", "fixVersions", "fixVersionIds"}
  BY DEF CreateFields, ToSet
<1>4. ToSet(VersionFields) = {"description", "released", "archived", "releaseDate", "startDate"}
  BY DEF VersionFields, ToSet
<1> QED
  BY <1>1, <1>2, <1>3, <1>4

(* The operations that send fields.                                        *)
Writing == {"create", "update", "createVersion", "updateVersion"}

(* What a front end takes from a request are fields that it offers.        *)
LEMMA WantedIs ==
  ASSUME NEW req, IsRequest(req), req.op \in Writing
  PROVE  /\ Typed(req) = IF req.front = "cli" /\ req.op # "create" THEN Supplied(req) ELSE Filled(req)
         /\ Typed(req) \subseteq Offered(req.front, req.op)
<1>1. DOMAIN req.given \subseteq Offered(req.front, req.op)
  BY DEF IsRequest
<1>2. "comment" \notin Offered(req.front, req.op)
  BY FieldsOffered DEF Offered, Writing
<1>3. \A f \in DOMAIN req.given : f # "comment" /\ (NonEmpty(req, f) <=> f \in Filled(req))
  BY <1>1, <1>2 DEF NonEmpty, Given, Filled
<1> QED
  BY <1>1, <1>3 DEF Typed, Supplied, Filled

(* The command line and the facade carry a request as it is.               *)
LEMMA PlainCarries ==
  ASSUME NEW req
  PROVE  Carries(req, req, Typed(req), req.raw)
<1>1. \A g \in Typed(req) : Given(req, g) = req.given[g]
  BY DEF Typed, Given
<1> QED
  BY <1>1 DEF Carries, Asked

-----------------------------------------------------------------------------
(* Through the command line and over the facade.                           *)
LEMMA NearAnswers ==
  ASSUME NEW req, IsRequest(req), req.op \in Writing, req.front \in {"cli", "self"}
  PROVE  Answers(req, PlanOf(req).opts)
<1> DEFINE names == IF req.op = "create" THEN IF req.front = "cli" THEN EditFields ELSE CreateFields
                    ELSE IF req.op = "update" THEN EditFields ELSE VersionFields
           a == Options(req, names, Typed(req))
<1>1. IsSeq(names) /\ ToSet(names) = Offered(req.front, req.op)
  BY FieldsOffered DEF Offered, Writing
<1>2. Gives(a, req, Typed(req))
  BY <1>1, WantedIs, OptionsGive
<1>3. Carries(req, req, Typed(req), req.raw)
  BY PlainCarries
<1>4. PlanOf(req).opts = IF req.front = "self" /\ req.op \in {"create", "update"}
                         THEN a \o RawOptions(req.raw) ELSE a
  <2>1. CASE req.front = "cli" /\ req.op = "create"
    BY <2>1, WantedIs DEF PlanOf, CLI, RunCreate, Plan
  <2>2. CASE req.front = "cli" /\ req.op = "update"
    BY <2>2, WantedIs DEF PlanOf, CLI, RunUpdate, Plan
  <2>3. CASE req.front = "cli" /\ req.op = "createVersion"
    BY <2>3, WantedIs DEF PlanOf, CLI, RunReleaseCreate, VersionOptionsFromFlags, Plan
  <2>4. CASE req.front = "cli" /\ req.op = "updateVersion"
    BY <2>4, WantedIs DEF PlanOf, CLI, RunReleaseUpdate, VersionOptionsFromFlags, Plan
  <2>5. CASE req.front = "self" /\ req.op = "create"
    BY <2>5, WantedIs DEF PlanOf, Self, FacadeCreateIssue, Plan
  <2>6. CASE req.front = "self" /\ req.op = "update"
    BY <2>6, WantedIs DEF PlanOf, Self, FacadeUpdateIssue, Plan
  <2>7. CASE req.front = "self" /\ req.op \in {"createVersion", "updateVersion"}
    BY <2>7, WantedIs DEF PlanOf, Self, VersionOptsFromFields, Plan
  <2> QED
    BY <2>1, <2>2, <2>3, <2>4, <2>5, <2>6, <2>7 DEF Writing
<1> HIDE DEF a, names
<1>5. CASE req.front = "self" /\ req.op \in {"create", "update"}
  <2>1. RawGives(RawOptions(req.raw), req.raw)
    BY RawOptionsGive DEF IsRequest
  <2> QED
    BY <1>2, <1>3, <1>4, <1>5, <2>1, TogetherAnswer
<1>6. CASE ~(req.front = "self" /\ req.op \in {"create", "update"})
  <2>1. DOMAIN req.raw = {}
    BY <1>6 DEF IsRequest
  <2>2. PlanOf(req).opts = a
    BY <1>4, <1>6
  <2> QED
    BY <1>2, <1>3, <2>1, <2>2, AloneAnswers
<1> QED
  BY <1>5, <1>6

-----------------------------------------------------------------------------
(* A message for the server carries what is asked in the fields it has.    *)
Sent(req, m, gone) ==
  /\ Filled(m) = Filled(req) \ gone
  /\ \A g \in Filled(m) : Given(m, g) = Given(req, g)

(* A message of the bridge has what was filled in, but for what it has no  *)
(* place for.                                                              *)
LEMMA MessageSent ==
  ASSUME NEW req, NEW m, NEW those, m.given = [f \in those |-> Given(req, f)],
         NEW gone, Filled(req) \subseteq those \cup gone, those \cap gone = {}
  PROVE  Sent(req, m, gone)
<1>1. \A f \in those : m.given[f] = Given(req, f) /\ Given(m, f) = Given(req, f)
  BY DEF Given
<1>2. DOMAIN m.given = those
  OBVIOUS
<1>3. ASSUME NEW f \in Filled(m) PROVE f \in Filled(req) \ gone
  BY <1>1, <1>2, <1>3 DEF Filled, Given
<1>4. ASSUME NEW f \in Filled(req) \ gone PROVE f \in Filled(m)
  BY <1>1, <1>2, <1>4 DEF Filled, Given
<1> QED
  BY <1>1, <1>2, <1>3, <1>4 DEF Sent, Filled

(* What the server makes of raw fields that the bridge does not lose.      *)
LEMMA RawKept ==
  ASSUME NEW v, v \in {Text(v.of), JSON(v.of)}, v.of \notin JSONTexts
  PROVE  RawFieldToValue(v) = v
BY DEF RawFieldToValue, Text, JSON

(* Through the server: a creation, an update, and the versions.            *)
LEMMA BridgeCreateAnswers ==
  ASSUME NEW req, IsRequest(req), req.op = "create", req.front = "bridge"
  PROVE  Answers(req, PlanOf(req).opts)
<1> DEFINE m == BridgeCreateIssue(req)
           raw == [f \in DOMAIN req.raw |-> RawFieldToValue(req.raw[f])]
           a == Options(m, CreateFields, Filled(m))
<1>1. m.raw = req.raw /\ m.given = [f \in ToSet(CreateFields) \ {"assignee"} |-> Given(req, f)]
  BY DEF IsRequest, BridgeCreateIssue, Message
<1>2. PlanOf(req).opts = a \o RawOptions(raw)
  BY <1>1 DEF PlanOf, Bridge, ServerCreateIssue, RawFieldsToOpts, Plan
<1>3. Typed(req) = Filled(req) /\ Filled(req) \subseteq ToSet(CreateFields)
  BY WantedIs DEF Offered, Writing
<1> HIDE DEF m, raw, a
<1>4. Sent(req, m, {"assignee"})
  BY <1>1, <1>3, MessageSent
<1>5. Gives(a, m, Filled(m))
  BY <1>3, <1>4, FieldsOffered, OptionsGive DEF Sent, a
<1>6. DOMAIN raw = DOMAIN req.raw /\ \A f \in DOMAIN raw : raw[f] = RawFieldToValue(req.raw[f])
  BY DEF raw
<1>7. RawGives(RawOptions(raw), raw)
  BY <1>6, RawOptionsGive DEF IsRequest
<1>8. ASSUME NEW f, ~LostByBridge(req, f)
      PROVE  /\ \A g \in Filled(m) : FieldOf(g) = f => Own(g, Given(m, g)) \in Asked(req, f)
             /\ f \in DOMAIN raw => raw[f] \in Asked(req, f)
             /\ Asked(req, f) # {} => f \in DOMAIN raw \/ \E g \in Filled(m) : FieldOf(g) = f
  <2>1. ASSUME NEW g \in Filled(m), FieldOf(g) = f PROVE Own(g, Given(m, g)) \in Asked(req, f)
    <3>1. g \in Typed(req) /\ Given(m, g) = req.given[g]
      BY <1>3, <1>4 DEF Sent, Filled, Given
    <3> QED
      BY <2>1, <3>1 DEF Asked
  <2>2. ASSUME f \in DOMAIN raw PROVE raw[f] \in Asked(req, f)
    <3>1. req.raw[f].of \notin JSONTexts
      BY <1>6, <1>8, <2>2 DEF LostByBridge
    <3>2. raw[f] = req.raw[f]
      BY <1>6, <2>2, <3>1, RawKept DEF IsRequest
    <3> QED
      BY <1>6, <2>2, <3>2 DEF Asked
  <2>3. ASSUME NEW g \in Typed(req), FieldOf(g) = f PROVE g \in Filled(m)
    <3>1. f # "assignee"
      BY <1>8 DEF LostByBridge
    <3> QED
      BY <1>3, <1>4, <2>3, <3>1 DEF Sent, FieldOf
  <2>4. Asked(req, f) # {} => f \in DOMAIN raw \/ \E g \in Filled(m) : FieldOf(g) = f
    BY <1>6, <2>3 DEF Asked
  <2> QED
    BY <2>1, <2>2, <2>4
<1>9. Carries(req, m, Filled(m), raw)
  BY <1>8 DEF Carries
<1> QED
  BY <1>2, <1>5, <1>7, <1>9, TogetherAnswer

(* An update over the bridge answers its request.                          *)
LEMMA BridgeUpdateAnswers ==
  ASSUME NEW req, IsRequest(req), req.op = "update", req.front = "bridge"
  PROVE  Answers(req, PlanOf(req).opts)
<1> DEFINE m == BridgeUpdateIssue(req)
           apart == {"labels", "assignee"}
           joining == {f \in apart : NonEmpty(req, f)}
           raw == [f \in DOMAIN m.raw |-> RawFieldToValue(m.raw[f])]
           a == Options(m, EditFields, Filled(m))
<1>1. /\ m.given = [f \in ToSet(EditFields) \ apart |-> Given(req, f)]
      /\ m.raw = Onto(req.raw, [f \in joining |-> JSON(Given(req, f))])
  BY DEF IsRequest, BridgeUpdateIssue, Message
<1>2. PlanOf(req).opts = a \o RawOptions(raw)
  BY DEF PlanOf, Bridge, ServerUpdateIssue, RawFieldsToOpts, Plan
<1>3. Typed(req) = Filled(req) /\ Filled(req) \subseteq ToSet(EditFields)
  BY WantedIs DEF Offered, Writing
<1>4. \A f \in joining : f \in Filled(req) /\ f \in apart
  BY DEF NonEmpty, Given, Filled
<1>5. \A f \in apart : f \in Filled(req) => f \in joining
  BY DEF NonEmpty, Given, Filled
<1> HIDE DEF m, raw, a
<1>6. Sent(req, m, apart)
  BY <1>1, <1>3, MessageSent
<1> HIDE DEF joining
<1>7. Gives(a, m, Filled(m))
  BY <1>3, <1>6, FieldsOffered, OptionsGive DEF Sent, a
<1>8. /\ DOMAIN raw = DOMAIN req.raw \cup joining
      /\ \A f \in joining : raw[f] = RawFieldToValue(JSON(Given(req, f)))
      /\ \A f \in DOMAIN req.raw \ joining : raw[f] = RawFieldToValue(req.raw[f])
  BY <1>1 DEF raw, Onto
<1>9. IsFiniteSet(DOMAIN raw)
  <2>1. IsFiniteSet({"labels"}) /\ IsFiniteSet({"assignee"})
    BY FS_Singleton
  <2>2. IsFiniteSet({"labels"} \cup {"assignee"})
    BY <2>1, FS_Union
  <2>3. IsFiniteSet(joining)
    BY <2>2, FS_Subset DEF joining
  <2>4. IsFiniteSet(DOMAIN req.raw)
    BY DEF IsRequest
  <2>5. IsFiniteSet(DOMAIN req.raw \cup joining)
    BY <2>3, <2>4, FS_Union
  <2> QED
    BY <1>8, <2>5
<1>10. RawGives(RawOptions(raw), raw)
  BY <1>9, RawOptionsGive
<1>11. ASSUME NEW f, ~LostByBridge(req, f)
       PROVE  /\ \A g \in Filled(m) : FieldOf(g) = f => Own(g, Given(m, g)) \in Asked(req, f)
              /\ f \in DOMAIN raw => raw[f] \in Asked(req, f)
              /\ Asked(req, f) # {} => f \in DOMAIN raw \/ \E g \in Filled(m) : FieldOf(g) = f
  <2>1. ASSUME NEW g \in Filled(m), FieldOf(g) = f PROVE Own(g, Given(m, g)) \in Asked(req, f)
    <3>1. g \in Typed(req) /\ Given(m, g) = req.given[g]
      BY <1>3, <1>6 DEF Sent, Filled, Given
    <3> QED
      BY <2>1, <3>1 DEF Asked
  <2>2. ASSUME f \in DOMAIN raw \ joining PROVE raw[f] \in Asked(req, f)
    <3>1. f \in DOMAIN req.raw /\ req.raw[f].of \notin JSONTexts
      BY <1>8, <1>11, <2>2 DEF LostByBridge
    <3>2. raw[f] = req.raw[f]
      BY <1>8, <2>2, <3>1, RawKept DEF IsRequest
    <3> QED
      BY <3>1, <3>2 DEF Asked
  <2>3. ASSUME f \in joining PROVE raw[f] \in Asked(req, f)
    <3>1. f \in Typed(req) /\ f \in apart /\ Given(req, f) = req.given[f]
      BY <1>3, <1>4, <2>3 DEF Filled, Given
    <3>2. raw[f] = JSON(Given(req, f))
      BY <1>8, <2>3 DEF RawFieldToValue, JSON
    <3>3. FieldOf(f) = f /\ Own(f, Given(req, f)) = JSON(Given(req, f))
      BY <3>1 DEF FieldOf, Own, Strings
    <3> QED
      BY <3>1, <3>2, <3>3 DEF Asked
  <2>4. ASSUME NEW g \in Typed(req), FieldOf(g) = f PROVE g \in Filled(m) \/ f \in DOMAIN raw
    <3>1. CASE g \in apart
      BY <1>3, <1>5, <1>8, <2>4, <3>1 DEF FieldOf
    <3>2. CASE g \notin apart
      BY <1>3, <1>6, <2>4, <3>2 DEF Sent
    <3> QED
      BY <3>1, <3>2
  <2>5. Asked(req, f) # {} => f \in DOMAIN raw \/ \E g \in Filled(m) : FieldOf(g) = f
    BY <1>8, <2>4 DEF Asked
  <2> QED
    BY <2>1, <2>2, <2>3, <2>5
<1>12. Carries(req, m, Filled(m), raw)
  BY <1>11 DEF Carries
<1> QED
  BY <1>2, <1>7, <1>10, <1>12, TogetherAnswer

(* A version over the bridge does.                                         *)
LEMMA BridgeVersionAnswers ==
  ASSUME NEW req, IsRequest(req), req.op \in {"createVersion", "updateVersion"}, req.front = "bridge"
  PROVE  Answers(req, PlanOf(req).opts)
<1> DEFINE m == IF req.op = "createVersion" THEN BridgeCreateVersion(req) ELSE BridgeUpdateVersion(req)
           defaults == IF req.op = "createVersion" THEN {"released", "archived"} ELSE {}
           a == Options(m, VersionFields, Filled(m))
<1>1. /\ DOMAIN m.given = DOMAIN req.given \cup defaults
      /\ \A f \in DOMAIN req.given : m.given[f] = req.given[f]
  <2>1. CASE req.op = "createVersion"
    BY <2>1 DEF IsRequest, BridgeCreateVersion, Onto
  <2>2. CASE req.op = "updateVersion"
    BY <2>2 DEF IsRequest, BridgeUpdateVersion, Message, Given
  <2> QED
    BY <2>1, <2>2
<1>2. PlanOf(req).opts = a
  BY DEF PlanOf, Bridge, ServerCreateVersion, ServerUpdateVersion, CreateVersionOpts, UpdateVersionOpts, Plan
<1>3. Typed(req) = Filled(req) /\ DOMAIN req.given \subseteq ToSet(VersionFields)
  BY WantedIs DEF Offered, Writing, IsRequest
<1>4. DOMAIN req.raw = {}
  BY DEF IsRequest
<1>5. \A f \in defaults : f \in ToSet(VersionFields) /\ LostByBridge(req, f) /\ FieldOf(f) = f
  BY FieldsOffered DEF LostByBridge, FieldOf
<1> HIDE DEF m, a, defaults
<1>6. Filled(m) \subseteq ToSet(VersionFields)
  BY <1>1, <1>3, <1>5 DEF Filled
<1>7. Gives(a, m, Filled(m))
  BY <1>6, FieldsOffered, OptionsGive DEF a
<1>8. ASSUME NEW f, ~LostByBridge(req, f)
      PROVE  /\ \A g \in Filled(m) : FieldOf(g) = f => Own(g, Given(m, g)) \in Asked(req, f)
             /\ Asked(req, f) # {} => \E g \in Filled(m) : FieldOf(g) = f
  <2>1. ASSUME NEW g \in Filled(m), FieldOf(g) = f PROVE Own(g, Given(m, g)) \in Asked(req, f)
    <3>1. g \in DOMAIN req.given /\ g \in DOMAIN m.given /\ m.given[g] # {}
      BY <1>1, <1>5, <1>8, <2>1 DEF Filled
    <3>2. g \in Typed(req) /\ Given(m, g) = req.given[g]
      BY <1>1, <1>3, <3>1 DEF Filled, Given
    <3> QED
      BY <2>1, <3>2 DEF Asked
  <2>2. \A g \in Typed(req) : g \in Filled(m)
    BY <1>1, <1>3 DEF Filled
  <2> QED
    BY <1>4, <2>1, <2>2 DEF Asked
<1>9. Carries(req, m, Filled(m), req.raw)
  BY <1>4, <1>8 DEF Carries
<1> QED
  BY <1>2, <1>4, <1>7, <1>9, AloneAnswers

(* Whatever the front end, the options set what is asked and nothing else. *)
LEMMA PlanAnswers ==
  ASSUME NEW req, IsRequest(req), req.op \in Writing
  PROVE  Answers(req, PlanOf(req).opts)
BY NearAnswers, BridgeCreateAnswers, BridgeUpdateAnswers, BridgeVersionAnswers DEF IsRequest, Writing

-----------------------------------------------------------------------------
(* A body that is new, and one that is laid over what was there.           *)
LEMMA NewOverlays ==
  ASSUME NEW req, NEW opts, Answers(req, opts), NEW pre, IsSeq(pre),
         \A o \in ToSet(pre) : o.field \in Fixed
  PROVE  Overlays(Body(pre \o opts), << >>, req)
<1> DEFINE b == Body(pre \o opts)
           all == ToSet(pre \o opts)
           none == << >>
<1>1. IsSeq(opts)
  BY DEF Answers
<1>2. all = ToSet(pre) \cup ToSet(opts)
  BY <1>1, ToSetOfSeq
<1>3. HoldsOf(all, b)
  BY <1>1, Joined, BodyHas
<1>4. DOMAIN none = {}
  BY EmptySeq, Sequence DEF IsSeq
<1> HIDE DEF b, all, none
<1>5. ToSet(opts) \subseteq all /\ \A o \in all : o \in ToSet(opts) \/ o.field \in Fixed
  BY <1>2
<1>6. Overlays(b, none, req)
  BY <1>3, <1>4, <1>5, BodyOverlays
<1> QED
  BY <1>6 DEF b, none

(* A body that answers the request lays it over what was there.            *)
LEMMA OntoOverlays ==
  ASSUME NEW req, NEW opts, Answers(req, opts), NEW old
  PROVE  Overlays(Onto(old, Body(opts)), old, req)
<1> DEFINE b == Body(opts)
           new == Onto(old, b)
           all == ToSet(opts)
<1>1. HoldsOf(all, b)
  BY BodyHas DEF Answers
<1>2. /\ \A f : f \in DOMAIN new <=> f \in DOMAIN old \/ f \in DOMAIN b
      /\ \A f \in DOMAIN new : new[f] = IF f \in DOMAIN b THEN b[f] ELSE old[f]
  BY DEF Onto
<1> HIDE DEF b, new, all
<1>3. Overlays(new, old, req)
  BY <1>1, <1>2, BodyOverlays DEF all
<1> QED
  BY <1>3 DEF new, b

(* A new issue has what was asked.                                         *)
LEMMA CreateOverlays ==
  ASSUME NEW req, IsRequest(req), req.op = "create"
  PROVE  Overlays(RenderCreateBody(req), << >>, req)
<1> DEFINE p == Option("project", JSON({req.on}))
           t == Option("issuetype", JSON({TypeOf(req)}))
           pre == <<p, t>>
<1>1. p.field = "project" /\ t.field = "issuetype"
  BY OptionHas
<1>2. RenderCreateBody(req) = Body(pre \o PlanOf(req).opts)
  BY DEF RenderCreateBody
<1> HIDE DEF p, t
<1>3. pre \in Seq({p, t})
  OBVIOUS
<1>4. DOMAIN pre = 1 .. 2 /\ pre[1] = p /\ pre[2] = t
  OBVIOUS
<1> HIDE DEF pre
<1>5. IsSeq(pre) /\ \A o \in ToSet(pre) : o.field \in Fixed
  <2>1. ASSUME NEW i \in 1 .. 2 PROVE i = 1 \/ i = 2
    OBVIOUS
  <2> QED
    BY <1>1, <1>3, <1>4, <2>1 DEF IsSeq, ToSet, Fixed
<1>6. Answers(req, PlanOf(req).opts)
  BY PlanAnswers DEF Writing
<1> QED
  BY <1>2, <1>5, <1>6, NewOverlays

(* A new version has what was asked.                                       *)
LEMMA CreateVersionOverlays ==
  ASSUME NEW req, IsRequest(req), req.op = "createVersion"
  PROVE  Overlays(RenderCreateVersionBody(req), << >>, req)
<1> DEFINE p == Option("projectId", JSON({req.on}))
           t == Option("name", Text({req.name}))
           a == <<t>>
           id == IF IsId(req.on) THEN <<p>> ELSE << >>
           pre == a \o id
<1>1. p.field = "projectId" /\ t.field = "name"
  BY OptionHas
<1>2. RenderCreateVersionBody(req) = Body(pre \o PlanOf(req).opts)
  BY DEF RenderCreateVersionBody
<1> HIDE DEF p, t
<1>3. a \in Seq({t}) /\ DOMAIN a = 1 .. 1 /\ a[1] = t
  OBVIOUS
<1>4. IsSeq(id) /\ \A o \in ToSet(id) : o = p
  <2>1. <<p>> \in Seq({p}) /\ DOMAIN <<p>> = 1 .. 1 /\ <<p>>[1] = p
    OBVIOUS
  <2>2. IsSeq(<< >>) /\ DOMAIN << >> = {}
    BY EmptySeq, Sequence DEF IsSeq
  <2> DEFINE one == <<p>>
             none == << >>
  <2>3. IsSeq(one) /\ ToSet(one) = {p}
    <3>0. one \in Seq({p}) /\ DOMAIN one = 1 .. 1 /\ one[1] = p
      BY <2>1
    <3> HIDE DEF one
    <3>1. \A i \in 1 .. 1 : i = 1
      OBVIOUS
    <3> QED
      BY <3>0, <3>1 DEF IsSeq, ToSet
  <2>4. IsSeq(none) /\ ToSet(none) = {}
    BY <2>2 DEF ToSet
  <2> HIDE DEF one, none
  <2>5. id = one \/ id = none
    BY DEF one, none
  <2> QED
    BY <2>3, <2>4, <2>5
<1> HIDE DEF a, id
<1>5. IsSeq(a) /\ \A o \in ToSet(a) : o = t
  BY <1>3 DEF IsSeq, ToSet
<1>6. IsSeq(pre) /\ ToSet(pre) = ToSet(a) \cup ToSet(id)
  BY <1>4, <1>5, Joined, ToSetOfSeq
<1> HIDE DEF pre
<1>7. \A o \in ToSet(pre) : o.field \in Fixed
  BY <1>1, <1>4, <1>5, <1>6 DEF Fixed
<1>8. Answers(req, PlanOf(req).opts)
  BY PlanAnswers DEF Writing
<1> QED
  BY <1>2, <1>6, <1>7, <1>8, NewOverlays

(* An update lays what was asked over what was there, and nothing else.    *)
LEMMA UpdateOverlays ==
  ASSUME NEW req, IsRequest(req), req.op \in {"update", "updateVersion"}, NEW old
  PROVE  Overlays(Onto(old, RenderUpdateBody(req)), old, req)
BY PlanAnswers, OntoOverlays DEF RenderUpdateBody, Writing

-----------------------------------------------------------------------------
(* A call keeps the request that it was made for: resolving a project only *)
(* changes what it is on.                                                  *)
RequestsInv == IsSeq(created) /\ \A c \in Calls : IsRequest(call[c].req)

(* A call that keeps a request leaves those of the others alone.           *)
LEMMA SetRequest ==
  ASSUME WritesInv, RequestsInv, NEW c \in Calls, NEW n, Set(c, n), IsRequest(n.req)
  PROVE  \A d \in Calls : IsRequest(call'[d].req)
BY DEF WritesInv, RequestsInv, Set

(* At the beginning there is no request.                                   *)
LEMMA InitRequests == Init => RequestsInv
<1> SUFFICES ASSUME Init PROVE RequestsInv
  OBVIOUS
<1>1. PICK r \in Requests : call = [c \in Calls |-> NewCall(r[c])]
  BY DEF Init
<1>2. \A c \in Calls : NewCall(r[c]).req = r[c] /\ IsRequest(r[c])
  BY WritesAssumption DEF NewCall
<1>3. IsSeq(created)
  BY EmptySeq DEF Init, IsSeq
<1> QED
  BY <1>1, <1>2, <1>3 DEF RequestsInv

(* A call keeps its request through every step.                            *)
LEMMA RequestsStep == WritesInv /\ RequestsInv /\ [Next]_vars => RequestsInv'
<1> SUFFICES ASSUME WritesInv, RequestsInv, [Next]_vars PROVE RequestsInv'
  OBVIOUS
<1>1. \A c \in Calls : DOMAIN call[c] = CallFields /\ IsRequest(call[c].req)
  BY DEF WritesInv, Right, Shape, RequestsInv
<1>2. ASSUME NEW c \in Calls, Begin(c) \/ Fail(c) \/ ChooseTransition(c) \/ ResolveProjectID(c) \/ ListPage(c)
      PROVE  RequestsInv'
  <2>1. /\ \A out : [call[c] EXCEPT !.at = "done", !.out = out].req = call[c].req
        /\ \A a, s : [call[c] EXCEPT !.at = a, !.there = s].req = call[c].req
        /\ \A i : [call[c] EXCEPT !.at = "write", !.id = i, !.matches = 1].req = call[c].req
        /\ \A p : [call[c] EXCEPT !.at = "write", !.req.on = p].req = [call[c].req EXCEPT !.on = p]
    BY <1>1 DEF CallFields
  <2>2. ASSUME NEW p PROVE IsRequest([call[c].req EXCEPT !.on = p])
    <3> DEFINE q == call[c].req
               n == [q EXCEPT !.on = p]
    <3>1. IsRequest(q)
      BY <1>1
    <3>2. /\ DOMAIN n = DOMAIN q /\ n.front = q.front /\ n.op = q.op
          /\ n.given = q.given /\ n.raw = q.raw
      BY <3>1 DEF IsRequest
    <3> HIDE DEF q, n
    <3>3. IsRequest(n)
      BY <3>1, <3>2 DEF IsRequest
    <3> QED
      BY <3>3 DEF n, q
  <2>3. created' = created
    BY <1>2 DEF Begin, Fail, ChooseTransition, ResolveProjectID, ListPage, jira
  <2>4. ASSUME NEW n, Set(c, n), IsRequest(n.req) PROVE RequestsInv'
    BY <2>3, <2>4, SetRequest DEF RequestsInv
  <2>d. ASSUME NEW out, Done(c, out) PROVE RequestsInv'
    BY <1>1, <2>1, <2>4, <2>d DEF Done
  <2>5. CASE Begin(c) \/ Fail(c)
    <3>1. \/ \E out : Done(c, out)
          \/ Set(c, [call[c] EXCEPT !.at = FirstRequest(call[c].req), !.there = Ids(versions)])
      BY <2>5 DEF Begin, Fail
    <3>2. [call[c] EXCEPT !.at = FirstRequest(call[c].req), !.there = Ids(versions)].req = call[c].req
      BY <2>1
    <3> QED
      BY <1>1, <2>d, <2>4, <3>1, <3>2
  <2>6. CASE ChooseTransition(c)
    BY <1>1, <2>1, <2>4, <2>6 DEF ChooseTransition, Done
  <2>7. CASE ResolveProjectID(c)
    <3>1. \/ Done(c, "failed")
          \/ \E p : Set(c, [call[c] EXCEPT !.at = "write", !.req.on = p])
      BY <2>7 DEF ResolveProjectID
    <3>2. ASSUME NEW p, Set(c, [call[c] EXCEPT !.at = "write", !.req.on = p]) PROVE RequestsInv'
      <4>1. IsRequest([call[c] EXCEPT !.at = "write", !.req.on = p].req)
        BY <2>1, <2>2
      <4> QED
        BY <2>4, <3>2, <4>1
    <3> QED
      BY <2>d, <3>1, <3>2
  <2>8. CASE ListPage(c)
    <3>1. PICK g, s : LET more == [call[c] EXCEPT !.got = g, !.startAt = s]
                      IN  Set(c, more) \/ Set(c, [more EXCEPT !.at = "done", !.out = "ok"])
      BY <2>8 DEF ListPage
    <3>2. LET more == [call[c] EXCEPT !.got = g, !.startAt = s]
          IN  /\ more.req = call[c].req
              /\ [more EXCEPT !.at = "done", !.out = "ok"].req = call[c].req
      BY <1>1 DEF CallFields
    <3> QED
      BY <1>1, <2>4, <3>1, <3>2
  <2> QED
    BY <1>2, <2>5, <2>6, <2>7, <2>8
<1>3. ASSUME NEW c \in Calls, Write(c) \/ WriteUnanswered(c) PROVE RequestsInv'
  <2>1. created' = created \/ created' = Append(created, RenderCreateBody(call[c].req))
    BY <1>3 DEF Write, WriteUnanswered, CarryOut, Update, Transition, CreateVersion, UpdateVersion
  <2>2. IsSeq(created')
    <3>1. IsSeq(created)
      BY DEF RequestsInv
    <3>2. IsSeq(Append(created, RenderCreateBody(call[c].req)))
      BY <3>1, Appended
    <3> QED
      BY <2>1, <3>1, <3>2
  <2>3. CASE Write(c)
    <3> DEFINE n == [call[c] EXCEPT !.at = "done", !.out = "ok", !.carried = @ + 1]
    <3>1. n.req = call[c].req /\ Set(c, n)
      BY <1>1, <2>3 DEF Write, CallFields
    <3> HIDE DEF n
    <3> QED
      BY <1>1, <2>2, <3>1, SetRequest DEF RequestsInv
  <2>4. CASE WriteUnanswered(c)
    <3> DEFINE n == [call[c] EXCEPT !.carried = @ + 1, !.lost = @ + 1]
    <3>1. n.req = call[c].req /\ Set(c, n)
      BY <1>1, <2>4 DEF WriteUnanswered, CallFields
    <3> HIDE DEF n
    <3> QED
      BY <1>1, <2>2, <3>1, SetRequest DEF RequestsInv
  <2> QED
    BY <1>3, <2>3, <2>4
<1>4. CASE Others
  <2>1. created' = created
    BY <1>4 DEF Others, MoveIssue, AddVersion, DeleteVersion
  <2>2. ASSUME NEW c \in Calls PROVE call'[c].req = call[c].req
    BY <1>1, <1>4 DEF Others, MoveIssue, AddVersion, DeleteVersion, CallFields
  <2> QED
    BY <2>1, <2>2 DEF RequestsInv
<1>5. CASE UNCHANGED vars
  BY <1>5 DEF vars, jira, RequestsInv
<1> QED
  BY <1>2, <1>3, <1>4, <1>5 DEF Next

(* Through any front end, a write sets every field that is asked for to    *)
(* what is asked, and leaves every other field as it was, whatever the     *)
(* texts, the raw fields, the other calls and the answers that are lost.   *)
THEOREM WritesAsAsked == Spec => WritesWhatWasAsked
<1> DEFINE AsAsked(c) ==
      call'[c].carried > call[c].carried =>
       LET req == call[c].req
       IN  CASE req.op = "create" -> Overlays(created'[Len(created')], << >>, req)
             [] req.op = "update" /\ req.verbs = << >> -> Overlays(fields', fields, req)
             [] req.op = "createVersion" -> Overlays(versions'[Len(versions')].body, << >>, req)
             [] req.op = "updateVersion" ->
                  \A i \in DOMAIN versions : versions[i].id = req.on =>
                    Overlays(versions'[i].body, versions[i].body, req)
             [] OTHER -> TRUE
<1>1. WritesInv /\ ListingInv /\ RequestsInv /\ [Next]_vars => \A c \in Calls : AsAsked(c)
  <2> SUFFICES ASSUME WritesInv, ListingInv, RequestsInv, [Next]_vars, NEW c \in Calls,
                      call'[c].carried > call[c].carried
               PROVE  AsAsked(c)
    OBVIOUS
  <2> DEFINE req == call[c].req
  <2>1. CarryOut(c) /\ IsRequest(req)
    BY CarriedByWrite DEF RequestsInv
  <2>2. CASE req.op = "create"
    <3>1. created' = Append(created, RenderCreateBody(req))
      BY <2>1, <2>2 DEF CarryOut
    <3>2. created'[Len(created')] = RenderCreateBody(req)
      BY <3>1, Appended DEF RequestsInv
    <3> QED
      BY <2>1, <2>2, <3>2, CreateOverlays
  <2>3. CASE req.op = "update" /\ req.verbs = << >>
    <3>1. fields' = Onto(fields, RenderUpdateBody(req))
      BY <2>1, <2>3 DEF CarryOut, Update
    <3> QED
      BY <2>1, <2>3, <3>1, UpdateOverlays
  <2>4. CASE req.op = "createVersion"
    <3> DEFINE v == [id |-> VersionIds[made'], body |-> RenderCreateVersionBody(req)]
    <3>1. versions' = Append(versions, v)
      BY <2>1, <2>4 DEF CarryOut, CreateVersion, NewVersion
    <3>2. v.body = RenderCreateVersionBody(req)
      OBVIOUS
    <3> HIDE DEF v
    <3>3. versions'[Len(versions')] = v
      BY <3>1, Appended DEF ListingInv, Versioned
    <3> QED
      BY <2>1, <2>4, <3>2, <3>3, CreateVersionOverlays
  <2>5. CASE req.op = "updateVersion"
    <3>1. PICK k \in DOMAIN versions :
            /\ versions[k].id = req.on
            /\ versions' = [versions EXCEPT ![k].body = Onto(@, RenderUpdateBody(req))]
      BY <2>1, <2>5 DEF CarryOut, UpdateVersion
    <3>2. ASSUME NEW i \in DOMAIN versions, versions[i].id = req.on
          PROVE  Overlays(versions'[i].body, versions[i].body, req)
      <4>1. DOMAIN versions = 1 .. Len(versions)
        BY Sequence DEF ListingInv, Versioned
      <4>2. i = k /\ DOMAIN versions[k] = {"id", "body"}
        BY <3>1, <3>2, <4>1 DEF ListingInv, Versioned
      <4>3. versions'[i].body = Onto(versions[i].body, RenderUpdateBody(req))
        BY <3>1, <4>2
      <4> QED
        BY <2>1, <2>5, <4>3, UpdateOverlays
    <3> QED
      BY <2>5, <3>2
  <2> QED
    BY <2>2, <2>3, <2>4, <2>5
<1>2. WritesWhatWasAsked <=> [][\A c \in Calls : AsAsked(c)]_vars
  BY DEF WritesWhatWasAsked
<1>3. Init => ListingInv /\ RequestsInv
  BY InitListing, InitRequests
<1>4. WritesInv /\ ListingInv /\ [Next]_vars => ListingInv'
  BY ListingStep
<1>5. WritesInv /\ RequestsInv /\ [Next]_vars => RequestsInv'
  BY RequestsStep
<1> HIDE DEF AsAsked
<1> QED
  BY <1>1, <1>2, <1>3, <1>4, <1>5, WritesInductive, PTL DEF Spec
=============================================================================
