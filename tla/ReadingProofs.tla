--------------------------- MODULE ReadingProofs ----------------------------
(***************************************************************************)
(* Proofs about what is read from Jira: JiraClient, which asks (types, the *)
(* inductive invariant, what follows from it, the refinement of            *)
(* RemoteCall), and Content, which makes pages and a reply of the answer   *)
(* (what its loops and its recursion over a document yield, and from it    *)
(* its five invariants).                                                   *)
(***************************************************************************)
EXTENDS JiraClient, Content, SequenceTheorems, FiniteSetTheorems, TLAPS

-----------------------------------------------------------------------------
(***************************************************************************)
(* The steps of a call, by what they do to its counters and its outcome.   *)
(***************************************************************************)
(* The call sends a request.                                               *)
Sends(c) ==
  /\ pc[c] = "send" /\ sent[c] < MaxTries
  /\ sent' = [sent EXCEPT ![c] = @ + 1]
  /\ fate' = [fate EXCEPT ![c][sent[c] + 1] = "flying"]
  /\ pc' = [pc EXCEPT ![c] = "wait"]
  /\ UNCHANGED <<counters, cancelled, outcome, field, before>>

(* It is to send again, after a network error or after a 429.              *)
Retries(c) ==
  /\ pc[c] = "wait"
  /\ \/ /\ network[c] < MaxNetworkRetries
        /\ network' = [network EXCEPT ![c] = @ + 1]
        /\ rate' = rate
     \/ /\ rate[c] < MaxRateLimitRetries /\ fate[c][sent[c]] = "refused"
        /\ rate' = [rate EXCEPT ![c] = @ + 1]
        /\ network' = network
  /\ pc' = [pc EXCEPT ![c] = "sleep"]
  /\ UNCHANGED <<sent, cancelled, outcome, jira, before>>

(* It returns o.                                                           *)
Returns(c, o) ==
  /\ pc[c] = "wait" \/ (pc[c] \in {"send", "sleep"} /\ o = "cancelled")
  /\ o \in Outcomes
  /\ o \in {"ok", "truncated"} => fate[c][sent[c]] = "applied"
  /\ o \in {"denied", "rate_limited"} => fate[c][sent[c]] = "refused"
  /\ o = "rate_limited" => rate[c] = MaxRateLimitRetries
  /\ o = "exhausted" => network[c] = MaxNetworkRetries
  /\ pc' = [pc EXCEPT ![c] = "done"]
  /\ outcome' = [outcome EXCEPT ![c] = o]
  /\ UNCHANGED <<counters, sent, cancelled, jira, before>>

(* It wakes up.                                                            *)
Wakes(c) ==
  /\ pc[c] = "sleep"
  /\ pc' = [pc EXCEPT ![c] = "send"]
  /\ UNCHANGED <<counters, sent, cancelled, outcome, jira, before>>

Step(c) ==
  \/ Begin(c) \/ Sends(c) \/ Retries(c) \/ Wakes(c) \/ Cancel(c)
  \/ \E o \in Outcomes : Returns(c, o)
  \/ \E n \in Tries : CarryOut(c, n) \/ Refuse(c, n)

(* How many requests a call may send: more than one, and finitely many.    *)
LEMMA Limits ==
  /\ MaxTries \in Nat
  /\ MaxTries = MaxNetworkRetries + MaxRateLimitRetries + 1
  /\ Tries \subseteq Nat /\ \A n : n \in Tries <=> n \in Nat /\ 1 <= n /\ n <= MaxTries
BY ClientAssumption DEF MaxTries, Tries

(* After a network error a call retries or returns.                        *)
LEMMA TransportErrorStep ==
  ASSUME TypeOK, NEW c \in Calls, pc[c] = "wait", NEW t \in BOOLEAN, TransportError(c, t),
         UNCHANGED <<rate, sent, cancelled, jira, before>>
  PROVE  Retries(c) \/ \E o \in Outcomes : Returns(c, o)
<1>1. network[c] \in 0 .. MaxNetworkRetries /\ MaxNetworkRetries \in Nat
  BY ClientAssumption DEF TypeOK
<1>2. CASE RetryNetwork(c) /\ Goto(c, "sleep") /\ UNCHANGED outcome
  BY <1>2 DEF RetryNetwork, Goto, Retries
<1>3. ASSUME NEW o \in {"cancelled", "exhausted", "failed"}, Return(c, o), UNCHANGED network,
             o = "exhausted" => network[c] >= MaxNetworkRetries
      PROVE  \E p \in Outcomes : Returns(c, p)
  <2>1. o \in Outcomes
    BY DEF Outcomes
  <2>2. o = "exhausted" => network[c] = MaxNetworkRetries
    BY <1>1, <1>3
  <2>3. o \notin {"ok", "truncated", "denied", "rate_limited"}
    OBVIOUS
  <2>4. Returns(c, o)
    BY <1>3, <2>1, <2>2, <2>3 DEF Return, Goto, Returns, counters, jira
  <2> QED
    BY <2>1, <2>4
<1> QED
  BY <1>2, <1>3 DEF TransportError

(* After an answer a call retries or returns.                              *)
LEMMA AnswerStep ==
  ASSUME TypeOK, NEW c \in Calls, Answer(c)
  PROVE  Retries(c) \/ \E o \in Outcomes : Returns(c, o)
<1>1. rate[c] \in 0 .. MaxRateLimitRetries /\ MaxRateLimitRetries \in Nat
  BY ClientAssumption DEF TypeOK
<1> DEFINE f == fate[c][sent[c]]
<1>2. PICK s \in Status(c) :
        IF s = "too_many" THEN Limited(c) ELSE Return(c, OutcomeOf(s)) /\ UNCHANGED rate
  BY DEF Answer
<1>3. /\ s \in {"too_many", "error"} => f = "refused"
      /\ s = "success" => f = "applied"
  BY DEF Status
<1>4. CASE s = "too_many"
  <2>1. CASE rate[c] < MaxRateLimitRetries
    BY <1>1, <1>2, <1>3, <1>4, <2>1 DEF Limited, Goto, Answer, Retries
  <2>2. CASE rate[c] >= MaxRateLimitRetries
    <3>1. Return(c, "rate_limited") /\ UNCHANGED rate
      BY <1>1, <1>2, <1>4, <2>2 DEF Limited
    <3>2. rate[c] = MaxRateLimitRetries
      BY <1>1, <2>2
    <3>3. "rate_limited" \in Outcomes
      BY DEF Outcomes
    <3>4. Returns(c, "rate_limited")
      BY <1>3, <1>4, <3>1, <3>2, <3>3 DEF Return, Goto, Answer, Returns, counters, jira
    <3> QED
      BY <3>3, <3>4
  <2> QED
    BY <1>1, <2>1, <2>2
<1>5. CASE s # "too_many"
  <2> DEFINE o == OutcomeOf(s)
  <2>1. /\ o \in {"ok", "denied", "unexpected"}
        /\ o = "ok" => s = "success"
        /\ o = "denied" => s = "error"
    BY DEF OutcomeOf
  <2>2. o \in Outcomes
    BY <2>1 DEF Outcomes
  <2>3. Return(c, o) /\ UNCHANGED rate
    BY <1>2, <1>5
  <2> HIDE DEF o
  <2>4. Returns(c, o)
    BY <1>3, <2>1, <2>2, <2>3 DEF Return, Goto, Answer, Returns, counters, jira
  <2> QED
    BY <2>2, <2>4
<1> QED
  BY <1>4, <1>5

(* Every step of the client is one of the steps above, or changes nothing. *)
LEMMA NextIsStep ==
  ASSUME TypeOK, [Next]_vars
  PROVE  (\E c \in Calls : Step(c)) \/ UNCHANGED vars
<1>1. ASSUME NEW c \in Calls, Send(c) PROVE Step(c)
  <2>1. sent[c] \in Nat
    BY Limits DEF TypeOK
  <2>2. CASE cancelled[c]
    <3>1. Returns(c, "cancelled")
      BY <1>1, <2>2 DEF Send, Return, Goto, Returns, counters, jira, Outcomes
    <3> QED
      BY <3>1 DEF Step, Outcomes
  <2>3. CASE ~cancelled[c]
    <3>1. sent'[c] = sent[c] + 1
      BY <1>1, <2>3 DEF Send, TypeOK
    <3> QED
      BY <1>1, <2>3, <3>1 DEF Send, Goto, SetFate, Sends, Step
  <2> QED
    BY <2>2, <2>3
<1>2. ASSUME NEW c \in Calls, NoAnswer(c) PROVE Step(c)
  BY <1>2, TransportErrorStep DEF NoAnswer, Step
<1>3. ASSUME NEW c \in Calls, Answer(c) PROVE Step(c)
  BY <1>3, AnswerStep DEF Step
<1>4. ASSUME NEW c \in Calls, BrokenAnswer(c) PROVE Step(c)
  <2>1. CASE c \notin Loggers
    BY <1>4, <2>1, TransportErrorStep DEF BrokenAnswer, Step
  <2>2. CASE c \in Loggers
    <3>1. fate[c][sent[c]] = "applied"
      BY <1>4 DEF BrokenAnswer, Status
    <3>2. Returns(c, "truncated")
      BY <1>4, <2>2, <3>1 DEF BrokenAnswer, Return, Goto, Returns, counters, jira, Outcomes
    <3> QED
      BY <3>2 DEF Step, Outcomes
  <2> QED
    BY <2>1, <2>2
<1>5. ASSUME NEW c \in Calls, Wake(c) PROVE Step(c)
  <2>1. CASE Goto(c, "send") /\ UNCHANGED outcome
    BY <1>5, <2>1 DEF Wake, Goto, Wakes, Step
  <2>2. CASE Return(c, "cancelled")
    <3>1. Returns(c, "cancelled")
      BY <1>5, <2>2 DEF Wake, Return, Goto, Returns, Outcomes
    <3> QED
      BY <3>1 DEF Step, Outcomes
  <2> QED
    BY <1>5, <2>1, <2>2 DEF Wake
<1> QED
  BY <1>1, <1>2, <1>3, <1>4, <1>5 DEF Next, ClientStep, Surroundings, Finished, Step

-----------------------------------------------------------------------------
(***************************************************************************)
(* The parts of the invariant.                                             *)
(***************************************************************************)
LEMMA TypeStep == TypeOK /\ [Next]_vars => TypeOK'
<1> SUFFICES ASSUME TypeOK, [Next]_vars PROVE TypeOK'
  OBVIOUS
<1> USE Limits, ClientAssumption
<1>1. ASSUME NEW c \in Calls, Begin(c) PROVE TypeOK'
  BY <1>1 DEF Begin, Goto, TypeOK, counters, jira
<1>2. ASSUME NEW c \in Calls, Sends(c) PROVE TypeOK'
  <2>1. sent[c] + 1 \in 1 .. MaxTries
    BY <1>2 DEF Sends, TypeOK
  <2>2. "flying" \in Fates
    BY DEF Fates
  <2>3. [fate[c] EXCEPT ![sent[c] + 1] = "flying"] \in [Tries -> Fates]
    BY <2>1, <2>2 DEF Tries, TypeOK
  <2>4. fate' = [fate EXCEPT ![c] = [fate[c] EXCEPT ![sent[c] + 1] = "flying"]]
    BY <1>2 DEF Sends
  <2>5. fate' \in [Calls -> [Tries -> Fates]]
    BY <2>3, <2>4 DEF TypeOK
  <2> QED
    BY <1>2, <2>1, <2>5 DEF Sends, TypeOK, counters
<1>3. ASSUME NEW c \in Calls, Retries(c) PROVE TypeOK'
  BY <1>3 DEF Retries, TypeOK, jira
<1>4. ASSUME NEW c \in Calls, Wakes(c) PROVE TypeOK'
  BY <1>4 DEF Wakes, TypeOK, counters, jira
<1>5. ASSUME NEW c \in Calls, Cancel(c) PROVE TypeOK'
  BY <1>5 DEF Cancel, TypeOK, counters, jira
<1>6. ASSUME NEW c \in Calls, NEW o \in Outcomes, Returns(c, o) PROVE TypeOK'
  BY <1>6 DEF Returns, TypeOK, counters, jira
<1>7. ASSUME NEW c \in Calls, NEW n \in Tries, CarryOut(c, n) \/ Refuse(c, n) PROVE TypeOK'
  <2>1. PICK f \in {"applied", "refused"} : fate' = [fate EXCEPT ![c] = [fate[c] EXCEPT ![n] = f]]
    BY <1>7 DEF CarryOut, Refuse, SetFate
  <2>2. [fate[c] EXCEPT ![n] = f] \in [Tries -> Fates]
    BY DEF Fates, TypeOK
  <2>3. fate' \in [Calls -> [Tries -> Fates]]
    BY <2>1, <2>2 DEF TypeOK
  <2> QED
    BY <1>7, <2>3 DEF CarryOut, Refuse, TypeOK, counters
<1>8. UNCHANGED vars => TypeOK'
  BY DEF vars, TypeOK
<1> QED
  BY <1>1, <1>2, <1>3, <1>4, <1>5, <1>6, <1>7, <1>8, NextIsStep DEF Step

(* What Jira makes of a request changes nothing that the loop keeps.       *)
LEMMA JiraStep ==
  ASSUME TypeOK, NEW c \in Calls, NEW n \in Tries, CarryOut(c, n) \/ Refuse(c, n)
  PROVE  /\ UNCHANGED <<pc, network, rate, sent, cancelled, outcome, before>>
         /\ \E f \in {"applied", "refused"} : fate' = [fate EXCEPT ![c][n] = f]
         /\ fate[c][n] = "flying"
         /\ \A d \in Calls, m \in Tries :
              /\ fate[d][m] # "flying" => fate'[d][m] = fate[d][m]
              /\ fate[d][m] = "flying" => fate'[d][m] # "unsent"
BY DEF CarryOut, Refuse, SetFate, counters, TypeOK

(* The counters of a call keep adding up to its requests.                  *)
LEMMA CountStep == TypeOK /\ CountInv /\ [Next]_vars => CountInv'
<1> SUFFICES ASSUME TypeOK, CountInv, [Next]_vars PROVE CountInv'
  OBVIOUS
<1> USE Limits, ClientAssumption
<1> DEFINE Part(d) ==
      /\ pc[d] = "idle" => sent[d] = 0
      /\ pc[d] \in {"idle", "send", "sleep"} => sent[d] = network[d] + rate[d]
      /\ pc[d] = "wait" => sent[d] = network[d] + rate[d] + 1
      /\ pc[d] = "done" => sent[d] \in {network[d] + rate[d], network[d] + rate[d] + 1}
      /\ \A n \in Tries : fate[d][n] = "unsent" <=> n > sent[d]
<1>0. \A d \in Calls : Part(d) /\ network[d] \in Nat /\ rate[d] \in Nat /\ sent[d] \in Nat
  BY DEF CountInv, TypeOK
<1> SUFFICES ASSUME NEW d \in Calls PROVE Part(d)'
  BY DEF CountInv
<1>1. ASSUME NEW c \in Calls, Begin(c) PROVE Part(d)'
  BY <1>0, <1>1 DEF Begin, Goto, TypeOK, counters, jira
<1>2. ASSUME NEW c \in Calls, Sends(c) PROVE Part(d)'
  <2>1. CASE d = c
    <3>1. sent'[c] = sent[c] + 1 /\ pc'[c] = "wait" /\ network' = network /\ rate' = rate
      BY <1>2 DEF Sends, TypeOK, counters
    <3>2. sent[c] = network[c] + rate[c]
      BY <1>0, <1>2 DEF Sends
    <3>3. \A n \in Tries : fate'[c][n] = IF n = sent[c] + 1 THEN "flying" ELSE fate[c][n]
      BY <1>2 DEF Sends, TypeOK
    <3>4. \A n \in Tries : fate'[c][n] = "unsent" <=> n > sent[c] + 1
      BY <1>0, <3>3
    <3> QED
      BY <1>0, <2>1, <3>1, <3>2, <3>4
  <2>2. CASE d # c
    BY <1>0, <1>2, <2>2 DEF Sends, TypeOK, counters
  <2> QED
    BY <2>1, <2>2
<1>3. ASSUME NEW c \in Calls, Retries(c) PROVE Part(d)'
  BY <1>0, <1>3 DEF Retries, TypeOK, jira
<1>4. ASSUME NEW c \in Calls, Wakes(c) PROVE Part(d)'
  BY <1>0, <1>4 DEF Wakes, TypeOK, counters, jira
<1>5. ASSUME NEW c \in Calls, Cancel(c) PROVE Part(d)'
  BY <1>0, <1>5 DEF Cancel, TypeOK, counters, jira
<1>6. ASSUME NEW c \in Calls, NEW o \in Outcomes, Returns(c, o) PROVE Part(d)'
  BY <1>0, <1>6 DEF Returns, TypeOK, counters, jira
<1>7. ASSUME NEW c \in Calls, NEW n \in Tries, CarryOut(c, n) \/ Refuse(c, n) PROVE Part(d)'
  <2>1. \A m \in Tries : fate'[d][m] = "unsent" <=> fate[d][m] = "unsent"
    BY <1>7, JiraStep
  <2> QED
    BY <1>0, <1>7, <2>1, JiraStep
<1>8. UNCHANGED vars => Part(d)'
  BY <1>0 DEF vars
<1> QED
  BY <1>1, <1>2, <1>3, <1>4, <1>5, <1>6, <1>7, <1>8, NextIsStep DEF Step

(* An outcome keeps telling the fate of the last request.                  *)
LEMMA OutcomeStep == TypeOK /\ CountInv /\ OutcomeInv /\ [Next]_vars => OutcomeInv'
<1> SUFFICES ASSUME TypeOK, CountInv, OutcomeInv, [Next]_vars PROVE OutcomeInv'
  OBVIOUS
<1> USE Limits, ClientAssumption
<1> DEFINE Part(d) ==
      /\ pc[d] = "done" <=> outcome[d] # "none"
      /\ outcome[d] \in {"ok", "truncated", "denied", "rate_limited", "exhausted"} =>
           sent[d] = network[d] + rate[d] + 1
      /\ outcome[d] \in {"ok", "truncated"} => fate[d][sent[d]] = "applied"
      /\ outcome[d] \in {"denied", "rate_limited"} => fate[d][sent[d]] = "refused"
      /\ outcome[d] = "rate_limited" => rate[d] = MaxRateLimitRetries
      /\ outcome[d] = "exhausted" => network[d] = MaxNetworkRetries
<1>0. \A d \in Calls : Part(d) /\ network[d] \in Nat /\ rate[d] \in Nat /\ sent[d] \in Nat
  BY DEF OutcomeInv, TypeOK
<1> SUFFICES ASSUME NEW d \in Calls PROVE Part(d)'
  BY DEF OutcomeInv
<1>1. ASSUME NEW c \in Calls, Begin(c) PROVE Part(d)'
  BY <1>0, <1>1 DEF Begin, Goto, TypeOK, counters, jira
<1>2. ASSUME NEW c \in Calls, Sends(c) PROVE Part(d)'
  <2>1. CASE d = c
    <3>1. outcome[c] = "none"
      BY <1>0, <1>2 DEF Sends
    <3> QED
      BY <1>2, <2>1, <3>1 DEF Sends, TypeOK
  <2>2. CASE d # c
    BY <1>0, <1>2, <2>2 DEF Sends, TypeOK, counters
  <2> QED
    BY <2>1, <2>2
<1>3. ASSUME NEW c \in Calls, Retries(c) PROVE Part(d)'
  <2>1. CASE d = c
    <3>1. outcome[c] = "none"
      BY <1>0, <1>3 DEF Retries
    <3> QED
      BY <1>3, <2>1, <3>1 DEF Retries, TypeOK
  <2>2. CASE d # c
    BY <1>0, <1>3, <2>2 DEF Retries, TypeOK, jira
  <2> QED
    BY <2>1, <2>2
<1>4. ASSUME NEW c \in Calls, Wakes(c) PROVE Part(d)'
  BY <1>0, <1>4 DEF Wakes, TypeOK, counters, jira
<1>5. ASSUME NEW c \in Calls, Cancel(c) PROVE Part(d)'
  BY <1>0, <1>5 DEF Cancel, TypeOK, counters, jira
<1>6. ASSUME NEW c \in Calls, NEW o \in Outcomes, Returns(c, o) PROVE Part(d)'
  <2>1. CASE d = c
    <3>1. pc'[c] = "done" /\ outcome'[c] = o /\ UNCHANGED <<network, rate, sent, fate>>
      BY <1>6 DEF Returns, TypeOK, counters, jira
    <3>2. o # "none"
      BY DEF Outcomes
    <3>3. o # "cancelled" => sent[c] = network[c] + rate[c] + 1
      BY <1>6 DEF Returns, CountInv
    <3> QED
      BY <1>6, <2>1, <3>1, <3>2, <3>3 DEF Returns
  <2>2. CASE d # c
    BY <1>0, <1>6, <2>2 DEF Returns, TypeOK, counters, jira
  <2> QED
    BY <2>1, <2>2
<1>7. ASSUME NEW c \in Calls, NEW n \in Tries, CarryOut(c, n) \/ Refuse(c, n) PROVE Part(d)'
  <2>1. \A f \in {"applied", "refused"} :
          sent[d] \in Tries /\ fate[d][sent[d]] = f => fate'[d][sent[d]] = f
    BY <1>7, JiraStep
  <2>2. outcome[d] \in {"ok", "truncated", "denied", "rate_limited"} => sent[d] \in Tries
    BY <1>0 DEF TypeOK
  <2> QED
    BY <1>0, <1>7, <2>1, <2>2, JiraStep
<1>8. UNCHANGED vars => Part(d)'
  BY <1>0 DEF vars
<1> QED
  BY <1>1, <1>2, <1>3, <1>4, <1>5, <1>6, <1>7, <1>8, NextIsStep DEF Step

(* The refused requests that were followed by a retry are finitely many,   *)
(* and a retry after a 429 adds one.                                       *)
LEMMA TriesFinite == IsFiniteSet(Tries) /\ \A S \in SUBSET Tries : IsFiniteSet(S)
<1>1. IsFiniteSet(1 .. MaxTries)
  <2>1. 1 \in Int /\ MaxTries \in Int
    BY Limits
  <2> QED
    BY <2>1, FS_Interval
<1>2. IsFiniteSet(Tries)
  BY <1>1 DEF Tries
<1> QED
  BY <1>2, FS_Subset

(* The retries after a 429 stay matched by refused requests.               *)
LEMMA RetryStep == TypeOK /\ CountInv /\ RetryInv /\ [Next]_vars => RetryInv'
<1> SUFFICES ASSUME TypeOK, CountInv, RetryInv, [Next]_vars PROVE RetryInv'
  OBVIOUS
<1> USE Limits, ClientAssumption
<1> DEFINE Part(d) ==
      /\ Cardinality(Retried(d)) >= rate[d]
      /\ network[d] = 0 => \A n \in Tries : n <= rate[d] => fate[d][n] = "refused"
<1>0. \A d \in Calls : Part(d) /\ network[d] \in Nat /\ rate[d] \in Nat /\ sent[d] \in 0 .. MaxTries
  BY DEF RetryInv, TypeOK
<1> SUFFICES ASSUME NEW d \in Calls PROVE Part(d)'
  BY DEF RetryInv
<1>1. /\ IsFiniteSet(Retried(d)) /\ IsFiniteSet(Retried(d)')
      /\ Cardinality(Retried(d)) \in Nat /\ Cardinality(Retried(d)') \in Nat
      /\ Retried(d) \subseteq Retried(d)' => Cardinality(Retried(d)') >= Cardinality(Retried(d))
  <2>1. Retried(d) \in SUBSET Tries /\ Retried(d)' \in SUBSET Tries
    BY DEF Retried
  <2> QED
    BY <2>1, TriesFinite, FS_CardinalityType, FS_Subset
<1>2. ASSUME network'[d] = network[d], rate'[d] = rate[d],
             \A n \in Tries : fate[d][n] = "refused" => fate'[d][n] = "refused"
      PROVE  Part(d)'
  <2>1. Retried(d) \subseteq Retried(d)'
    BY <1>2 DEF Retried
  <2> QED
    BY <1>0, <1>1, <1>2, <2>1
<1>3. ASSUME NEW c \in Calls, Begin(c) \/ Wakes(c) \/ Cancel(c) PROVE Part(d)'
  BY <1>2, <1>3 DEF Begin, Wakes, Cancel, counters, jira
<1>4. ASSUME NEW c \in Calls, NEW o \in Outcomes, Returns(c, o) PROVE Part(d)'
  BY <1>2, <1>4 DEF Returns, counters, jira
<1>5. ASSUME NEW c \in Calls, NEW n \in Tries, CarryOut(c, n) \/ Refuse(c, n) PROVE Part(d)'
  BY <1>2, <1>5, JiraStep
<1>6. ASSUME NEW c \in Calls, Sends(c) PROVE Part(d)'
  <2>1. fate[c][sent[c] + 1] = "unsent"
    <3>1. sent[c] + 1 \in Tries
      BY <1>0, <1>6 DEF Sends
    <3> QED
      BY <1>0, <3>1 DEF CountInv
  <2>2. \A n \in Tries : fate[d][n] = "refused" => fate'[d][n] = "refused"
    BY <1>6, <2>1 DEF Sends, TypeOK
  <2> QED
    BY <1>2, <1>6, <2>2 DEF Sends, counters
<1>7. ASSUME NEW c \in Calls, Retries(c) PROVE Part(d)'
  <2>1. fate' = fate /\ sent[c] = network[c] + rate[c] + 1
    BY <1>7 DEF Retries, CountInv, jira
  <2>2. CASE d # c
    BY <1>2, <1>7, <2>1, <2>2 DEF Retries, TypeOK
  <2>3. CASE d = c /\ network' = [network EXCEPT ![c] = @ + 1] /\ rate' = rate
    <3>1. network'[d] = network[d] + 1 /\ rate'[d] = rate[d]
      BY <2>3 DEF TypeOK
    <3>2. Retried(d) \subseteq Retried(d)'
      <4>1. \A n \in Tries : n <= network[d] + rate[d] => n <= network'[d] + rate'[d]
        BY <1>0, <3>1
      <4> QED
        BY <2>1, <4>1 DEF Retried
    <3> QED
      BY <1>0, <1>1, <3>1, <3>2
  <2>4. CASE /\ d = c /\ fate[c][sent[c]] = "refused"
             /\ rate' = [rate EXCEPT ![c] = @ + 1] /\ network' = network
    <3>1. network'[d] = network[d] /\ rate'[d] = rate[d] + 1
      BY <2>4 DEF TypeOK
    <3>2. sent[c] \in Tries
      BY <1>0, <2>1
    <3>3. sent[c] \notin Retried(d) /\ Retried(d) \cup {sent[c]} \subseteq Retried(d)'
      <4>1. /\ \A n \in Tries : n <= network[d] + rate[d] => n <= network'[d] + rate'[d]
            /\ sent[c] <= network'[d] + rate'[d]
            /\ ~(sent[c] <= network[d] + rate[d])
        BY <1>0, <2>1, <2>4, <3>1
      <4> QED
        BY <2>1, <2>4, <3>2, <4>1 DEF Retried
    <3>4. Cardinality(Retried(d) \cup {sent[c]}) = Cardinality(Retried(d)) + 1
      BY <1>1, <3>3, FS_AddElement
    <3>5. Cardinality(Retried(d)') >= Cardinality(Retried(d) \cup {sent[c]})
      BY <1>1, <3>3, FS_Subset
    <3>6. Cardinality(Retried(d)') >= rate'[d]
      BY <1>0, <1>1, <3>1, <3>4, <3>5
    <3>7. network[d] = 0 => \A n \in Tries : n <= rate[d] + 1 => fate[d][n] = "refused"
      <4>1. network[d] = 0 => sent[d] = rate[d] + 1 /\ fate[d][rate[d] + 1] = "refused"
        BY <1>0, <2>1, <2>4
      <4>2. \A n \in Tries : n <= rate[d] + 1 => n <= rate[d] \/ n = rate[d] + 1
        BY <1>0
      <4> QED
        BY <1>0, <4>1, <4>2
    <3> QED
      BY <2>1, <3>1, <3>6, <3>7
  <2> QED
    BY <1>7, <2>2, <2>3, <2>4 DEF Retries
<1>8. UNCHANGED vars => Part(d)'
  BY <1>2 DEF vars
<1> QED
  BY <1>3, <1>4, <1>5, <1>6, <1>7, <1>8, NextIsStep DEF Step

(* Nothing of a call in which there is no doubt is under way any more: the *)
(* requests before the last one were refused, and the last one was         *)
(* answered.                                                               *)
Answered(d) ==
  /\ pc[d] = "done"
  /\ sent[d] \in Tries /\ fate[d][sent[d]] \in {"applied", "refused"}
  /\ fate[d][sent[d]] = "applied" <=> Verdict(d) = "once"
  /\ \A n \in Tries \ {sent[d]} : fate[d][n] \in {"refused", "unsent"}

(* A call without doubt has had its last request answered.                 *)
LEMMA SettledCall ==
  TypeOK /\ CountInv /\ RetryInv /\ OutcomeInv => \A d \in Calls : Settled(d) => Answered(d)
<1> SUFFICES ASSUME TypeOK, CountInv, RetryInv, OutcomeInv, NEW d \in Calls, Settled(d)
             PROVE  Answered(d)
  OBVIOUS
<1> USE Limits
<1>1. /\ pc[d] = "done" /\ network[d] = 0
      /\ outcome[d] \in {"ok", "truncated", "denied", "rate_limited"}
      /\ Verdict(d) = "once" <=> outcome[d] \in {"ok", "truncated"}
  BY DEF Settled, Verdict
<1>2. rate[d] \in Nat /\ sent[d] \in 0 .. MaxTries
  BY DEF TypeOK
<1>3. sent[d] = rate[d] + 1
  BY <1>1, <1>2 DEF OutcomeInv
<1>4. sent[d] \in Tries
  BY <1>2, <1>3
<1>5. \A n \in Tries \ {sent[d]} : fate[d][n] \in {"refused", "unsent"}
  <2> SUFFICES ASSUME NEW n \in Tries, n # sent[d] PROVE fate[d][n] \in {"refused", "unsent"}
    OBVIOUS
  <2>1. n <= rate[d] \/ n > sent[d]
    BY <1>2, <1>3
  <2> QED
    BY <1>1, <2>1 DEF RetryInv, CountInv
<1> QED
  BY <1>1, <1>4, <1>5 DEF OutcomeInv, Answered

(* A step, seen from Effects and Verdict.                                  *)
LEMMA EffectsStep ==
  ASSUME TypeOK, CountInv, [Next]_vars
  PROVE  \/ \A d \in Calls : Effects(d)' = Effects(d)
         \/ \E c \in Calls, n \in Tries :
              /\ CarryOut(c, n) /\ n \notin Effects(c)
              /\ \A d \in Calls : Effects(d)' = IF d = c THEN Effects(c) \cup {n} ELSE Effects(d)
<1> USE Limits
<1>1. UNCHANGED fate => \A d \in Calls : Effects(d)' = Effects(d)
  BY DEF Effects
<1>2. ASSUME NEW c \in Calls, Sends(c) PROVE \A d \in Calls : Effects(d)' = Effects(d)
  <2>1. sent[c] + 1 \in Tries /\ fate[c][sent[c] + 1] = "unsent"
    <3>1. sent[c] \in 0 .. MaxTries
      BY DEF TypeOK
    <3>2. sent[c] + 1 \in Tries
      BY <1>2, <3>1 DEF Sends
    <3> QED
      BY <3>1, <3>2 DEF CountInv
  <2> QED
    BY <1>2, <2>1 DEF Sends, Effects, TypeOK
<1>3. ASSUME NEW c \in Calls, NEW n \in Tries, Refuse(c, n)
      PROVE  \A d \in Calls : Effects(d)' = Effects(d)
  BY <1>3 DEF Refuse, SetFate, Effects, TypeOK
<1>4. ASSUME NEW c \in Calls, NEW n \in Tries, CarryOut(c, n)
      PROVE  /\ n \notin Effects(c)
             /\ \A d \in Calls : Effects(d)' = IF d = c THEN Effects(c) \cup {n} ELSE Effects(d)
  BY <1>4 DEF CarryOut, SetFate, Effects, TypeOK
<1>5. ASSUME NEW c \in Calls,
             Begin(c) \/ Retries(c) \/ Wakes(c) \/ Cancel(c) \/ \E o \in Outcomes : Returns(c, o)
      PROVE  UNCHANGED fate
  BY <1>5 DEF Begin, Retries, Wakes, Cancel, Returns, jira
<1>6. UNCHANGED vars => UNCHANGED fate
  BY DEF vars
<1> QED
  BY <1>1, <1>2, <1>3, <1>4, <1>5, <1>6, NextIsStep DEF Step

(* A step settles what is known of one call at most, the one that returns. *)
LEMMA VerdictStep ==
  ASSUME TypeOK, CountInv, [Next]_vars
  PROVE  \/ \A d \in Calls : Verdict(d)' = Verdict(d) /\ (pc'[d] = "done" <=> pc[d] = "done")
         \/ \E c \in Calls, o \in Outcomes :
              /\ Returns(c, o) /\ pc[c] # "done"
              /\ \A d \in Calls \ {c} : Verdict(d)' = Verdict(d) /\ pc'[d] = pc[d]
<1> DEFINE Same(d) == Verdict(d)' = Verdict(d) /\ (pc'[d] = "done" <=> pc[d] = "done")
<1>1. ASSUME NEW c \in Calls, NEW l, l # "done", pc[c] # "done", pc' = [pc EXCEPT ![c] = l],
             UNCHANGED outcome, \A d \in Calls \ {c} : network'[d] = network[d],
             NEW d \in Calls
      PROVE  Same(d)
  BY <1>1 DEF Verdict, TypeOK
<1>2. ASSUME NEW c \in Calls, Begin(c) \/ Sends(c) \/ Wakes(c), NEW d \in Calls PROVE Same(d)
  BY <1>1, <1>2 DEF Begin, Sends, Wakes, Goto, counters
<1>3. ASSUME NEW c \in Calls, Retries(c), NEW d \in Calls PROVE Same(d)
  <2>1. \A e \in Calls \ {c} : network'[e] = network[e]
    BY <1>3 DEF Retries, TypeOK
  <2> QED
    BY <1>1, <1>3, <2>1 DEF Retries
<1>4. UNCHANGED <<pc, network, outcome>> => \A d \in Calls : Same(d)
  BY DEF Verdict
<1>5. ASSUME NEW c \in Calls, NEW o \in Outcomes, Returns(c, o), NEW d \in Calls \ {c}
      PROVE  Verdict(d)' = Verdict(d) /\ pc'[d] = pc[d]
  BY <1>5 DEF Returns, Verdict, TypeOK, counters
<1>6. ASSUME NEW c \in Calls, NEW o \in Outcomes, Returns(c, o) PROVE pc[c] # "done"
  BY <1>6 DEF Returns
<1>7. ASSUME NEW c \in Calls, Cancel(c) \/ \E n \in Tries : CarryOut(c, n) \/ Refuse(c, n)
      PROVE  UNCHANGED <<pc, network, outcome>>
  BY <1>7 DEF Cancel, CarryOut, Refuse, counters
<1>8. UNCHANGED vars => UNCHANGED <<pc, network, outcome>>
  BY DEF vars
<1> QED
  BY <1>2, <1>3, <1>4, <1>5, <1>6, <1>7, <1>8, NextIsStep DEF Step

(* Which calls had returned when a call began is noted when it begins.     *)
LEMMA BeforeStep ==
  ASSUME TypeOK, [Next]_vars, NEW c \in Calls
  PROVE  \/ before'[c] = before[c] /\ (pc'[c] = "idle" => pc[c] = "idle")
         \/ /\ Begin(c)
            /\ before'[c] = {d \in Calls : pc[d] = "done"} /\ pc'[c] # "idle"
<1>1. ASSUME NEW e \in Calls, Begin(e)
      PROVE  \/ before'[c] = before[c] /\ (pc'[c] = "idle" => pc[c] = "idle")
             \/ /\ Begin(c)
                /\ before'[c] = {d \in Calls : pc[d] = "done"} /\ pc'[c] # "idle"
  BY <1>1 DEF Begin, Goto, TypeOK
<1>2. ASSUME NEW e \in Calls, Sends(e) \/ Retries(e) \/ Wakes(e) \/ \E o \in Outcomes : Returns(e, o)
      PROVE  before'[c] = before[c] /\ (pc'[c] = "idle" => pc[c] = "idle")
  BY <1>2 DEF Sends, Retries, Wakes, Returns, TypeOK
<1>3. ASSUME NEW e \in Calls, Cancel(e) \/ \E n \in Tries : CarryOut(e, n) \/ Refuse(e, n)
      PROVE  before'[c] = before[c] /\ (pc'[c] = "idle" => pc[c] = "idle")
  BY <1>3 DEF Cancel, CarryOut, Refuse
<1>4. UNCHANGED vars => before'[c] = before[c] /\ pc'[c] = pc[c]
  BY DEF vars
<1> QED
  BY <1>1, <1>2, <1>3, <1>4, NextIsStep DEF Step

(* A settled call stays behind those that began after it returned.         *)
LEMMA OrderStep == ClientInv /\ [Next]_vars => OrderInv'
<1> SUFFICES ASSUME ClientInv, [Next]_vars PROVE OrderInv'
  OBVIOUS
<1>1. TypeOK /\ CountInv /\ RetryInv /\ OutcomeInv /\ OrderInv
  BY DEF ClientInv
<1> SUFFICES ASSUME NEW c \in Calls
             PROVE  /\ pc'[c] = "idle" => before'[c] = {}
                    /\ \A d \in before'[c] :
                         /\ pc'[d] = "done" /\ d # c
                         /\ Effects(c)' # {} /\ Settled(d)' => field' # d
  BY DEF OrderInv
<1>2. pc'[c] = "idle" => before'[c] = {}
  BY <1>1, BeforeStep DEF OrderInv
<1> SUFFICES ASSUME NEW d \in before'[c]
             PROVE  /\ pc'[d] = "done" /\ d # c
                    /\ Effects(c)' # {} /\ Settled(d)' => field' # d
  BY <1>2
<1>3. d \in Calls
  BY <1>1, TypeStep DEF TypeOK
<1>4. /\ pc[d] = "done" /\ d # c
      /\ Effects(c) # {} /\ Settled(d) => field # d
  <2>1. CASE d \in before[c]
    BY <1>1, <2>1 DEF OrderInv
  <2>2. CASE Begin(c) /\ before'[c] = {e \in Calls : pc[e] = "done"}
    <3>1. sent[c] = 0
      BY <1>1, <2>2 DEF Begin, CountInv
    <3>2. \A n \in Tries : fate[c][n] = "unsent"
      BY <1>1, <3>1, Limits DEF CountInv
    <3>3. Effects(c) = {}
      BY <3>2 DEF Effects
    <3> QED
      BY <2>2, <3>3 DEF Begin
  <2> QED
    BY <1>1, <2>1, <2>2, BeforeStep
<1>5. pc'[d] = "done" /\ Settled(d)' = Settled(d)
  BY <1>1, <1>3, <1>4, VerdictStep DEF Settled
<1>6. ASSUME NEW e \in Calls, NEW n \in Tries, CarryOut(e, n) PROVE Settled(d) => field' # d
  <2>1. field' = e /\ fate[e][n] = "flying"
    BY <1>6 DEF CarryOut
  <2>2. Settled(d) => fate[d][n] # "flying"
    BY <1>1, <1>3, SettledCall, Limits DEF Answered
  <2> QED
    BY <2>1, <2>2
<1>7. CASE ~\E e \in Calls, n \in Tries : CarryOut(e, n)
  <2>1. field' = field
    BY <1>1, <1>7, NextIsStep
       DEF Step, Begin, Sends, Retries, Wakes, Cancel, Returns, Refuse, jira, vars
  <2>2. Effects(c)' = Effects(c)
    BY <1>1, <1>7, EffectsStep
  <2> QED
    BY <1>4, <1>5, <2>1, <2>2
<1> QED
  BY <1>4, <1>5, <1>6, <1>7

-----------------------------------------------------------------------------
(***************************************************************************)
(* The theorems.                                                           *)
(***************************************************************************)
LEMMA ClientInit == Init => ClientInv
<1> SUFFICES ASSUME Init PROVE ClientInv
  OBVIOUS
<1> USE Limits, ClientAssumption
<1>1. TypeOK
  BY DEF Init, TypeOK, Fates
<1>2. CountInv
  BY DEF Init, CountInv
<1>3. RetryInv
  <2> SUFFICES ASSUME NEW c \in Calls
               PROVE  Cardinality(Retried(c)) >= rate[c] /\ \A n \in Tries : ~(n <= rate[c])
    BY DEF RetryInv
  <2>1. IsFiniteSet(Retried(c))
    BY TriesFinite DEF Retried
  <2> QED
    BY <2>1, FS_CardinalityType DEF Init
<1>4. OutcomeInv
  BY DEF Init, OutcomeInv
<1>5. OrderInv
  BY DEF Init, OrderInv
<1> QED
  BY <1>1, <1>2, <1>3, <1>4, <1>5 DEF ClientInv

(* The parts of the invariant are kept together.                           *)
LEMMA ClientNext == ClientInv /\ [Next]_vars => ClientInv'
BY TypeStep, CountStep, RetryStep, OutcomeStep, OrderStep DEF ClientInv

(* The inductive invariant of the retry loop.                              *)
THEOREM ClientInductive == Spec => []ClientInv
BY ClientInit, ClientNext, PTL DEF Spec

(* The counters of the loop stay within the limits of the client.          *)
THEOREM ClientTypeCorrect == Spec => []TypeOK
<1>1. ClientInv => TypeOK
  BY DEF ClientInv
<1> QED
  BY <1>1, ClientInductive, PTL

(* Only retries after network errors duplicate a call.                     *)
THEOREM OnlyNetworkErrorsDuplicate == Spec => []CopiesAreRetries
<1>1. ClientInv => CopiesAreRetries
  <2> SUFFICES ASSUME ClientInv, NEW c \in Calls PROVE Cardinality(Effects(c)) <= network[c] + 1
    BY DEF CopiesAreRetries
  <2>1. /\ network[c] \in Nat /\ rate[c] \in Nat /\ sent[c] \in 0 .. MaxTries
        /\ sent[c] <= network[c] + rate[c] + 1
        /\ Cardinality(Retried(c)) >= rate[c]
    BY Limits DEF ClientInv, TypeOK, CountInv, RetryInv
  <2> DEFINE S == 1 .. sent[c]
  <2>2. IsFiniteSet(S) /\ Cardinality(S) = sent[c]
    <3>1. 1 \in Int /\ sent[c] \in Int /\ (1 > sent[c] => sent[c] = 0) /\ sent[c] - 1 + 1 = sent[c]
      BY <2>1, Limits
    <3> QED
      BY <3>1, FS_Interval
  <2>3. Effects(c) \subseteq S \ Retried(c)
    <3>1. ASSUME NEW n \in Tries, fate[c][n] = "applied" PROVE n \in S
      BY <2>1, <3>1, Limits DEF ClientInv, CountInv
    <3> QED
      BY <3>1 DEF Effects, Retried
  <2>4. S \cap Retried(c) = Retried(c)
    <3>1. ASSUME NEW n \in Tries, fate[c][n] = "refused" PROVE n \in S
      BY <2>1, <3>1, Limits DEF ClientInv, CountInv
    <3> QED
      BY <3>1 DEF Retried
  <2> HIDE DEF S
  <2>5. /\ IsFiniteSet(S \ Retried(c))
        /\ Cardinality(S \ Retried(c)) = sent[c] - Cardinality(Retried(c))
    <3>1. IsFiniteSet(S)
      BY <2>2
    <3>2. /\ IsFiniteSet(S \ Retried(c))
          /\ Cardinality(S \ Retried(c)) = Cardinality(S) - Cardinality(S \cap Retried(c))
      BY <3>1, FS_Difference, Zenon
    <3> QED
      BY <2>2, <2>4, <3>2
  <2>6. Cardinality(Effects(c)) <= Cardinality(S \ Retried(c)) /\ Cardinality(Effects(c)) \in Nat
    BY <2>3, <2>5, FS_Subset, FS_CardinalityType
  <2>7. Cardinality(Retried(c)) \in Nat
    BY TriesFinite, FS_CardinalityType DEF Retried
  <2> QED
    BY <2>1, <2>5, <2>6, <2>7
<1> QED
  BY <1>1, ClientInductive, PTL

(* The loop gives up for a reason only when it spent the retries for it.   *)
THEOREM GivesUpLate == Spec => []GivesUpWhenSpent
<1>1. ClientInv => GivesUpWhenSpent
  <2> SUFFICES ASSUME ClientInv, NEW c \in Calls
               PROVE  /\ outcome[c] = "rate_limited" =>
                           Cardinality(Refusals(c)) > MaxRateLimitRetries
                      /\ outcome[c] = "exhausted" =>
                           network[c] = MaxNetworkRetries /\ sent[c] > MaxNetworkRetries
    BY DEF GivesUpWhenSpent
  <2>1. /\ network[c] \in Nat /\ rate[c] \in Nat /\ sent[c] \in 0 .. MaxTries
        /\ Cardinality(Retried(c)) >= rate[c]
    BY Limits DEF ClientInv, TypeOK, RetryInv
  <2>2. ASSUME outcome[c] = "rate_limited" PROVE Cardinality(Refusals(c)) > MaxRateLimitRetries
    <3>1. /\ sent[c] = network[c] + rate[c] + 1 /\ fate[c][sent[c]] = "refused"
          /\ rate[c] = MaxRateLimitRetries
      BY <2>2 DEF ClientInv, OutcomeInv
    <3>2. sent[c] \in Tries /\ ~(sent[c] <= network[c] + rate[c])
      BY <2>1, <3>1, Limits
    <3>3. sent[c] \notin Retried(c) /\ Retried(c) \cup {sent[c]} \subseteq Refusals(c)
      BY <3>1, <3>2 DEF Retried, Refusals
    <3>4. IsFiniteSet(Retried(c)) /\ IsFiniteSet(Refusals(c))
      BY TriesFinite DEF Retried, Refusals
    <3>5. /\ Cardinality(Retried(c) \cup {sent[c]}) = Cardinality(Retried(c)) + 1
          /\ Cardinality(Retried(c) \cup {sent[c]}) <= Cardinality(Refusals(c))
          /\ Cardinality(Retried(c)) \in Nat /\ Cardinality(Refusals(c)) \in Nat
      BY <3>3, <3>4, FS_AddElement, FS_Subset, FS_CardinalityType
    <3> QED
      BY <2>1, <3>1, <3>5
  <2>3. ASSUME outcome[c] = "exhausted"
        PROVE  network[c] = MaxNetworkRetries /\ sent[c] > MaxNetworkRetries
    BY <2>1, <2>3, ClientAssumption DEF ClientInv, OutcomeInv
  <2> QED
    BY <2>2, <2>3
<1> QED
  BY <1>1, ClientInductive, PTL

(* A call in which there is no doubt does not undo a later one.            *)
THEOREM LaterUpdateStands == Spec => []UpdateStands
<1>1. ClientInv => UpdateStands
  <2> SUFFICES ASSUME ClientInv, NEW c \in Calls, outcome[c] \in {"ok", "truncated"},
                      NEW d \in before[c], Settled(d)
               PROVE  field # d
    BY DEF UpdateStands
  <2>1. sent[c] = network[c] + rate[c] + 1 /\ fate[c][sent[c]] = "applied"
    BY DEF ClientInv, OutcomeInv
  <2>2. sent[c] \in Tries
    BY <2>1, Limits DEF ClientInv, TypeOK
  <2>3. Effects(c) # {}
    BY <2>1, <2>2 DEF Effects
  <2> QED
    BY <2>3 DEF ClientInv, OrderInv
<1> QED
  BY <1>1, ClientInductive, PTL

(* The retry loop implements RemoteCall.                                   *)
THEOREM PromiseImplemented == Spec => KeepsPromise
<1>1. Init => Remote!RemoteInit
  BY DEF Init, Remote!RemoteInit, Effects, Verdict
<1>2. ClientInv /\ [Next]_vars => [Remote!RemoteNext]_(Remote!rvars)
  <2> SUFFICES ASSUME ClientInv, [Next]_vars PROVE [Remote!RemoteNext]_(Remote!rvars)
    OBVIOUS
  <2>1. TypeOK /\ CountInv /\ RetryInv /\ OutcomeInv /\ TypeOK' /\ CountInv' /\ RetryInv' /\ OutcomeInv'
    BY ClientNext DEF ClientInv
  <2> DEFINE effects == [c \in Calls |-> Effects(c)]
             verdict == [c \in Calls |-> Verdict(c)]
  <2>2. CASE /\ \A d \in Calls : Effects(d)' = Effects(d)
             /\ \A d \in Calls : Verdict(d)' = Verdict(d)
    BY <2>2 DEF Remote!rvars
  <2>3. ASSUME NEW c \in Calls, NEW n \in Tries, CarryOut(c, n), n \notin Effects(c),
               \A d \in Calls : Effects(d)' = IF d = c THEN Effects(c) \cup {n} ELSE Effects(d)
        PROVE  Remote!CarryOut(c)
    <3>1. fate[c][n] = "flying" /\ UNCHANGED <<pc, network, outcome>>
      BY <2>3 DEF CarryOut, counters
    <3>2. ~Settled(c)
      BY <2>1, <3>1, SettledCall DEF Answered
    <3>3. Verdict(c) \in {"open", "atleast", "unknown"}
      BY <3>2 DEF Settled, Verdict
    <3>4. \A d \in Calls : Verdict(d)' = Verdict(d)
      BY <3>1 DEF Verdict
    <3> QED
      BY <2>3, <3>3, <3>4 DEF Remote!CarryOut
  <2>4. ASSUME NEW c \in Calls, NEW o \in Outcomes, Returns(c, o), pc[c] # "done",
               \A d \in Calls \ {c} : Verdict(d)' = Verdict(d)
        PROVE  Remote!RemoteNext
    <3>1. \A d \in Calls : Effects(d)' = Effects(d)
      BY <2>4 DEF Returns, jira, Effects
    <3> DEFINE v == Verdict(c)'
    <3>2. pc'[c] = "done" /\ Verdict(c) = "open" /\ outcome'[c] = o
      BY <2>1, <2>4 DEF Returns, Verdict, TypeOK
    <3>3. v \in {"once", "atleast", "nothing", "unknown"}
      BY <3>2 DEF Verdict
    <3>4. v \in {"once", "nothing"} => Answered(c)'
      <4>1. (TypeOK /\ CountInv /\ RetryInv /\ OutcomeInv =>
               \A d \in Calls : Settled(d) => Answered(d))'
        BY SettledCall, PTL
      <4> QED
        BY <2>1, <4>1 DEF Settled
    <3>5. v = "once" => \E n \in Tries : Effects(c)' = {n}
      BY <3>4 DEF Effects, Answered
    <3>6. v = "nothing" => Effects(c)' = {}
      BY <3>4 DEF Effects, Answered
    <3>7. v = "atleast" => Effects(c)' # {}
      <4>1. v = "atleast" => outcome'[c] \in {"ok", "truncated"}
        BY <3>2 DEF Verdict
      <4>2. v = "atleast" => sent'[c] = network'[c] + rate'[c] + 1 /\ fate'[c][sent'[c]] = "applied"
        BY <2>1, <4>1 DEF OutcomeInv
      <4>3. v = "atleast" => sent'[c] \in Tries
        BY <2>1, <4>2, Limits DEF TypeOK
      <4> QED
        BY <4>2, <4>3 DEF Effects
    <3>8. verdict' = [verdict EXCEPT ![c] = v] /\ effects' = effects
      BY <2>4, <3>1
    <3> HIDE DEF v
    <3>9. Remote!Close(c, v)
      BY <3>1, <3>2, <3>5, <3>6, <3>7, <3>8 DEF Remote!Close
    <3> QED
      BY <3>3, <3>9 DEF Remote!RemoteNext
  <2>5. CASE \A d \in Calls : Effects(d)' = Effects(d)
    BY <2>1, <2>2, <2>4, <2>5, VerdictStep
  <2>6. ASSUME NEW c \in Calls, NEW n \in Tries, CarryOut(c, n), n \notin Effects(c),
               \A d \in Calls : Effects(d)' = IF d = c THEN Effects(c) \cup {n} ELSE Effects(d)
        PROVE  Remote!RemoteNext
    BY <2>3, <2>6 DEF Remote!RemoteNext
  <2> QED
    BY <2>1, <2>5, <2>6, EffectsStep
<1> QED
  BY <1>1, <1>2, ClientInductive, PTL DEF Spec, KeepsPromise, Remote!RemoteSpec

-----------------------------------------------------------------------------
(* Sequences, put together.                                                *)
LEMMA Associative ==
  ASSUME NEW T, NEW a \in Seq(T), NEW b \in Seq(T), NEW c \in Seq(T)
  PROVE  (a \o b) \o c = a \o (b \o c) /\ a \o b \in Seq(T) /\ a \o << >> = a /\ << >> \o a = a
OBVIOUS

(* Appending, as putting together.                                         *)
LEMMA AppendIs ==
  ASSUME NEW T, NEW a \in Seq(T), NEW b \in Seq(T), NEW x \in T
  PROVE  /\ Append(a, x) \in Seq(T) /\ Append(a, x) = a \o <<x>> /\ a \o Append(b, x) = Append(a \o b, x)
OBVIOUS

(* The elements of two sequences put together, and of one with one more.   *)
LEMMA SetOfBoth ==
  ASSUME NEW T, NEW a \in Seq(T), NEW b \in Seq(T), NEW x \in T
  PROVE  ToSet(a \o b) = ToSet(a) \cup ToSet(b) /\ ToSet(Append(a, x)) = ToSet(a) \cup {x}
<1> DEFINE p == a \o b
           q == Append(a, x)
<1>1. /\ Len(a) \in Nat /\ Len(b) \in Nat /\ DOMAIN a = 1 .. Len(a) /\ DOMAIN b = 1 .. Len(b)
      /\ DOMAIN p = 1 .. Len(a) + Len(b) /\ \A i \in 1 .. Len(a) : p[i] = a[i]
      /\ \A i \in 1 .. Len(b) : p[Len(a) + i] = b[i]
      /\ DOMAIN q = 1 .. Len(a) + 1 /\ q[Len(a) + 1] = x /\ \A i \in 1 .. Len(a) : q[i] = a[i]
  OBVIOUS
<1> HIDE DEF p, q
<1>2. ASSUME NEW i \in DOMAIN p PROVE p[i] \in ToSet(a) \cup ToSet(b)
  <2>1. CASE i <= Len(a)
    BY <1>1, <2>1 DEF ToSet
  <2>2. CASE ~(i <= Len(a))
    <3>1. i - Len(a) \in 1 .. Len(b) /\ Len(a) + (i - Len(a)) = i
      BY <1>1, <2>2
    <3> QED
      BY <1>1, <3>1 DEF ToSet
  <2> QED
    BY <2>1, <2>2
<1>3. ASSUME NEW i \in DOMAIN a PROVE a[i] \in ToSet(p) /\ a[i] \in ToSet(q)
  <2>1. i \in DOMAIN p /\ i \in DOMAIN q
    BY <1>1
  <2> QED
    BY <1>1, <2>1 DEF ToSet
<1>4. ASSUME NEW i \in DOMAIN b PROVE b[i] \in ToSet(p)
  <2>1. Len(a) + i \in DOMAIN p
    BY <1>1
  <2> QED
    BY <1>1, <2>1 DEF ToSet
<1>5. ToSet(p) = ToSet(a) \cup ToSet(b)
  BY <1>2, <1>3, <1>4 DEF ToSet
<1>6. ASSUME NEW i \in DOMAIN q PROVE q[i] \in ToSet(a) \cup {x}
  <2>1. i = Len(a) + 1 \/ i \in DOMAIN a
    BY <1>1
  <2> QED
    BY <1>1, <2>1 DEF ToSet
<1>7. x \in ToSet(q)
  <2>1. Len(a) + 1 \in DOMAIN q
    BY <1>1
  <2> QED
    BY <1>1, <2>1 DEF ToSet
<1>8. ToSet(q) = ToSet(a) \cup {x}
  BY <1>3, <1>6, <1>7 DEF ToSet
<1> QED
  BY <1>5, <1>8 DEF p, q

-----------------------------------------------------------------------------
(* Only.                                                                   *)
OnlyBody(set, some, x) == IF x \in set THEN Append(some, x) ELSE some
Held(d, i, value) == TRUE
OnlyLoop == INSTANCE LoopProofs WITH Body <- OnlyBody, Kept <- Held

(* Only is a loop over the sequence.                                       *)
LEMMA OnlyIsLoop ==
  ASSUME NEW s, NEW set
  PROVE  Only(s, set) = OnlyLoop!Loop(set, s, << >>)
<1> DEFINE f(t) == OnlyLoop!Loop(t, s, << >>)
<1>1. Only(s, set) = CHOOSE v \in {f(t) : t \in {set}} : TRUE
  BY DEF Only, ForEach, Apply, OnlyLoop!Loop, OnlyLoop!ForEach, OnlyLoop!Apply, OnlyBody
<1> HIDE DEF f
<1>2. Only(s, set) = f(set)
  BY <1>1
<1> QED
  BY <1>2 DEF f

(* There is nothing to pick in nothing.                                    *)
LEMMA OnlyOfNothing ==
  ASSUME NEW set
  PROVE  Only(<< >>, set) = << >>
BY OnlyIsLoop, OnlyLoop!LoopOfNothing

(* One more element is picked if it is asked for.                          *)
LEMMA OnlyOfAppend ==
  ASSUME NEW T, NEW s \in Seq(T), NEW x, NEW set
  PROVE  Only(Append(s, x), set) = IF x \in set THEN Append(Only(s, set), x) ELSE Only(s, set)
<1> DEFINE t == Append(s, x)
<1>1. Only(t, set) = OnlyLoop!Loop(set, t, << >>) /\ Only(s, set) = OnlyLoop!Loop(set, s, << >>)
  BY OnlyIsLoop
<1>2. OnlyLoop!Loop(set, Append(s, x), << >>) = OnlyBody(set, OnlyLoop!Loop(set, s, << >>), x)
  BY OnlyLoop!LoopOfAppend
<1> QED
  BY <1>1, <1>2 DEF OnlyBody

(* What is picked is what of the sequence is asked for.                    *)
LEMMA OnlyType ==
  ASSUME NEW T, NEW s \in Seq(T), NEW set
  PROVE  Only(s, set) \in Seq(T) /\ Only(s, set) \in Seq(set) /\ ToSet(Only(s, set)) = ToSet(s) \cap set
<1> DEFINE S == {t \in Seq(T) : /\ Only(t, set) \in Seq(T) /\ Only(t, set) \in Seq(set)
                               /\ ToSet(Only(t, set)) = ToSet(t) \cap set}
<1>1. << >> \in S
  <2>1. << >> \in Seq(T) /\ << >> \in Seq(set) /\ ToSet(<< >>) = {}
    BY DEF ToSet
  <2> QED
    BY <2>1, OnlyOfNothing
<1>2. ASSUME NEW t \in Seq(T), NEW x \in T, t \in S PROVE Append(t, x) \in S
  <2> DEFINE o == Only(t, set)
             a == Append(t, x)
             p == Only(a, set)
  <2>1. p = IF x \in set THEN Append(o, x) ELSE o
    BY OnlyOfAppend
  <2>2. o \in Seq(T) /\ o \in Seq(set) /\ ToSet(o) = ToSet(t) \cap set
    BY <1>2
  <2>3. a \in Seq(T) /\ ToSet(a) = ToSet(t) \cup {x}
    BY SetOfBoth
  <2>4. ToSet(Append(o, x)) = ToSet(o) \cup {x}
    BY <2>2, SetOfBoth
  <2> HIDE DEF o, a, p
  <2>5. p \in Seq(T) /\ p \in Seq(set) /\ ToSet(p) = ToSet(a) \cap set
    BY <2>1, <2>2, <2>3, <2>4
  <2> QED
    BY <2>3, <2>5 DEF a, p
<1> HIDE DEF S
<1>3. Seq(T) \subseteq S
  BY <1>1, <1>2, OnlyLoop!InductionOverSeq
<1> QED
  BY <1>3 DEF S

(* Picking from two sequences put together is picking from each.           *)
LEMMA OnlyOfBoth ==
  ASSUME NEW T, NEW s \in Seq(T), NEW t \in Seq(T), NEW set
  PROVE  Only(s \o t, set) = Only(s, set) \o Only(t, set)
<1> DEFINE S == {u \in Seq(T) : Only(s \o u, set) = Only(s, set) \o Only(u, set)}
<1>0. Only(s, set) \in Seq(T)
  BY OnlyType
<1>1. << >> \in S
  BY <1>0, OnlyOfNothing, Associative
<1>2. ASSUME NEW u \in Seq(T), NEW x \in T, u \in S PROVE Append(u, x) \in S
  <2> DEFINE p == s \o u
             a == Append(u, x)
             o == Only(u, set)
  <2>1. p \in Seq(T) /\ s \o a = Append(p, x) /\ a \in Seq(T) /\ o \in Seq(T)
    <3>1. p \in Seq(T) /\ s \o Append(u, x) = Append(s \o u, x) /\ Append(u, x) \in Seq(T)
      BY AppendIs
    <3> QED
      BY <3>1, OnlyType
  <2>2. Only(a, set) = IF x \in set THEN Append(o, x) ELSE o
    BY OnlyOfAppend
  <2>3. Only(p, set) = Only(s, set) \o o
    BY <1>2
  <2> HIDE DEF p, a, o
  <2>4. Only(Append(p, x), set) = IF x \in set THEN Append(Only(p, set), x) ELSE Only(p, set)
    BY <2>1, OnlyOfAppend
  <2>5. Only(s, set) \o Append(o, x) = Append(Only(s, set) \o o, x)
    BY <1>0, <2>1, AppendIs
  <2>6. Only(s \o a, set) = Only(s, set) \o Only(a, set)
    BY <2>1, <2>2, <2>3, <2>4, <2>5
  <2> QED
    BY <2>1, <2>6 DEF a
<1> HIDE DEF S
<1>3. Seq(T) \subseteq S
  BY <1>1, <1>2, OnlyLoop!InductionOverSeq
<1> QED
  BY <1>3 DEF S

(* What of a sequence is asked for, is a matter of its elements.           *)
LEMMA OnlyAgrees ==
  ASSUME NEW T, NEW s \in Seq(T), NEW A, NEW B, \A i \in 1 .. Len(s) : s[i] \in A <=> s[i] \in B
  PROVE  Only(s, A) = Only(s, B)
<1>1. Len(s) \in Nat /\ \A i \in 1 .. Len(s) : \A v : OnlyBody(A, v, s[i]) = OnlyBody(B, v, s[i])
  BY DEF OnlyBody
<1>2. OnlyLoop!Loop(A, s, << >>) = OnlyLoop!Loop(B, s, << >>)
  BY <1>1, OnlyLoop!LoopsAgree
<1> QED
  BY <1>2, OnlyIsLoop

(* All is picked when all is asked for.                                    *)
LEMMA OnlyAll ==
  ASSUME NEW T, NEW s \in Seq(T), NEW set, T \subseteq set
  PROVE  Only(s, set) = s
<1> DEFINE S == {t \in Seq(T) : Only(t, set) = t}
<1>1. << >> \in S
  BY OnlyOfNothing
<1>2. ASSUME NEW t \in Seq(T), NEW x \in T, t \in S PROVE Append(t, x) \in S
  BY <1>2, OnlyOfAppend, AppendIs
<1> HIDE DEF S
<1>3. Seq(T) \subseteq S
  BY <1>1, <1>2, OnlyLoop!InductionOverSeq
<1> QED
  BY <1>3 DEF S

(* Nothing is picked when nothing of the sequence is asked for.            *)
LEMMA OnlyNone ==
  ASSUME NEW T, NEW s \in Seq(T), NEW set, T \cap set = {}
  PROVE  Only(s, set) = << >>
<1>1. Only(s, set) = Only(s, {})
  <2>1. \A i \in 1 .. Len(s) : s[i] \in set <=> s[i] \in {}
    OBVIOUS
  <2> QED
    BY <2>1, OnlyAgrees
<1>2. Only(s, {}) \in Seq({})
  BY OnlyType
<1> QED
  BY <1>1, <1>2

-----------------------------------------------------------------------------
(* Ink.                                                                    *)
LEMMA InkIs ==
  ASSUME NEW T, NEW s \in Seq(T)
  PROVE  Ink(s) = Only(s, T \ Blanks) /\ Ink(s) \in Seq(T)
<1>1. \A i \in 1 .. Len(s) : s[i] \in ToSet(s) \ Blanks <=> s[i] \in T \ Blanks
  BY DEF ToSet
<1> HIDE DEF Blanks
<1>2. Only(s, ToSet(s) \ Blanks) = Only(s, T \ Blanks)
  BY <1>1, OnlyAgrees
<1> QED
  BY <1>2, OnlyType DEF Ink

(* The ink of two texts put together.                                      *)
LEMMA InkOfBoth ==
  ASSUME NEW T, NEW s \in Seq(T), NEW t \in Seq(T)
  PROVE  Ink(s \o t) = Ink(s) \o Ink(t)
<1>1. s \o t \in Seq(T)
  OBVIOUS
<1> DEFINE set == T \ Blanks
<1>2. Ink(s \o t) = Only(s \o t, set) /\ Ink(s) = Only(s, set) /\ Ink(t) = Only(t, set)
  BY <1>1, InkIs
<1> HIDE DEF set
<1>3. Only(s \o t, set) = Only(s, set) \o Only(t, set)
  BY OnlyOfBoth
<1> QED
  BY <1>2, <1>3

(* Blanks leave no ink.                                                    *)
LEMMA InkOfBlanks ==
  ASSUME NEW s \in Seq(Blanks)
  PROVE  Ink(s) = << >>
<1>1. Ink(s) = Only(s, Blanks \ Blanks)
  BY InkIs
<1> QED
  BY <1>1, OnlyNone

(* Nor does nothing.                                                       *)
LEMMA InkOfNothing == Ink(<< >>) = << >>
<1>1. << >> \in Seq(Blanks)
  OBVIOUS
<1> QED
  BY <1>1, InkOfBlanks

(* Blanks before or after change nothing.                                  *)
LEMMA InkWithBlanks ==
  ASSUME NEW T, Blanks \subseteq T, NEW s \in Seq(T), NEW b \in Seq(Blanks)
  PROVE  s \o b \in Seq(T) /\ Ink(s \o b) = Ink(s) /\ b \o s \in Seq(T) /\ Ink(b \o s) = Ink(s)
<1>1. b \in Seq(T) /\ s \o b \in Seq(T) /\ b \o s \in Seq(T)
  OBVIOUS
<1>2. Ink(b) = << >> /\ Ink(s) \in Seq(T)
  BY InkOfBlanks, InkIs
<1>3. Ink(s \o b) = Ink(s) \o Ink(b) /\ Ink(b \o s) = Ink(b) \o Ink(s)
  BY <1>1, InkOfBoth
<1> QED
  BY <1>1, <1>2, <1>3, Associative

(* Two texts of the same ink keep it with the same character after each.   *)
LEMMA InkAppends ==
  ASSUME NEW T, Blanks \subseteq T, NEW s \in Seq(T), NEW t \in Seq(T), NEW x \in T, Ink(s) = Ink(t)
  PROVE  /\ Append(s, x) \in Seq(T) /\ Append(t, x) \in Seq(T)
         /\ Ink(Append(s, x)) = Ink(Append(t, x))
         /\ x \in Blanks => Ink(s) = Ink(Append(t, x))
<1>1. <<x>> \in Seq(T) /\ Append(s, x) = s \o <<x>> /\ Append(t, x) = t \o <<x>>
  OBVIOUS
<1>2. Ink(s \o <<x>>) = Ink(s) \o Ink(<<x>>) /\ Ink(t \o <<x>>) = Ink(t) \o Ink(<<x>>)
  BY <1>1, InkOfBoth
<1>3. x \in Blanks => Ink(t \o <<x>>) = Ink(t)
  <2> SUFFICES ASSUME x \in Blanks PROVE Ink(t \o <<x>>) = Ink(t)
    OBVIOUS
  <2>1. <<x>> \in Seq(Blanks)
    OBVIOUS
  <2> QED
    BY <2>1, InkWithBlanks
<1> DEFINE p == s \o <<x>>
           q == t \o <<x>>
<1>4. Append(s, x) = p /\ Append(t, x) = q /\ p \in Seq(T) /\ q \in Seq(T)
  BY <1>1
<1>5. Ink(p) = Ink(q) /\ (x \in Blanks => Ink(q) = Ink(s))
  BY <1>2, <1>3
<1> HIDE DEF p, q
<1> QED
  BY <1>4, <1>5

(* A sequence of one.                                                      *)
LEMMA One ==
  ASSUME NEW T, NEW x \in T
  PROVE  <<x>> \in Seq(T)
OBVIOUS

(* A sequence of two.                                                      *)
LEMMA Pair ==
  ASSUME NEW T, NEW x \in T, NEW y \in T
  PROVE  <<x, y>> \in Seq(T)
OBVIOUS

(* Two more, one after the other.                                          *)
LEMMA TwoMore ==
  ASSUME NEW T, NEW s \in Seq(T), NEW x \in T, NEW y \in T
  PROVE  Append(s, x) \o <<y>> = s \o <<x, y>>
OBVIOUS

(* Two sequences of one, put together.                                     *)
LEMMA TwoOnes ==
  ASSUME NEW T, NEW x \in T, NEW y \in T
  PROVE  <<x>> \o <<y>> = <<x, y>>
<1>1. Append(<< >>, x) \o <<y>> = << >> \o <<x, y>> /\ << >> \in Seq(T)
  <2> DEFINE e == << >>
  <2>1. e \in Seq(T)
    OBVIOUS
  <2> HIDE DEF e
  <2>2. Append(e, x) \o <<y>> = e \o <<x, y>>
    BY <2>1, TwoMore
  <2> QED
    BY <2>1, <2>2 DEF e
<1>2. Append(<< >>, x) = <<x>>
  OBVIOUS
<1>3. << >> \o <<x, y>> = <<x, y>>
  <2> DEFINE p == <<x, y>>
  <2>1. p \in Seq(T)
    OBVIOUS
  <2> HIDE DEF p
  <2>2. << >> \o p = p
    BY <2>1
  <2> QED
    BY <2>2 DEF p
<1> QED
  BY <1>1, <1>2, <1>3

(* A line break and its indentation are blanks, at every depth.            *)
LEMMA NewLineIsBlank ==
  ASSUME NEW d \in Int
  PROVE  NewLine(d) \in Seq(Blanks)
<1>1. [i \in 1 .. d |-> "  "] \in Seq(Blanks)
  <2>1. CASE d >= 0
    BY <2>1 DEF Blanks
  <2>2. CASE d < 0
    <3>1. 1 .. d = 1 .. 0
      BY <2>2
    <3>2. [i \in 1 .. 0 |-> "  "] \in Seq(Blanks)
      OBVIOUS
    <3> QED
      BY Zenon, <3>1, <3>2
  <2>3. d >= 0 \/ d < 0
    OBVIOUS
  <2> QED
    BY <2>1, <2>2, <2>3, Zenon
<1>2. <<"nl">> \in Seq(Blanks)
  BY DEF Blanks, White
<1> DEFINE blank == [i \in 1 .. d |-> "  "]
<1>3. NewLine(d) = <<"nl">> \o blank
  BY DEF NewLine
<1> HIDE DEF blank
<1>4. blank \in Seq(Blanks)
  BY Zenon, <1>1 DEF blank
<1> QED
  BY <1>2, <1>3, <1>4, Associative

-----------------------------------------------------------------------------
(* Indentation.                                                            *)
IndentFields == {"out", "depth", "open", "str", "esc"}
Indenting(T, a) == DOMAIN a = IndentFields /\ a.out \in Seq(T) /\ a.depth \in Int

(* A step of json.Indent keeps the ink of what it has read.                *)
LEMMA IndentCharKeeps ==
  ASSUME NEW T, Blanks \subseteq T, NEW a, Indenting(T, a), NEW t \in Seq(T), NEW c \in T,
         Ink(a.out) = Ink(t)
  PROVE  Indenting(T, IndentChar(a, c)) /\ Ink(IndentChar(a, c).out) = Ink(Append(t, c))
<1> DEFINE i == InText(a, c)
           b == [i EXCEPT !.open = FALSE]
           fresh == IF a.open THEN a.out \o NewLine(a.depth) ELSE a.out
           less == IF a.open THEN a.out ELSE a.out \o NewLine(a.depth - 1)
           r == IndentChar(a, c)
<1>1. DOMAIN b = IndentFields /\ b.depth = a.depth
  BY DEF InText, Indenting, IndentFields
<1>2. fresh \in Seq(T) /\ Ink(fresh) = Ink(t) /\ less \in Seq(T) /\ Ink(less) = Ink(t)
  <2>1. NewLine(a.depth) \in Seq(Blanks) /\ NewLine(a.depth - 1) \in Seq(Blanks)
    BY NewLineIsBlank DEF Indenting
  <2>2. a.out \in Seq(T)
    BY DEF Indenting
  <2> QED
    BY <2>1, <2>2, InkWithBlanks
<1>3. /\ a.out \in Seq(T) /\ Append(a.out, c) \in Seq(T) /\ Ink(Append(a.out, c)) = Ink(Append(t, c))
      /\ c \in Blanks => Ink(a.out) = Ink(Append(t, c))
  BY InkAppends DEF Indenting
<1>4. /\ Append(fresh, c) \in Seq(T) /\ Ink(Append(fresh, c)) = Ink(Append(t, c))
      /\ Append(less, c) \in Seq(T) /\ Ink(Append(less, c)) = Ink(Append(t, c))
  <2> HIDE DEF fresh, less
  <2>1. Append(fresh, c) \in Seq(T) /\ Ink(Append(fresh, c)) = Ink(Append(t, c))
    BY <1>2, InkAppends
  <2>2. Append(less, c) \in Seq(T) /\ Ink(Append(less, c)) = Ink(Append(t, c))
    BY <1>2, InkAppends
  <2> QED
    BY <2>1, <2>2
<1>5. /\ Append(fresh, c) \o NewLine(a.depth) \in Seq(T)
      /\ Ink(Append(fresh, c) \o NewLine(a.depth)) = Ink(Append(t, c))
  <2>1. NewLine(a.depth) \in Seq(Blanks)
    BY NewLineIsBlank DEF Indenting
  <2> QED
    BY <1>4, <2>1, InkWithBlanks
<1>6. fresh \o <<c, " ">> \in Seq(T) /\ Ink(fresh \o <<c, " ">>) = Ink(Append(t, c))
  <2> DEFINE b1 == <<" ">>
             f == Append(fresh, c)
  <2>0. " " \in Blanks /\ " " \in T
    BY Zenon DEF Blanks, White
  <2>1. b1 \in Seq(Blanks)
    BY Zenon, <2>0, One
  <2> HIDE DEF fresh
  <2>2. f \o b1 = fresh \o <<c, " ">>
    BY Zenon, <1>2, <2>0, TwoMore
  <2> HIDE DEF b1, f
  <2>3. f \in Seq(T) /\ Ink(f) = Ink(Append(t, c))
    BY <1>4 DEF f
  <2>4. f \o b1 \in Seq(T) /\ Ink(f \o b1) = Ink(f)
    BY <2>1, <2>3, InkWithBlanks
  <2> QED
    BY Zenon, <2>2, <2>3, <2>4
<1>7. a.depth \in Int /\ DOMAIN a = IndentFields
  BY DEF Indenting
<1> HIDE DEF b, fresh, less
<1>8. \/ r = a /\ c \in White
      \/ r = [b EXCEPT !.out = Append(a.out, c)]
      \/ r = [b EXCEPT !.out = Append(fresh, c), !.open = TRUE, !.depth = a.depth + 1]
      \/ r = [b EXCEPT !.out = Append(less, c), !.depth = a.depth - 1]
      \/ r = [b EXCEPT !.out = Append(fresh, c) \o NewLine(a.depth)]
      \/ r = [b EXCEPT !.out = fresh \o <<c, " ">>]
      \/ r = [b EXCEPT !.out = Append(fresh, c)]
  <2>1. CASE a.str
    BY <2>1 DEF IndentChar, b
  <2>2. CASE ~a.str /\ c \in White
    BY Zenon, <2>2 DEF IndentChar, White, Openers, Closers
  <2>3. CASE ~a.str /\ c \in Openers
    BY Zenon, <2>3 DEF IndentChar, b, fresh, White, Openers, Closers
  <2>4. CASE ~a.str /\ c \in Closers
    BY Zenon, <2>4 DEF IndentChar, b, less, White, Openers, Closers
  <2>5. CASE ~a.str /\ c = ","
    BY Zenon, <2>5 DEF IndentChar, b, fresh, White, Openers, Closers
  <2>6. CASE ~a.str /\ c = ":"
    BY <2>6 DEF IndentChar, b, fresh, White, Openers, Closers
  <2>7. CASE ~a.str /\ c \notin White /\ c \notin Openers /\ c \notin Closers /\ c # "," /\ c # ":"
    BY Zenon, <2>7 DEF IndentChar, b, fresh
  <2> QED
    BY Zenon, <2>1, <2>2, <2>3, <2>4, <2>5, <2>6, <2>7
<1> HIDE DEF r
<1>9. White \subseteq Blanks
  BY Zenon DEF Blanks
<1>10. DOMAIN r = IndentFields /\ r.out \in Seq(T) /\ r.depth \in Int /\ Ink(r.out) = Ink(Append(t, c))
  <2>1. CASE r = a /\ c \in White
    BY <2>1, <1>3, <1>7, <1>9
  <2>2. CASE r = [b EXCEPT !.out = Append(a.out, c)]
    BY <2>2, <1>1, <1>3, <1>7 DEF IndentFields
  <2>3. CASE r = [b EXCEPT !.out = Append(fresh, c), !.open = TRUE, !.depth = a.depth + 1]
    BY <2>3, <1>1, <1>4, <1>7 DEF IndentFields
  <2>4. CASE r = [b EXCEPT !.out = Append(less, c), !.depth = a.depth - 1]
    BY <2>4, <1>1, <1>4, <1>7 DEF IndentFields
  <2>5. CASE r = [b EXCEPT !.out = Append(fresh, c) \o NewLine(a.depth)]
    BY <2>5, <1>1, <1>5, <1>7 DEF IndentFields
  <2>6. CASE r = [b EXCEPT !.out = fresh \o <<c, " ">>]
    BY Zenon, <2>6, <1>1, <1>6, <1>7 DEF IndentFields
  <2>7. CASE r = [b EXCEPT !.out = Append(fresh, c)]
    BY <2>7, <1>1, <1>4, <1>7 DEF IndentFields
  <2> QED
    BY Zenon, <1>8, <2>1, <2>2, <2>3, <2>4, <2>5, <2>6, <2>7
<1> QED
  BY <1>10 DEF Indenting, r

IndentBody(c, a, x) == IndentChar(a, x)
IndentLoop == INSTANCE LoopProofs WITH Body <- IndentBody, Kept <- Held

(* An indented text says the same.                                         *)
LEMMA IndentKeeps ==
  ASSUME NEW T, Blanks \subseteq T, NEW s \in Seq(T), NEW d \in Int
  PROVE  Indent(s, d) \in Seq(T) /\ Ink(Indent(s, d)) = Ink(s)
<1> DEFINE start == [out |-> << >>, depth |-> d, open |-> FALSE, str |-> FALSE, esc |-> FALSE]
           w(t) == IndentLoop!Loop(0, t, start)
           S == {t \in Seq(T) : Indenting(T, w(t)) /\ Ink(w(t).out) = Ink(t)}
<1>1. Indent(s, d) = w(s).out
  BY DEF Indent, ForEach, Apply, IndentLoop!Loop, IndentLoop!ForEach, IndentLoop!Apply, IndentBody
<1>2. Indenting(T, start) /\ start.out = << >>
  BY DEF Indenting, IndentFields
<1> HIDE DEF start
<1>3. << >> \in S
  BY <1>2, IndentLoop!LoopOfNothing
<1>4. ASSUME NEW t \in Seq(T), NEW x \in T, t \in S PROVE Append(t, x) \in S
  <2>1. w(Append(t, x)) = IndentChar(w(t), x)
    BY IndentLoop!LoopOfAppend DEF IndentBody
  <2>2. Indenting(T, w(t)) /\ Ink(w(t).out) = Ink(t) /\ Append(t, x) \in Seq(T)
    BY <1>4
  <2> HIDE DEF w
  <2>3. Indenting(T, IndentChar(w(t), x)) /\ Ink(IndentChar(w(t), x).out) = Ink(Append(t, x))
    BY <2>2, IndentCharKeeps
  <2> QED
    BY <2>1, <2>2, <2>3
<1> HIDE DEF S, w
<1>5. Seq(T) \subseteq S
  BY <1>3, <1>4, IndentLoop!InductionOverSeq
<1> QED
  BY <1>1, <1>5 DEF S, Indenting

-----------------------------------------------------------------------------
(* Lines that are set in.                                                  *)
SetIn(s) ==
  /\ DOMAIN s = 1 .. Len(s)
  /\ \A k \in 1 .. Len(s) : s[k] = "nl" => k < Len(s) /\ s[k + 1] = "  "

(* Two texts whose lines are set in, put together.                         *)
LEMMA SetInBoth ==
  ASSUME NEW T, NEW s \in Seq(T), NEW t \in Seq(T), SetIn(s), SetIn(t)
  PROVE  SetIn(s \o t)
<1> DEFINE p == s \o t
           m == Len(s)
           n == Len(t)
<1>1. /\ m \in Nat /\ n \in Nat /\ Len(p) = m + n /\ DOMAIN p = 1 .. Len(p)
      /\ \A i \in 1 .. m : p[i] = s[i]
      /\ \A i \in 1 .. n : p[m + i] = t[i]
  OBVIOUS
<1>2. /\ \A k \in 1 .. m : s[k] = "nl" => k < m /\ s[k + 1] = "  "
      /\ \A k \in 1 .. n : t[k] = "nl" => k < n /\ t[k + 1] = "  "
  BY Zenon DEF SetIn
<1> HIDE DEF p, m, n
<1>3. ASSUME NEW k \in 1 .. m + n PROVE p[k] = "nl" => k < m + n /\ p[k + 1] = "  "
  <2>1. CASE k \in 1 .. m
    <3>1. k < m => k + 1 \in 1 .. m /\ k < m + n
      BY <1>1, <2>1
    <3> QED
      BY Zenon, <1>1, <1>2, <2>1, <3>1
  <2>2. CASE k \notin 1 .. m
    <3>1. PICK j \in 1 .. n : m + j = k
      <4>1. k - m \in 1 .. n /\ m + (k - m) = k
        BY <1>1, <2>2
      <4> QED
        BY <4>1
    <3>2. j < n => j + 1 \in 1 .. n /\ k < m + n /\ m + (j + 1) = k + 1
      BY <1>1, <3>1
    <3>3. p[k] = t[j]
      BY <1>1, <3>1
    <3>4. t[j] = "nl" => j < n /\ t[j + 1] = "  "
      BY Zenon, <1>2
    <3>5. j + 1 \in 1 .. n => p[m + (j + 1)] = t[j + 1]
      BY <1>1
    <3> QED
      BY <3>2, <3>3, <3>4, <3>5, Zenon
  <2> QED
    BY Zenon, <2>1, <2>2
<1>4. \A k \in 1 .. Len(p) : p[k] = "nl" => k < Len(p) /\ p[k + 1] = "  "
  BY <1>1, <1>3, Zenon
<1> QED
  BY Zenon, <1>1, <1>4 DEF SetIn, p

(* A text on one line.                                                     *)
LEMMA SetInAlways ==
  ASSUME NEW T, NEW s \in Seq(T), "nl" \notin ToSet(s)
  PROVE  SetIn(s)
<1>0. DOMAIN s = 1 .. Len(s)
  OBVIOUS
<1>1. ASSUME NEW k \in 1 .. Len(s) PROVE s[k] # "nl"
  <2>1. s[k] \in ToSet(s)
    BY DEF ToSet
  <2> QED
    BY <2>1
<1> QED
  BY Zenon, <1>0, <1>1 DEF SetIn

(* A sign that is no line break.                                           *)
LEMMA SetInOne ==
  ASSUME NEW x, x # "nl"
  PROVE  SetIn(<<x>>)
<1> DEFINE s == <<x>>
<1>1. Len(s) = 1 /\ s[1] = x /\ DOMAIN s = 1 .. Len(s)
  OBVIOUS
<1> HIDE DEF s
<1>2. \A k \in 1 .. 1 : k = 1
  OBVIOUS
<1>3. \A k \in 1 .. Len(s) : s[k] # "nl"
  BY <1>1, <1>2, Zenon
<1>4. SetIn(s)
  BY <1>1, <1>3, Zenon DEF SetIn
<1> QED
  BY <1>4 DEF s

(* A sign, and an indentation after it.                                    *)
LEMMA SetInBreak ==
  ASSUME NEW x
  PROVE  SetIn(<<x, "  ">>)
<1> DEFINE s == <<x, "  ">>
<1>1. Len(s) = 2 /\ s[1] = x /\ s[2] = "  " /\ DOMAIN s = 1 .. Len(s)
  OBVIOUS
<1> HIDE DEF s
<1>2. \A k \in 1 .. 2 : (k = 1 /\ 1 < 2 /\ 1 + 1 = 2) \/ k = 2
  OBVIOUS
<1>3. \A k \in 1 .. Len(s) : s[k] = "nl" => k < Len(s) /\ s[k + 1] = "  "
  <2>1. s[2] # "nl"
    BY Zenon, <1>1
  <2> QED
    BY <1>1, <1>2, <2>1, Zenon
<1>4. SetIn(s)
  BY <1>1, <1>3, Zenon DEF SetIn
<1> QED
  BY Zenon, <1>4 DEF s

-----------------------------------------------------------------------------
(* The body of a fence.                                                    *)
TwoBody(c, acc, x) == IF x = "nl" THEN acc \o <<x, "  ">> ELSE Append(acc, x)
TwoLoop == INSTANCE LoopProofs WITH Body <- TwoBody, Kept <- Held

Inset(T, out) == out \in Seq(T) /\ out # << >> /\ out[1] = "  " /\ SetIn(out)

(* A sequence that is not empty has a length.                              *)
LEMMA LengthOfSome ==
  ASSUME NEW T, NEW s \in Seq(T), s # << >>
  PROVE  Len(s) \in Nat /\ Len(s) # 0
OBVIOUS

(* More of the body, set in.                                               *)
LEMMA InsetGrows ==
  ASSUME NEW T, NEW out, Inset(T, out), NEW t \in Seq(T), SetIn(t)
  PROVE  Inset(T, out \o t)
<1>1. out \in Seq(T) /\ out # << >> /\ out[1] = "  " /\ SetIn(out)
  BY Zenon DEF Inset
<1>2. SetIn(out \o t)
  BY Zenon, <1>1, SetInBoth
<1>3. out \o t \in Seq(T) /\ out \o t # << >> /\ (out \o t)[1] = out[1]
  <2>1. Len(out) \in Nat /\ Len(out) # 0 /\ out \in Seq(T)
    BY Zenon, <1>1, LengthOfSome
  <2> DEFINE p == out \o t
  <2>2. p \in Seq(T) /\ Len(p) = Len(out) + Len(t) /\ Len(t) \in Nat /\ (1 \in 1 .. Len(out) => p[1] = out[1])
    BY <2>1
  <2> HIDE DEF p
  <2>3. 1 \in 1 .. Len(out) /\ Len(p) # 0
    BY <2>1, <2>2
  <2>4. p # << >>
    BY <2>3
  <2> QED
    BY <2>2, <2>3, <2>4 DEF p
<1> QED
  BY Zenon, <1>1, <1>2, <1>3 DEF Inset

(* indentByTwo sets every line in and keeps what is said.                  *)
LEMMA IndentByTwoKeeps ==
  ASSUME NEW T, Blanks \subseteq T, NEW s \in Seq(T), s # << >>
  PROVE  Inset(T, IndentByTwo(s)) /\ Ink(IndentByTwo(s)) = Ink(s)
<1> DEFINE start == IF s = << >> THEN << >> ELSE <<"  ">>
           w(t) == TwoLoop!Loop(0, t, start)
           S == {t \in Seq(T) : Inset(T, w(t)) /\ Ink(w(t)) = Ink(t)}
<1>1. IndentByTwo(s) = w(s)
  BY DEF IndentByTwo, ForEach, Apply, TwoLoop!Loop, TwoLoop!ForEach, TwoLoop!Apply, TwoBody
<1>2. Inset(T, start) /\ Ink(start) = << >>
  <2>1. "  " \in Blanks /\ "  " \in T
    BY Zenon DEF Blanks
  <2>2. start \in Seq(Blanks) /\ start \in Seq(T) /\ start # << >> /\ start[1] = "  "
    BY Zenon, <2>1, One
  <2>3. SetIn(start)
    <3>1. "  " # "nl"
      OBVIOUS
    <3> QED
      BY Zenon, <3>1, SetInOne
  <2> HIDE DEF start
  <2> QED
    BY Zenon, <2>2, <2>3, InkOfBlanks DEF Inset
<1> HIDE DEF start
<1>3. << >> \in S
  BY <1>2, TwoLoop!LoopOfNothing, InkOfNothing
<1>4. ASSUME NEW t \in Seq(T), NEW x \in T, t \in S PROVE Append(t, x) \in S
  <2>1. w(Append(t, x)) = TwoBody(0, w(t), x)
    BY TwoLoop!LoopOfAppend
  <2> HIDE DEF w
  <2>2. Inset(T, w(t)) /\ w(t) \in Seq(T) /\ Ink(w(t)) = Ink(t) /\ Append(t, x) \in Seq(T)
    <3>1. Inset(T, w(t)) /\ Ink(w(t)) = Ink(t)
      BY <1>4
    <3>2. w(t) \in Seq(T)
      BY Zenon, <3>1 DEF Inset
    <3> QED
      BY <3>1, <3>2
  <2>3. Append(w(t), x) \in Seq(T) /\ Ink(Append(w(t), x)) = Ink(Append(t, x))
    BY <2>2, InkAppends
  <2>4. CASE x # "nl"
    <3>1. TwoBody(0, w(t), x) = w(t) \o <<x>>
      BY <2>2, <2>4, AppendIs DEF TwoBody
    <3>2. SetIn(<<x>>) /\ <<x>> \in Seq(T)
      BY <2>4, SetInOne
    <3>3. Inset(T, w(t) \o <<x>>)
      BY <2>2, <3>2, InsetGrows
    <3>4. w(t) \o <<x>> = Append(w(t), x)
      BY <2>2, AppendIs
    <3> QED
      BY <2>1, <2>2, <2>3, <3>1, <3>3, <3>4
  <2>5. CASE x = "nl"
    <3> DEFINE t2 == <<x, "  ">>
               b1 == <<"  ">>
    <3>1. TwoBody(0, w(t), x) = w(t) \o t2
      BY <2>5 DEF TwoBody
    <3>2. "  " \in Blanks /\ "  " \in T
      BY Zenon DEF Blanks
    <3>3. SetIn(t2) /\ t2 \in Seq(T)
      <4>1. SetIn(t2)
        BY Zenon, SetInBreak
      <4> QED
        BY Zenon, <4>1, <3>2, Pair
    <3>4. b1 \in Seq(Blanks)
      BY Zenon, <3>2, One
    <3>5. w(t) \o t2 = Append(w(t), x) \o b1
      BY Zenon, <2>2, <3>2, TwoMore
    <3> HIDE DEF t2, b1
    <3>6. Inset(T, w(t) \o t2)
      BY <2>2, <3>3, InsetGrows
    <3>7. Ink(Append(w(t), x) \o b1) = Ink(Append(w(t), x))
      BY <2>3, <3>4, InkWithBlanks
    <3> QED
      BY <2>1, <2>2, <2>3, <3>1, <3>5, <3>6, <3>7
  <2> QED
    BY <2>4, <2>5
<1> HIDE DEF S, w
<1>5. Seq(T) \subseteq S
  BY <1>3, <1>4, TwoLoop!InductionOverSeq
<1> QED
  BY <1>1, <1>5 DEF S

(* What is quoted is on one line.                                          *)
QuotedBody(c, acc, x) ==
  CASE x \in {"q", "esc"} -> acc \o <<"esc", x>> [] x = "nl" -> acc \o <<"esc", "n">>
    [] OTHER -> Append(acc, x)
QuotedLoop == INSTANCE LoopProofs WITH Body <- QuotedBody, Kept <- Held

(* A quoted string says the same and has no line break.                    *)
LEMMA QuotedKeeps ==
  ASSUME NEW T, Blanks \subseteq T, NEW s \in Seq(T)
  PROVE  Quoted(s) \in Seq(T) /\ Ink(Quoted(s)) = Ink(s) /\ "nl" \notin ToSet(Quoted(s))
<1> DEFINE w(t) == QuotedLoop!Loop(0, t, << >>)
           U == T \ {"nl"}
           S == {t \in Seq(T) : w(t) \in Seq(U) /\ Ink(w(t)) = Ink(t)}
<1>1. Quoted(s) = <<"q">> \o w(s) \o <<"q">>
  BY DEF Quoted, ForEach, Apply, QuotedLoop!Loop, QuotedLoop!ForEach, QuotedLoop!Apply, QuotedBody
<1>2. << >> \in S
  <2>1. w(<< >>) = << >>
    BY QuotedLoop!LoopOfNothing
  <2> HIDE DEF w
  <2>2. << >> \in Seq(T) /\ << >> \in Seq(U)
    OBVIOUS
  <2> QED
    BY <2>1, <2>2
<1>3. ASSUME NEW t \in Seq(T), NEW x \in T, t \in S PROVE Append(t, x) \in S
  <2>1. w(Append(t, x)) = QuotedBody(0, w(t), x)
    BY QuotedLoop!LoopOfAppend
  <2>2. w(t) \in Seq(U) /\ w(t) \in Seq(T) /\ Ink(w(t)) = Ink(t) /\ Append(t, x) \in Seq(T)
    BY <1>3
  <2> DEFINE v == w(t)
  <2> HIDE DEF w
  <2>3. Append(v, x) \in Seq(T) /\ Ink(Append(v, x)) = Ink(Append(t, x))
        /\ (x \in Blanks => Ink(v) = Ink(Append(t, x)))
    BY <2>2, InkAppends
  <2>4. "esc" \in Blanks /\ "n" \in Blanks /\ "q" \in Blanks /\ "nl" \in Blanks /\ "esc" \in U /\ "n" \in U
    BY Zenon DEF Blanks, White
  <2>5. QuotedBody(0, v, x) \in Seq(U) /\ Ink(QuotedBody(0, v, x)) = Ink(Append(t, x))
    <3> HIDE DEF v
    <3>0. v \in Seq(U) /\ v \in Seq(T)
      BY <2>2 DEF v
    <3>1. CASE x \in {"q", "esc"}
      <4> DEFINE b == <<"esc", x>>
      <4>1. QuotedBody(0, v, x) = v \o b
        BY <3>1 DEF QuotedBody
      <4>2. x \in Blanks /\ x \in U
        BY <3>1, <2>4
      <4>3. b \in Seq(Blanks) /\ b \in Seq(U)
        BY <2>4, <4>2
      <4> HIDE DEF b
      <4>4. Ink(v \o b) = Ink(v)
        BY <3>0, <4>3, InkWithBlanks
      <4>5. v \o b \in Seq(U)
        BY <3>0, <4>3
      <4> QED
        BY <2>3, <4>1, <4>2, <4>4, <4>5
    <3>2. CASE x = "nl"
      <4> DEFINE b == <<"esc", "n">>
      <4>1. QuotedBody(0, v, x) = v \o b
        BY <3>2 DEF QuotedBody
      <4>2. x \in Blanks
        BY <3>2, <2>4
      <4>3. b \in Seq(Blanks) /\ b \in Seq(U)
        BY <2>4
      <4> HIDE DEF b
      <4>4. Ink(v \o b) = Ink(v)
        BY <3>0, <4>3, InkWithBlanks
      <4>5. v \o b \in Seq(U)
        BY <3>0, <4>3
      <4> QED
        BY <2>3, <4>1, <4>2, <4>4, <4>5
    <3>3. CASE x \notin {"q", "esc", "nl"}
      <4>1. QuotedBody(0, v, x) = Append(v, x)
        BY <3>3 DEF QuotedBody
      <4>2. Append(v, x) \in Seq(U)
        BY <3>0, <3>3
      <4> QED
        BY <2>3, <4>1, <4>2
    <3> QED
      BY <3>1, <3>2, <3>3
  <2> QED
    BY <2>1, <2>2, <2>5
<1> HIDE DEF S
<1>4. Seq(T) \subseteq S
  BY <1>2, <1>3, QuotedLoop!InductionOverSeq
<1>5. w(s) \in Seq(U) /\ w(s) \in Seq(T) /\ Ink(w(s)) = Ink(s)
  BY <1>4 DEF S
<1> DEFINE v == w(s)
           q == <<"q">>
<1>6. q \in Seq(Blanks) /\ q \in Seq(U)
  <2>1. "q" \in Blanks /\ "q" \in U
    BY Zenon DEF Blanks
  <2> QED
    BY <2>1, One
<1> HIDE DEF w, v, q
<1>7. v \in Seq(U) /\ v \in Seq(T) /\ Ink(v) = Ink(s) /\ Quoted(s) = (q \o v) \o q
  BY <1>1, <1>5 DEF v, q
<1>8. q \o v \in Seq(T) /\ Ink(q \o v) = Ink(v)
  BY <1>6, <1>7, InkWithBlanks
<1>9. (q \o v) \o q \in Seq(T) /\ Ink((q \o v) \o q) = Ink(v)
  BY <1>6, <1>8, InkWithBlanks
<1>10. (q \o v) \o q \in Seq(U)
  BY <1>6, <1>7
<1>11. \A t \in Seq(U) : "nl" \notin ToSet(t)
  BY DEF ToSet
<1> QED
  BY <1>7, <1>9, <1>10, <1>11

-----------------------------------------------------------------------------
(* The summary of Atlassian.                                               *)
BalanceBody(c, a, x) == Balance(a, x)
BalanceFields == {"at", "end", "depth", "str", "esc"}
(* Started at i, with m of the text to go.                                 *)
Balancing(d, k, a) ==
  /\ DOMAIN a = BalanceFields
  /\ a.end = 0 \/ a.end \in d[1] + 1 .. d[1] + d[2]
  /\ a.end = 0 => a.at = d[1] + k
BalanceLoop == INSTANCE LoopProofs WITH Body <- BalanceBody, Kept <- Balancing

(* A JSON value that is found ends after where it begins, within the text. *)
LEMMA JSONValueEnds ==
  ASSUME NEW T, NEW s \in Seq(T), NEW i \in 1 .. Len(s) + 1
  PROVE  FindJSONValueEnd(s, i) = 0 \/ FindJSONValueEnd(s, i) \in i + 1 .. Len(s) + 1
<1> DEFINE rest == SubSeq(s, i, Len(s))
           start == [at |-> i, end |-> 0, depth |-> 0, str |-> FALSE, esc |-> FALSE]
           w == BalanceLoop!Loop(0, rest, start)
           n == Len(rest)
<1>1. FindJSONValueEnd(s, i) = w.end
  BY DEF FindJSONValueEnd, ForEach, Apply, BalanceLoop!Loop, BalanceLoop!ForEach, BalanceLoop!Apply, BalanceBody
<1>2. n \in Nat /\ i + n = Len(s) + 1 /\ i \in Nat
  <2>1. Len(s) \in Nat /\ i \in Nat /\ i <= Len(s) + 1
    OBVIOUS
  <2>2. n = IF i <= Len(s) THEN Len(s) - i + 1 ELSE 0
    OBVIOUS
  <2> QED
    BY <2>1, <2>2
<1> DEFINE d == <<i, n>>
<1>3. d[1] = i /\ d[2] = n
  OBVIOUS
<1> HIDE DEF rest, d, n
<1>4. Balancing(d, 0, start)
  <2>1. DOMAIN start = BalanceFields /\ start.end = 0 /\ start.at = i
    BY DEF BalanceFields
  <2>2. d[1] + 0 = i
    BY <1>2, <1>3
  <2> HIDE DEF start
  <2> QED
    BY <2>1, <2>2 DEF Balancing
<1> HIDE DEF start
<1>5. ASSUME NEW k \in 1 .. n, NEW a, Balancing(d, k - 1, a) PROVE Balancing(d, k, BalanceBody(0, a, rest[k]))
  <2> DEFINE c == rest[k]
             b == InText(a, c)
             r == BalanceBody(0, a, c)
  <2>1. DOMAIN a = BalanceFields /\ DOMAIN b = BalanceFields
    BY <1>5 DEF Balancing, InText
  <2>2. CASE a.end # 0
    <3>1. r = a
      BY <2>2 DEF BalanceBody, Balance
    <3> QED
      BY <2>2, <3>1, <1>5 DEF Balancing
  <2>3. CASE a.end = 0
    <3>1. a.at = i + (k - 1)
      BY <1>3, <1>5, <2>3 DEF Balancing
    <3>2. a.at + 1 = i + k /\ a.at + 1 \in i + 1 .. i + n
      BY <3>1, <1>2
    <3>3. \E depth, end : end \in {0, a.at + 1} /\ r = [b EXCEPT !.at = a.at + 1, !.depth = depth, !.end = end]
      BY Zenon, <2>3 DEF BalanceBody, Balance
    <3> HIDE DEF r, b
    <3>4. DOMAIN r = BalanceFields /\ r.end \in {0, a.at + 1} /\ r.at = a.at + 1
      BY <2>1, <3>3 DEF BalanceFields
    <3> HIDE DEF b, r
    <3>5. r.end = 0 \/ r.end \in d[1] + 1 .. d[1] + d[2]
      BY <1>3, <3>2, <3>4
    <3>6. r.at = d[1] + k
      BY <1>3, <3>2, <3>4
    <3>7. Balancing(d, k, r)
      BY <3>4, <3>5, <3>6 DEF Balancing
    <3> QED
      BY <3>7 DEF r
  <2> QED
    BY <2>2, <2>3
<1>6. n = Len(rest)
  BY DEF n
<1>7. Balancing(d, Len(rest), BalanceLoop!Loop(0, rest, start))
  BY <1>2, <1>4, <1>5, <1>6, BalanceLoop!LoopKeeps
<1> HIDE DEF w
<1>8. Balancing(d, n, w)
  BY <1>6, <1>7 DEF w
<1>9. w.end = 0 \/ w.end \in i + 1 .. i + n
  BY <1>3, <1>8 DEF Balancing
<1> QED
  BY <1>1, <1>2, <1>9

(* A part of a text, put together of two.                                  *)
LEMMA Parts ==
  ASSUME NEW T, NEW s \in Seq(T), NEW a \in Nat, NEW b \in Nat, NEW e \in Nat,
         1 <= a, a <= b, b <= e, e <= Len(s) + 1
  PROVE  /\ SubSeq(s, a, b - 1) \in Seq(T) /\ SubSeq(s, b, e - 1) \in Seq(T)
         /\ SubSeq(s, a, b - 1) \o SubSeq(s, b, e - 1) = SubSeq(s, a, e - 1)
<1> DEFINE p == SubSeq(s, a, b - 1)
           q == SubSeq(s, b, e - 1)
           r == SubSeq(s, a, e - 1)
<1>1. /\ p \in Seq(T) /\ Len(p) = b - a /\ \A i \in 1 .. b - a : p[i] = s[a + i - 1]
      /\ q \in Seq(T) /\ Len(q) = e - b /\ \A i \in 1 .. e - b : q[i] = s[b + i - 1]
      /\ r \in Seq(T) /\ Len(r) = e - a /\ \A i \in 1 .. e - a : r[i] = s[a + i - 1]
  OBVIOUS
<1> HIDE DEF p, q, r
<1> DEFINE u == p \o q
<1>0. p \in Seq(T) /\ q \in Seq(T)
  BY <1>1
<1>2. /\ u \in Seq(T) /\ Len(u) = Len(p) + Len(q)
      /\ \A i \in 1 .. Len(p) : u[i] = p[i]
      /\ \A i \in 1 .. Len(q) : u[Len(p) + i] = q[i]
  BY <1>0
<1> HIDE DEF u
<1>3. Len(u) = e - a
  BY <1>1, <1>2
<1>4. ASSUME NEW i \in 1 .. e - a PROVE u[i] = r[i]
  <2>1. CASE i <= b - a
    BY <1>1, <1>2, <2>1
  <2>2. CASE ~(i <= b - a)
    <3>1. PICK j \in 1 .. e - b : (b - a) + j = i /\ b + j - 1 = a + i - 1
      <4>1. i - (b - a) \in 1 .. e - b
        BY <2>2
      <4> QED
        BY <4>1
    <3>2. u[i] = q[j]
      BY <1>1, <1>2, <3>1
    <3> QED
      BY <1>1, <3>1, <3>2
  <2> QED
    BY <2>1, <2>2
<1>5. u = r
  BY <1>1, <1>2, <1>3, <1>4, SeqEqual
<1> QED
  BY <1>1, <1>5 DEF p, q, r, u

(* A part of a text that is one character long.                            *)
LEMMA PartOfOne ==
  ASSUME NEW T, NEW s \in Seq(T), NEW i \in 1 .. Len(s)
  PROVE  SubSeq(s, i, i) = <<s[i]>> /\ s[i] \in T
<1> DEFINE p == SubSeq(s, i, i)
           q == <<s[i]>>
<1>1. p \in Seq(T) /\ Len(p) = 1 /\ p[1] = s[i] /\ s[i] \in T
  OBVIOUS
<1>2. q \in Seq(T) /\ Len(q) = 1 /\ q[1] = s[i]
  OBVIOUS
<1> HIDE DEF p, q
<1>3. p = q
  BY <1>1, <1>2
<1> QED
  BY <1>1, <1>3 DEF p, q

WalkFields == {"at", "depth", "out", "bad"}
WalkBody(s, a, i) == IF a.bad \/ i < a.at THEN a ELSE WalkAt(s, a, i)
(* What has been written says what has been read.                          *)
Walking(d, i, a) ==
  LET s == d[1]
  IN  /\ DOMAIN a = WalkFields
      /\ a.bad \/ /\ a.at \in i + 1 .. Len(s) + 1 /\ a.depth \in Int
                  /\ a.out \in Seq(d[2]) /\ Ink(a.out) = Ink(SubSeq(s, 1, a.at - 1))
                  /\ a.at # 1 => a.out # << >>
WalkLoop == INSTANCE LoopProofs WITH Body <- WalkBody, Kept <- Walking

(* The walk goes on to a position ahead with what was written of the part  *)
(* before it.                                                              *)
LEMMA OnwardKeeps ==
  ASSUME NEW T, NEW s \in Seq(T), NEW i \in 1 .. Len(s), NEW a, Walking(<<s, T>>, i - 1, a),
         ~a.bad, a.at = i, NEW to \in i + 1 .. Len(s) + 1, NEW depth \in Int,
         NEW tokens \in Seq(T), tokens # << >>, Ink(tokens) = Ink(SubSeq(s, i, to - 1))
  PROVE  Walking(<<s, T>>, i, Onward(a, to, depth, tokens))
<1> DEFINE d == <<s, T>>
           r == Onward(a, to, depth, tokens)
           earlier == SubSeq(s, 1, i - 1)
           part == SubSeq(s, i, to - 1)
<1>1. d[1] = s /\ d[2] = T
  OBVIOUS
<1>2. DOMAIN a = WalkFields /\ a.out \in Seq(T) /\ Ink(a.out) = Ink(earlier)
  BY <1>1 DEF Walking
<1>3. /\ DOMAIN r = WalkFields /\ r.at = to /\ r.depth = depth /\ r.out = a.out \o tokens
  BY <1>2 DEF Onward, WalkFields
<1>4. earlier \in Seq(T) /\ part \in Seq(T) /\ earlier \o part = SubSeq(s, 1, to - 1)
  <2>1. i \in Nat /\ to \in Nat /\ 1 \in Nat /\ 1 <= 1 /\ 1 <= i /\ i <= to /\ to <= Len(s) + 1
    OBVIOUS
  <2> QED
    BY <2>1, Parts
<1> DEFINE out == a.out
<1> HIDE DEF earlier, part, out
<1>5. out \in Seq(T) /\ Ink(out) = Ink(earlier) /\ Ink(tokens) = Ink(part)
  BY <1>2 DEF out, part
<1>6. Ink(out \o tokens) = Ink(out) \o Ink(tokens)
  BY <1>5, InkOfBoth
<1>7. Ink(earlier \o part) = Ink(earlier) \o Ink(part)
  BY <1>4, InkOfBoth
<1>8. out \o tokens \in Seq(T) /\ out \o tokens # << >>
  <2> DEFINE p == out \o tokens
  <2>1. p \in Seq(T) /\ Len(p) = Len(out) + Len(tokens) /\ Len(out) \in Nat
    BY <1>5
  <2>2. Len(tokens) \in Nat /\ Len(tokens) # 0
    BY LengthOfSome
  <2> HIDE DEF p
  <2>3. Len(p) # 0
    BY <2>1, <2>2
  <2>4. p # << >>
    BY <2>3
  <2> QED
    BY <2>1, <2>4 DEF p
<1>9. r.out \in Seq(T) /\ r.out # << >> /\ Ink(r.out) = Ink(SubSeq(s, 1, to - 1))
  <2>1. r.out = out \o tokens
    BY <1>3 DEF out
  <2> QED
    BY <2>1, <1>4, <1>5, <1>6, <1>7, <1>8
<1> HIDE DEF r, d
<1>10. Walking(d, i, r)
  BY <1>1, <1>3, <1>9 DEF Walking
<1> QED
  BY <1>10 DEF r, d

(* A step of the prettifier keeps that what is written is what was read.   *)
LEMMA WalkAtKeeps ==
  ASSUME NEW T, Blanks \subseteq T, NEW s \in Seq(T), NEW i \in 1 .. Len(s), NEW a,
         Walking(<<s, T>>, i - 1, a), ~a.bad, a.at = i
  PROVE  Walking(<<s, T>>, i, WalkAt(s, a, i))
<1> DEFINE c == s[i]
           next == IF i < Len(s) THEN s[i + 1] ELSE "end"
           end == FindJSONValueEnd(s, i + 1)
           json == SubSeq(s, i + 1, end - 1)
           r == WalkAt(s, a, i)
           d == <<s, T>>
           one == <<c>>
           two == <<c, next>>
<1>1. Len(s) \in Nat /\ i \in Nat /\ c \in T /\ SubSeq(s, i, i) = one
  BY PartOfOne
<1>2. a.depth \in Int /\ DOMAIN a = WalkFields
  BY DEF Walking
<1>3. one \in Seq(T) /\ one # << >>
  BY <1>1
<1>4. ASSUME NEW b \in Seq(Blanks)
      PROVE  /\ one \o b \in Seq(T) /\ one \o b # << >> /\ Ink(one \o b) = Ink(one)
             /\ Append(b, c) \in Seq(T) /\ Append(b, c) # << >> /\ Ink(Append(b, c)) = Ink(one)
  <2>1. one \o b # << >>
    OBVIOUS
  <2>2. b \in Seq(T) /\ Append(b, c) = b \o one /\ Append(b, c) # << >>
    <3> HIDE DEF c
    <3>1. b \in Seq(T)
      OBVIOUS
    <3> QED
      BY <1>1, <3>1, AppendIs
  <2> HIDE DEF one
  <2> QED
    BY <1>3, <2>1, <2>2, InkWithBlanks
<1>5. i < Len(s) => i + 1 \in 1 .. Len(s) /\ next \in T /\ SubSeq(s, i, i + 1) = two
  <2> SUFFICES ASSUME i < Len(s) PROVE i + 1 \in 1 .. Len(s) /\ next \in T /\ SubSeq(s, i, i + 1) = two
    OBVIOUS
  <2>1. i + 1 \in 1 .. Len(s) /\ i + 1 \in Nat /\ i + 2 \in Nat /\ i + 2 <= Len(s) + 1
    BY <1>1
  <2>2. next = s[i + 1]
    OBVIOUS
  <2> DEFINE j == i + 1
  <2>3. SubSeq(s, j, j) = <<s[j]>> /\ s[j] \in T
    <3>1. j \in 1 .. Len(s)
      BY <2>1
    <3> HIDE DEF j
    <3> QED
      BY <3>1, PartOfOne
  <2>4. SubSeq(s, i, (i + 1) - 1) \o SubSeq(s, i + 1, (i + 2) - 1) = SubSeq(s, i, (i + 2) - 1)
    BY <1>1, <2>1, Parts
  <2>5. (i + 1) - 1 = i /\ (i + 2) - 1 = i + 1
    BY <1>1
  <2>6. SubSeq(s, i, i + 1) = one \o <<next>>
    BY <1>1, <2>2, <2>3, <2>4, <2>5 DEF j
  <2>7. one \o <<next>> = two
    <3>1. next \in T
      BY <2>2, <2>3 DEF j
    <3> HIDE DEF next, c
    <3> QED
      BY <1>1, <3>1, TwoOnes
  <2> QED
    BY <2>1, <2>2, <2>3, <2>6, <2>7 DEF j
<1> SUFFICES Walking(d, i, r)
  OBVIOUS
<1> HIDE DEF c, r, d
<1>6. ASSUME NEW to \in i + 1 .. Len(s) + 1, NEW depth \in Int, NEW tokens \in Seq(T), tokens # << >>,
             Ink(tokens) = Ink(SubSeq(s, i, to - 1))
      PROVE  Walking(d, i, Onward(a, to, depth, tokens))
  BY <1>6, OnwardKeeps DEF d
<1>7. i + 1 \in i + 1 .. Len(s) + 1 /\ (i + 1) - 1 = i /\ (i < Len(s) => i + 2 \in i + 1 .. Len(s) + 1)
  BY <1>1
<1>8. (i + 2) - 1 = i + 1
  BY <1>1
<1>9. Walking(d, i, [a EXCEPT !.bad = TRUE])
  <2> DEFINE b == [a EXCEPT !.bad = TRUE]
  <2>1. DOMAIN b = WalkFields /\ b.bad
    BY <1>2 DEF WalkFields
  <2> HIDE DEF b
  <2>2. Walking(d, i, b)
    BY <2>1 DEF Walking
  <2> QED
    BY <2>2 DEF b
<1>10. end # 0 => end \in i + 1 .. Len(s) + 1 /\ i + 1 <= end /\ end \in Nat
  <2>1. i + 1 \in 1 .. Len(s) + 1
    BY <1>1
  <2> DEFINE j == i + 1
  <2>2. j \in 1 .. Len(s) + 1
    BY <2>1
  <2> HIDE DEF j
  <2>3. FindJSONValueEnd(s, j) = 0 \/ FindJSONValueEnd(s, j) \in j + 1 .. Len(s) + 1
    BY <2>2, JSONValueEnds
  <2>4. end = 0 \/ end \in j + 1 .. Len(s) + 1
    BY <2>3 DEF j
  <2> HIDE DEF end
  <2> QED
    BY <2>4, <1>1 DEF j
<1> HIDE DEF end, next
<1>11. end # 0 => json \in Seq(T) /\ one \o json = SubSeq(s, i, end - 1)
  <2> SUFFICES ASSUME end # 0 PROVE json \in Seq(T) /\ one \o json = SubSeq(s, i, end - 1)
    OBVIOUS
  <2>1. i + 1 \in Nat /\ 1 <= i /\ i <= i + 1 /\ i + 1 <= end /\ end <= Len(s) + 1 /\ end \in Nat
    BY <1>1, <1>10
  <2>2. /\ SubSeq(s, i + 1, end - 1) \in Seq(T)
        /\ SubSeq(s, i, (i + 1) - 1) \o SubSeq(s, i + 1, end - 1) = SubSeq(s, i, end - 1)
    BY <1>1, <2>1, Parts
  <2> QED
    BY <1>1, <1>7, <2>2
<1> HIDE DEF json
<1>12. \A D \in Int : NewLine(D) \in Seq(Blanks)
  BY NewLineIsBlank
<1>13. a.depth + 1 \in Int /\ a.depth - 1 \in Int
  BY <1>2
<1>14. CASE c = "json=" /\ next \in Openers
  <2>1. r = IF end = 0 \/ ~Valid(json) THEN [a EXCEPT !.bad = TRUE]
            ELSE Onward(a, end, a.depth, <<c>> \o Indent(json, a.depth))
    BY Zenon, <1>14 DEF r, WalkAt, c, next, end, json, Openers, Closers, Closer, Separates
  <2>2. CASE end = 0 \/ ~Valid(json)
    BY <1>9, <2>1, <2>2
  <2>3. CASE ~(end = 0 \/ ~Valid(json))
    <3> DEFINE inner == Indent(json, a.depth)
    <3>1. inner \in Seq(T) /\ Ink(inner) = Ink(json)
      BY <1>2, <1>11, <2>3, IndentKeeps
    <3> HIDE DEF inner
    <3>2. one \o inner \in Seq(T) /\ one \o inner # << >>
      BY <1>3, <3>1 DEF one
    <3> HIDE DEF one
    <3>3. Ink(one \o inner) = Ink(one) \o Ink(inner) /\ Ink(one \o json) = Ink(one) \o Ink(json)
      BY <1>3, <1>11, <2>3, <3>1, InkOfBoth
    <3>4. Ink(one \o inner) = Ink(SubSeq(s, i, end - 1))
      BY <1>11, <2>3, <3>1, <3>3
    <3>5. Walking(d, i, Onward(a, end, a.depth, one \o inner))
      BY <1>2, <1>6, <1>10, <2>3, <3>2, <3>4
    <3> QED
      BY <2>1, <2>3, <3>5 DEF inner, one
  <2> QED
    BY <2>2, <2>3
<1>15. CASE c \in Openers /\ next = Closer(c)
  <2>1. r = Onward(a, i + 2, a.depth, <<c, next>>)
    BY Zenon, <1>15 DEF r, WalkAt, c, next, Openers, Closers, Closer, Separates
  <2>2. i < Len(s)
    BY Zenon, <1>15 DEF next, Closer
  <2>3. two \in Seq(T) /\ two # << >>
    BY <1>1, <1>5, <2>2
  <2>4. Ink(two) = Ink(SubSeq(s, i, (i + 2) - 1))
    BY <1>5, <1>8, <2>2
  <2> HIDE DEF two
  <2>5. Walking(d, i, Onward(a, i + 2, a.depth, two))
    BY <1>2, <1>6, <1>7, <2>2, <2>3, <2>4
  <2> QED
    BY <2>1, <2>5 DEF two
<1>16. CASE c \in Openers /\ next # Closer(c)
  <2> DEFINE b == NewLine(a.depth + 1)
             tokens == one \o b
  <2>1. r = Onward(a, i + 1, a.depth + 1, tokens)
    BY Zenon, <1>16 DEF r, WalkAt, c, next, Openers, Closers, Closer, Separates
  <2>2. b \in Seq(Blanks)
    BY <1>12, <1>13
  <2> HIDE DEF b
  <2>3. tokens \in Seq(T) /\ tokens # << >> /\ Ink(tokens) = Ink(SubSeq(s, i, (i + 1) - 1))
    BY <1>1, <1>4, <1>7, <2>2
  <2> HIDE DEF tokens
  <2> QED
    BY <1>6, <1>7, <1>13, <2>1, <2>3
<1>17. CASE c \in Closers
  <2> DEFINE b == NewLine(a.depth - 1)
             tokens == Append(b, c)
  <2>1. r = IF a.depth = 0 THEN [a EXCEPT !.bad = TRUE] ELSE Onward(a, i + 1, a.depth - 1, tokens)
    BY Zenon, <1>17 DEF r, WalkAt, c, next, Openers, Closers, Closer, Separates
  <2>2. b \in Seq(Blanks)
    BY <1>12, <1>13
  <2> HIDE DEF b
  <2>3. tokens \in Seq(T) /\ tokens # << >> /\ Ink(tokens) = Ink(SubSeq(s, i, (i + 1) - 1))
    BY <1>1, <1>4, <1>7, <2>2
  <2> HIDE DEF tokens
  <2>4. Walking(d, i, Onward(a, i + 1, a.depth - 1, tokens))
    BY <1>6, <1>7, <1>13, <2>3
  <2> QED
    BY <1>9, <2>1, <2>4
<1>18. CASE Separates(s, i)
  <2> DEFINE b == NewLine(a.depth)
             tokens == one \o b
  <2>1. r = Onward(a, i + 2, a.depth, tokens) /\ i < Len(s) /\ next = " "
    BY Zenon, <1>18 DEF r, WalkAt, c, next, Openers, Closers, Separates
  <2>2. b \in Seq(Blanks)
    BY <1>2, <1>12
  <2> HIDE DEF b
  <2>3. tokens \in Seq(T) /\ tokens # << >> /\ Ink(tokens) = Ink(one)
    BY <1>4, <2>2
  <2>4. Ink(two) = Ink(one)
    <3>1. " " \in Blanks
      BY Zenon DEF Blanks, White
    <3> DEFINE blank == <<next>>
    <3>2. blank \in Seq(Blanks) /\ two = one \o blank
      BY Zenon, <1>1, <1>5, <2>1, <3>1, TwoOnes, One
    <3> HIDE DEF blank, two, one
    <3> QED
      BY <1>3, <3>2, InkWithBlanks
  <2>5. Ink(tokens) = Ink(SubSeq(s, i, (i + 2) - 1))
    BY Zenon, <1>5, <1>8, <2>1, <2>3, <2>4
  <2> HIDE DEF tokens
  <2> QED
    BY Zenon, <1>2, <1>6, <1>7, <2>1, <2>3, <2>5
<1>19. CASE /\ ~(c = "json=" /\ next \in Openers) /\ c \notin Openers /\ c \notin Closers
            /\ ~Separates(s, i)
  <2>1. r = Onward(a, i + 1, a.depth, one)
    BY <1>19 DEF r, WalkAt, c, next
  <2>2. Ink(one) = Ink(SubSeq(s, i, (i + 1) - 1))
    BY <1>1, <1>7
  <2> HIDE DEF one
  <2> QED
    BY <1>2, <1>3, <1>6, <1>7, <2>1, <2>2
<1> QED
  BY <1>14, <1>15, <1>16, <1>17, <1>18, <1>19

(* The summary, prettified, says the same.                                 *)
LEMMA PrettifyKeeps ==
  ASSUME NEW T, Blanks \subseteq T, NEW s \in Seq(T), s # << >>
  PROVE  /\ PrettifyAtlassianBlob(s) \in Seq(T) /\ PrettifyAtlassianBlob(s) # << >>
         /\ Ink(PrettifyAtlassianBlob(s)) = Ink(s)
<1> DEFINE places == [i \in DOMAIN s |-> i]
           start == [at |-> 1, depth |-> 0, out |-> << >>, bad |-> FALSE]
           w == WalkLoop!Loop(s, places, start)
           d == <<s, T>>
           n == Len(s)
<1>1. PrettifyAtlassianBlob(s) = IF w.bad \/ w.depth # 0 THEN s ELSE w.out
  BY DEF PrettifyAtlassianBlob, ForEach, Apply, WalkLoop!Loop, WalkLoop!ForEach, WalkLoop!Apply, WalkBody
<1>2. n \in Nat /\ n # 0 /\ Len(places) = n /\ \A i \in 1 .. n : places[i] = i
  OBVIOUS
<1>3. d[1] = s /\ d[2] = T
  OBVIOUS
<1>4. Walking(d, 0, start)
  <2>1. DOMAIN start = WalkFields /\ start.at = 1 /\ start.depth = 0 /\ start.out = << >>
    BY DEF WalkFields
  <2>2. SubSeq(s, 1, 1 - 1) = << >>
    OBVIOUS
  <2>3. 1 \in 0 + 1 .. Len(s) + 1 /\ 0 \in Int /\ << >> \in Seq(T)
    OBVIOUS
  <2> HIDE DEF start, d
  <2>4. Ink(start.out) = Ink(SubSeq(s, 1, start.at - 1))
    BY <2>1, <2>2
  <2> QED
    BY <1>3, <2>1, <2>3, <2>4 DEF Walking
<1>5. ASSUME NEW i \in 1 .. n, NEW a, Walking(d, i - 1, a) PROVE Walking(d, i, WalkBody(s, a, places[i]))
  <2>1. places[i] = i /\ i \in 1 .. Len(s) /\ i \in Nat /\ (i - 1) + 1 = i
    BY <1>2
  <2>2. CASE a.bad
    <3>1. WalkBody(s, a, i) = a
      BY <2>2 DEF WalkBody
    <3>2. Walking(d, i, a)
      BY <1>5, <2>2 DEF Walking
    <3> QED
      BY <2>1, <3>1, <3>2
  <2>3. CASE ~a.bad /\ i < a.at
    <3>1. WalkBody(s, a, i) = a
      BY <2>3 DEF WalkBody
    <3>2. a.at \in i .. Len(s) + 1
      BY <1>3, <1>5, <2>1, <2>3 DEF Walking
    <3>3. a.at \in i + 1 .. Len(s) + 1
      BY <2>1, <2>3, <3>2
    <3>4. Walking(d, i, a)
      BY <1>3, <1>5, <2>3, <3>3 DEF Walking
    <3> QED
      BY <2>1, <3>1, <3>4
  <2>4. CASE ~a.bad /\ ~(i < a.at)
    <3>1. WalkBody(s, a, i) = WalkAt(s, a, i)
      BY <2>4 DEF WalkBody
    <3>2. a.at \in i .. Len(s) + 1
      BY <1>3, <1>5, <2>1, <2>4 DEF Walking
    <3>3. a.at = i
      BY <2>1, <2>4, <3>2
    <3>4. Walking(d, i, WalkAt(s, a, i))
      BY <1>5, <2>1, <2>4, <3>3, WalkAtKeeps DEF d
    <3> QED
      BY <2>1, <3>1, <3>4
  <2> QED
    BY <2>2, <2>3, <2>4
<1> HIDE DEF places, start, d
<1>6. Walking(d, Len(places), WalkLoop!Loop(s, places, start))
  <2>1. Len(places) \in Nat
    BY <1>2
  <2>2. \A i \in 1 .. Len(places) : \A a : Walking(d, i - 1, a) => Walking(d, i, WalkBody(s, a, places[i]))
    BY <1>2, <1>5
  <2> QED
    BY <1>4, <2>1, <2>2, WalkLoop!LoopKeeps
<1>7. Walking(d, n, w)
  BY <1>2, <1>6
<1> HIDE DEF w
<1>8. w.bad \/ (w.at \in n + 1 .. n + 1 /\ w.out \in Seq(T) /\ Ink(w.out) = Ink(SubSeq(s, 1, w.at - 1))
                 /\ (w.at # 1 => w.out # << >>))
  BY <1>3, <1>7 DEF Walking
<1>9. CASE ~w.bad
  <2>1. w.at = n + 1 /\ w.at # 1 /\ w.at - 1 = n
    BY <1>2, <1>8, <1>9
  <2>2. SubSeq(s, 1, n) = s
    OBVIOUS
  <2> HIDE DEF n
  <2>3. w.out \in Seq(T) /\ Ink(w.out) = Ink(s) /\ w.out # << >>
    BY <1>8, <1>9, <2>1, <2>2
  <2> QED
    BY <1>1, <2>3
<1>10. CASE w.bad
  BY <1>1, <1>10
<1> QED
  BY <1>9, <1>10

-----------------------------------------------------------------------------
(* An entry of the list of fields.                                         *)
(* What follows every x.                                                   *)
Follows(x, y, s) == \A k \in 1 .. Len(s) : s[k] = x => k < Len(s) /\ s[k + 1] = y

(* One more x before a text that begins with y.                            *)
LEMMA FollowsAfter ==
  ASSUME NEW T, NEW x \in T, NEW y, NEW s \in Seq(T), s # << >>, s[1] = y, Follows(x, y, s)
  PROVE  /\ Follows(x, y, <<x>> \o s)
         /\ DOMAIN (<<x>> \o s) = 1 .. Len(<<x>> \o s)
<1> DEFINE one == <<x>>
           p == one \o s
           n == Len(s)
<1>1. one \in Seq(T) /\ Len(one) = 1
  OBVIOUS
<1> HIDE DEF one
<1>2. Len(p) = 1 + n /\ DOMAIN p = 1 .. Len(p) /\ \A i \in 1 .. n : p[1 + i] = s[i]
  <2>0. one \in Seq(T)
    BY <1>1
  <2>1. /\ Len(p) = Len(one) + Len(s) /\ DOMAIN p = 1 .. Len(p)
        /\ \A i \in 1 .. Len(s) : p[Len(one) + i] = s[i]
    BY <2>0
  <2> HIDE DEF p
  <2> QED
    BY <1>1, <2>1
<1>3. n \in Nat /\ n # 0
  BY LengthOfSome
<1>4. \A k \in 1 .. n : s[k] = x => k < n /\ s[k + 1] = y
  BY DEF Follows
<1> HIDE DEF p, n
<1>5. ASSUME NEW k \in 1 .. 1 + n PROVE p[k] = x => k < 1 + n /\ p[k + 1] = y
  <2>1. CASE k = 1
    <3>1. 1 \in 1 .. n /\ k < 1 + n /\ k + 1 = 1 + 1
      BY <1>3, <2>1
    <3> QED
      BY <1>2, <3>1
  <2>2. CASE k # 1
    <3>1. PICK j \in 1 .. n : 1 + j = k
      <4>1. k - 1 \in 1 .. n /\ 1 + (k - 1) = k
        BY <1>3, <2>2
      <4> QED
        BY <4>1
    <3>2. j < n => j + 1 \in 1 .. n /\ k < 1 + n /\ 1 + (j + 1) = k + 1
      BY <1>3, <3>1
    <3> QED
      BY <1>2, <1>4, <3>1, <3>2
  <2> QED
    BY <2>1, <2>2
<1>6. Follows(x, y, p)
  BY <1>2, <1>5 DEF Follows
<1> QED
  BY <1>2, <1>6 DEF p, one

(* A line break, before a line that begins with an indentation.            *)
LEMMA SetInAfterBreak ==
  ASSUME NEW T, NEW s \in Seq(T), s # << >>, s[1] = "  ", SetIn(s), "nl" \in T
  PROVE  SetIn(<<"nl">> \o s)
<1>1. Follows("nl", "  ", s)
  BY Zenon DEF SetIn, Follows
<1>2. Follows("nl", "  ", <<"nl">> \o s)
  BY Zenon, <1>1, FollowsAfter
<1> DEFINE p == <<"nl">> \o s
<1>3. DOMAIN p = 1 .. Len(p)
  BY Zenon, <1>1, FollowsAfter
<1> HIDE DEF p
<1>4. Follows("nl", "  ", p)
  BY Zenon, <1>2 DEF p
<1>5. SetIn(p)
  BY Zenon, <1>3, <1>4 DEF SetIn, Follows
<1> QED
  BY Zenon, <1>5 DEF p

(* A sequence of three.                                                    *)
LEMMA Triple ==
  ASSUME NEW T, NEW x \in T, NEW y \in T, NEW z \in T
  PROVE  <<x, y, z>> \in Seq(T)
OBVIOUS

(* Three, as two and one.                                                  *)
LEMMA ThreeAre ==
  ASSUME NEW T, NEW x \in T, NEW y \in T, NEW z \in T
  PROVE  <<x, y, z>> = <<x, y>> \o <<z>>
<1> DEFINE p == <<x, y, z>>
           two == <<x, y>>
           one == <<z>>
           q == two \o one
<1>1. /\ p \in Seq(T) /\ Len(p) = 3 /\ p[1] = x /\ p[2] = y /\ p[3] = z
  OBVIOUS
<1>2. /\ two \in Seq(T) /\ Len(two) = 2 /\ two[1] = x /\ two[2] = y
      /\ one \in Seq(T) /\ Len(one) = 1 /\ one[1] = z
  OBVIOUS
<1> HIDE DEF p, two, one
<1>3. two \in Seq(T) /\ one \in Seq(T)
  BY <1>2
<1>4. /\ q \in Seq(T) /\ Len(q) = Len(two) + Len(one)
      /\ \A i \in 1 .. Len(two) : q[i] = two[i]
      /\ \A i \in 1 .. Len(one) : q[Len(two) + i] = one[i]
  BY <1>3
<1> HIDE DEF q
<1>5. Len(q) = 3 /\ q[1] = x /\ q[2] = y /\ q[2 + 1] = z
  BY <1>2, <1>4
<1>6. ASSUME NEW i \in 1 .. 3 PROVE p[i] = q[i]
  <2>1. i = 1 \/ i = 2 \/ i = 3
    OBVIOUS
  <2> QED
    BY <1>1, <1>5, <2>1
<1>7. p = q
  BY <1>1, <1>4, <1>5, <1>6, SeqEqual
<1> QED
  BY <1>7 DEF p, q, two, one

(* Six, as two, three and one.                                             *)
LEMMA SixAre ==
  ASSUME NEW T, NEW a \in T, NEW b \in T, NEW c \in T, NEW d \in T, NEW e \in T, NEW f \in T
  PROVE  <<a, b, c, d, e, f>> = (<<a, b>> \o <<c, d, e>>) \o <<f>>
<1> DEFINE p == <<a, b, c, d, e, f>>
           two == <<a, b>>
           three == <<c, d, e>>
           one == <<f>>
           five == two \o three
           q == five \o one
<1>1. /\ two \in Seq(T) /\ Len(two) = 2 /\ two[1] = a /\ two[2] = b
      /\ three \in Seq(T) /\ Len(three) = 3 /\ three[1] = c /\ three[2] = d /\ three[3] = e
      /\ one \in Seq(T) /\ Len(one) = 1 /\ one[1] = f
  OBVIOUS
<1>2. /\ p \in Seq(T) /\ Len(p) = 6 /\ p[1] = a /\ p[2] = b /\ p[3] = c /\ p[4] = d /\ p[5] = e /\ p[6] = f
  OBVIOUS
<1> HIDE DEF two, three, one, p
<1>3. /\ five \in Seq(T) /\ Len(five) = 5 /\ \A i \in 1 .. 2 : five[i] = two[i]
      /\ \A i \in 1 .. 3 : five[2 + i] = three[i]
  <2>1. two \in Seq(T) /\ three \in Seq(T)
    BY <1>1
  <2>2. /\ five \in Seq(T) /\ Len(five) = Len(two) + Len(three)
        /\ \A i \in 1 .. Len(two) : five[i] = two[i]
        /\ \A i \in 1 .. Len(three) : five[Len(two) + i] = three[i]
    BY <2>1
  <2> HIDE DEF five
  <2> QED
    BY <1>1, <2>2
<1> HIDE DEF five
<1>4. five[1] = a /\ five[2] = b /\ five[3] = c /\ five[4] = d /\ five[5] = e
  BY <1>1, <1>3
<1>5. /\ q \in Seq(T) /\ Len(q) = 6 /\ \A i \in 1 .. 5 : q[i] = five[i]
      /\ \A i \in 1 .. 1 : q[5 + i] = one[i]
  <2>1. one \in Seq(T) /\ five \in Seq(T)
    BY <1>1, <1>3
  <2>2. /\ q \in Seq(T) /\ Len(q) = Len(five) + Len(one)
        /\ \A i \in 1 .. Len(five) : q[i] = five[i]
        /\ \A i \in 1 .. Len(one) : q[Len(five) + i] = one[i]
    BY <2>1
  <2> HIDE DEF q
  <2> QED
    BY <1>1, <1>3, <2>2
<1> HIDE DEF q
<1>6. ASSUME NEW i \in 1 .. 6 PROVE p[i] = q[i]
  <2>1. i = 1 \/ i = 2 \/ i = 3 \/ i = 4 \/ i = 5 \/ i = 6
    OBVIOUS
  <2> QED
    BY <1>1, <1>2, <1>4, <1>5, <2>1
<1>7. p = q
  BY <1>2, <1>5, <1>6, SeqEqual
<1> QED
  BY <1>7 DEF p, q, five, two, three, one

FieldTokens == {"- ", "null"} \cup Blanks
(* A fenced entry has its label and all of its body, set in.               *)
LEMMA FencedKeeps ==
  ASSUME NEW T, FieldTokens \subseteq T, NEW label \in T, label # "nl", NEW body \in Seq(T), body # << >>
  PROVE  /\ SetIn(Fenced(label, body))
         /\ Ink(Fenced(label, body)) = Ink(<<"- ", label>> \o body)
<1> DEFINE head == <<"- ", label>>
           fence == <<"nl", "  ", "fence">>
           break == <<"nl">>
           inner == IndentByTwo(body)
<1>1. Fenced(label, body) = (((head \o fence) \o break) \o inner) \o fence
  <2>1. "- " \in T /\ "nl" \in T /\ "  " \in T /\ "fence" \in T
    BY Zenon DEF FieldTokens, Blanks, White
  <2>2. <<"- ", label, "nl", "  ", "fence", "nl">> = (head \o fence) \o break
    <3> DEFINE dash == "- "
               nl == "nl"
               blank == "  "
               f == "fence"
    <3> HIDE DEF dash, nl, blank, f
    <3>1. dash \in T /\ nl \in T /\ blank \in T /\ f \in T
      BY Zenon, <2>1 DEF dash, nl, blank, f
    <3>2. <<dash, label, nl, blank, f, nl>> = (<<dash, label>> \o <<nl, blank, f>>) \o <<nl>>
      BY <3>1, SixAre
    <3> QED
      BY Zenon, <3>2 DEF dash, nl, blank, f
  <2> HIDE DEF inner
  <2> QED
    BY Zenon, <2>2 DEF Fenced, inner
<1>2. /\ Blanks \subseteq T /\ "- " \in T /\ "nl" \in Blanks /\ "  " \in Blanks /\ "fence" \in Blanks
      /\ "- " # "nl"
  BY Zenon DEF FieldTokens, Blanks, White
<1>3. head \in Seq(T) /\ fence \in Seq(Blanks) /\ break \in Seq(Blanks)
  BY Zenon, <1>2, One, Pair, Triple
<1>4. Inset(T, inner) /\ Ink(inner) = Ink(body)
  BY Zenon, <1>2, IndentByTwoKeeps
<1>5. SetIn(head)
  <2>1. head = <<"- ">> \o <<label>> /\ <<"- ">> \in Seq(T) /\ <<label>> \in Seq(T)
    BY Zenon, <1>2, TwoOnes, One
  <2>2. SetIn(<<"- ">>) /\ SetIn(<<label>>)
    BY Zenon, <1>2, SetInOne
  <2> HIDE DEF head
  <2> DEFINE p == <<"- ">>
             q == <<label>>
  <2>3. p \in Seq(T) /\ q \in Seq(T) /\ SetIn(p) /\ SetIn(q) /\ head = p \o q
    BY Zenon, <2>1, <2>2
  <2> HIDE DEF p, q
  <2> QED
    BY <2>3, SetInBoth
<1>6. SetIn(fence)
  <2> DEFINE p == <<"nl", "  ">>
             q == <<"fence">>
  <2>1. SetIn(p) /\ SetIn(q)
    <3>1. "fence" # "nl"
      OBVIOUS
    <3> QED
      BY Zenon, <3>1, SetInBreak, SetInOne
  <2>2. p \in Seq(T) /\ q \in Seq(T) /\ fence = p \o q
    <3> DEFINE nl == "nl"
               blank == "  "
               f == "fence"
    <3> HIDE DEF nl, blank, f
    <3>1. nl \in T /\ blank \in T /\ f \in T
      BY Zenon, <1>2 DEF nl, blank, f
    <3>2. <<nl, blank, f>> = <<nl, blank>> \o <<f>> /\ <<nl, blank>> \in Seq(T) /\ <<f>> \in Seq(T)
      BY <3>1, ThreeAre, One, Pair
    <3> QED
      BY Zenon, <3>2 DEF nl, blank, f
  <2> HIDE DEF p, q, fence
  <2> QED
    BY <2>1, <2>2, SetInBoth
<1> DEFINE front == head \o fence
           back == break \o inner
<1> HIDE DEF head, fence, break, inner
<1>7. inner \in Seq(T) /\ inner # << >> /\ inner[1] = "  " /\ SetIn(inner)
  BY Zenon, <1>4 DEF Inset
<1>8. fence \in Seq(T) /\ break \in Seq(T)
  <2>1. Blanks \subseteq T
    BY Zenon, <1>2
  <2>2. \A t \in Seq(Blanks) : t \in Seq(T)
    BY <2>1
  <2> QED
    BY <1>3, <2>2
<1>9. front \in Seq(T) /\ SetIn(front) /\ Ink(front) = Ink(head)
  BY Zenon, <1>2, <1>3, <1>5, <1>6, <1>8, SetInBoth, InkWithBlanks
<1>10. back \in Seq(T) /\ Ink(back) = Ink(body)
  BY Zenon, <1>2, <1>3, <1>4, <1>7, InkWithBlanks
<1>11. SetIn(back)
  <2>1. "nl" \in T
    BY Zenon, <1>2
  <2>2. SetIn(<<"nl">> \o inner)
    BY Zenon, <1>7, <2>1, SetInAfterBreak
  <2> QED
    BY <2>2 DEF back, break
<1> HIDE DEF front, back
<1> DEFINE both == front \o back
<1>12. both \in Seq(T) /\ SetIn(both) /\ Ink(both) = Ink(head) \o Ink(body)
  BY <1>9, <1>10, <1>11, SetInBoth, InkOfBoth, Associative
<1>13. Fenced(label, body) = both \o fence
  <2>1. (front \o break) \o inner = front \o (break \o inner)
    <3> HIDE DEF front
    <3>1. front \in Seq(T) /\ break \in Seq(T) /\ inner \in Seq(T)
      BY Zenon, <1>7, <1>8, <1>9
    <3> QED
      BY <3>1
  <2> QED
    BY <1>1, <2>1 DEF front, both, back
<1> HIDE DEF both
<1>14. SetIn(both \o fence) /\ Ink(both \o fence) = Ink(head) \o Ink(body)
  BY Zenon, <1>2, <1>3, <1>6, <1>8, <1>12, SetInBoth, InkWithBlanks
<1>15. Ink(head \o body) = Ink(head) \o Ink(body)
  BY <1>3, InkOfBoth
<1> QED
  BY Zenon, <1>13, <1>14, <1>15 DEF head

(* What the entry of a field says.                                         *)
Said(label, raw) == <<"- ", label>> \o IF raw.is = "null" THEN <<"null">> ELSE raw.of
Entry(label, raw, entry) == SetIn(entry) /\ Ink(entry) = Ink(Said(label, raw))

(* An entry on one line has no other line.                                 *)
LEMMA InlineKeeps ==
  ASSUME NEW T, FieldTokens \subseteq T, NEW label \in T, label # "nl", NEW body \in Seq(T), "nl" \notin ToSet(body)
  PROVE  SetIn(<<"- ", label>> \o body)
<1> DEFINE head == <<"- ", label>>
<1>1. "- " \in T /\ "- " # "nl"
  BY Zenon DEF FieldTokens
<1>2. head \in Seq(T)
  BY Zenon, <1>1, Pair
<1>3. SetIn(head)
  <2> DEFINE p == <<"- ">>
             q == <<label>>
  <2>1. p \in Seq(T) /\ q \in Seq(T) /\ SetIn(p) /\ SetIn(q) /\ head = p \o q
    BY Zenon, <1>1, TwoOnes, One, SetInOne
  <2> HIDE DEF p, q, head
  <2> QED
    BY <2>1, SetInBoth
<1>4. SetIn(body)
  BY SetInAlways
<1> HIDE DEF head
<1>5. SetIn(head \o body)
  BY <1>2, <1>3, <1>4, SetInBoth
<1> QED
  BY Zenon, <1>5 DEF head

(* The same label before two bodies that say the same.                     *)
LEMMA SameInk ==
  ASSUME NEW T, FieldTokens \subseteq T, NEW label \in T, NEW s \in Seq(T), NEW t \in Seq(T), Ink(s) = Ink(t)
  PROVE  Ink(<<"- ", label>> \o s) = Ink(<<"- ", label>> \o t)
<1> DEFINE head == <<"- ", label>>
<1>1. "- " \in T
  BY Zenon DEF FieldTokens
<1>2. head \in Seq(T)
  BY Zenon, <1>1, Pair
<1> HIDE DEF head
<1>3. Ink(head \o s) = Ink(head) \o Ink(s) /\ Ink(head \o t) = Ink(head) \o Ink(t)
  BY <1>2, InkOfBoth
<1> QED
  BY Zenon, <1>3 DEF head

(* The form of an entry follows from the class of its value.               *)
LEMMA RenderedAs ==
  ASSUME NEW label, NEW raw, NEW kind, NEW pretty, ClassifyCustomField(raw) = Classified(kind, pretty)
  PROVE  RenderField(label, raw) =
           IF kind = "string-structured" THEN Fenced(label, PrettifyAtlassianBlob(pretty))
           ELSE IF kind = "invalid" \/ (kind = "structured" /\ "nl" \in ToSet(pretty)) THEN Fenced(label, pretty)
           ELSE <<"- ", label>> \o pretty
<1> DEFINE c == ClassifyCustomField(raw)
           i == "nl" \in ToSet(pretty)
<1>0. c = [kind |-> kind, pretty |-> pretty, indented |-> i]
  BY DEF Classified
<1> HIDE DEF c, i
<1>1. c.kind = kind /\ c.pretty = pretty /\ c.indented = i
  BY <1>0
<1>2. RenderField(label, raw) =
        CASE c.kind = "string-structured" -> Fenced(label, PrettifyAtlassianBlob(c.pretty))
          [] c.kind = "invalid" \/ (c.kind = "structured" /\ c.indented) -> Fenced(label, c.pretty)
          [] OTHER -> <<"- ", label>> \o c.pretty
  BY DEF RenderField, c
<1>3. CASE kind = "string-structured"
  BY <1>1, <1>2, <1>3
<1>4. CASE kind = "invalid" \/ (kind = "structured" /\ i)
  BY Zenon, <1>1, <1>2, <1>4 DEF i
<1>5. CASE kind # "string-structured" /\ ~(kind = "invalid" \/ (kind = "structured" /\ i))
  BY Zenon, <1>1, <1>2, <1>5 DEF i
<1> QED
  BY Zenon, <1>3, <1>4, <1>5

(* Every kind of value has an entry that says what it says.                *)
LEMMA RenderFieldKeeps ==
  ASSUME NEW T, FieldTokens \subseteq T, NEW label \in T, label # "nl", NEW raw,
         raw.is \in {"null", "string", "value"}, raw.of \in Seq(T),
         raw.is = "value" => raw.of # << >> /\ (raw.of[1] \in Openers \/ "nl" \notin ToSet(raw.of))
  PROVE  Entry(label, raw, RenderField(label, raw))
<1> DEFINE s == raw.of
           said == Said(label, raw)
           head == <<"- ", label>>
           r == RenderField(label, raw)
<1>1. Blanks \subseteq T /\ "null" \in T
  BY Zenon DEF FieldTokens
<1>2. s \in Seq(T)
  OBVIOUS
<1>3. raw.is # "null" => said = head \o s
  BY Zenon DEF Said
<1>4. raw.is = "null" => said = head \o <<"null">>
  BY DEF Said
<1> SUFFICES Entry(label, raw, r)
  OBVIOUS
<1> HIDE DEF s, said, r
<1>5. ASSUME NEW body \in Seq(T), "nl" \notin ToSet(body), r = head \o body, said = head \o body
      PROVE  Entry(label, raw, r)
  <2>1. SetIn(head \o body)
    BY Zenon, <1>5, InlineKeeps
  <2> HIDE DEF head
  <2> QED
    BY <1>5, <2>1 DEF Entry, said
<1>6. ASSUME NEW body \in Seq(T), "nl" \notin ToSet(body), r = head \o body, raw.is # "null", Ink(body) = Ink(s)
      PROVE  Entry(label, raw, r)
  <2>1. SetIn(head \o body)
    BY Zenon, <1>6, InlineKeeps
  <2>2. Ink(head \o body) = Ink(head \o s)
    BY Zenon, <1>2, <1>6, SameInk
  <2> HIDE DEF head
  <2> QED
    BY <1>3, <1>6, <2>1, <2>2 DEF Entry, said
<1>7. ASSUME NEW body \in Seq(T), body # << >>, r = Fenced(label, body), raw.is # "null", Ink(body) = Ink(s)
      PROVE  Entry(label, raw, r)
  <2>1. SetIn(r) /\ Ink(r) = Ink(head \o body)
    BY Zenon, <1>7, FencedKeeps
  <2>2. Ink(head \o body) = Ink(head \o s)
    BY Zenon, <1>2, <1>7, SameInk
  <2> HIDE DEF head
  <2> QED
    BY <1>3, <2>1, <2>2, <1>7 DEF Entry, said
(* A container, on one line or on several. *)
<1>8. ASSUME raw.is # "null", ClassifyCustomField(raw) = Classified("structured", Indent(s, 0))
      PROVE  Entry(label, raw, r)
  <2> DEFINE pretty == Indent(s, 0)
  <2>1. pretty \in Seq(T) /\ Ink(pretty) = Ink(s)
    <3>1. 0 \in Int
      OBVIOUS
    <3> QED
      BY <1>1, <1>2, <3>1, IndentKeeps
  <2>2. ClassifyCustomField(raw) = Classified("structured", pretty)
    BY <1>8
  <2> HIDE DEF pretty
  <2>3. CASE "nl" \in ToSet(pretty)
    <3>1. r = Fenced(label, pretty)
      BY Zenon, <2>2, <2>3, RenderedAs DEF r
    <3>2. pretty # << >>
      BY <2>3 DEF ToSet
    <3> QED
      BY <1>7, <1>8, <2>1, <3>1, <3>2
  <2>4. CASE "nl" \notin ToSet(pretty)
    <3>1. r = head \o pretty
      BY Zenon, <2>2, <2>4, RenderedAs DEF r
    <3> QED
      BY Zenon, <1>6, <1>8, <2>1, <2>4, <3>1
  <2> QED
    BY <2>3, <2>4
<1>9. ASSUME NEW body \in Seq(T), "nl" \notin ToSet(body), raw.is # "null", Ink(body) = Ink(s),
             ClassifyCustomField(raw) = Classified("primitive", body)
      PROVE  Entry(label, raw, r)
  <2>1. r = head \o body
    BY Zenon, <1>9, RenderedAs DEF r
  <2> QED
    BY Zenon, <1>6, <1>9, <2>1
<1>10. CASE raw.is = "null"
  <2> DEFINE body == <<"null">>
  <2>1. r = head \o body
    <3>1. ClassifyCustomField(raw) = Classified("null", <<"null">>)
      BY <1>10 DEF ClassifyCustomField
    <3> QED
      BY Zenon, <3>1, RenderedAs DEF r
  <2>2. body \in Seq(T) /\ ToSet(body) = {"null"}
    <3>1. body \in Seq(T)
      BY <1>1, One
    <3>2. DOMAIN body = 1 .. 1 /\ body[1] = "null"
      OBVIOUS
    <3> HIDE DEF body
    <3> QED
      BY <3>1, <3>2 DEF ToSet
  <2>3. said = head \o body
    BY Zenon, <1>4, <1>10
  <2> HIDE DEF body, head
  <2>4. "nl" \notin ToSet(body)
    BY <2>2
  <2> QED
    BY <1>5, <2>1, <2>2, <2>3, <2>4
<1>11. CASE raw.is = "string"
  <2>1. ClassifyCustomField(raw) = ClassifyJSONStringContents(s)
    BY <1>11 DEF ClassifyCustomField, s
  <2>2. Quoted(s) \in Seq(T) /\ Ink(Quoted(s)) = Ink(s) /\ "nl" \notin ToSet(Quoted(s))
    BY <1>1, <1>2, QuotedKeeps
  <2>3. CASE Valid(s) /\ IsContainer(s)
    BY <1>8, <1>11, <2>1, <2>3 DEF ClassifyJSONStringContents
  <2>4. CASE Valid(s) /\ ~IsContainer(s)
    BY <1>9, <1>11, <2>1, <2>2, <2>4 DEF ClassifyJSONStringContents
  <2>5. CASE ~Valid(s) /\ LooksStructured(s)
    <3> DEFINE pretty == PrettifyAtlassianBlob(s)
    <3>1. ClassifyCustomField(raw) = Classified("string-structured", s)
      BY <2>1, <2>5 DEF ClassifyJSONStringContents
    <3>2. r = Fenced(label, pretty)
      BY Zenon, <3>1, RenderedAs DEF r
    <3>3. s # << >>
      <4>1. ToSet(<< >>) = {}
        BY DEF ToSet
      <4> QED
        BY Zenon, <2>5, <4>1 DEF LooksStructured
    <3>4. pretty \in Seq(T) /\ pretty # << >> /\ Ink(pretty) = Ink(s)
      BY <1>1, <1>2, <3>3, PrettifyKeeps
    <3> HIDE DEF pretty
    <3> QED
      BY <1>7, <1>11, <3>2, <3>4
  <2>6. CASE ~Valid(s) /\ ~LooksStructured(s)
    BY <1>9, <1>11, <2>1, <2>2, <2>6 DEF ClassifyJSONStringContents
  <2> QED
    BY <2>3, <2>4, <2>5, <2>6
<1>12. CASE raw.is = "value"
  <2>1. CASE s[1] \in Openers
    <3>1. ClassifyCustomField(raw) = Classified("structured", Indent(s, 0))
      BY <1>12, <2>1 DEF ClassifyCustomField, s
    <3> QED
      BY <1>8, <1>12, <3>1
  <2>2. CASE s[1] \notin Openers
    <3>1. ClassifyCustomField(raw) = Classified("primitive", s)
      BY <1>12, <2>2 DEF ClassifyCustomField, s
    <3>2. "nl" \notin ToSet(s)
      BY <1>12, <2>2 DEF s
    <3> QED
      BY <1>2, <1>9, <1>12, <3>1, <3>2
  <2> QED
    BY <2>1, <2>2
<1> QED
  BY <1>10, <1>11, <1>12

(* The value of a field, the fields that are shown and how they are named. *)
LEMMA NullIsNull ==
  ASSUME NEW raw, raw.is \in {"null", "string", "value"}
  PROVE  ClassifyCustomField(raw).kind = "null" <=> raw.is = "null"
<1>1. ASSUME NEW kind, NEW pretty, ClassifyCustomField(raw) = Classified(kind, pretty)
      PROVE  ClassifyCustomField(raw).kind = kind
  BY <1>1 DEF Classified
<1>2. CASE raw.is = "null"
  <2>1. ClassifyCustomField(raw) = Classified("null", <<"null">>)
    BY <1>2 DEF ClassifyCustomField
  <2> QED
    BY <1>1, <1>2, <2>1
<1>3. CASE raw.is = "string"
  <2>1. ClassifyCustomField(raw) = ClassifyJSONStringContents(raw.of)
    BY <1>3 DEF ClassifyCustomField
  <2>2. \E kind, pretty : kind \in {"structured", "primitive", "string-structured"}
                          /\ ClassifyJSONStringContents(raw.of) = Classified(kind, pretty)
    BY DEF ClassifyJSONStringContents
  <2>3. PICK kind, pretty : kind \in {"structured", "primitive", "string-structured"}
                          /\ ClassifyJSONStringContents(raw.of) = Classified(kind, pretty)
    BY <2>2
  <2>4. ClassifyCustomField(raw).kind = kind
    BY <1>1, <2>1, <2>3
  <2> QED
    BY <1>3, <2>3, <2>4
<1>4. CASE raw.is = "value"
  <2>1. \E kind, pretty : kind \in {"structured", "primitive"}
                          /\ ClassifyCustomField(raw) = Classified(kind, pretty)
    BY <1>4 DEF ClassifyCustomField
  <2>2. PICK kind, pretty : kind \in {"structured", "primitive"}
                          /\ ClassifyCustomField(raw) = Classified(kind, pretty)
    BY <2>1
  <2>3. ClassifyCustomField(raw).kind = kind
    BY <1>1, <2>2
  <2> QED
    BY <1>4, <2>2, <2>3
<1> QED
  BY <1>2, <1>3, <1>4

(* A label is on one line.                                                 *)
LEMMA LabelIsALine ==
  ASSUME NEW r, IsResponse(r), NEW id \in ToSet(FieldIds)
  PROVE  LabelFor(id, ParseNames(r.names)) # "nl"
<1> DEFINE names == ParseNames(r.names)
<1>1. id # "nl"
  BY ContentAssumption
<1>2. CASE r.names.is # "ok"
  <2>1. DOMAIN names = {}
    BY <1>2 DEF ParseNames
  <2> HIDE DEF names
  <2>2. LabelFor(id, names) = id
    BY <2>1 DEF LabelFor
  <2> QED
    BY <1>1, <2>2 DEF names
<1>3. CASE r.names.is = "ok"
  <2> DEFINE ids == {i \in DOMAIN r.names.of : r.names.of[i].is = "ok"}
  <2>1. names = [i \in ids |-> r.names.of[i].of]
    BY <1>3 DEF ParseNames
  <2>2. \A i \in ids : r.names.of[i].of # "nl"
    BY <1>3 DEF IsResponse
  <2> HIDE DEF names, ids
  <2>3. id \in DOMAIN names => names[id] # "nl"
    BY <2>1, <2>2
  <2>4. LabelFor(id, names) \in {names[id], id} /\ (id \notin DOMAIN names => LabelFor(id, names) = id)
    BY DEF LabelFor
  <2>5. LabelFor(id, names) # "nl"
    BY <1>1, <2>3, <2>4
  <2> QED
    BY <2>5 DEF names
<1> QED
  BY <1>2, <1>3

ShownOf(in, withNulls) ==
  Only(FieldIds, {id \in DOMAIN in : in[id].is # "absent" /\ (withNulls \/ in[id].is # "null")})

(* The fields that are rendered are those to be shown, each with its       *)
(* entry.                                                                  *)
LEMMA FieldsOfResponse ==
  ASSUME NEW r, IsResponse(r), NEW withNulls \in BOOLEAN, NEW shown, NEW fields,
         shown = ShownOf(r.custom, withNulls),
         fields = RenderFields(FieldIds, PreserveCustomFields(r.custom), ParseNames(r.names), withNulls)
  PROVE  /\ DOMAIN shown = 1 .. Len(shown) /\ DOMAIN fields = DOMAIN shown /\ Len(fields) = Len(shown)
         /\ \A i \in DOMAIN shown :
              Entry(LabelFor(shown[i], ParseNames(r.names)), r.custom[shown[i]], fields[i])
<1> DEFINE in == r.custom
           kept == PreserveCustomFields(in)
           names == ParseNames(r.names)
           A == {id \in DOMAIN in : in[id].is # "absent" /\ (withNulls \/ in[id].is # "null")}
           B == {id \in DOMAIN kept : withNulls \/ ClassifyCustomField(kept[id]).kind # "null"}
<1>1. DOMAIN in = ToSet(FieldIds) /\ \A id \in DOMAIN in : IsValue(in[id])
  BY DEF IsResponse
<1>2. kept = [id \in {id \in DOMAIN in : in[id].is # "absent"} |-> in[id]]
  BY DEF PreserveCustomFields
<1> HIDE DEF in, kept, names
<1>3. ASSUME NEW id \in DOMAIN in, in[id].is # "absent"
      PROVE  id \in DOMAIN kept /\ kept[id] = in[id] /\ in[id].is \in {"null", "string", "value"}
  BY <1>1, <1>2, <1>3 DEF IsValue
<1>4. A = B
  <2>1. ASSUME NEW id \in DOMAIN in, in[id].is # "absent"
        PROVE  ClassifyCustomField(kept[id]).kind = "null" <=> in[id].is = "null"
    BY <1>3, <2>1, NullIsNull
  <2>2. DOMAIN kept = {id \in DOMAIN in : in[id].is # "absent"}
    BY <1>2
  <2> QED
    BY <2>1, <2>2
<1>5. shown = Only(FieldIds, A)
  BY DEF in, ShownOf
<1>6. shown \in Seq(A) /\ ToSet(shown) = ToSet(FieldIds) \cap A
  <2>1. FieldIds \in Seq(STRING)
    BY ContentAssumption
  <2> HIDE DEF A
  <2>2. Only(FieldIds, A) \in Seq(A) /\ ToSet(Only(FieldIds, A)) = ToSet(FieldIds) \cap A
    BY <2>1, OnlyType
  <2> QED
    BY <1>5, <2>2
<1>7. fields = [i \in DOMAIN shown |-> RenderField(LabelFor(shown[i], names), kept[shown[i]])]
  <2>1. shown = Only(FieldIds, B)
    BY <1>4, <1>5
  <2> HIDE DEF A
  <2> QED
    BY <2>1 DEF RenderFields, in, kept, names
<1>8. DOMAIN shown = 1 .. Len(shown) /\ DOMAIN fields = DOMAIN shown /\ Len(fields) = Len(shown)
  <2>1. DOMAIN shown = 1 .. Len(shown) /\ Len(shown) \in Nat
    BY <1>6
  <2>2. DOMAIN fields = DOMAIN shown
    BY <1>7
  <2>3. Len(fields) = Len(shown)
    BY <2>1, <1>7
  <2> QED
    BY <2>1, <2>2, <2>3
<1>9. ASSUME NEW i \in DOMAIN shown PROVE Entry(LabelFor(shown[i], names), in[shown[i]], fields[i])
  <2> DEFINE id == shown[i]
             label == LabelFor(id, names)
             raw == in[id]
             T == STRING \cup FieldTokens \cup {label}
  <2>1. id \in A /\ id \in ToSet(FieldIds)
    <3>1. shown[i] \in A
      BY <1>6
    <3> QED
      BY <1>1, <3>1
  <2>2. fields[i] = RenderField(label, raw)
    BY <1>3, <1>7, <2>1
  <2>3. label # "nl"
    BY <2>1, LabelIsALine DEF names
  <2>4. raw.is \in {"null", "string", "value"} /\ IsValue(raw)
    BY <1>1, <1>3, <2>1
  <2> HIDE DEF id, label, raw
  <2>5. raw.of \in Seq(STRING)
    BY <2>4 DEF IsValue
  <2>6. raw.of \in Seq(T)
    BY <2>5
  <2>7. FieldTokens \subseteq T /\ label \in T
    OBVIOUS
  <2>8. raw.is = "value" => raw.of # << >> /\ (raw.of[1] \in Openers \/ "nl" \notin ToSet(raw.of))
    BY <2>4 DEF IsValue
  <2> HIDE DEF T
  <2>9. Entry(label, raw, RenderField(label, raw))
    BY <2>3, <2>4, <2>6, <2>7, <2>8, RenderFieldKeeps
  <2> QED
    BY <2>2, <2>9 DEF id, label, raw
<1> QED
  BY <1>8, <1>9 DEF in, names

(* The texts of a document.                                                *)
TextBody(f, acc, c) == acc \o f[c]
TextLoop == INSTANCE LoopProofs WITH Body <- TextBody, Kept <- Held
TextsOf(e, f, n) ==
  IF n.type = "text" THEN <<n.text>>
  ELSE ForEach(n.content, << >>, LAMBDA acc, c : acc \o f[c])
TextNode == INSTANCE LoopProofs WITH Body <- TextsOf, Kept <- Held

(* A node has its content, all of it lower than itself.                    *)
LEMMA NodeIs ==
  ASSUME NEW n \in Nodes
  PROVE  /\ Height \in [Nodes -> Nat] /\ n.content \in Seq(Nodes) /\ Len(n.content) \in Nat
         /\ DOMAIN n.content = 1 .. Len(n.content)
         /\ \A i \in 1 .. Len(n.content) : n.content[i] \in Nodes /\ Height[n.content[i]] < Height[n]
<1>1. Height \in [Nodes -> Nat] /\ n.content \in Seq(Nodes) /\ \A i \in DOMAIN n.content : Height[n.content[i]] < Height[n]
  BY NodesAssumption
<1> DEFINE s == n.content
<1> HIDE DEF s
<1>2. s \in Seq(Nodes) /\ \A i \in DOMAIN s : Height[s[i]] < Height[n]
  BY <1>1 DEF s
<1>3. /\ Len(s) \in Nat /\ DOMAIN s = 1 .. Len(s)
      /\ \A i \in 1 .. Len(s) : s[i] \in Nodes /\ i \in DOMAIN s
  BY <1>2
<1> QED
  BY <1>1, <1>2, <1>3 DEF s

(* The texts of a node by those of its content: its own, or a loop.        *)
LEMMA TextsOfIs ==
  ASSUME NEW e, NEW f, NEW n
  PROVE  TextsOf(e, f, n) = IF n.type = "text" THEN <<n.text>> ELSE TextLoop!Loop(f, n.content, << >>)
BY DEF TextsOf, ForEach, Apply, TextLoop!Loop, TextLoop!ForEach, TextLoop!Apply, TextBody

(* collectText of a node is made of that of its content.                   *)
LEMMA CollectTextIs ==
  ASSUME NEW n \in Nodes
  PROVE  CollectText[n] = IF n.type = "text" THEN <<n.text>> ELSE TextLoop!Loop(CollectText, n.content, << >>)
<1>1. TextNode!Founded(0, Nodes, Height)
  <2>1. ASSUME NEW x \in Nodes, NEW f, NEW g, \A y \in Nodes : Height[y] < Height[x] => f[y] = g[y]
        PROVE  TextsOf(0, f, x) = TextsOf(0, g, x)
    <3> DEFINE s == x.content
    <3>1. Len(s) \in Nat /\ \A i \in 1 .. Len(s) : f[s[i]] = g[s[i]]
      BY <2>1, NodeIs
    <3>2. \A i \in 1 .. Len(s) : \A value : TextBody(f, value, s[i]) = TextBody(g, value, s[i])
      BY <3>1 DEF TextBody
    <3>3. Len(s) \in Nat
      BY <3>1
    <3> DEFINE none == << >>
    <3> HIDE DEF s, none
    <3>4. TextLoop!Loop(f, s, none) = TextLoop!Loop(g, s, none)
      BY <3>2, <3>3, TextLoop!LoopsAgree
    <3> QED
      BY <3>4, TextsOfIs DEF s, none
  <2> QED
    BY <2>1 DEF TextNode!Founded
<1>2. \E f : f = [x \in Nodes |-> TextsOf(0, f, x)]
  BY <1>1, NodesAssumption, TextNode!RecursionDefines
<1>3. CollectText = CHOOSE f : f = [x \in Nodes |-> TextsOf(0, f, x)]
  BY Zenon DEF CollectText, TextsOf
<1>4. CollectText = [x \in Nodes |-> TextsOf(0, CollectText, x)]
  BY <1>2, <1>3
<1>5. CollectText[n] = TextsOf(0, CollectText, n)
  BY <1>4
<1> QED
  BY <1>5, TextsOfIs

-----------------------------------------------------------------------------
(* The links of a document, and its nodes.                                 *)
LinkBody(f, acc, c) == acc \o f[c]
LinksFrom(e, f, n) == ForEach(n.content, LinksOf(n), LAMBDA acc, c : acc \o f[c])
LinkNode == INSTANCE LoopProofs WITH Body <- LinksFrom, Kept <- Held

(* The links of a node by those of its content: a loop after its own.      *)
LEMMA LinksFromIs ==
  ASSUME NEW e, NEW f, NEW n
  PROVE  LinksFrom(e, f, n) = TextLoop!Loop(f, n.content, LinksOf(n))
<1> DEFINE start == LinksOf(n)
<1>1. LinksFrom(e, f, n) = ForEach(n.content, start, LAMBDA acc, c : acc \o f[c])
  BY Zenon DEF LinksFrom
<1> HIDE DEF start
<1>2. ForEach(n.content, start, LAMBDA acc, c : acc \o f[c]) = TextLoop!Loop(f, n.content, start)
  BY DEF ForEach, Apply, TextLoop!Loop, TextLoop!ForEach, TextLoop!Apply, TextBody
<1> QED
  BY Zenon, <1>1, <1>2 DEF start

(* ExtractLinks of a node is made of that of its content.                  *)
LEMMA ExtractLinksIs ==
  ASSUME NEW n \in Nodes
  PROVE  ExtractLinks[n] = TextLoop!Loop(ExtractLinks, n.content, LinksOf(n))
<1>1. LinkNode!Founded(0, Nodes, Height)
  <2>1. ASSUME NEW x \in Nodes, NEW f, NEW g, \A y \in Nodes : Height[y] < Height[x] => f[y] = g[y]
        PROVE  LinksFrom(0, f, x) = LinksFrom(0, g, x)
    <3> DEFINE s == x.content
               start == LinksOf(x)
    <3>1. Len(s) \in Nat /\ \A i \in 1 .. Len(s) : f[s[i]] = g[s[i]]
      BY <2>1, NodeIs
    <3>2. \A i \in 1 .. Len(s) : \A value : TextBody(f, value, s[i]) = TextBody(g, value, s[i])
      BY <3>1 DEF TextBody
    <3>3. Len(s) \in Nat
      BY <3>1
    <3> HIDE DEF s, start
    <3>4. TextLoop!Loop(f, s, start) = TextLoop!Loop(g, s, start)
      BY <3>2, <3>3, TextLoop!LoopsAgree
    <3> QED
      BY <3>4, LinksFromIs DEF s, start
  <2> QED
    BY <2>1 DEF LinkNode!Founded
<1>2. \E f : f = [x \in Nodes |-> LinksFrom(0, f, x)]
  BY <1>1, NodesAssumption, LinkNode!RecursionDefines
<1>3. ExtractLinks = CHOOSE f : f = [x \in Nodes |-> LinksFrom(0, f, x)]
  BY Zenon DEF ExtractLinks, LinksFrom
<1>4. ExtractLinks = [x \in Nodes |-> LinksFrom(0, ExtractLinks, x)]
  BY <1>2, <1>3
<1>5. ExtractLinks[n] = LinksFrom(0, ExtractLinks, n)
  BY <1>4
<1> QED
  BY <1>5, LinksFromIs

WithinOf(e, f, n) == {n} \cup UNION {f[n.content[i]] : i \in DOMAIN n.content}
WithinNode == INSTANCE LoopProofs WITH Body <- WithinOf, Kept <- Held
ReachedOf(e, f, n) ==
  {n} \cup IF n.type \notin KnownTypes THEN {} ELSE UNION {f[n.content[i]] : i \in DOMAIN n.content}
ReachedNode == INSTANCE LoopProofs WITH Body <- ReachedOf, Kept <- Held

(* The nodes within a node are itself and those within its content.        *)
LEMMA WithinIs ==
  ASSUME NEW n \in Nodes
  PROVE  Within[n] = {n} \cup UNION {Within[n.content[i]] : i \in DOMAIN n.content}
<1>1. WithinNode!Founded(0, Nodes, Height)
  <2>1. ASSUME NEW x \in Nodes, NEW f, NEW g, \A y \in Nodes : Height[y] < Height[x] => f[y] = g[y]
        PROVE  WithinOf(0, f, x) = WithinOf(0, g, x)
    <3> DEFINE s == x.content
    <3>0. DOMAIN s = 1 .. Len(s) /\ \A i \in 1 .. Len(s) : s[i] \in Nodes /\ Height[s[i]] < Height[x]
      BY NodeIs
    <3> HIDE DEF s
    <3>1. \A i \in DOMAIN s : f[s[i]] = g[s[i]]
      BY <2>1, <3>0
    <3> QED
      BY <3>1 DEF WithinOf, s
  <2> QED
    BY <2>1 DEF WithinNode!Founded
<1>2. \E f : f = [x \in Nodes |-> WithinOf(0, f, x)]
  BY <1>1, NodesAssumption, WithinNode!RecursionDefines
<1>3. Within = CHOOSE f : f = [x \in Nodes |-> WithinOf(0, f, x)]
  BY DEF Within, WithinOf
<1>4. Within = [x \in Nodes |-> WithinOf(0, Within, x)]
  BY <1>2, <1>3
<1>5. Within[n] = WithinOf(0, Within, n)
  BY <1>4
<1> QED
  BY <1>5 DEF WithinOf

(* The renderer comes to what is within a node, unless its type is         *)
(* unknown.                                                                *)
LEMMA ReachedIs ==
  ASSUME NEW n \in Nodes
  PROVE  Reached[n] = {n} \cup IF n.type \notin KnownTypes THEN {}
                               ELSE UNION {Reached[n.content[i]] : i \in DOMAIN n.content}
<1> HIDE DEF KnownTypes
<1>1. ReachedNode!Founded(0, Nodes, Height)
  <2>1. ASSUME NEW x \in Nodes, NEW f, NEW g, \A y \in Nodes : Height[y] < Height[x] => f[y] = g[y]
        PROVE  ReachedOf(0, f, x) = ReachedOf(0, g, x)
    <3> DEFINE s == x.content
    <3>0. DOMAIN s = 1 .. Len(s) /\ \A i \in 1 .. Len(s) : s[i] \in Nodes /\ Height[s[i]] < Height[x]
      BY NodeIs
    <3> HIDE DEF s
    <3>1. \A i \in DOMAIN s : f[s[i]] = g[s[i]]
      BY <2>1, <3>0
    <3> QED
      BY <3>1 DEF ReachedOf, s
  <2> QED
    BY <2>1 DEF ReachedNode!Founded
<1>2. \E f : f = [x \in Nodes |-> ReachedOf(0, f, x)]
  BY <1>1, NodesAssumption, ReachedNode!RecursionDefines
<1>3. Reached = CHOOSE f : f = [x \in Nodes |-> ReachedOf(0, f, x)]
  BY DEF Reached, ReachedOf
<1>4. Reached = [x \in Nodes |-> ReachedOf(0, Reached, x)]
  BY <1>2, <1>3
<1>5. Reached[n] = ReachedOf(0, Reached, n)
  BY <1>4
<1> QED
  BY <1>5 DEF ReachedOf

-----------------------------------------------------------------------------
(* Rendering, defined.                                                     *)
ChildBody(d, acc, c) == d[1][c][d[2]][acc]
ChildLoop == INSTANCE LoopProofs WITH Body <- ChildBody, Kept <- Held
ItemBody(d, acc, c) ==
  IF c.type = "paragraph" THEN RenderChildren(d[1], c.content, d[2], acc) ELSE d[1][c][d[2]][acc]
ItemLoop == INSTANCE LoopProofs WITH Body <- ItemBody, Kept <- Held
ListBody(d, acc, c) ==
  IF c.type # "listItem" THEN d[1][c][d[2]][acc]
  ELSE Put(RenderListItem(d[1], c, d[2] + 1, Put(acc, Bullet(d[2]))), <<"nl">>)
ListLoop == INSTANCE LoopProofs WITH Body <- ListBody, Kept <- Held

(* renderChildren is a loop.                                               *)
LEMMA ChildrenIs ==
  ASSUME NEW render, NEW nodes, NEW depth, NEW r
  PROVE  RenderChildren(render, nodes, depth, r) = ChildLoop!Loop(<<render, depth>>, nodes, r)
BY DEF RenderChildren, ForEach, Apply, ChildLoop!Loop, ChildLoop!ForEach, ChildLoop!Apply, ChildBody

(* renderListItem is a loop.                                               *)
LEMMA ItemIs ==
  ASSUME NEW render, NEW item, NEW depth, NEW r
  PROVE  RenderListItem(render, item, depth, r) = ItemLoop!Loop(<<render, depth>>, item.content, r)
BY DEF RenderListItem, ForEach, Apply, ItemLoop!Loop, ItemLoop!ForEach, ItemLoop!Apply, ItemBody

(* renderList is a loop, after a blank line.                               *)
LEMMA ListIs ==
  ASSUME NEW render, NEW n, NEW depth, NEW r
  PROVE  RenderList(render, n, depth, r) = ListLoop!Loop(<<render, depth>>, n.content, EnsureBlankLine(r))
<1> DEFINE start == EnsureBlankLine(r)
           nodes == n.content
<1>1. RenderList(render, n, depth, r) = ForEach(nodes, start, LAMBDA acc, c :
    IF c.type # "listItem" THEN render[c][depth][acc]
    ELSE Put(RenderListItem(render, c, depth + 1, Put(acc, Bullet(depth))), <<"nl">>))
  BY DEF RenderList
<1> HIDE DEF start, nodes
<1>2. ListLoop!Loop(<<render, depth>>, nodes, start) = ForEach(nodes, start, LAMBDA acc, c :
    IF c.type # "listItem" THEN render[c][depth][acc]
    ELSE Put(RenderListItem(render, c, depth + 1, Put(acc, Bullet(depth))), <<"nl">>))
  BY DEF ForEach, Apply, ListLoop!Loop, ListLoop!ForEach, ListLoop!Apply, ListBody
<1> QED
  BY Zenon, <1>1, <1>2 DEF start, nodes

(* What is rendered of a node depends on those below it only.              *)
Alike(f, g, h) == \A y \in Nodes : Height[y] < h => f[y] = g[y]

(* What agrees below a node agrees at, and below, each lower one.          *)
LEMMA AlikeBelow ==
  ASSUME NEW f, NEW g, NEW n \in Nodes, Alike(f, g, Height[n]), NEW x \in Nodes, Height[x] < Height[n]
  PROVE  f[x] = g[x] /\ Alike(f, g, Height[x])
<1>1. Height[n] \in Nat /\ Height[x] \in Nat
  BY NodeIs
<1>2. ASSUME NEW y \in Nodes, Height[y] < Height[x] PROVE Height[y] < Height[n]
  <2>1. Height[y] \in Nat
    BY NodeIs
  <2> QED
    BY <1>1, <1>2, <2>1
<1> QED
  BY <1>2 DEF Alike

(* The children are rendered alike.                                        *)
LEMMA ChildrenAlike ==
  ASSUME NEW n \in Nodes, NEW f, NEW g, Alike(f, g, Height[n]), NEW depth, NEW r
  PROVE  RenderChildren(f, n.content, depth, r) = RenderChildren(g, n.content, depth, r)
<1> DEFINE s == n.content
           c == <<f, depth>>
           e == <<g, depth>>
<1>1. Len(s) \in Nat /\ \A i \in 1 .. Len(s) : s[i] \in Nodes /\ Height[s[i]] < Height[n]
  BY NodeIs
<1>3. c[1] = f /\ c[2] = depth /\ e[1] = g /\ e[2] = depth
  OBVIOUS
<1> HIDE DEF s, c, e
<1>4. \A i \in 1 .. Len(s) : f[s[i]] = g[s[i]]
  BY <1>1, AlikeBelow
<1>5. \A i \in 1 .. Len(s) : \A value : ChildBody(c, value, s[i]) = ChildBody(e, value, s[i])
  BY <1>3, <1>4 DEF ChildBody
<1>6. Len(s) \in Nat
  BY <1>1
<1>7. ChildLoop!Loop(c, s, r) = ChildLoop!Loop(e, s, r)
  <2>1. ChildLoop!SameBody(c, e, s)
    BY <1>5, <1>6 DEF ChildLoop!SameBody
  <2> QED
    BY <2>1, ChildLoop!SameLoop
<1> QED
  BY <1>7, ChildrenIs DEF c, e, s

(* The content of a list item is rendered alike.                           *)
LEMMA ItemsAlike ==
  ASSUME NEW n \in Nodes, NEW f, NEW g, Alike(f, g, Height[n]), NEW depth, NEW r
  PROVE  RenderListItem(f, n, depth, r) = RenderListItem(g, n, depth, r)
<1> DEFINE s == n.content
           c == <<f, depth>>
           e == <<g, depth>>
<1>1. Len(s) \in Nat /\ \A i \in 1 .. Len(s) : s[i] \in Nodes /\ Height[s[i]] < Height[n]
  BY NodeIs
<1>3. c[1] = f /\ c[2] = depth /\ e[1] = g /\ e[2] = depth
  OBVIOUS
<1> HIDE DEF s, c, e
<1>4. \A i \in 1 .. Len(s) : f[s[i]] = g[s[i]] /\ Alike(f, g, Height[s[i]])
  BY <1>1, AlikeBelow
<1>2. ASSUME NEW x \in Nodes, Alike(f, g, Height[x]), NEW value
      PROVE  RenderChildren(f, x.content, depth, value) = RenderChildren(g, x.content, depth, value)
  BY <1>2, ChildrenAlike
<1>5. ASSUME NEW i \in 1 .. Len(s), NEW value PROVE ItemBody(c, value, s[i]) = ItemBody(e, value, s[i])
  <2>1. RenderChildren(f, s[i].content, depth, value) = RenderChildren(g, s[i].content, depth, value)
    BY <1>1, <1>2, <1>4
  <2> QED
    BY <1>3, <1>4, <2>1 DEF ItemBody
<1>6. Len(s) \in Nat
  BY <1>1
<1>7. ItemLoop!Loop(c, s, r) = ItemLoop!Loop(e, s, r)
  <2>1. ItemLoop!SameBody(c, e, s)
    BY <1>5, <1>6 DEF ItemLoop!SameBody
  <2> QED
    BY <2>1, ItemLoop!SameLoop
<1> QED
  BY <1>7, ItemIs DEF c, e, s

(* The items of a list are rendered alike.                                 *)
LEMMA ListsAlike ==
  ASSUME NEW n \in Nodes, NEW f, NEW g, Alike(f, g, Height[n]), NEW depth, NEW r
  PROVE  RenderList(f, n, depth, r) = RenderList(g, n, depth, r)
<1> DEFINE s == n.content
           c == <<f, depth>>
           e == <<g, depth>>
           start == EnsureBlankLine(r)
<1>1. Len(s) \in Nat /\ \A i \in 1 .. Len(s) : s[i] \in Nodes /\ Height[s[i]] < Height[n]
  BY NodeIs
<1>3. c[1] = f /\ c[2] = depth /\ e[1] = g /\ e[2] = depth
  OBVIOUS
<1> HIDE DEF s, c, e
<1>4. \A i \in 1 .. Len(s) : f[s[i]] = g[s[i]] /\ Alike(f, g, Height[s[i]])
  BY <1>1, AlikeBelow
<1>5. ASSUME NEW i \in 1 .. Len(s), NEW value PROVE ListBody(c, value, s[i]) = ListBody(e, value, s[i])
  <2> DEFINE acc == Put(value, Bullet(depth))
             more == depth + 1
             x == s[i]
  <2>1. x \in Nodes /\ Alike(f, g, Height[x])
    BY <1>1, <1>4
  <2>2. f[x] = g[x]
    BY <1>4
  <2>3. ListBody(c, value, x) = IF x.type # "listItem" THEN f[x][depth][value]
                                ELSE Put(RenderListItem(f, x, more, acc), <<"nl">>)
    BY <1>3 DEF ListBody
  <2>4. ListBody(e, value, x) = IF x.type # "listItem" THEN g[x][depth][value]
                                ELSE Put(RenderListItem(g, x, more, acc), <<"nl">>)
    BY <1>3 DEF ListBody
  <2> HIDE DEF acc, x, more
  <2>5. RenderListItem(f, x, more, acc) = RenderListItem(g, x, more, acc)
    BY <2>1, ItemsAlike
  <2>6. ListBody(c, value, x) = ListBody(e, value, x)
    BY <2>2, <2>3, <2>4, <2>5
  <2> QED
    BY <2>6 DEF x
<1>6. Len(s) \in Nat
  BY <1>1
<1> HIDE DEF start
<1>7. ListLoop!Loop(c, s, start) = ListLoop!Loop(e, s, start)
  <2>1. ListLoop!SameBody(c, e, s)
    BY <1>5, <1>6 DEF ListLoop!SameBody
  <2> QED
    BY <2>1, ListLoop!SameLoop
<1> QED
  BY <1>7, ListIs DEF c, e, s, start

(* So is every node, whatever its type.                                    *)
LEMMA BelowAlike ==
  ASSUME NEW n \in Nodes, NEW f, NEW g, Alike(f, g, Height[n]), NEW depth, NEW r
  PROVE  RenderBelow(f, n, depth, r) = RenderBelow(g, n, depth, r)
<1>1. \A acc : RenderChildren(f, n.content, depth, acc) = RenderChildren(g, n.content, depth, acc)
  BY ChildrenAlike
<1>2. RenderList(f, n, depth, r) = RenderList(g, n, depth, r)
  BY ListsAlike
<1>3. RenderBlockquote(f, n, depth, r) = RenderBlockquote(g, n, depth, r)
  BY <1>1 DEF RenderBlockquote
<1> DEFINE t == n.type
<1>4. CASE t \in {"doc", "listItem"}
  BY Zenon, <1>1, <1>4 DEF RenderBelow
<1>5. CASE t = "paragraph"
  BY <1>1, <1>5 DEF RenderBelow
<1>6. CASE t = "heading"
  BY Zenon, <1>1, <1>6 DEF RenderBelow
<1>7. CASE t = "text" \/ t = "hardBreak" \/ t = "codeBlock"
  BY Zenon, <1>7 DEF RenderBelow
<1>8. CASE t \in {"bulletList", "orderedList"}
  BY <1>2, <1>8 DEF RenderBelow
<1>9. CASE t = "blockquote"
  BY <1>3, <1>9 DEF RenderBelow
<1>10. CASE t \notin {"doc", "listItem", "paragraph", "heading", "text", "hardBreak", "codeBlock",
                      "bulletList", "orderedList", "blockquote"}
  BY Zenon, <1>10 DEF RenderBelow
<1> QED
  BY <1>4, <1>5, <1>6, <1>7, <1>8, <1>9, <1>10

RenderedOf(e, f, n) == [depth \in Nat |-> [r \in Renderings |-> RenderBelow(f, n, depth, r)]]
RenderedNode == INSTANCE LoopProofs WITH Body <- RenderedOf, Kept <- Held

(* renderNode is well defined: a node is rendered by what renders its      *)
(* content.                                                                *)
LEMMA RenderNodeIs ==
  ASSUME NEW n \in Nodes, NEW depth \in Nat, NEW r \in Renderings
  PROVE  RenderNode[n][depth][r] = RenderBelow(RenderNode, n, depth, r)
<1>1. RenderedNode!Founded(0, Nodes, Height)
  <2>1. ASSUME NEW x \in Nodes, NEW f, NEW g, \A y \in Nodes : Height[y] < Height[x] => f[y] = g[y]
        PROVE  RenderedOf(0, f, x) = RenderedOf(0, g, x)
    <3>1. Alike(f, g, Height[x])
      BY <2>1 DEF Alike
    <3>2. \A d, q : RenderBelow(f, x, d, q) = RenderBelow(g, x, d, q)
      BY <3>1, BelowAlike
    <3> QED
      BY <3>2 DEF RenderedOf
  <2> QED
    BY <2>1 DEF RenderedNode!Founded
<1>2. \E f : f = [x \in Nodes |-> RenderedOf(0, f, x)]
  BY <1>1, NodesAssumption, RenderedNode!RecursionDefines
<1>3. RenderNode = CHOOSE f : f = [x \in Nodes |-> RenderedOf(0, f, x)]
  BY DEF RenderNode, RenderedOf
<1>4. RenderNode = [x \in Nodes |-> RenderedOf(0, RenderNode, x)]
  BY <1>2, <1>3
<1>5. RenderNode[n] = RenderedOf(0, RenderNode, n)
  BY <1>4
<1> QED
  BY <1>5 DEF RenderedOf

-----------------------------------------------------------------------------
(* The reader of a page.                                                   *)
ReadBody(c, a, t) == ReadToken(a, t)
ReadLoop == INSTANCE LoopProofs WITH Body <- ReadBody, Kept <- Held
State(buf) == ForEach(buf, AtFirst, ReadToken)

(* The reader reads a page token by token.                                 *)
LEMMA StateIs ==
  ASSUME NEW buf
  PROVE  State(buf) = ReadLoop!Loop(0, buf, AtFirst)
<1> DEFINE start == AtFirst
<1>1. State(buf) = ForEach(buf, start, ReadToken)
  BY DEF State
<1> HIDE DEF start
<1>2. ForEach(buf, start, ReadToken) = ReadLoop!Loop(0, buf, start)
  BY DEF ForEach, Apply, ReadLoop!Loop, ReadLoop!ForEach, ReadLoop!Apply, ReadBody
<1> QED
  BY <1>1, <1>2 DEF start

(* Before the page it is at the beginning of a line.                       *)
LEMMA StateOfNothing == State(<< >>) = AtFirst
BY StateIs, ReadLoop!LoopOfNothing

(* One more token is read after the others.                                *)
LEMMA StateOfAppend ==
  ASSUME NEW T, NEW s \in Seq(T), NEW x
  PROVE  State(Append(s, x)) = ReadToken(State(s), x)
<1>1. ReadLoop!Loop(0, Append(s, x), AtFirst) = ReadBody(0, ReadLoop!Loop(0, s, AtFirst), x)
  BY ReadLoop!LoopOfAppend
<1> QED
  BY <1>1, StateIs DEF ReadBody

(* What a token does to the reader.                                        *)
LEMMA ReadTokenIs ==
  ASSUME NEW a, NEW t
  PROVE  /\ ReadToken(a, t).fresh <=> t = "nl" \/ (a.fresh /\ t \in {"> ", "  "})
         /\ ReadToken(a, t).open <=> IF t = "fence" THEN ~a.open ELSE a.open
         /\ ReadToken(a, t).well <=> /\ a.well
                                     /\ t \in {"# ", "- ", "fence"} => a.fresh
                                     /\ a.open => t \in Words \cup {"fence", "nl", "> "}
<1>1. ReadToken(a, t).fresh <=> t = "nl" \/ (a.fresh /\ t \in {"> ", "  "})
  BY Zenon DEF ReadToken
<1>2. ReadToken(a, t).open <=> IF t = "fence" THEN ~a.open ELSE a.open
  BY DEF ReadToken
<1>3. ReadToken(a, t).well <=> /\ a.well
                               /\ t \in {"# ", "- ", "fence"} => a.fresh
                               /\ a.open => t \in Words \cup {"fence", "nl", "> "}
  BY DEF ReadToken
<1> QED
  BY Zenon, <1>1, <1>2, <1>3

-----------------------------------------------------------------------------
(* What a rendering adds to one.                                           *)
Sound(buf) == State(buf).well /\ ~State(buf).open
Fresh(buf) == State(buf).fresh
Quiet == Tokens \ {"# ", "- ", "fence"}
Grows(r, more, words, types) ==
  /\ more \in Renderings
  /\ Only(more.buf, Words) = Only(r.buf, Words) \o words
  /\ ToSet(more.unknown) = ToSet(r.unknown) \cup types
  /\ Sound(r.buf) => Sound(more.buf)

(* Words, targets and markup, and which of them are without meaning for    *)
(* the lines.                                                              *)
LEMMA TokensAre ==
  /\ Words \subseteq Tokens /\ Targets \subseteq Tokens /\ Markup \subseteq Tokens
  /\ Words \subseteq Quiet /\ Targets \subseteq Quiet /\ Quiet \subseteq Tokens
  /\ Words \cap (Markup \cup Targets) = {}
  /\ {"nl", "  ", "> ", "[", "]", "strong", "em", "code", "<!-- mark -->", "<!-- node -->"} \subseteq Quiet \cap Markup
  /\ {"# ", "- ", "fence"} \subseteq Markup
<1>1. Words \cap (Markup \cup Targets) = {} /\ Targets \cap Markup = {}
  BY NodesAssumption
<1>2. Words \subseteq Tokens /\ Targets \subseteq Tokens /\ Markup \subseteq Tokens
  BY DEF Tokens
<1> DEFINE signs == {"nl", "  ", "> ", "[", "]", "strong", "em", "code", "<!-- mark -->", "<!-- node -->"}
           markers == {"# ", "- ", "fence"}
<1>3. signs \subseteq Markup /\ markers \subseteq Markup /\ signs \cap markers = {}
  BY DEF Markup
<1>4. Quiet = Tokens \ markers
  BY DEF Quiet
<1> HIDE DEF signs, markers
<1>5. Words \subseteq Quiet /\ Targets \subseteq Quiet /\ signs \subseteq Quiet /\ Quiet \subseteq Tokens
  BY <1>1, <1>2, <1>3, <1>4
<1> QED
  BY Zenon, <1>1, <1>2, <1>3, <1>5 DEF signs, markers

(* A text has all of its words.                                            *)
LEMMA WordsOfWords ==
  ASSUME NEW s \in Seq(Words)
  PROVE  Only(s, Words) = s
BY OnlyAll

(* Markup and targets have none.                                           *)
LEMMA WordsOfOthers ==
  ASSUME NEW s \in Seq(Markup \cup Targets)
  PROVE  Only(s, Words) = << >>
<1> DEFINE T == Markup \cup Targets
<1>1. T \cap Words = {} /\ s \in Seq(T)
  BY Zenon, TokensAre
<1> HIDE DEF T
<1> QED
  BY <1>1, OnlyNone

(* A page has tokens, and words among them.                                *)
LEMMA RenderingIs ==
  ASSUME NEW r \in Renderings
  PROVE  r.buf \in Seq(Tokens) /\ r.unknown \in Seq(Types) /\ Only(r.buf, Words) \in Seq(Words)
<1>1. r.buf \in Seq(Tokens) /\ r.unknown \in Seq(Types)
  BY DEF Renderings
<1> QED
  BY <1>1, OnlyType

(* What is put is put at the end.                                          *)
LEMMA PutIs ==
  ASSUME NEW r \in Renderings, NEW t \in Seq(Tokens)
  PROVE  Put(r, t) \in Renderings /\ Put(r, t).buf = r.buf \o t /\ Put(r, t).unknown = r.unknown
<1>1. r.buf \in Seq(Tokens)
  BY RenderingIs
<1>2. r.buf \o t \in Seq(Tokens)
  BY <1>1
<1> QED
  BY <1>2 DEF Put, Renderings

(* Two additions, one after the other, are one.                            *)
LEMMA GrowsOn ==
  ASSUME NEW r \in Renderings, NEW u, NEW v, NEW a \in Seq(Words), NEW b \in Seq(Words), NEW A, NEW B,
         Grows(r, u, a, A), Grows(u, v, b, B)
  PROVE  Grows(r, v, a \o b, A \cup B)
<1> DEFINE w == Only(r.buf, Words)
<1>1. w \in Seq(Words) /\ u \in Renderings /\ v \in Renderings
  BY RenderingIs DEF Grows
<1>2. Only(u.buf, Words) = w \o a /\ Only(v.buf, Words) = Only(u.buf, Words) \o b
  BY DEF Grows
<1> HIDE DEF w
<1>3. (w \o a) \o b = w \o (a \o b)
  BY <1>1, Associative
<1>4. ToSet(v.unknown) = ToSet(r.unknown) \cup (A \cup B)
  BY DEF Grows
<1>5. Sound(r.buf) => Sound(v.buf)
  BY DEF Grows
<1>6. Only(v.buf, Words) = w \o (a \o b)
  BY <1>2, <1>3
<1> QED
  BY <1>1, <1>4, <1>5, <1>6 DEF Grows, w

(* Nothing added.                                                          *)
LEMMA GrowsNothing ==
  ASSUME NEW r \in Renderings
  PROVE  Grows(r, r, << >>, {})
<1>1. Only(r.buf, Words) \in Seq(Words)
  BY RenderingIs
<1>2. Only(r.buf, Words) = Only(r.buf, Words) \o << >>
  BY <1>1
<1> QED
  BY <1>2 DEF Grows

(* What has no meaning for the lines does no harm.                         *)
LEMMA SoundOn ==
  ASSUME NEW buf \in Seq(Tokens), Sound(buf), NEW t \in Seq(Quiet)
  PROVE  Sound(buf \o t)
<1> DEFINE S == {u \in Seq(Quiet) : Sound(buf \o u)}
<1>1. << >> \in S
  <2>1. buf \o << >> = buf /\ << >> \in Seq(Quiet)
    OBVIOUS
  <2> QED
    BY <2>1
<1>2. ASSUME NEW u \in Seq(Quiet), NEW x \in Quiet, u \in S PROVE Append(u, x) \in S
  <2> DEFINE p == buf \o u
  <2>1. u \in Seq(Tokens) /\ x \in Tokens
    BY Zenon, TokensAre, SeqMonotonic
  <2>2. p \in Seq(Tokens) /\ buf \o Append(u, x) = Append(p, x) /\ Append(u, x) \in Seq(Quiet)
    BY <2>1
  <2>3. Sound(p)
    BY <1>2
  <2> HIDE DEF p
  <2>4. State(Append(p, x)) = ReadToken(State(p), x)
    BY <2>2, StateOfAppend
  <2>5. x \notin {"# ", "- ", "fence"} /\ x # "fence"
    BY Zenon DEF Quiet
  <2>6. Sound(Append(p, x))
    BY Zenon, <2>3, <2>4, <2>5, ReadTokenIs DEF Sound
  <2> QED
    BY <2>2, <2>6
<1> HIDE DEF S
<1>3. Seq(Quiet) \subseteq S
  BY <1>1, <1>2, OnlyLoop!InductionOverSeq
<1> QED
  BY <1>3 DEF S

(* Quiet tokens add their words.                                           *)
LEMMA PutGrows ==
  ASSUME NEW r \in Renderings, NEW t \in Seq(Quiet)
  PROVE  Grows(r, Put(r, t), Only(t, Words), {})
<1> DEFINE b == r.buf
<1>1. b \in Seq(Tokens)
  BY RenderingIs
<1>2. t \in Seq(Tokens)
  BY Zenon, TokensAre, SeqMonotonic
<1>3. Put(r, t) \in Renderings /\ Put(r, t).buf = b \o t /\ Put(r, t).unknown = r.unknown
  BY <1>2, PutIs
<1> HIDE DEF b
<1>4. Only(b \o t, Words) = Only(b, Words) \o Only(t, Words)
  BY <1>1, <1>2, OnlyOfBoth
<1>5. Sound(b) => Sound(b \o t)
  BY <1>1, SoundOn
<1> QED
  BY <1>3, <1>4, <1>5 DEF Grows, b

(* After a line break a line begins.                                       *)
LEMMA FreshAfterBreak ==
  ASSUME NEW buf \in Seq(Tokens), buf # << >>, buf[Len(buf)] = "nl"
  PROVE  Fresh(buf)
<1> DEFINE n == Len(buf)
           p == SubSeq(buf, 1, n - 1)
           x == buf[n]
<1>1. n \in Nat /\ n # 0
  BY LengthOfSome
<1>2. p \in Seq(Tokens) /\ buf = Append(p, x)
  BY <1>1
<1>3. x = "nl"
  OBVIOUS
<1> HIDE DEF p, n, x
<1>4. State(Append(p, x)) = ReadToken(State(p), x)
  BY <1>2, StateOfAppend
<1>5. ReadToken(State(p), x).fresh
  BY Zenon, <1>3, ReadTokenIs
<1> QED
  BY <1>2, <1>4, <1>5 DEF Fresh

-----------------------------------------------------------------------------
(* Pieces that are written.                                                *)
Signs == Quiet \cap (Markup \cup Targets)

(* Signs are quiet.                                                        *)
LEMMA SignsAre ==
  /\ {"nl", "  ", "> ", "[", "]", "strong", "em", "code", "<!-- mark -->", "<!-- node -->"} \subseteq Signs
  /\ Targets \subseteq Signs /\ Signs \subseteq Tokens /\ Signs \subseteq Quiet
BY Zenon, TokensAre DEF Signs

(* Signs have no words.                                                    *)
LEMMA SignsSay ==
  ASSUME NEW t \in Seq(Signs)
  PROVE  Only(t, Words) = << >> /\ t \in Seq(Quiet) /\ t \in Seq(Tokens)
<1>1. t \in Seq(Markup \cup Targets) /\ t \in Seq(Quiet) /\ t \in Seq(Tokens)
  <2>1. Signs \subseteq Markup \cup Targets /\ Signs \subseteq Quiet /\ Signs \subseteq Tokens
    BY Zenon, SignsAre DEF Signs
  <2> QED
    BY <2>1, SeqMonotonic
<1> QED
  BY <1>1, WordsOfOthers

(* Signs add nothing.                                                      *)
LEMMA PutSigns ==
  ASSUME NEW r \in Renderings, NEW t \in Seq(Signs)
  PROVE  Grows(r, Put(r, t), << >>, {})
BY SignsSay, PutGrows

(* What ends with a line break leaves the page at the beginning of a line. *)
LEMMA FreshPut ==
  ASSUME NEW s \in Seq(Tokens), NEW t \in Seq(Tokens), t # << >>, t[Len(t)] = "nl"
  PROVE  s \o t \in Seq(Tokens) /\ Fresh(s \o t)
<1> DEFINE p == s \o t
           x == t[Len(t)]
<1>1. Len(t) \in Nat /\ Len(t) # 0
  BY LengthOfSome
<1>2. p \in Seq(Tokens) /\ Len(p) = Len(s) + Len(t) /\ Len(s) \in Nat /\ \A i \in 1 .. Len(t) : p[Len(s) + i] = t[i]
  OBVIOUS
<1>3. x = "nl"
  OBVIOUS
<1> HIDE DEF p, x
<1>4. Len(p) # 0 /\ p[Len(p)] = x
  BY <1>1, <1>2 DEF x
<1>5. p # << >>
  BY <1>2, <1>4
<1>6. Fresh(p)
  BY <1>2, <1>3, <1>4, <1>5, FreshAfterBreak
<1> QED
  BY <1>2, <1>6 DEF p

(* A page with one more token, read.                                       *)
LEMMA OneMore ==
  ASSUME NEW s \in Seq(Tokens), NEW x \in Tokens
  PROVE  s \o <<x>> \in Seq(Tokens) /\ State(s \o <<x>>) = ReadToken(State(s), x)
<1>1. s \o <<x>> = Append(s, x) /\ Append(s, x) \in Seq(Tokens)
  OBVIOUS
<1>2. State(Append(s, x)) = ReadToken(State(s), x)
  BY StateOfAppend
<1> QED
  BY <1>1, <1>2

(* ensureBlankLine adds no words and brings the page to the beginning of a *)
(* line.                                                                   *)
LEMMA EnsureGrows ==
  ASSUME NEW r \in Renderings
  PROVE  Grows(r, EnsureBlankLine(r), << >>, {}) /\ Fresh(EnsureBlankLine(r).buf)
<1> DEFINE b == r.buf
           n == Len(b)
           one == <<"nl">>
           two == <<"nl", "nl">>
           e == EnsureBlankLine(r)
<1>1. b \in Seq(Tokens)
  BY RenderingIs
<1>2. one \in Seq(Signs) /\ two \in Seq(Signs) /\ one # << >> /\ two # << >>
  <2>1. "nl" \in Signs
    BY Zenon, SignsAre
  <2> QED
    BY <2>1, One, Pair
<1>3. one[Len(one)] = "nl" /\ two[Len(two)] = "nl"
  OBVIOUS
<1>4. \/ e = r /\ b = << >>
      \/ e = Put(r, two)
      \/ e = Put(r, one)
      \/ e = r /\ b # << >> /\ b[Len(b)] = "nl"
  <2>1. CASE n = 0
    BY <1>1, <2>1 DEF EnsureBlankLine
  <2>2. CASE n # 0
    <3>1. b # << >>
      BY <2>2
    <3>2. e = IF b[n] # "nl" THEN Put(r, two) ELSE IF n = 1 \/ b[n - 1] # "nl" THEN Put(r, one) ELSE r
      BY <2>2 DEF EnsureBlankLine
    <3> HIDE DEF e, one, two
    <3> QED
      BY <3>1, <3>2
  <2> QED
    BY <2>1, <2>2
<1> HIDE DEF b, one, two, e
<1>5. ASSUME NEW t \in Seq(Signs), t # << >>, t[Len(t)] = "nl", e = Put(r, t)
      PROVE  Grows(r, e, << >>, {}) /\ Fresh(e.buf)
  <2>1. t \in Seq(Tokens)
    BY SignsSay
  <2>2. e.buf = b \o t
    BY <1>5, <2>1, PutIs DEF b
  <2>3. Fresh(b \o t)
    BY <1>1, <1>5, <2>1, FreshPut
  <2>4. Grows(r, e, << >>, {})
    BY <1>5, PutSigns
  <2> QED
    BY <2>2, <2>3, <2>4
<1>6. CASE e = r /\ b = << >>
  <2>1. Fresh(b)
    BY <1>6, StateOfNothing DEF Fresh, AtFirst
  <2> QED
    BY <1>6, <2>1, GrowsNothing DEF e, b
<1>7. CASE e = r /\ b # << >> /\ b[Len(b)] = "nl"
  <2>1. Fresh(b)
    BY <1>1, <1>7, FreshAfterBreak
  <2> QED
    BY <1>7, <2>1, GrowsNothing DEF e, b
<1>8. Grows(r, e, << >>, {}) /\ Fresh(e.buf)
  BY <1>2, <1>3, <1>4, <1>5, <1>6, <1>7 DEF e
<1> QED
  BY <1>8 DEF e

(* A text in its marks.                                                    *)
Saying(t, words) == t \in Seq(Quiet) /\ Only(t, Words) = words

(* Signs before or after a text change nothing of what it says.            *)
LEMMA Framed ==
  ASSUME NEW words \in Seq(Words), NEW t, Saying(t, words), NEW a \in Seq(Signs)
  PROVE  Saying(a \o t, words) /\ Saying(t \o a, words)
<1>1. a \in Seq(Quiet) /\ Only(a, Words) = << >> /\ t \in Seq(Quiet) /\ Only(t, Words) = words
  BY SignsSay DEF Saying
<1> DEFINE Q == Quiet
<1>2. Only(a \o t, Words) = Only(a, Words) \o Only(t, Words) /\ Only(t \o a, Words) = Only(t, Words) \o Only(a, Words)
  <2>1. a \in Seq(Q) /\ t \in Seq(Q)
    BY <1>1
  <2> HIDE DEF Q
  <2>2. Only(a \o t, Words) = Only(a, Words) \o Only(t, Words)
    BY <2>1, OnlyOfBoth
  <2>3. Only(t \o a, Words) = Only(t, Words) \o Only(a, Words)
    BY <2>1, OnlyOfBoth
  <2> QED
    BY <2>2, <2>3
<1>3. a \o t \in Seq(Quiet) /\ t \o a \in Seq(Quiet)
  BY <1>1
<1>4. << >> \o words = words /\ words \o << >> = words
  OBVIOUS
<1> QED
  BY <1>1, <1>2, <1>3, <1>4 DEF Saying

(* Nor does a mark around it.                                              *)
LEMMA AroundSays ==
  ASSUME NEW words \in Seq(Words), NEW t, Saying(t, words), NEW n, NEW type \in Signs
  PROVE  Saying(Around(n, type, t), words)
<1> DEFINE a == <<type>>
<1>1. a \in Seq(Signs)
  OBVIOUS
<1>2. Around(n, type, t) = IF HasMark(n, type) THEN (a \o t) \o a ELSE t
  BY DEF Around
<1> HIDE DEF a
<1> DEFINE p == a \o t
<1>3. Saying(p, words)
  BY <1>1, Framed
<1> HIDE DEF p
<1>4. Saying(p \o a, words)
  BY <1>1, <1>3, Framed
<1> QED
  BY <1>2, <1>4 DEF p

(* A text in all its marks says its text.                                  *)
LEMMA TextSays ==
  ASSUME NEW n \in Nodes, n.type = "text"
  PROVE  Saying(RenderText(n), <<n.text>>) /\ n.text \in Words /\ <<n.text>> \in Seq(Words)
<1> DEFINE words == <<n.text>>
           c == Around(n, "code", <<n.text>>)
           e == Around(n, "em", c)
           s == Around(n, "strong", e)
           others == Only(n.marks, {m \in Marks : m.type \notin KnownMarks})
           mark == "<!-- mark -->"
           tail == [i \in DOMAIN others |-> mark]
           href == LinkHref(n)
           linked == IF href # Empty THEN <<"[">> \o s \o <<"]", href>> ELSE s
<1>1. n.text \in Words
  BY NodesAssumption DEF Words
<1>2. words \in Seq(Words)
  BY <1>1
<1>3. RenderText(n) = linked \o tail
  BY DEF RenderText
<1>4. "code" \in Signs /\ "em" \in Signs /\ "strong" \in Signs /\ "[" \in Signs /\ "]" \in Signs
      /\ mark \in Signs
  BY Zenon, SignsAre
<1>5. Saying(<<n.text>>, words)
  <2>1. words \in Seq(Quiet)
    BY Zenon, <1>2, TokensAre, SeqMonotonic
  <2>2. Only(words, Words) = words
    BY <1>2, WordsOfWords
  <2> HIDE DEF words
  <2> QED
    BY <2>1, <2>2 DEF Saying, words
<1> HIDE DEF words
<1>6. Saying(c, words)
  BY Zenon, <1>2, <1>4, <1>5, AroundSays
<1> HIDE DEF c
<1>7. Saying(e, words)
  BY Zenon, <1>2, <1>4, <1>6, AroundSays
<1> HIDE DEF e
<1>8. Saying(s, words)
  BY Zenon, <1>2, <1>4, <1>7, AroundSays
<1> HIDE DEF s
<1>9. n.marks \in Seq(Marks)
  BY NodesAssumption
<1>10. href # Empty => href \in Signs
  <2> DEFINE links == LinkMarks(n)
  <2>1. links \in Seq(Marks)
    <3> DEFINE M == {m \in Marks : m.type = "link"}
               marks == n.marks
    <3>1. links = Only(marks, M) /\ marks \in Seq(Marks)
      BY <1>9 DEF LinkMarks
    <3> HIDE DEF M, links, marks
    <3> QED
      BY <3>1, OnlyType
  <2>2. href = IF links = << >> THEN Empty ELSE links[1].href
    BY DEF LinkHref
  <2> HIDE DEF href, links
  <2>3. links # << >> => links[1] \in Marks
    BY <2>1
  <2>4. href # Empty => href \in Targets
    BY <2>2, <2>3 DEF Targets
  <2> QED
    BY Zenon, <2>4, SignsAre
<1> HIDE DEF href
<1>11. Saying(linked, words)
  <2>1. CASE href = Empty
    BY <1>8, <2>1
  <2>2. CASE href # Empty
    <3> DEFINE a == <<"[">>
               b == <<"]", href>>
               p == a \o s
    <3>1. a \in Seq(Signs) /\ b \in Seq(Signs)
      BY Zenon, <1>4, <1>10, <2>2, One, Pair
    <3>2. linked = p \o b
      BY <2>2
    <3> HIDE DEF a, b, linked
    <3>3. Saying(p, words)
      BY <1>2, <1>8, <3>1, Framed
    <3> HIDE DEF p
    <3> QED
      BY <1>2, <3>1, <3>2, <3>3, Framed
  <2> QED
    BY <2>1, <2>2
<1>12. tail \in Seq(Signs)
  <2>1. others \in Seq(Marks)
    <3> DEFINE M == {m \in Marks : m.type \notin KnownMarks}
               marks == n.marks
    <3>1. others = Only(marks, M) /\ marks \in Seq(Marks)
      BY <1>9
    <3> HIDE DEF M, others, marks
    <3> QED
      BY <3>1, OnlyType
  <2> HIDE DEF others
  <2>2. DOMAIN others = 1 .. Len(others) /\ Len(others) \in Nat
    BY <2>1
  <2> HIDE DEF mark
  <2>3. mark \in Signs
    BY <1>4
  <2> QED
    BY <2>2, <2>3
<1> HIDE DEF linked, tail
<1>13. Saying(linked \o tail, words)
  BY <1>2, <1>11, <1>12, Framed
<1> QED
  BY <1>1, <1>2, <1>3, <1>13 DEF words

-----------------------------------------------------------------------------
(* The texts below a node, and the types that are not known.               *)
Missed(n) == {m.type : m \in Reached[n]} \ KnownTypes
MissedIn(s) == UNION {Missed(s[i]) : i \in DOMAIN s}
TextsIn(s) == TextLoop!Loop(CollectText, s, << >>)

(* The texts of a sequence of nodes, one node at a time.                   *)
LEMMA TextsInIs ==
  /\ TextsIn(<< >>) = << >>
  /\ \A T : \A s \in Seq(T) : \A x : TextsIn(Append(s, x)) = TextsIn(s) \o CollectText[x]
<1>1. TextsIn(<< >>) = << >>
  BY TextLoop!LoopOfNothing DEF TextsIn
<1>2. ASSUME NEW T, NEW s \in Seq(T), NEW x PROVE TextsIn(Append(s, x)) = TextsIn(s) \o CollectText[x]
  <2> DEFINE none == << >>
  <2>1. TextLoop!Loop(CollectText, Append(s, x), none) = TextBody(CollectText, TextLoop!Loop(CollectText, s, none), x)
    BY TextLoop!LoopOfAppend
  <2> QED
    BY <2>1 DEF TextsIn, TextBody
<1> QED
  BY <1>1, <1>2

(* They are words.                                                         *)
LEMMA TextsInType ==
  ASSUME NEW S, \A x \in S : CollectText[x] \in Seq(Words), NEW s \in Seq(S)
  PROVE  TextsIn(s) \in Seq(Words)
<1> DEFINE P == {t \in Seq(S) : TextsIn(t) \in Seq(Words)}
<1>1. << >> \in P
  <2>1. << >> \in Seq(S) /\ << >> \in Seq(Words)
    OBVIOUS
  <2> QED
    BY <2>1, TextsInIs
<1>2. ASSUME NEW t \in Seq(S), NEW x \in S, t \in P PROVE Append(t, x) \in P
  <2>1. TextsIn(Append(t, x)) = TextsIn(t) \o CollectText[x]
    BY TextsInIs
  <2>2. Append(t, x) \in Seq(S) /\ TextsIn(t) \in Seq(Words) /\ CollectText[x] \in Seq(Words)
    BY <1>2
  <2>3. TextsIn(t) \o CollectText[x] \in Seq(Words)
    BY <2>2
  <2> QED
    BY <2>1, <2>2, <2>3
<1> HIDE DEF P
<1>3. Seq(S) \subseteq P
  BY <1>1, <1>2, OnlyLoop!InductionOverSeq
<1> QED
  BY <1>3 DEF P

Lower(n) == {x \in Nodes : Height[x] < Height[n]}

(* The content of a node is lower than the node.                           *)
LEMMA ContentIsLower ==
  ASSUME NEW n \in Nodes
  PROVE  n.content \in Seq(Lower(n)) /\ Lower(n) \subseteq Nodes
<1> DEFINE s == n.content
<1>1. Len(s) \in Nat /\ DOMAIN s = 1 .. Len(s) /\ s \in Seq(Nodes) /\ \A i \in 1 .. Len(s) : s[i] \in Nodes /\ Height[s[i]] < Height[n]
  BY NodeIs
<1> HIDE DEF s
<1>2. \A i \in 1 .. Len(s) : s[i] \in Lower(n)
  BY <1>1 DEF Lower
<1>3. s \in Seq(Lower(n))
  <2>1. s = [i \in 1 .. Len(s) |-> s[i]]
    BY <1>1
  <2> QED
    BY <1>1, <1>2, <2>1, SeqDef
<1> QED
  BY <1>3 DEF s, Lower

(* The texts of a document are words.                                      *)
LEMMA CollectTextType ==
  ASSUME NEW n \in Nodes
  PROVE  CollectText[n] \in Seq(Words)
<1> DEFINE P == {x \in Nodes : CollectText[x] \in Seq(Words)}
<1>1. ASSUME NEW x \in Nodes, \A y \in Nodes : Height[y] < Height[x] => y \in P PROVE x \in P
  <2>1. CollectText[x] = IF x.type = "text" THEN <<x.text>> ELSE TextsIn(x.content)
    BY CollectTextIs DEF TextsIn
  <2>2. CASE x.type = "text"
    <3>1. CollectText[x] \in Seq(Words)
      BY <2>1, <2>2, TextSays
    <3> QED
      BY <3>1
  <2>3. CASE x.type # "text"
    <3> DEFINE s == x.content
    <3>1. s \in Seq(Lower(x)) /\ \A y \in Lower(x) : y \in P
      BY <1>1, ContentIsLower DEF Lower
    <3> HIDE DEF s
    <3>2. \A y \in Lower(x) : CollectText[y] \in Seq(Words)
      BY <3>1
    <3>3. TextsIn(s) \in Seq(Words)
      BY <3>1, <3>2, TextsInType
    <3>4. CollectText[x] \in Seq(Words)
      BY <2>1, <2>3, <3>3 DEF s
    <3> QED
      BY <3>4
  <2> QED
    BY <2>2, <2>3
<1> HIDE DEF P
<1>2. Height \in [Nodes -> Nat]
  BY NodesAssumption
<1>3. Nodes \subseteq P
  BY <1>1, <1>2, OnlyLoop!InductionOverHeights
<1> QED
  BY <1>3 DEF P

(* The unknown types in a sequence of nodes, one node at a time.           *)
LEMMA MissedInIs ==
  /\ MissedIn(<< >>) = {}
  /\ \A T : \A s \in Seq(T) : \A x : MissedIn(Append(s, x)) = MissedIn(s) \cup Missed(x)
<1>1. MissedIn(<< >>) = {}
  BY DEF MissedIn
<1>2. ASSUME NEW T, NEW s \in Seq(T), NEW x PROVE MissedIn(Append(s, x)) = MissedIn(s) \cup Missed(x)
  <2> DEFINE a == Append(s, x)
  <2>1. /\ Len(s) \in Nat /\ DOMAIN s = 1 .. Len(s) /\ DOMAIN a = 1 .. Len(s) + 1
        /\ a[Len(s) + 1] = x /\ \A i \in 1 .. Len(s) : a[i] = s[i]
    OBVIOUS
  <2> HIDE DEF a
  <2>2. ASSUME NEW i \in DOMAIN a PROVE Missed(a[i]) \subseteq MissedIn(s) \cup Missed(x)
    <3>1. i \in DOMAIN s \/ i = Len(s) + 1
      BY <2>1
    <3> QED
      BY <2>1, <3>1 DEF MissedIn
  <2>3. ASSUME NEW i \in DOMAIN s PROVE Missed(s[i]) \subseteq MissedIn(a)
    <3>1. i \in DOMAIN a /\ a[i] = s[i]
      BY <2>1
    <3> QED
      BY <3>1 DEF MissedIn
  <2>4. Missed(x) \subseteq MissedIn(a)
    <3>1. Len(s) + 1 \in DOMAIN a /\ a[Len(s) + 1] = x
      BY <2>1
    <3> QED
      BY <3>1 DEF MissedIn
  <2>5. MissedIn(a) \subseteq MissedIn(s) \cup Missed(x)
    BY <2>2 DEF MissedIn
  <2>6. MissedIn(s) \subseteq MissedIn(a)
    BY <2>3 DEF MissedIn
  <2>7. MissedIn(a) = MissedIn(s) \cup Missed(x)
    BY <2>4, <2>5, <2>6
  <2> QED
    BY <2>7 DEF a
<1> QED
  BY <1>1, <1>2

(* The unknown types of a node are its own, or those of its content.       *)
LEMMA MissedOf ==
  ASSUME NEW n \in Nodes
  PROVE  Missed(n) = IF n.type \in KnownTypes THEN MissedIn(n.content) ELSE {n.type}
<1> DEFINE s == n.content
           R == UNION {Reached[s[i]] : i \in DOMAIN s}
<1>1. Reached[n] = {n} \cup IF n.type \notin KnownTypes THEN {} ELSE R
  BY ReachedIs
<1> HIDE DEF KnownTypes
<1>2. {m.type : m \in R} \ KnownTypes = MissedIn(s)
  <2>1. ASSUME NEW t \in {m.type : m \in R} \ KnownTypes PROVE t \in MissedIn(s)
    <3>1. PICK i \in DOMAIN s : \E m \in Reached[s[i]] : t = m.type
      OBVIOUS
    <3>2. t \in Missed(s[i])
      BY <3>1 DEF Missed
    <3> QED
      BY <3>2 DEF MissedIn
  <2>2. ASSUME NEW t \in MissedIn(s) PROVE t \in {m.type : m \in R} \ KnownTypes
    <3>1. PICK i \in DOMAIN s : t \in Missed(s[i])
      BY DEF MissedIn
    <3>2. PICK m \in Reached[s[i]] : t = m.type /\ t \notin KnownTypes
      BY <3>1 DEF Missed
    <3>3. m \in R
      OBVIOUS
    <3> QED
      BY <3>2, <3>3
  <2> QED
    BY <2>1, <2>2
<1> HIDE DEF R
<1>3. CASE n.type \in KnownTypes
  <2>1. Reached[n] = {n} \cup R
    BY <1>1, <1>3
  <2> QED
    BY <1>2, <1>3, <2>1 DEF Missed, s
<1>4. CASE n.type \notin KnownTypes
  <2>1. Reached[n] = {n}
    BY <1>1, <1>4
  <2> QED
    BY <1>4, <2>1 DEF Missed
<1> QED
  BY <1>3, <1>4

-----------------------------------------------------------------------------
(* Markers, at the beginning of a line.                                    *)
LEMMA PutMark ==
  ASSUME NEW r \in Renderings, NEW x \in Markup
  PROVE  /\ <<x>> \in Seq(Tokens) /\ Put(r, <<x>>) \in Renderings /\ Put(r, <<x>>).buf = r.buf \o <<x>>
         /\ Put(r, <<x>>).unknown = r.unknown
         /\ Only(r.buf \o <<x>>, Words) = Only(r.buf, Words) \o << >>
         /\ State(r.buf \o <<x>>) = ReadToken(State(r.buf), x)
<1> DEFINE b == r.buf
           t == <<x>>
           M == Markup \cup Targets
<1>0. x \in M /\ x \in Tokens
  BY Zenon, TokensAre
<1>1. b \in Seq(Tokens)
  BY RenderingIs
<1>2. t \in Seq(Tokens) /\ t \in Seq(M)
  <2> HIDE DEF M
  <2> QED
    BY <1>0, One
<1>3. Only(t, Words) = << >>
  BY <1>2, WordsOfOthers
<1>4. State(b \o t) = ReadToken(State(b), x)
  BY <1>0, <1>1, OneMore
<1> HIDE DEF b, t
<1>5. Put(r, t) \in Renderings /\ Put(r, t).buf = b \o t /\ Put(r, t).unknown = r.unknown
  BY <1>2, PutIs DEF b
<1>6. Only(b \o t, Words) = Only(b, Words) \o Only(t, Words)
  BY <1>1, <1>2, OnlyOfBoth
<1> QED
  BY <1>2, <1>3, <1>4, <1>5, <1>6 DEF b, t

(* A marker at the beginning of a line adds no words.                      *)
LEMMA MarkerGrows ==
  ASSUME NEW r \in Renderings, Fresh(r.buf), NEW x \in {"# ", "- "}
  PROVE  Grows(r, Put(r, <<x>>), << >>, {})
<1> DEFINE p == Put(r, <<x>>)
<1>0. x \in Markup /\ x # "fence"
  <2>1. {"# ", "- "} \subseteq Markup
    BY Zenon, TokensAre
  <2>2. x # "fence"
    BY Zenon
  <2> QED
    BY Zenon, <2>1, <2>2
<1>1. /\ p \in Renderings /\ p.buf = r.buf \o <<x>> /\ p.unknown = r.unknown
      /\ Only(r.buf \o <<x>>, Words) = Only(r.buf, Words) \o << >>
      /\ State(r.buf \o <<x>>) = ReadToken(State(r.buf), x)
  BY Zenon, <1>0, PutMark
<1> HIDE DEF p
<1>2. State(p.buf) = ReadToken(State(r.buf), x) /\ Only(p.buf, Words) = Only(r.buf, Words) \o << >>
  BY Zenon, <1>1
<1>3. State(r.buf).fresh
  BY Zenon DEF Fresh
<1>4. Sound(r.buf) => Sound(p.buf)
  BY Zenon, <1>0, <1>2, <1>3, ReadTokenIs DEF Sound
<1>5. ToSet(p.unknown) = ToSet(r.unknown) \cup {}
  BY Zenon, <1>1
<1>6. Grows(r, p, << >>, {})
  BY Zenon, <1>1, <1>2, <1>4, <1>5 DEF Grows
<1> QED
  BY Zenon, <1>6 DEF p

(* Signs that leave the reader at the beginning of a line do so together.  *)
LEMMA StaysFresh ==
  ASSUME NEW buf \in Seq(Tokens), Fresh(buf), NEW A, A \subseteq Tokens,
         \A x \in A : \A a : a.fresh => ReadToken(a, x).fresh, NEW t \in Seq(A)
  PROVE  Fresh(buf \o t)
<1> DEFINE S == {u \in Seq(A) : Fresh(buf \o u)}
<1>1. << >> \in S
  <2>1. buf \o << >> = buf /\ << >> \in Seq(A)
    OBVIOUS
  <2> QED
    BY <2>1
<1>2. ASSUME NEW u \in Seq(A), NEW x \in A, u \in S PROVE Append(u, x) \in S
  <2> DEFINE p == buf \o u
  <2>1. u \in Seq(Tokens) /\ x \in Tokens
    BY SeqMonotonic
  <2>2. p \in Seq(Tokens) /\ buf \o Append(u, x) = Append(p, x) /\ Append(u, x) \in Seq(A)
    BY <2>1
  <2>3. State(p).fresh
    BY <1>2 DEF Fresh
  <2> HIDE DEF p
  <2>4. State(Append(p, x)) = ReadToken(State(p), x)
    BY <2>2, StateOfAppend
  <2>5. Fresh(Append(p, x))
    BY <2>3, <2>4 DEF Fresh
  <2> QED
    BY <2>2, <2>5
<1> HIDE DEF S
<1>3. Seq(A) \subseteq S
  BY <1>1, <1>2, OnlyLoop!InductionOverSeq
<1> QED
  BY <1>3 DEF S

(* Indentations and quotation marks leave the reader at the beginning of a *)
(* line.                                                                   *)
LEMMA SpacesFresh ==
  ASSUME NEW buf \in Seq(Tokens), Fresh(buf), NEW space \in {"  ", "> "}, NEW t \in Seq({space})
  PROVE  Fresh(buf \o t)
<1> DEFINE A == {space}
<1>1. A \subseteq Tokens
  <2>1. {"  ", "> "} \subseteq Tokens
    BY Zenon, TokensAre
  <2> QED
    BY Zenon, <2>1
<1>2. \A x \in A : \A a : a.fresh => ReadToken(a, x).fresh
  BY Zenon, ReadTokenIs
<1>3. t \in Seq(A)
  BY Zenon
<1> HIDE DEF A
<1> QED
  BY Zenon, <1>1, <1>2, <1>3, StaysFresh

(* The same sign, depth times.                                             *)
LEMMA ThereAre ==
  ASSUME NEW depth \in Nat, NEW x
  PROVE  [i \in 1 .. depth |-> x] \in Seq({x})
OBVIOUS

(* A bullet at the beginning of a line adds no words, at every depth.      *)
LEMMA BulletGrows ==
  ASSUME NEW r \in Renderings, Fresh(r.buf), NEW depth \in Nat
  PROVE  Grows(r, Put(r, Bullet(depth)), << >>, {})
<1> DEFINE space == "  "
           dash == "- "
           a == [i \in 1 .. depth |-> space]
           m == <<dash>>
           b == r.buf
           u == Put(r, a)
<1>1. Bullet(depth) = a \o m
  BY DEF Bullet
<1>2. space \in {"  ", "> "} /\ dash \in {"# ", "- "} /\ space \in Signs /\ dash \in Tokens
  BY Zenon, SignsAre, TokensAre
<1>3. a \in Seq({space})
  BY ThereAre
<1>4. m \in Seq(Tokens)
  BY Zenon, <1>2, One
<1>5. a \in Seq(Signs) /\ a \in Seq(Tokens)
  <2>1. {space} \subseteq Signs /\ Signs \subseteq Tokens
    BY Zenon, <1>2, SignsAre
  <2> HIDE DEF space, a
  <2> QED
    BY <1>3, <2>1, SeqMonotonic
<1>6. b \in Seq(Tokens)
  BY RenderingIs
<1> HIDE DEF space, dash, a, m, b
<1>7. u \in Renderings /\ u.buf = b \o a /\ u.unknown = r.unknown
  BY <1>5, PutIs DEF b
<1>8. Put(r, a \o m) = Put(u, m)
  <2>1. (b \o a) \o m = b \o (a \o m)
    BY <1>4, <1>5, <1>6, Associative
  <2>2. Put(r, a \o m) = [r EXCEPT !.buf = b \o (a \o m)]
    BY DEF Put, b
  <2>3. Put(u, m) = [u EXCEPT !.buf = (b \o a) \o m]
    BY <1>7 DEF Put
  <2>4. [u EXCEPT !.buf = (b \o a) \o m] = [r EXCEPT !.buf = (b \o a) \o m]
    BY DEF Put, Renderings
  <2> QED
    BY <2>1, <2>2, <2>3, <2>4
<1>9. Grows(r, u, << >>, {})
  BY <1>5, PutSigns
<1>10. Fresh(b \o a)
  BY Zenon, <1>2, <1>3, <1>6, SpacesFresh DEF b
<1> HIDE DEF u
<1>11. Grows(u, Put(u, m), << >>, {})
  <2>1. Fresh(u.buf)
    BY <1>7, <1>10
  <2> QED
    BY Zenon, <1>2, <1>7, <2>1, MarkerGrows DEF m
<1> DEFINE v == Put(u, m)
           none == << >>
<1>12. none \in Seq(Words) /\ none \o none = none
  OBVIOUS
<1>13. Grows(r, u, none, {}) /\ Grows(u, v, none, {})
  BY <1>9, <1>11
<1> HIDE DEF v, none
<1>14. Grows(r, v, none \o none, {} \cup {})
  BY <1>12, <1>13, GrowsOn
<1> QED
  BY <1>1, <1>8, <1>12, <1>14 DEF v, none

-----------------------------------------------------------------------------
(* Code.                                                                   *)
LEMMA OpenOn ==
  ASSUME NEW buf \in Seq(Tokens), State(buf).well, State(buf).open, NEW t \in Seq(Words)
  PROVE  buf \o t \in Seq(Tokens) /\ State(buf \o t).well /\ State(buf \o t).open
<1> DEFINE S == {u \in Seq(Words) : buf \o u \in Seq(Tokens) /\ State(buf \o u).well /\ State(buf \o u).open}
<1>1. << >> \in S
  <2>1. buf \o << >> = buf /\ << >> \in Seq(Words)
    OBVIOUS
  <2> QED
    BY <2>1
<1>2. ASSUME NEW u \in Seq(Words), NEW x \in Words, u \in S PROVE Append(u, x) \in S
  <2> DEFINE p == buf \o u
  <2>1. u \in Seq(Tokens) /\ x \in Tokens
    BY Zenon, TokensAre, SeqMonotonic
  <2>2. p \in Seq(Tokens) /\ buf \o Append(u, x) = Append(p, x) /\ Append(u, x) \in Seq(Words) /\ Append(p, x) \in Seq(Tokens)
    BY <2>1
  <2>3. State(p).well /\ State(p).open
    BY <1>2
  <2> HIDE DEF p
  <2>4. State(Append(p, x)) = ReadToken(State(p), x)
    BY <2>2, StateOfAppend
  <2>5. x \notin {"# ", "- ", "fence"} /\ x # "fence"
    BY Zenon, TokensAre DEF Quiet
  <2>6. State(Append(p, x)).well /\ State(Append(p, x)).open
    BY Zenon, <2>3, <2>4, <2>5, ReadTokenIs
  <2> QED
    BY <2>2, <2>6
<1> HIDE DEF S
<1>3. Seq(Words) \subseteq S
  BY <1>1, <1>2, OnlyLoop!InductionOverSeq
<1> QED
  BY <1>3 DEF S

(* A fence around words, at the beginning of a line, is opened and closed. *)
LEMMA FencesAreSound ==
  ASSUME NEW buf \in Seq(Tokens), Fresh(buf), Sound(buf), NEW words \in Seq(Words)
  PROVE  Sound((buf \o <<"fence">> \o <<"nl">>) \o words \o <<"nl">> \o <<"fence">> \o <<"nl">>)
<1> DEFINE fence == "fence"
           nl == "nl"
<1>1. fence \in Tokens /\ nl \in Tokens /\ fence # nl
  BY Zenon, TokensAre
<1>2. \A a : /\ a.fresh /\ a.well /\ ~a.open => ReadToken(a, fence).well /\ ReadToken(a, fence).open
             /\ a.open /\ a.well => ReadToken(a, nl).open /\ ReadToken(a, nl).well /\ ReadToken(a, nl).fresh
             /\ a.open /\ a.well /\ a.fresh => ~ReadToken(a, fence).open /\ ReadToken(a, fence).well
             /\ ~a.open /\ a.well => ~ReadToken(a, nl).open /\ ReadToken(a, nl).well
  BY Zenon, ReadTokenIs
<1>3. State(buf).fresh /\ State(buf).well /\ ~State(buf).open
  BY DEF Fresh, Sound
<1> DEFINE b1 == buf \o <<fence>>
           b2 == b1 \o <<nl>>
           b3 == b2 \o words
           b4 == b3 \o <<nl>>
           b5 == b4 \o <<fence>>
           b6 == b5 \o <<nl>>
<1> SUFFICES Sound(b6)
  OBVIOUS
<1> HIDE DEF fence, nl
<1>4. b1 \in Seq(Tokens) /\ State(b1) = ReadToken(State(buf), fence)
  BY <1>1, OneMore
<1> HIDE DEF b1
<1>5. b2 \in Seq(Tokens) /\ State(b2) = ReadToken(State(b1), nl)
  BY <1>1, <1>4, OneMore
<1> HIDE DEF b2
<1>6. State(b2).well /\ State(b2).open
  BY <1>2, <1>3, <1>4, <1>5
<1>7. b3 \in Seq(Tokens) /\ State(b3).well /\ State(b3).open
  BY <1>5, <1>6, OpenOn
<1> HIDE DEF b3
<1>8. b4 \in Seq(Tokens) /\ State(b4) = ReadToken(State(b3), nl)
  BY <1>1, <1>7, OneMore
<1> HIDE DEF b4
<1>9. b5 \in Seq(Tokens) /\ State(b5) = ReadToken(State(b4), fence)
  BY <1>1, <1>8, OneMore
<1> HIDE DEF b5
<1>10. State(b6) = ReadToken(State(b5), nl)
  BY <1>1, <1>9, OneMore
<1> HIDE DEF b6
<1>11. State(b6).well /\ ~State(b6).open
  BY <1>2, <1>7, <1>8, <1>9, <1>10
<1> QED
  BY <1>11 DEF Sound

(* What is said within a fence are the words in it.                        *)
LEMMA FencedSay ==
  ASSUME NEW buf \in Seq(Tokens), NEW words \in Seq(Words)
  PROVE  LET code == <<"fence", "nl">> \o words \o <<"nl", "fence", "nl">>
         IN  /\ code \in Seq(Tokens) /\ Only(code, Words) = words
             /\ buf \o code = (buf \o <<"fence">> \o <<"nl">>) \o words \o <<"nl">> \o <<"fence">> \o <<"nl">>
<1> DEFINE fence == "fence"
           nl == "nl"
           head == <<fence, nl>>
           tail == <<nl, fence, nl>>
           code == head \o words \o tail
<1> SUFFICES /\ code \in Seq(Tokens) /\ Only(code, Words) = words
             /\ buf \o code = (buf \o <<fence>> \o <<nl>>) \o words \o <<nl>> \o <<fence>> \o <<nl>>
  OBVIOUS
<1> DEFINE M == Markup \cup Targets
<1>1. fence \in M /\ nl \in M /\ M \subseteq Tokens /\ Words \subseteq Tokens
  <2>1. fence \in Markup /\ nl \in Markup
    BY Zenon, TokensAre
  <2> QED
    BY Zenon, <2>1, TokensAre
<1> HIDE DEF fence, nl
<1>2. head \in Seq(M) /\ tail \in Seq(M)
  BY <1>1, Pair, Triple
<1>3. Only(head, Words) = << >> /\ Only(tail, Words) = << >>
  BY <1>2, WordsOfOthers
<1>4. words \in Seq(Tokens) /\ head \in Seq(Tokens) /\ tail \in Seq(Tokens)
  <2> HIDE DEF M, head, tail
  <2> QED
    BY <1>1, <1>2, SeqMonotonic
<1>5. head = <<fence>> \o <<nl>> /\ tail = <<nl>> \o <<fence>> \o <<nl>>
  <2>1. <<fence, nl>> = <<fence>> \o <<nl>> /\ <<nl, fence>> = <<nl>> \o <<fence>>
    BY <1>1, TwoOnes
  <2>2. <<nl, fence, nl>> = <<nl, fence>> \o <<nl>>
    BY <1>1, ThreeAre
  <2> QED
    BY <2>1, <2>2
<1>6. <<fence>> \in Seq(Tokens) /\ <<nl>> \in Seq(Tokens)
  BY <1>1
<1> DEFINE x == <<fence>>
           y == <<nl>>
<1>7. buf \o ((x \o y) \o words \o (y \o x \o y)) = (buf \o x \o y) \o words \o y \o x \o y
  <2> HIDE DEF x, y
  <2>0. x \in Seq(Tokens) /\ y \in Seq(Tokens) /\ words \in Seq(Tokens)
    BY <1>4, <1>6 DEF x, y
  <2> DEFINE h == x \o y
             t == y \o x \o y
  <2>1. h \in Seq(Tokens) /\ t \in Seq(Tokens) /\ buf \o h \in Seq(Tokens) /\ buf \o x \o y = buf \o h
    BY <2>0
  <2>2. \A q \in Seq(Tokens) : q \o t = q \o y \o x \o y
    BY <2>0
  <2> HIDE DEF h, t
  <2> DEFINE m == h \o words
  <2>5. m \in Seq(Tokens) /\ (buf \o h) \o words = buf \o m
    BY <2>0, <2>1, Associative
  <2> HIDE DEF m
  <2>6. buf \o m \in Seq(Tokens) /\ buf \o (m \o t) = (buf \o m) \o t
    <3>1. buf \in Seq(Tokens) /\ m \in Seq(Tokens) /\ t \in Seq(Tokens)
      BY <2>1, <2>5
    <3> QED
      BY <3>1, Associative
  <2>3. (buf \o h) \o words \in Seq(Tokens) /\ buf \o (h \o words \o t) = ((buf \o h) \o words) \o t
    BY <2>5, <2>6 DEF m
  <2>4. ((buf \o h) \o words) \o t = ((buf \o h) \o words) \o y \o x \o y
    BY <2>2, <2>3
  <2> QED
    BY <2>1, <2>3, <2>4 DEF h, t
<1>8. buf \o code = (buf \o x \o y) \o words \o y \o x \o y
  BY <1>5, <1>7
<1>9. Only(code, Words) = words
  <2> HIDE DEF head, tail
  <2>1. Only(words, Words) = words
    BY WordsOfWords
  <2> DEFINE p == head \o words
  <2>2. Only(p, Words) = Only(head, Words) \o Only(words, Words) /\ p \in Seq(Tokens)
    BY <1>4, OnlyOfBoth, Associative
  <2> HIDE DEF p
  <2>5. p \in Seq(Tokens) /\ tail \in Seq(Tokens)
    BY <1>4, <2>2
  <2>3. Only(p \o tail, Words) = Only(p, Words) \o Only(tail, Words)
    BY <2>5, OnlyOfBoth
  <2>4. << >> \o words = words /\ words \o << >> = words
    OBVIOUS
  <2> QED
    BY <1>3, <2>1, <2>2, <2>3, <2>4 DEF p
<1>10. code \in Seq(Tokens)
  <2> HIDE DEF head, tail
  <2> QED
    BY <1>4
<1> HIDE DEF head, tail
<1> QED
  BY <1>8, <1>9, <1>10

(* The texts of text nodes are theirs, one by one.                         *)
LEMMA TextsOfTexts ==
  ASSUME NEW s \in Seq(TextNodes)
  PROVE  TextsIn(s) = [i \in DOMAIN s |-> s[i].text] /\ TextsIn(s) \in Seq(Words)
<1> DEFINE map(t) == [i \in DOMAIN t |-> t[i].text]
           S == {t \in Seq(TextNodes) : TextsIn(t) = map(t) /\ map(t) \in Seq(Words)}
<1>0. \A x \in TextNodes : x \in Nodes /\ x.type = "text"
  BY DEF TextNodes
<1>1. << >> \in S
  <2>1. map(<< >>) = << >> /\ << >> \in Seq(TextNodes) /\ << >> \in Seq(Words)
    OBVIOUS
  <2> QED
    BY <2>1, TextsInIs
<1>2. ASSUME NEW t \in Seq(TextNodes), NEW x \in TextNodes, t \in S PROVE Append(t, x) \in S
  <2> DEFINE a == Append(t, x)
             m == map(t)
             q == Append(m, x.text)
  <2>1. a \in Seq(TextNodes) /\ Len(a) = Len(t) + 1 /\ a[Len(t) + 1] = x /\ \A i \in 1 .. Len(t) : a[i] = t[i]
    OBVIOUS
  <2>2. x.text \in Words /\ CollectText[x] = <<x.text>>
    BY <1>0, TextSays, CollectTextIs
  <2>3. TextsIn(a) = TextsIn(t) \o CollectText[x]
    BY TextsInIs
  <2>4. TextsIn(t) = m /\ m \in Seq(Words)
    BY <1>2
  <2>5. Len(t) \in Nat /\ DOMAIN t = 1 .. Len(t) /\ DOMAIN a = 1 .. Len(t) + 1
    BY <2>1
  <2>6. DOMAIN m = 1 .. Len(t) /\ \A i \in 1 .. Len(t) : m[i] = t[i].text
    BY <2>5
  <2> HIDE DEF a, m
  <2>7. Len(m) = Len(t)
    BY <2>4, <2>5, <2>6
  <2>8. q \in Seq(Words) /\ q = m \o <<x.text>> /\ Len(q) = Len(t) + 1 /\ q[Len(t) + 1] = x.text
        /\ \A i \in 1 .. Len(t) : q[i] = m[i]
    BY <2>2, <2>4, <2>7
  <2> HIDE DEF q
  <2>9. ASSUME NEW i \in 1 .. Len(t) + 1 PROVE a[i].text = q[i]
    <3>1. i \in 1 .. Len(t) \/ i = Len(t) + 1
      BY <2>5
    <3> QED
      BY <2>1, <2>6, <2>8, <3>1
  <2>10. map(a) = q
    <3>1. q = [i \in 1 .. Len(q) |-> q[i]]
      BY <2>8
    <3> QED
      BY <2>5, <2>8, <2>9, <3>1
  <2>11. TextsIn(a) = q
    BY <2>2, <2>3, <2>4, <2>8
  <2> HIDE DEF map
  <2>12. a \in S
    BY <2>1, <2>8, <2>10, <2>11
  <2> QED
    BY <2>12 DEF a
<1> HIDE DEF S
<1>3. Seq(TextNodes) \subseteq S
  BY <1>1, <1>2, OnlyLoop!InductionOverSeq
<1> HIDE DEF map
<1>4. TextsIn(s) = map(s) /\ TextsIn(s) \in Seq(Words)
  BY <1>3 DEF S
<1> QED
  BY <1>4 DEF map

(* A code block adds the texts in it.                                      *)
LEMMA CodeGrows ==
  ASSUME NEW n \in Nodes, n.type = "codeBlock", NEW r \in Renderings
  PROVE  Grows(r, Put(EnsureBlankLine(r), CodeBlock(n)), CollectText[n], {})
<1> DEFINE s == n.content
           texts == Only(s, TextNodes)
           words == [i \in DOMAIN texts |-> texts[i].text]
           e == EnsureBlankLine(r)
           code == <<"fence", "nl">> \o words \o <<"nl", "fence", "nl">>
<1>1. CodeBlock(n) = code
  BY DEF CodeBlock
<1>2. s \in Seq(TextNodes)
  <2>1. \A i \in DOMAIN n.content : n.content[i].type = "text"
    BY NodesAssumption
  <2>2. s \in Seq(Nodes) /\ DOMAIN s = 1 .. Len(s) /\ Len(s) \in Nat /\ \A i \in 1 .. Len(s) : s[i] \in Nodes
    BY NodeIs
  <2> HIDE DEF s
  <2>3. \A i \in 1 .. Len(s) : s[i] \in TextNodes
    BY <2>1, <2>2 DEF TextNodes, s
  <2>4. s = [i \in 1 .. Len(s) |-> s[i]]
    BY <2>2
  <2> QED
    BY <2>2, <2>3, <2>4, SeqDef
<1>3. texts = s
  <2> HIDE DEF s
  <2> QED
    BY <1>2, OnlyAll
<1>4. words = TextsIn(s) /\ words \in Seq(Words)
  <2> HIDE DEF s, texts
  <2> QED
    BY <1>2, <1>3, TextsOfTexts
<1>5. CollectText[n] = TextsIn(s)
  BY CollectTextIs DEF TextsIn
<1> HIDE DEF words, s, texts
<1>6. Grows(r, e, << >>, {}) /\ Fresh(e.buf)
  BY EnsureGrows
<1> HIDE DEF e
<1>7. e \in Renderings /\ e.buf \in Seq(Tokens)
  BY <1>6, RenderingIs DEF Grows
<1> DEFINE b == e.buf
<1>8. code \in Seq(Tokens) /\ Only(code, Words) = words
      /\ b \o code = (b \o <<"fence">> \o <<"nl">>) \o words \o <<"nl">> \o <<"fence">> \o <<"nl">>
  BY <1>4, <1>7, FencedSay
<1>9. Sound(b) => Sound(b \o code)
  BY <1>4, <1>6, <1>7, <1>8, FencesAreSound
<1> HIDE DEF code, b
<1>10. Put(e, code) \in Renderings /\ Put(e, code).buf = b \o code /\ Put(e, code).unknown = e.unknown
  BY <1>7, <1>8, PutIs DEF b
<1>11. Only(b \o code, Words) = Only(b, Words) \o Only(code, Words)
  <2>1. b \in Seq(Tokens) /\ code \in Seq(Tokens)
    BY <1>7, <1>8 DEF b
  <2> QED
    BY <2>1, OnlyOfBoth
<1> DEFINE p == Put(e, code)
<1>12. Grows(e, p, words, {})
  BY <1>8, <1>9, <1>10, <1>11 DEF Grows, b
<1> HIDE DEF p
<1> DEFINE none == << >>
<1>13. none \in Seq(Words) /\ none \o words = words /\ Grows(r, e, none, {})
  BY <1>4, <1>6
<1> HIDE DEF none
<1>14. Grows(r, p, none \o words, {} \cup {})
  BY <1>4, <1>12, <1>13, GrowsOn
<1>15. {} \cup {} = {}
  OBVIOUS
<1>16. Grows(r, p, words, {})
  BY <1>13, <1>14, <1>15
<1>17. p = Put(EnsureBlankLine(r), CodeBlock(n))
  BY <1>1 DEF p, e
<1> QED
  BY <1>4, <1>5, <1>16, <1>17

-----------------------------------------------------------------------------
(* What the renderer does not know.                                        *)
LEMMA UnknownGrows ==
  ASSUME NEW n \in Nodes, NEW r \in Renderings
  PROVE  Grows(r, RenderUnknown(n, r), CollectText[n], {n.type})
<1> DEFINE u == [r EXCEPT !.unknown = Append(@, n.type)]
           node == "<!-- node -->"
           words == CollectText[n]
           a == <<node>>
           t == a \o words
<1>1. RenderUnknown(n, r) = Put(u, t)
  BY DEF RenderUnknown
<1>2. n.type \in Types /\ words \in Seq(Words)
  BY CollectTextType DEF Types
<1>3. r.buf \in Seq(Tokens) /\ r.unknown \in Seq(Types)
  BY RenderingIs
<1>4. u \in Renderings /\ u.buf = r.buf /\ u.unknown = Append(r.unknown, n.type)
  <2>1. Append(r.unknown, n.type) \in Seq(Types)
    BY <1>2, <1>3
  <2> QED
    BY <2>1 DEF Renderings
<1>5. ToSet(u.unknown) = ToSet(r.unknown) \cup {n.type}
  BY <1>2, <1>3, <1>4, SetOfBoth
<1> HIDE DEF u, words
<1>6. a \in Seq(Signs)
  <2>1. node \in Signs
    BY Zenon, SignsAre
  <2> HIDE DEF node
  <2> QED
    BY <2>1, One
<1> HIDE DEF a
<1>7. Saying(words, words)
  <2>1. words \in Seq(Quiet)
    BY Zenon, <1>2, TokensAre, SeqMonotonic
  <2>2. Only(words, Words) = words
    BY <1>2, WordsOfWords
  <2> QED
    BY <2>1, <2>2 DEF Saying
<1>8. Saying(t, words)
  BY <1>2, <1>6, <1>7, Framed
<1> HIDE DEF t
<1>9. Grows(u, Put(u, t), words, {})
  <2>1. t \in Seq(Quiet) /\ Only(t, Words) = words
    BY <1>8 DEF Saying
  <2> QED
    BY <1>4, <2>1, PutGrows
<1> DEFINE p == Put(u, t)
<1> HIDE DEF p
<1>10. Grows(u, p, words, {})
  BY <1>9 DEF p
<1>11. Grows(r, p, words, {n.type})
  <2>1. p \in Renderings /\ Only(p.buf, Words) = Only(u.buf, Words) \o words /\ (Sound(u.buf) => Sound(p.buf))
        /\ ToSet(p.unknown) = ToSet(u.unknown) \cup {}
    BY <1>10 DEF Grows
  <2>2. ToSet(p.unknown) = ToSet(r.unknown) \cup {n.type}
    BY <1>5, <2>1
  <2> QED
    BY <1>4, <2>1, <2>2 DEF Grows
<1> QED
  BY <1>1, <1>11 DEF p, words

-----------------------------------------------------------------------------
(* Quotations.                                                             *)
QuoteBody(c, q, t) == QuoteToken(q, t)
QuoteLoop == INSTANCE LoopProofs WITH Body <- QuoteBody, Kept <- Held
QuoteStart == [out |-> << >>, fresh |-> TRUE]
Marked(tokens) == QuoteLoop!Loop(0, tokens, QuoteStart)

(* The quotation, as the loop leaves it and its last line.                 *)
LEMMA QuoteIs ==
  ASSUME NEW tokens
  PROVE  Quote(tokens) = Marked(tokens).out \o IF Marked(tokens).fresh THEN <<"> ", "nl">> ELSE <<"nl">>
<1> DEFINE start == QuoteStart
           q == ForEach(tokens, start, QuoteToken)
<1>1. Quote(tokens) = q.out \o IF q.fresh THEN <<"> ", "nl">> ELSE <<"nl">>
  BY DEF Quote, QuoteStart
<1> HIDE DEF start
<1>2. q = QuoteLoop!Loop(0, tokens, start)
  BY DEF ForEach, Apply, QuoteLoop!Loop, QuoteLoop!ForEach, QuoteLoop!Apply, QuoteBody
<1>3. q = Marked(tokens)
  BY <1>2 DEF Marked, start
<1> HIDE DEF q
<1> QED
  BY Zenon, <1>1, <1>3

(* States of the reader that agree.                                        *)
Agree(a, b) == (a.fresh <=> b.fresh) /\ (a.open <=> b.open) /\ (a.well <=> b.well)

(* Readers that agree do so after the same token.                          *)
LEMMA AgreeOn ==
  ASSUME NEW a, NEW b, Agree(a, b), NEW t
  PROVE  Agree(ReadToken(a, t), ReadToken(b, t))
BY Zenon, ReadTokenIs DEF Agree

(* And after a quotation mark that only one of them reads, at the          *)
(* beginning of a line.                                                    *)
LEMMA AgreeQuoted ==
  ASSUME NEW a, NEW b, Agree(a, b), a.fresh
  PROVE  Agree(ReadToken(a, "> "), b)
<1> DEFINE t == "> "
<1>1. t \notin {"# ", "- ", "fence"} /\ t # "nl" /\ t # "fence" /\ t \in {"> ", "  "} /\ t \in Words \cup {"fence", "nl", "> "}
  OBVIOUS
<1> HIDE DEF t
<1>2. Agree(ReadToken(a, t), b)
  BY Zenon, <1>1, ReadTokenIs DEF Agree
<1> QED
  BY Zenon, <1>2 DEF t

(* What a step of the quotation writes.                                    *)
LEMMA QuoteTokenIs ==
  ASSUME NEW q, NEW t
  PROVE  QuoteToken(q, t).out = (IF q.fresh THEN Append(q.out, "> ") ELSE q.out) \o <<t>>
BY Zenon DEF QuoteToken

(* A step of the quotation is at the beginning of a line after a line      *)
(* break.                                                                  *)
LEMMA FreshIs ==
  ASSUME NEW q, NEW t
  PROVE  QuoteToken(q, t).fresh <=> t = "nl"
BY DEF QuoteToken

(* The quoted is read as it was, and the words are the same.               *)
QuotedAs(b, u, q) ==
  /\ q.out \in Seq(Tokens) /\ Only(q.out, Words) = Only(u, Words)
  /\ Agree(State(b \o q.out), State(u))
  /\ q.fresh => State(u).fresh

(* A step of the quotation keeps the readers in agreement, and the words.  *)
LEMMA QuoteTokenKeeps ==
  ASSUME NEW b \in Seq(Tokens), Agree(State(b), AtFirst), NEW u \in Seq(Tokens), NEW x \in Tokens, NEW q,
         QuotedAs(b, u, q)
  PROVE  QuotedAs(b, Append(u, x), QuoteToken(q, x))
<1> DEFINE mark == "> "
           more == Append(q.out, mark)
           o == IF q.fresh THEN more ELSE q.out
           p == QuoteToken(q, x)
           v == Append(u, x)
           one == <<x>>
<1>1. mark \in Tokens /\ mark \in Markup /\ mark \notin Words
  BY Zenon, TokensAre
<1>2. q.out \in Seq(Tokens) /\ Only(q.out, Words) = Only(u, Words)
  BY DEF QuotedAs
<1>3. Agree(State(b \o q.out), State(u)) /\ (q.fresh => State(u).fresh)
  BY DEF QuotedAs
<1>4. p.out = o \o one /\ (p.fresh <=> x = "nl")
  <2>1. QuoteToken(q, x).out = (IF q.fresh THEN Append(q.out, "> ") ELSE q.out) \o <<x>>
    BY Zenon, QuoteTokenIs
  <2>2. QuoteToken(q, x).fresh <=> x = "nl"
    BY FreshIs
  <2> QED
    BY Zenon, <2>1, <2>2
<1>5. State(v) = ReadToken(State(u), x)
  BY StateOfAppend
<1>6. o \in Seq(Tokens) /\ Only(o, Words) = Only(u, Words) /\ Agree(State(b \o o), State(u))
  <2>1. CASE q.fresh
    <3> DEFINE c == b \o q.out
               out == q.out
    <3>1. c \in Seq(Tokens) /\ more \in Seq(Tokens) /\ b \o more = Append(c, mark)
      <4> HIDE DEF mark, out
      <4>1. out \in Seq(Tokens) /\ mark \in Tokens
        BY <1>1, <1>2 DEF out
      <4>2. b \o out \in Seq(Tokens) /\ Append(out, mark) \in Seq(Tokens) /\ b \o Append(out, mark) = Append(b \o out, mark)
        BY <4>1
      <4> QED
        BY <4>2 DEF out
    <3>2. Only(more, Words) = Only(q.out, Words)
      <4> HIDE DEF mark, out
      <4>1. out \in Seq(Tokens)
        BY <1>2 DEF out
      <4>2. Only(Append(out, mark), Words) = IF mark \in Words THEN Append(Only(out, Words), mark) ELSE Only(out, Words)
        BY <4>1, OnlyOfAppend
      <4> QED
        BY <1>1, <4>2 DEF out
    <3>4. Agree(State(c), State(u)) /\ State(u).fresh
      BY <1>3, <2>1
    <3> HIDE DEF c
    <3>3. State(Append(c, mark)) = ReadToken(State(c), mark)
      BY Zenon, <3>1, StateOfAppend
    <3>5. State(c).fresh
      BY <3>4 DEF Agree
    <3>6. Agree(ReadToken(State(c), mark), State(u))
      BY Zenon, <3>4, <3>5, AgreeQuoted
    <3>7. o = more
      BY Zenon, <2>1
    <3> HIDE DEF more, o, mark
    <3> QED
      BY <1>2, <3>1, <3>2, <3>3, <3>6, <3>7
  <2>2. CASE ~q.fresh
    <3>1. o = q.out
      BY <2>2
    <3> HIDE DEF o
    <3> QED
      BY <1>2, <1>3, <3>1
  <2> QED
    BY Zenon, <2>1, <2>2
<1> HIDE DEF o
<1>7. p.out \in Seq(Tokens) /\ p.out = Append(o, x) /\ b \o p.out = Append(b \o o, x) /\ b \o o \in Seq(Tokens)
  <2> HIDE DEF p
  <2>1. o \o <<x>> = Append(o, x) /\ Append(o, x) \in Seq(Tokens) /\ b \o Append(o, x) = Append(b \o o, x) /\ b \o o \in Seq(Tokens)
    BY <1>6
  <2> QED
    BY <1>4, <2>1
<1>8. Only(p.out, Words) = Only(v, Words)
  <2>1. Only(Append(o, x), Words) = IF x \in Words THEN Append(Only(o, Words), x) ELSE Only(o, Words)
    BY <1>6, OnlyOfAppend
  <2>2. Only(v, Words) = IF x \in Words THEN Append(Only(u, Words), x) ELSE Only(u, Words)
    BY OnlyOfAppend
  <2> QED
    BY <1>6, <1>7, <2>1, <2>2
<1>9. Agree(State(b \o p.out), State(v))
  <2> DEFINE c == b \o o
  <2>1. c \in Seq(Tokens) /\ b \o p.out = Append(c, x) /\ Agree(State(c), State(u))
    BY <1>6, <1>7
  <2> HIDE DEF c, p, v
  <2>2. State(Append(c, x)) = ReadToken(State(c), x)
    BY <2>1, StateOfAppend
  <2>3. Agree(ReadToken(State(c), x), ReadToken(State(u), x))
    BY <2>1, AgreeOn
  <2> QED
    BY <1>5, <2>1, <2>2, <2>3
<1>10. p.fresh => State(v).fresh
  <2>1. x = "nl" => ReadToken(State(u), x).fresh
    BY Zenon, ReadTokenIs
  <2>2. p.fresh => x = "nl"
    BY <1>4
  <2> HIDE DEF p, v
  <2> QED
    BY <1>5, <2>1, <2>2
<1> HIDE DEF p, v
<1>11. QuotedAs(b, v, p)
  BY <1>7, <1>8, <1>9, <1>10 DEF QuotedAs
<1> QED
  BY <1>11 DEF p, v

(* All of a page, quoted.                                                  *)
LEMMA QuotedIs ==
  ASSUME NEW b \in Seq(Tokens), Agree(State(b), AtFirst), NEW u \in Seq(Tokens)
  PROVE  QuotedAs(b, u, Marked(u))
<1> DEFINE S == {t \in Seq(Tokens) : QuotedAs(b, t, Marked(t))}
<1>1. << >> \in S
  <2> DEFINE none == << >>
  <2>1. Marked(none) = QuoteStart
    BY QuoteLoop!LoopOfNothing DEF Marked
  <2>2. QuoteStart.out = none /\ State(none) = AtFirst /\ AtFirst.fresh
    BY StateOfNothing DEF QuoteStart, AtFirst
  <2>3. none \in Seq(Tokens) /\ b \o none = b
    OBVIOUS
  <2> HIDE DEF none
  <2>4. QuotedAs(b, none, QuoteStart)
    BY <2>2, <2>3 DEF QuotedAs
  <2> QED
    BY <2>1, <2>3, <2>4 DEF none
<1>2. ASSUME NEW t \in Seq(Tokens), NEW x \in Tokens, t \in S PROVE Append(t, x) \in S
  <2>1. Marked(Append(t, x)) = QuoteToken(Marked(t), x)
    BY QuoteLoop!LoopOfAppend DEF Marked, QuoteBody
  <2>2. QuotedAs(b, t, Marked(t))
    BY <1>2
  <2> DEFINE q == Marked(t)
  <2> HIDE DEF q
  <2>3. QuotedAs(b, Append(t, x), QuoteToken(q, x))
    BY <2>2, QuoteTokenKeeps DEF q
  <2>4. Append(t, x) \in Seq(Tokens)
    OBVIOUS
  <2> QED
    BY <2>1, <2>3, <2>4 DEF q
<1> HIDE DEF S
<1>3. Seq(Tokens) \subseteq S
  BY <1>1, <1>2, OnlyLoop!InductionOverSeq
<1> QED
  BY <1>3 DEF S

(* A quotation has the words of the quoted, and the page it is put in      *)
(* stays well made.                                                        *)
LEMMA QuoteSays ==
  ASSUME NEW b \in Seq(Tokens), Agree(State(b), AtFirst), NEW u \in Seq(Tokens), Sound(u)
  PROVE  Quote(u) \in Seq(Tokens) /\ Only(Quote(u), Words) = Only(u, Words) /\ Sound(b \o Quote(u))
<1> DEFINE q == Marked(u)
           two == <<"> ", "nl">>
           one == <<"nl">>
           t == IF q.fresh THEN two ELSE one
           out == q.out
<1>1. QuotedAs(b, u, q)
  BY QuotedIs
<1>2. Quote(u) = out \o t
  BY Zenon, QuoteIs
<1>3. two \in Seq(Signs) /\ one \in Seq(Signs)
  <2>1. "> " \in Signs /\ "nl" \in Signs
    BY Zenon, SignsAre
  <2> QED
    BY Zenon, <2>1, One, Pair
<1> HIDE DEF two, one, q
<1>4. t \in Seq(Signs)
  BY <1>3
<1>5. t \in Seq(Quiet) /\ t \in Seq(Tokens) /\ Only(t, Words) = << >>
  BY <1>4, SignsSay
<1>6. out \in Seq(Tokens) /\ Only(out, Words) = Only(u, Words) /\ Agree(State(b \o out), State(u))
  BY <1>1 DEF QuotedAs
<1> HIDE DEF t, out
<1>7. Only(out \o t, Words) = Only(out, Words) \o Only(t, Words) /\ out \o t \in Seq(Tokens)
  <2>1. out \in Seq(Tokens) /\ t \in Seq(Tokens)
    BY <1>5, <1>6
  <2>2. Only(out \o t, Words) = Only(out, Words) \o Only(t, Words)
    BY <2>1, OnlyOfBoth
  <2>3. out \o t \in Seq(Tokens)
    BY <2>1
  <2> QED
    BY <2>2, <2>3
<1>8. Only(u, Words) \in Seq(Words)
  BY OnlyType
<1>9. Only(out \o t, Words) = Only(u, Words)
  BY <1>5, <1>6, <1>7, <1>8
<1> DEFINE c == b \o out
<1>10. c \in Seq(Tokens) /\ b \o (out \o t) = c \o t
  BY <1>5, <1>6
<1>11. Sound(c)
  BY <1>6 DEF Sound, Agree
<1> HIDE DEF c
<1>12. Sound(c \o t)
  BY <1>5, <1>10, <1>11, SoundOn
<1> QED
  BY <1>2, <1>7, <1>9, <1>10, <1>12

-----------------------------------------------------------------------------
(* Nodes of which all is rendered, whatever they stand in.                 *)
GoodNode(n) ==
  /\ \A depth \in Nat : \A r \in Renderings : Grows(r, RenderNode[n][depth][r], CollectText[n], Missed(n))
  /\ n.type = "paragraph" =>
       \A depth \in Nat : \A r \in Renderings :
         Grows(r, RenderChildren(RenderNode, n.content, depth, r), CollectText[n], Missed(n))
  /\ n.type = "listItem" =>
       \A depth \in Nat : \A r \in Renderings :
         Grows(r, RenderListItem(RenderNode, n, depth, r), CollectText[n], Missed(n))
GoodNodes == {n \in Nodes : GoodNode(n)}

(* What has grown is a page.                                               *)
LEMMA GrowsInto ==
  ASSUME NEW r, NEW more, NEW words, NEW types, Grows(r, more, words, types)
  PROVE  more \in Renderings
BY DEF Grows

(* The texts of nodes that are all rendered are words.                     *)
LEMMA GoodTexts ==
  ASSUME NEW S, S \subseteq GoodNodes, NEW s \in Seq(S)
  PROVE  TextsIn(s) \in Seq(Words)
<1>1. \A x \in S : CollectText[x] \in Seq(Words)
  BY CollectTextType DEF GoodNodes
<1> QED
  BY <1>1, TextsInType

(* Children that are each rendered in full are so in a sequence.           *)
LEMMA ChildrenGrow ==
  ASSUME NEW s \in Seq(GoodNodes), NEW depth \in Nat, NEW r \in Renderings
  PROVE  Grows(r, RenderChildren(RenderNode, s, depth, r), TextsIn(s), MissedIn(s))
<1> DEFINE d == <<RenderNode, depth>>
           f(t) == ChildLoop!Loop(d, t, r)
           S == {t \in Seq(GoodNodes) : Grows(r, f(t), TextsIn(t), MissedIn(t))}
<1>1. << >> \in S
  <2> DEFINE none == << >>
  <2>1. f(none) = r
    BY ChildLoop!LoopOfNothing
  <2>2. TextsIn(none) = << >> /\ MissedIn(none) = {}
    BY TextsInIs, MissedInIs
  <2>3. none \in Seq(GoodNodes)
    OBVIOUS
  <2>4. Grows(r, f(none), TextsIn(none), MissedIn(none))
    BY <2>1, <2>2, GrowsNothing
  <2> HIDE DEF none, f
  <2>5. none \in S
    BY <2>3, <2>4
  <2> QED
    BY <2>5 DEF none
<1>2. ASSUME NEW t \in Seq(GoodNodes), NEW x \in GoodNodes, t \in S PROVE Append(t, x) \in S
  <2> DEFINE u == f(t)
             a == Append(t, x)
             v == RenderNode[x][depth][u]
  <2>1. f(a) = v
    <3>1. ChildLoop!Loop(d, a, r) = ChildBody(d, ChildLoop!Loop(d, t, r), x)
      BY ChildLoop!LoopOfAppend
    <3>2. d[1] = RenderNode /\ d[2] = depth
      OBVIOUS
    <3> HIDE DEF d, a
    <3> QED
      BY <3>1, <3>2 DEF ChildBody
  <2>2. Grows(r, u, TextsIn(t), MissedIn(t))
    BY <1>2
  <2>3. TextsIn(a) = TextsIn(t) \o CollectText[x] /\ MissedIn(a) = MissedIn(t) \cup Missed(x)
    BY TextsInIs, MissedInIs
  <2>4. a \in Seq(GoodNodes)
    OBVIOUS
  <2> HIDE DEF a, f
  <2>5. u \in Renderings
    BY <2>2, GrowsInto
  <2> HIDE DEF u
  <2>6. Grows(u, v, CollectText[x], Missed(x))
    BY <2>5 DEF GoodNodes, GoodNode
  <2>7. TextsIn(t) \in Seq(Words) /\ CollectText[x] \in Seq(Words)
    BY GoodTexts, CollectTextType DEF GoodNodes
  <2> HIDE DEF v
  <2>8. Grows(r, v, TextsIn(t) \o CollectText[x], MissedIn(t) \cup Missed(x))
    BY <2>2, <2>6, <2>7, GrowsOn
  <2>9. a \in S
    BY <2>1, <2>3, <2>4, <2>8
  <2> QED
    BY <2>9 DEF a
<1> HIDE DEF S
<1>3. Seq(GoodNodes) \subseteq S
  BY <1>1, <1>2, OnlyLoop!InductionOverSeq
<1>4. Grows(r, f(s), TextsIn(s), MissedIn(s))
  BY <1>3 DEF S
<1> QED
  BY <1>4, ChildrenIs

(* So is the content of a list item.                                       *)
LEMMA ItemsGrow ==
  ASSUME NEW s \in Seq(GoodNodes), NEW depth \in Nat, NEW r \in Renderings
  PROVE  Grows(r, ItemLoop!Loop(<<RenderNode, depth>>, s, r), TextsIn(s), MissedIn(s))
<1> DEFINE d == <<RenderNode, depth>>
           f(t) == ItemLoop!Loop(d, t, r)
           S == {t \in Seq(GoodNodes) : Grows(r, f(t), TextsIn(t), MissedIn(t))}
<1>1. << >> \in S
  <2> DEFINE none == << >>
  <2>1. f(none) = r
    BY ItemLoop!LoopOfNothing
  <2>2. TextsIn(none) = << >> /\ MissedIn(none) = {}
    BY TextsInIs, MissedInIs
  <2>3. none \in Seq(GoodNodes)
    OBVIOUS
  <2>4. Grows(r, f(none), TextsIn(none), MissedIn(none))
    BY <2>1, <2>2, GrowsNothing
  <2> HIDE DEF none, f
  <2>5. none \in S
    BY <2>3, <2>4
  <2> QED
    BY <2>5 DEF none
<1>2. ASSUME NEW t \in Seq(GoodNodes), NEW x \in GoodNodes, t \in S PROVE Append(t, x) \in S
  <2> DEFINE u == f(t)
             a == Append(t, x)
             v == f(a)
  <2>1. v = IF x.type = "paragraph" THEN RenderChildren(RenderNode, x.content, depth, u) ELSE RenderNode[x][depth][u]
    <3>1. ItemLoop!Loop(d, a, r) = ItemBody(d, ItemLoop!Loop(d, t, r), x)
      BY ItemLoop!LoopOfAppend
    <3>2. d[1] = RenderNode /\ d[2] = depth
      OBVIOUS
    <3> HIDE DEF d, a
    <3> QED
      BY <3>1, <3>2 DEF ItemBody
  <2>2. Grows(r, u, TextsIn(t), MissedIn(t))
    BY <1>2
  <2>3. TextsIn(a) = TextsIn(t) \o CollectText[x] /\ MissedIn(a) = MissedIn(t) \cup Missed(x)
    BY TextsInIs, MissedInIs
  <2>4. a \in Seq(GoodNodes)
    OBVIOUS
  <2> HIDE DEF a, f
  <2>5. u \in Renderings
    BY <2>2, GrowsInto
  <2> HIDE DEF u, v
  <2>6. Grows(u, v, CollectText[x], Missed(x))
    BY <2>1, <2>5 DEF GoodNodes, GoodNode
  <2>7. TextsIn(t) \in Seq(Words) /\ CollectText[x] \in Seq(Words)
    BY GoodTexts, CollectTextType DEF GoodNodes
  <2>8. Grows(r, v, TextsIn(t) \o CollectText[x], MissedIn(t) \cup Missed(x))
    BY <2>2, <2>6, <2>7, GrowsOn
  <2>9. a \in S
    BY <2>3, <2>4, <2>8 DEF v
  <2> QED
    BY <2>9 DEF a
<1> HIDE DEF S
<1>3. Seq(GoodNodes) \subseteq S
  BY <1>1, <1>2, OnlyLoop!InductionOverSeq
<1>4. Grows(r, f(s), TextsIn(s), MissedIn(s))
  BY <1>3 DEF S
<1> QED
  BY <1>4

(* A line break adds nothing and begins a line.                            *)
LEMMA BreakGrows ==
  ASSUME NEW r \in Renderings
  PROVE  Grows(r, Put(r, <<"nl">>), << >>, {}) /\ Fresh(Put(r, <<"nl">>).buf)
<1> DEFINE nl == "nl"
           one == <<nl>>
           b == r.buf
<1>1. nl \in Signs /\ nl \in Tokens
  BY Zenon, SignsAre
<1>2. one \in Seq(Signs) /\ one \in Seq(Tokens) /\ one # << >> /\ one[Len(one)] = "nl"
  <2> HIDE DEF nl
  <2>1. one \in Seq(Signs) /\ one \in Seq(Tokens)
    BY <1>1, One
  <2>2. one # << >> /\ one[Len(one)] = nl
    OBVIOUS
  <2> QED
    BY <2>1, <2>2 DEF nl
<1>3. b \in Seq(Tokens)
  BY RenderingIs
<1> HIDE DEF one
<1>4. Put(r, one).buf = b \o one
  BY <1>2, PutIs
<1>5. Grows(r, Put(r, one), << >>, {})
  BY <1>2, PutSigns
<1> HIDE DEF b
<1>6. Fresh(b \o one)
  BY <1>2, <1>3, FreshPut
<1> QED
  BY <1>4, <1>5, <1>6 DEF one

GoodItems == {x \in GoodNodes : x.type = "listItem"}

(* A list item, on a line of its own.                                      *)
LEMMA BulletedGrows ==
  ASSUME NEW x \in GoodItems, NEW depth \in Nat, NEW r \in Renderings, Fresh(r.buf)
  PROVE  LET v == ListBody(<<RenderNode, depth>>, r, x)
         IN  Grows(r, v, CollectText[x], Missed(x)) /\ Fresh(v.buf)
<1> DEFINE d == <<RenderNode, depth>>
           more == depth + 1
           u == Put(r, Bullet(depth))
           w == RenderListItem(RenderNode, x, more, u)
           one == <<"nl">>
           v == Put(w, one)
           words == CollectText[x]
           none == << >>
<1>1. d[1] = RenderNode /\ d[2] = depth /\ x.type = "listItem" /\ more \in Nat /\ x \in Nodes /\ GoodNode(x)
  BY DEF GoodItems, GoodNodes
<1> HIDE DEF d
<1>2. ListBody(d, r, x) = v
  BY <1>1 DEF ListBody
<1>3. words \in Seq(Words) /\ none \in Seq(Words) /\ none \o words = words /\ words \o none = words
  <2>1. words \in Seq(Words)
    BY <1>1, CollectTextType
  <2> HIDE DEF words
  <2> QED
    BY <2>1
<1>4. Grows(r, u, none, {})
  BY BulletGrows
<1> HIDE DEF u, more
<1>5. u \in Renderings
  BY <1>4, GrowsInto
<1>6. Grows(u, w, words, Missed(x))
  BY <1>1, <1>5 DEF GoodNode
<1> HIDE DEF w
<1>7. w \in Renderings
  BY <1>6, GrowsInto
<1>8. Grows(w, v, none, {}) /\ Fresh(v.buf)
  BY <1>7, BreakGrows
<1> HIDE DEF v, words, none
<1>9. Grows(r, w, none \o words, {} \cup Missed(x))
  BY <1>3, <1>4, <1>6, GrowsOn
<1>10. {} \cup Missed(x) = Missed(x) /\ Missed(x) \cup {} = Missed(x)
  OBVIOUS
<1>11. Grows(r, w, words, Missed(x))
  BY <1>3, <1>9, <1>10
<1>12. Grows(r, v, words \o none, Missed(x) \cup {})
  BY <1>3, <1>8, <1>11, GrowsOn
<1>13. Grows(r, v, words, Missed(x)) /\ Fresh(v.buf)
  BY <1>3, <1>8, <1>10, <1>12
<1> QED
  BY <1>2, <1>13 DEF words, d

(* The items of a list add their texts.                                    *)
LEMMA ListsGrow ==
  ASSUME NEW s \in Seq(GoodItems), NEW depth \in Nat, NEW r \in Renderings, Fresh(r.buf)
  PROVE  Grows(r, ListLoop!Loop(<<RenderNode, depth>>, s, r), TextsIn(s), MissedIn(s))
<1> DEFINE d == <<RenderNode, depth>>
           f(t) == ListLoop!Loop(d, t, r)
           S == {t \in Seq(GoodItems) : Grows(r, f(t), TextsIn(t), MissedIn(t)) /\ Fresh(f(t).buf)}
<1>1. << >> \in S
  <2> DEFINE none == << >>
  <2>1. f(none) = r
    BY ListLoop!LoopOfNothing
  <2>2. TextsIn(none) = << >> /\ MissedIn(none) = {}
    BY TextsInIs, MissedInIs
  <2>3. none \in Seq(GoodItems)
    OBVIOUS
  <2>4. Grows(r, f(none), TextsIn(none), MissedIn(none)) /\ Fresh(f(none).buf)
    BY <2>1, <2>2, GrowsNothing
  <2> HIDE DEF none, f
  <2>5. none \in S
    BY <2>3, <2>4
  <2> QED
    BY <2>5 DEF none
<1>2. ASSUME NEW t \in Seq(GoodItems), NEW x \in GoodItems, t \in S PROVE Append(t, x) \in S
  <2> DEFINE u == f(t)
             a == Append(t, x)
             v == f(a)
  <2>1. v = ListBody(d, u, x)
    BY ListLoop!LoopOfAppend
  <2>2. Grows(r, u, TextsIn(t), MissedIn(t)) /\ Fresh(u.buf)
    BY <1>2
  <2>3. TextsIn(a) = TextsIn(t) \o CollectText[x] /\ MissedIn(a) = MissedIn(t) \cup Missed(x)
    BY TextsInIs, MissedInIs
  <2>4. a \in Seq(GoodItems)
    OBVIOUS
  <2> HIDE DEF a, f
  <2>5. u \in Renderings
    BY <2>2, GrowsInto
  <2> HIDE DEF u, v
  <2>6. Grows(u, v, CollectText[x], Missed(x)) /\ Fresh(v.buf)
    BY <2>1, <2>2, <2>5, BulletedGrows
  <2>7. TextsIn(t) \in Seq(Words) /\ CollectText[x] \in Seq(Words)
    <3>1. GoodItems \subseteq GoodNodes /\ x \in Nodes
      BY DEF GoodItems, GoodNodes
    <3> QED
      BY <3>1, GoodTexts, CollectTextType
  <2>8. Grows(r, v, TextsIn(t) \o CollectText[x], MissedIn(t) \cup Missed(x))
    BY <2>2, <2>6, <2>7, GrowsOn
  <2>9. a \in S
    BY <2>3, <2>4, <2>6, <2>8 DEF v
  <2> QED
    BY <2>9 DEF a
<1> HIDE DEF S
<1>3. Seq(GoodItems) \subseteq S
  BY <1>1, <1>2, OnlyLoop!InductionOverSeq
<1>4. Grows(r, f(s), TextsIn(s), MissedIn(s))
  BY <1>3 DEF S
<1> QED
  BY <1>4

(* A line break after an addition adds nothing to it.                      *)
LEMMA ThenBreakGrows ==
  ASSUME NEW r \in Renderings, NEW u, NEW words \in Seq(Words), NEW types, Grows(r, u, words, types)
  PROVE  Grows(r, Put(u, <<"nl">>), words, types)
<1> DEFINE v == Put(u, <<"nl">>)
           none == << >>
<1>1. u \in Renderings
  BY GrowsInto
<1>2. Grows(u, v, none, {})
  BY <1>1, BreakGrows
<1>3. none \in Seq(Words) /\ words \o none = words
  OBVIOUS
<1> HIDE DEF none, v
<1>4. Grows(r, v, words \o none, types \cup {})
  BY <1>2, <1>3, GrowsOn
<1>5. types \cup {} = types
  OBVIOUS
<1>6. Grows(r, v, words, types)
  BY <1>3, <1>4, <1>5
<1> QED
  BY <1>6 DEF v

(* An addition after nothing is that addition.                             *)
LEMMA AfterNothingGrows ==
  ASSUME NEW r \in Renderings, NEW u, Grows(r, u, << >>, {}), NEW v, NEW words \in Seq(Words), NEW types,
         Grows(u, v, words, types)
  PROVE  Grows(r, v, words, types)
<1> DEFINE none == << >>
<1>1. none \in Seq(Words) /\ none \o words = words /\ {} \cup types = types
  OBVIOUS
<1>2. Grows(r, u, none, {})
  OBVIOUS
<1> HIDE DEF none
<1>3. Grows(r, v, none \o words, {} \cup types)
  BY <1>1, <1>2, GrowsOn
<1> QED
  BY <1>1, <1>3

(* The empty page is well made.                                            *)
LEMMA BlankIs == Blank \in Renderings /\ Only(Blank.buf, Words) = << >> /\ Sound(Blank.buf) /\ Fresh(Blank.buf)
                 /\ ToSet(Blank.unknown) = {}
<1> DEFINE none == << >>
<1>1. Blank \in Renderings /\ Blank.buf = none /\ Blank.unknown = none
  BY DEF Blank, Renderings
<1>2. Only(none, Words) = none
  BY OnlyOfNothing
<1>3. Sound(none) /\ Fresh(none)
  BY StateOfNothing DEF Sound, Fresh, AtFirst
<1>4. ToSet(none) = {}
  BY DEF ToSet
<1> HIDE DEF none
<1> QED
  BY <1>1, <1>2, <1>3, <1>4 DEF none

(* A quotation adds the texts in it.                                       *)
LEMMA QuotationGrows ==
  ASSUME NEW n \in Nodes, n.content \in Seq(GoodNodes), NEW depth \in Nat, NEW r \in Renderings
  PROVE  Grows(r, RenderBlockquote(RenderNode, n, depth, r), TextsIn(n.content), MissedIn(n.content))
<1> DEFINE s == n.content
           sub == RenderChildren(RenderNode, s, depth, Blank)
           e == EnsureBlankLine(r)
           u == [e EXCEPT !.unknown = r.unknown \o sub.unknown]
           quote == Quote(sub.buf)
           p == Put(u, quote)
           words == TextsIn(s)
           types == MissedIn(s)
<1>1. RenderBlockquote(RenderNode, n, depth, r) = p
  BY DEF RenderBlockquote, WithUnknown
<1>2. Grows(Blank, sub, words, types)
  BY BlankIs, ChildrenGrow
<1>3. words \in Seq(Words)
  BY GoodTexts
<1> HIDE DEF s, sub, words, types
<1>4. /\ sub \in Renderings /\ Only(sub.buf, Words) = words /\ Sound(sub.buf)
      /\ ToSet(sub.unknown) = types
  <2>1. /\ sub \in Renderings /\ Only(sub.buf, Words) = Only(Blank.buf, Words) \o words
        /\ ToSet(sub.unknown) = ToSet(Blank.unknown) \cup types
        /\ Sound(Blank.buf) => Sound(sub.buf)
    BY <1>2 DEF Grows
  <2>2. << >> \o words = words
    BY <1>3
  <2> QED
    BY <2>1, <2>2, BlankIs
<1>5. sub.buf \in Seq(Tokens) /\ sub.unknown \in Seq(Types) /\ r.unknown \in Seq(Types)
  BY <1>4, RenderingIs
<1>6. Grows(r, e, << >>, {}) /\ Fresh(e.buf)
  BY EnsureGrows
<1> HIDE DEF e
<1>7. /\ e \in Renderings /\ Only(e.buf, Words) = Only(r.buf, Words) \o << >>
      /\ Sound(r.buf) => Sound(e.buf)
  BY <1>6 DEF Grows
<1>8. u \in Renderings /\ u.buf = e.buf /\ u.unknown = r.unknown \o sub.unknown
  <2>1. r.unknown \o sub.unknown \in Seq(Types)
    BY <1>5
  <2> QED
    BY <1>7, <2>1 DEF Renderings
<1>9. ToSet(u.unknown) = ToSet(r.unknown) \cup types
  <2> DEFINE a == r.unknown
             b == sub.unknown
  <2>1. a \in Seq(Types) /\ b \in Seq(Types) /\ n.type \in Types
    BY <1>5 DEF Types
  <2>2. u.unknown = a \o b /\ ToSet(b) = types
    BY <1>4, <1>8
  <2> HIDE DEF a, b, u
  <2>3. ToSet(a \o b) = ToSet(a) \cup ToSet(b)
    BY <2>1, SetOfBoth
  <2> QED
    BY <2>2, <2>3 DEF a
<1> HIDE DEF u
<1>10. Only(r.buf, Words) \in Seq(Words) /\ e.buf \in Seq(Tokens)
  BY <1>7, RenderingIs
<1>11. Only(e.buf, Words) = Only(r.buf, Words)
  BY <1>7, <1>10
<1>12. quote \in Seq(Tokens) /\ Only(quote, Words) = words
  <2> DEFINE none == << >>
  <2>1. none \in Seq(Tokens) /\ Agree(State(none), AtFirst)
    BY StateOfNothing DEF Agree
  <2> HIDE DEF none
  <2> QED
    BY <1>4, <1>5, <2>1, QuoteSays
<1>13. Sound(r.buf) => Sound(e.buf \o quote)
  <2> SUFFICES ASSUME Sound(r.buf) PROVE Sound(e.buf \o quote)
    OBVIOUS
  <2>1. Agree(State(e.buf), AtFirst)
    BY <1>6, <1>7 DEF Agree, Fresh, Sound, AtFirst
  <2> DEFINE b == e.buf
  <2>2. b \in Seq(Tokens) /\ Agree(State(b), AtFirst)
    BY <1>10, <2>1
  <2> HIDE DEF b
  <2>3. Sound(b \o quote)
    BY <1>4, <1>5, <2>2, QuoteSays
  <2> QED
    BY <2>3 DEF b
<1> HIDE DEF quote
<1>14. p \in Renderings /\ p.buf = e.buf \o quote /\ p.unknown = u.unknown
  BY <1>8, <1>12, PutIs
<1> HIDE DEF p
<1>15. Only(p.buf, Words) = Only(r.buf, Words) \o words
  <2> DEFINE b == e.buf
  <2>1. b \in Seq(Tokens) /\ quote \in Seq(Tokens)
    BY <1>10, <1>12
  <2> HIDE DEF b
  <2>2. Only(b \o quote, Words) = Only(b, Words) \o Only(quote, Words)
    BY <2>1, OnlyOfBoth
  <2> QED
    BY <1>11, <1>12, <1>14, <2>2 DEF b
<1>16. Grows(r, p, words, types)
  BY <1>9, <1>13, <1>14, <1>15 DEF Grows
<1> QED
  BY <1>1, <1>16 DEF words, types, s

-----------------------------------------------------------------------------
(* A node all of whose content is rendered, is.                            *)
LEMMA BelowGrows ==
  ASSUME NEW n \in Nodes, n.content \in Seq(GoodNodes), NEW depth \in Nat, NEW r \in Renderings
  PROVE  Grows(r, RenderBelow(RenderNode, n, depth, r), CollectText[n], Missed(n))
<1> DEFINE s == n.content
           t == n.type
           words == CollectText[n]
           types == Missed(n)
           p == RenderBelow(RenderNode, n, depth, r)
           e == EnsureBlankLine(r)
<1>1. words \in Seq(Words)
  BY CollectTextType
<1>2. t # "text" => words = TextsIn(s)
  BY CollectTextIs DEF TextsIn
<1>3. types = IF t \in KnownTypes THEN MissedIn(s) ELSE {t}
  BY MissedOf
<1>4. \A q \in Renderings : Grows(q, RenderChildren(RenderNode, s, depth, q), TextsIn(s), MissedIn(s))
  BY ChildrenGrow
<1>5. Grows(r, e, << >>, {}) /\ Fresh(e.buf) /\ e \in Renderings
  BY EnsureGrows, GrowsInto
<1>6. t \in {"text", "hardBreak"} => s = << >>
  BY NodesAssumption
<1> SUFFICES Grows(r, p, words, types)
  OBVIOUS
<1> HIDE DEF s, words, types, e
<1>7. CASE t \in {"doc", "listItem"}
  <2>1. t # "text" /\ t \in KnownTypes
    BY <1>7 DEF KnownTypes
  <2>2. p = RenderChildren(RenderNode, s, depth, r)
    BY Zenon, <1>7 DEF RenderBelow, s
  <2>3. words = TextsIn(s) /\ types = MissedIn(s)
    BY <1>2, <1>3, <2>1
  <2> HIDE DEF p
  <2> QED
    BY <1>4, <2>2, <2>3
<1>8. CASE t = "paragraph"
  <2> DEFINE q == RenderChildren(RenderNode, s, depth, e)
             v == Put(q, <<"nl">>)
  <2>1. t # "text" /\ t \in KnownTypes
    BY <1>8 DEF KnownTypes
  <2>2. p = v
    BY <1>8 DEF RenderBelow, s, e
  <2>3. words = TextsIn(s) /\ types = MissedIn(s)
    BY <1>2, <1>3, <2>1
  <2>4. Grows(e, q, words, types)
    BY <1>4, <1>5, <2>3
  <2> HIDE DEF p, q
  <2>5. Grows(r, q, words, types)
    BY <1>1, <1>5, <2>4, AfterNothingGrows
  <2>6. Grows(r, v, words, types)
    BY <1>1, <2>5, ThenBreakGrows
  <2> QED
    BY <2>2, <2>6
<1>9. CASE t = "heading"
  <2> DEFINE mark == "# "
             h == Put(e, <<mark>>)
             q == RenderChildren(RenderNode, s, depth, h)
             v == Put(q, <<"nl">>)
  <2>1. t # "text" /\ t \in KnownTypes
    BY <1>9 DEF KnownTypes
  <2>2. p = v
    BY <1>9 DEF RenderBelow, s, e
  <2>3. words = TextsIn(s) /\ types = MissedIn(s)
    BY <1>2, <1>3, <2>1
  <2>4. Grows(e, h, << >>, {})
    <3>1. mark \in {"# ", "- "}
      OBVIOUS
    <3> HIDE DEF mark
    <3> QED
      BY Zenon, <1>5, <3>1, MarkerGrows
  <2> HIDE DEF h
  <2>5. h \in Renderings
    BY <2>4, GrowsInto
  <2>6. Grows(h, q, words, types)
    BY <1>4, <2>3, <2>5
  <2> HIDE DEF p, q
  <2>7. Grows(e, q, words, types)
    BY <1>1, <1>5, <2>4, <2>6, AfterNothingGrows
  <2>8. Grows(r, q, words, types)
    BY <1>1, <1>5, <2>7, AfterNothingGrows
  <2>9. Grows(r, v, words, types)
    BY <1>1, <2>8, ThenBreakGrows
  <2> QED
    BY <2>2, <2>9
<1>10. CASE t = "text"
  <2> DEFINE u == RenderText(n)
             one == <<n.text>>
  <2>1. p = Put(r, u)
    BY <1>10 DEF RenderBelow
  <2>2. words = one
    BY <1>10, CollectTextIs DEF words
  <2>3. Saying(u, one)
    BY <1>10, TextSays
  <2>4. types = {}
    <3>1. t \in KnownTypes
      BY <1>10 DEF KnownTypes
    <3> QED
      BY <1>3, <1>6, <1>10, <3>1, MissedInIs
  <2> HIDE DEF u, p
  <2>5. u \in Seq(Quiet) /\ Only(u, Words) = words
    BY <2>2, <2>3 DEF Saying
  <2> QED
    BY <2>1, <2>4, <2>5, PutGrows
<1>11. CASE t = "hardBreak"
  <2> DEFINE u == <<"  ", "nl">>
  <2>1. p = Put(r, u)
    BY <1>11 DEF RenderBelow
  <2>2. t # "text" /\ t \in KnownTypes
    BY <1>11 DEF KnownTypes
  <2>3. words = << >> /\ types = {}
    <3>1. words = TextsIn(s) /\ types = MissedIn(s)
      BY <1>2, <1>3, <2>2
    <3>2. s = << >>
      BY <1>6, <1>11
    <3> QED
      BY <3>1, <3>2, TextsInIs, MissedInIs
  <2>4. u \in Seq(Signs)
    <3>1. "  " \in Signs /\ "nl" \in Signs
      BY Zenon, SignsAre
    <3> QED
      BY Zenon, <3>1, Pair
  <2> HIDE DEF u, p
  <2> QED
    BY <2>1, <2>3, <2>4, PutSigns
<1>12. CASE t \in {"bulletList", "orderedList"}
  <2> DEFINE d == <<RenderNode, depth>>
             q == ListLoop!Loop(d, s, e)
  <2>1. t # "text" /\ t \in KnownTypes
    BY <1>12 DEF KnownTypes
  <2>2. p = q
    <3>1. p = RenderList(RenderNode, n, depth, r)
      BY <1>12 DEF RenderBelow
    <3> QED
      BY <3>1, ListIs DEF s, e
  <2>3. words = TextsIn(s) /\ types = MissedIn(s)
    BY <1>2, <1>3, <2>1
  <2>4. s \in Seq(GoodItems)
    <3>1. \A i \in DOMAIN n.content : n.content[i].type = "listItem"
      BY <1>12, NodesAssumption
    <3>2. s \in Seq(GoodNodes) /\ \A i \in DOMAIN s : s[i].type = "listItem"
      BY <3>1 DEF s
    <3>3. DOMAIN s = 1 .. Len(s) /\ Len(s) \in Nat /\ \A i \in 1 .. Len(s) : s[i] \in GoodNodes
      BY <3>2
    <3>4. \A i \in 1 .. Len(s) : s[i] \in GoodItems
      BY <3>2, <3>3 DEF GoodItems
    <3>5. s = [i \in 1 .. Len(s) |-> s[i]]
      BY <3>2
    <3> QED
      BY <3>3, <3>4, <3>5, SeqDef
  <2>5. Grows(e, q, words, types)
    BY <1>5, <2>3, <2>4, ListsGrow
  <2> HIDE DEF p, q
  <2> QED
    BY <1>1, <1>5, <2>2, <2>5, AfterNothingGrows
<1>13. CASE t = "codeBlock"
  <2>1. p = Put(EnsureBlankLine(r), CodeBlock(n))
    BY <1>13 DEF RenderBelow
  <2>2. Grows(r, Put(EnsureBlankLine(r), CodeBlock(n)), CollectText[n], {})
    BY <1>13, CodeGrows
  <2>3. types = {}
    <3>1. t \in KnownTypes
      BY <1>13 DEF KnownTypes
    <3>2. \A i \in DOMAIN n.content : n.content[i].type = "text"
      BY <1>13, NodesAssumption
    <3>3. DOMAIN s = 1 .. Len(s) /\ \A i \in 1 .. Len(s) : s[i] \in Nodes
      BY NodeIs DEF s
    <3>4. ASSUME NEW i \in DOMAIN s PROVE Missed(s[i]) = {}
      <4> DEFINE x == s[i]
      <4>1. x \in Nodes /\ x.type = "text"
        BY <3>2, <3>3 DEF s
      <4>2. x.content = << >> /\ x.type \in KnownTypes
        BY <4>1, NodesAssumption DEF KnownTypes
      <4>3. Missed(x) = {}
        BY <4>1, <4>2, MissedOf, MissedInIs
      <4> QED
        BY <4>3
    <3>5. MissedIn(s) = {}
      BY <3>4 DEF MissedIn
    <3> QED
      BY <1>3, <3>1, <3>5
  <2> HIDE DEF p
  <2> QED
    BY <2>1, <2>2, <2>3 DEF words
<1>14. CASE t = "blockquote"
  <2>1. t # "text" /\ t \in KnownTypes
    BY <1>14 DEF KnownTypes
  <2>2. p = RenderBlockquote(RenderNode, n, depth, r)
    BY <1>14 DEF RenderBelow
  <2>3. words = TextsIn(s) /\ types = MissedIn(s)
    BY <1>2, <1>3, <2>1
  <2>4. Grows(r, RenderBlockquote(RenderNode, n, depth, r), TextsIn(n.content), MissedIn(n.content))
    BY QuotationGrows
  <2> HIDE DEF p
  <2> QED
    BY <2>2, <2>3, <2>4 DEF s
<1>15. CASE t \notin {"doc", "listItem", "paragraph", "heading", "text", "hardBreak", "codeBlock",
                      "bulletList", "orderedList", "blockquote"}
  <2>1. t \notin KnownTypes
    BY <1>15 DEF KnownTypes
  <2>2. p = RenderUnknown(n, r)
    BY Zenon, <1>15 DEF RenderBelow
  <2>3. types = {t}
    BY <1>3, <2>1
  <2>4. Grows(r, RenderUnknown(n, r), CollectText[n], {n.type})
    BY UnknownGrows
  <2> HIDE DEF p
  <2> QED
    BY <2>2, <2>3, <2>4 DEF words
<1> QED
  BY <1>7, <1>8, <1>9, <1>10, <1>11, <1>12, <1>13, <1>14, <1>15

(* By induction over its height, every node is rendered in full, wherever  *)
(* it stands.                                                              *)
LEMMA AllAreGood == Nodes \subseteq GoodNodes
<1>1. ASSUME NEW n \in Nodes, \A x \in Nodes : Height[x] < Height[n] => x \in GoodNodes PROVE n \in GoodNodes
  <2> DEFINE s == n.content
  <2>1. s \in Seq(GoodNodes)
    <3>1. s \in Seq(Lower(n)) /\ Lower(n) \subseteq GoodNodes
      BY <1>1, ContentIsLower DEF Lower
    <3> HIDE DEF s
    <3> QED
      BY <3>1, SeqMonotonic
  <2>2. \A depth \in Nat : \A r \in Renderings :
          Grows(r, RenderNode[n][depth][r], CollectText[n], Missed(n))
    BY <2>1, RenderNodeIs, BelowGrows
  <2>3. n.type \in {"paragraph", "listItem"} => CollectText[n] = TextsIn(s) /\ Missed(n) = MissedIn(s)
    <3> SUFFICES ASSUME n.type \in {"paragraph", "listItem"} PROVE CollectText[n] = TextsIn(s) /\ Missed(n) = MissedIn(s)
      OBVIOUS
    <3>1. n.type # "text" /\ n.type \in KnownTypes
      BY DEF KnownTypes
    <3> QED
      BY <3>1, CollectTextIs, MissedOf DEF TextsIn
  <2> HIDE DEF s
  <2>4. n.type = "paragraph" =>
          \A depth \in Nat : \A r \in Renderings :
            Grows(r, RenderChildren(RenderNode, s, depth, r), CollectText[n], Missed(n))
    <3> SUFFICES ASSUME n.type = "paragraph", NEW depth \in Nat, NEW r \in Renderings
                 PROVE  Grows(r, RenderChildren(RenderNode, s, depth, r), CollectText[n], Missed(n))
      OBVIOUS
    <3>1. Grows(r, RenderChildren(RenderNode, s, depth, r), TextsIn(s), MissedIn(s))
      BY <2>1, ChildrenGrow
    <3> QED
      BY <2>3, <3>1
  <2>5. n.type = "listItem" =>
          \A depth \in Nat : \A r \in Renderings :
            Grows(r, RenderListItem(RenderNode, n, depth, r), CollectText[n], Missed(n))
    <3> SUFFICES ASSUME n.type = "listItem", NEW depth \in Nat, NEW r \in Renderings
                 PROVE  Grows(r, RenderListItem(RenderNode, n, depth, r), CollectText[n], Missed(n))
      OBVIOUS
    <3>1. Grows(r, ItemLoop!Loop(<<RenderNode, depth>>, s, r), TextsIn(s), MissedIn(s))
      BY <2>1, ItemsGrow
    <3>2. RenderListItem(RenderNode, n, depth, r) = ItemLoop!Loop(<<RenderNode, depth>>, s, r)
      BY ItemIs DEF s
    <3> QED
      BY <2>3, <3>1, <3>2
  <2> QED
    BY <2>2, <2>4, <2>5 DEF GoodNodes, GoodNode, s
<1>2. Height \in [Nodes -> Nat]
  BY NodesAssumption
<1> DEFINE G == GoodNodes
<1> HIDE DEF G
<1>3. \A n \in Nodes : (\A x \in Nodes : Height[x] < Height[n] => x \in G) => n \in G
  BY <1>1 DEF G
<1>4. Nodes \subseteq G
  BY <1>2, <1>3, OnlyLoop!InductionOverHeights
<1> QED
  BY <1>4 DEF G

(* What a document is rendered as: its texts, in a page that is well made, *)
(* and the types of its nodes that are not known.                          *)
LEMMA DocumentIs ==
  ASSUME NEW doc \in Nodes
  PROVE  LET md == RenderMarkdown(doc)
         IN  /\ md \in Renderings /\ Only(md.buf, Words) = CollectText[doc]
             /\ ToSet(md.unknown) = Missed(doc) /\ Sound(md.buf)
<1> DEFINE md == RenderMarkdown(doc)
<1>1. Grows(Blank, md, CollectText[doc], Missed(doc))
  <2>1. \A depth \in Nat : \A r \in Renderings :
          Grows(r, RenderNode[doc][depth][r], CollectText[doc], Missed(doc))
    BY AllAreGood DEF GoodNodes, GoodNode
  <2> QED
    BY <2>1, BlankIs DEF RenderMarkdown
<1> HIDE DEF md
<1>2. /\ md \in Renderings /\ Only(md.buf, Words) = Only(Blank.buf, Words) \o CollectText[doc]
      /\ ToSet(md.unknown) = ToSet(Blank.unknown) \cup Missed(doc)
      /\ Sound(Blank.buf) => Sound(md.buf)
  BY <1>1 DEF Grows
<1>3. << >> \o CollectText[doc] = CollectText[doc]
  BY CollectTextType
<1>4. /\ md \in Renderings /\ Only(md.buf, Words) = CollectText[doc]
      /\ ToSet(md.unknown) = Missed(doc) /\ Sound(md.buf)
  BY <1>2, <1>3, BlankIs
<1> QED
  BY <1>4 DEF md

-----------------------------------------------------------------------------
(* The description of the page.                                            *)
LEMMA DescribedKeeps ==
  ASSUME NEW buf \in Seq(Tokens), Sound(buf)
  PROVE  Only(Described(buf), Words) = Only(buf, Words) /\ Sound(Described(buf))
<1> DEFINE blanks == {"nl", "  "}
           note == <<NoDescription>>
<1>1. Described(buf) = IF ToSet(buf) \subseteq blanks THEN note ELSE buf
  BY DEF Described
<1>2. CASE ~(ToSet(buf) \subseteq blanks)
  <2> HIDE DEF blanks, note
  <2> QED
    BY <1>1, <1>2
<1>3. CASE ToSet(buf) \subseteq blanks
  <2> DEFINE T == {NoDescription}
  <2>1. blanks \cap Words = {}
    <3>1. blanks \subseteq Markup /\ Words \cap (Markup \cup Targets) = {}
      BY Zenon, TokensAre
    <3> HIDE DEF blanks
    <3> QED
      BY <3>1
  <2>2. T \cap Words = {}
    BY ContentAssumption
  <2>3. note \in Seq(T)
    <3> DEFINE x == NoDescription
    <3>1. x \in T
      OBVIOUS
    <3> HIDE DEF x, T
    <3> QED
      BY <3>1, One DEF x
  <2>4. State(note) = ReadToken(AtFirst, NoDescription)
    <3> DEFINE none == << >>
               x == NoDescription
    <3>1. none \in Seq(T) /\ note = Append(none, x)
      OBVIOUS
    <3> HIDE DEF none, x, note
    <3>2. State(Append(none, x)) = ReadToken(State(none), x)
      BY <3>1, StateOfAppend
    <3> QED
      BY <3>1, <3>2, StateOfNothing DEF none, x
  <2>5. NoDescription \notin {"# ", "- ", "fence"} /\ NoDescription # "fence"
    BY DEF NoDescription
  <2>6. Sound(note)
    <3> DEFINE x == NoDescription
               a == AtFirst
    <3>1. ~a.open /\ a.well
      BY DEF AtFirst
    <3>2. State(note) = ReadToken(a, x) /\ x \notin {"# ", "- ", "fence"} /\ x # "fence"
      BY Zenon, <2>4, <2>5
    <3> HIDE DEF note, a, x
    <3>3. ReadToken(a, x).well /\ ~ReadToken(a, x).open
      BY Zenon, <3>1, <3>2, ReadTokenIs
    <3> QED
      BY Zenon, <3>2, <3>3 DEF Sound
  <2> HIDE DEF blanks, note, T
  <2>7. Only(note, Words) = << >>
    BY <2>2, <2>3, OnlyNone
  <2>8. buf \in Seq(blanks)
    <3>1. Len(buf) \in Nat /\ DOMAIN buf = 1 .. Len(buf) /\ buf = [i \in 1 .. Len(buf) |-> buf[i]]
      OBVIOUS
    <3>2. \A i \in 1 .. Len(buf) : buf[i] \in blanks
      BY <1>3, <3>1 DEF ToSet
    <3> QED
      BY <3>1, <3>2, SeqDef
  <2>9. Only(buf, Words) = << >>
    BY <2>1, <2>8, OnlyNone
  <2> QED
    BY <1>1, <1>3, <2>6, <2>7, <2>9
<1> QED
  BY Zenon, <1>2, <1>3

-----------------------------------------------------------------------------
(* Each of the types once.                                                 *)
RepeatBody(c, acc, x) == IF x \in ToSet(acc) THEN acc ELSE Append(acc, x)
RepeatLoop == INSTANCE LoopProofs WITH Body <- RepeatBody, Kept <- Held

(* Without repetitions there are the same elements.                        *)
LEMMA RemoveRepeatedKeeps ==
  ASSUME NEW T, NEW s \in Seq(T)
  PROVE  RemoveRepeated(s) \in Seq(T) /\ ToSet(RemoveRepeated(s)) = ToSet(s)
<1> DEFINE f(t) == RepeatLoop!Loop(0, t, << >>)
           S == {t \in Seq(T) : f(t) \in Seq(T) /\ ToSet(f(t)) = ToSet(t)}
<1>1. << >> \in S
  <2> DEFINE none == << >>
  <2>1. f(none) = none /\ none \in Seq(T)
    BY RepeatLoop!LoopOfNothing
  <2> HIDE DEF none, f
  <2>2. none \in S
    BY <2>1
  <2> QED
    BY <2>2 DEF none
<1>2. ASSUME NEW t \in Seq(T), NEW x \in T, t \in S PROVE Append(t, x) \in S
  <2> DEFINE u == f(t)
             a == Append(t, x)
             v == f(a)
  <2>1. v = IF x \in ToSet(u) THEN u ELSE Append(u, x)
    <3>1. v = RepeatBody(0, u, x)
      BY RepeatLoop!LoopOfAppend
    <3> HIDE DEF u, v
    <3> QED
      BY <3>1 DEF RepeatBody
  <2>2. u \in Seq(T) /\ ToSet(u) = ToSet(t)
    BY <1>2
  <2>3. ToSet(a) = ToSet(t) \cup {x} /\ a \in Seq(T)
    BY SetOfBoth
  <2> HIDE DEF f, u, a
  <2>4. ToSet(Append(u, x)) = ToSet(u) \cup {x} /\ Append(u, x) \in Seq(T)
    BY <2>2, SetOfBoth
  <2> HIDE DEF v
  <2>5. v \in Seq(T) /\ ToSet(v) = ToSet(a)
    <3>1. CASE x \in ToSet(u)
      BY <2>1, <2>2, <2>3, <3>1
    <3>2. CASE x \notin ToSet(u)
      BY <2>1, <2>2, <2>3, <2>4, <3>2
    <3> QED
      BY <3>1, <3>2
  <2>6. a \in S
    BY <2>3, <2>5 DEF v
  <2> QED
    BY <2>6 DEF a
<1> HIDE DEF S
<1>3. Seq(T) \subseteq S
  BY <1>1, <1>2, OnlyLoop!InductionOverSeq
<1>4. RemoveRepeated(s) = f(s)
  BY DEF RemoveRepeated, ForEach, Apply, RepeatLoop!Loop, RepeatLoop!ForEach, RepeatLoop!Apply, RepeatBody
<1> HIDE DEF f
<1> QED
  BY <1>3, <1>4 DEF S

-----------------------------------------------------------------------------
(* The links of a document: the targets of all the marks in it.            *)
HrefsIn(n) == UNION {HrefsOf(m) : m \in Within[n]}
UrlsOf(s) == {s[i].url : i \in DOMAIN s}
Links == [url : Targets, text : Words]

(* The targets within a node are its own and those within its content.     *)
LEMMA HrefsInIs ==
  ASSUME NEW n \in Nodes
  PROVE  HrefsIn(n) = HrefsOf(n) \cup UNION {HrefsIn(n.content[i]) : i \in DOMAIN n.content}
<1> DEFINE s == n.content
<1>1. Within[n] = {n} \cup UNION {Within[s[i]] : i \in DOMAIN s}
  BY WithinIs
<1> HIDE DEF s
<1>2. ASSUME NEW h \in HrefsIn(n) PROVE h \in HrefsOf(n) \cup UNION {HrefsIn(s[i]) : i \in DOMAIN s}
  <2>1. PICK m \in Within[n] : h \in HrefsOf(m)
    BY DEF HrefsIn
  <2>2. CASE m = n
    BY <2>1, <2>2
  <2>3. CASE m # n
    <3>1. PICK i \in DOMAIN s : m \in Within[s[i]]
      BY <1>1, <2>3
    <3>2. h \in HrefsIn(s[i])
      BY <2>1, <3>1 DEF HrefsIn
    <3> QED
      BY <3>2
  <2> QED
    BY <2>2, <2>3
<1>3. HrefsOf(n) \subseteq HrefsIn(n)
  BY <1>1 DEF HrefsIn
<1>4. ASSUME NEW i \in DOMAIN s, NEW h \in HrefsIn(s[i]) PROVE h \in HrefsIn(n)
  <2>1. PICK m \in Within[s[i]] : h \in HrefsOf(m)
    BY DEF HrefsIn
  <2>2. m \in Within[n]
    BY <1>1
  <2> QED
    BY <2>1, <2>2 DEF HrefsIn
<1> QED
  BY <1>2, <1>3, <1>4 DEF s

(* The targets of two lists of links, put together.                        *)
LEMMA UrlsOfBoth ==
  ASSUME NEW T, NEW a \in Seq(T), NEW b \in Seq(T)
  PROVE  a \o b \in Seq(T) /\ UrlsOf(a \o b) = UrlsOf(a) \cup UrlsOf(b)
<1> DEFINE p == a \o b
<1>1. /\ p \in Seq(T) /\ Len(a) \in Nat /\ Len(b) \in Nat /\ DOMAIN a = 1 .. Len(a) /\ DOMAIN b = 1 .. Len(b)
      /\ DOMAIN p = 1 .. Len(a) + Len(b) /\ \A i \in 1 .. Len(a) : p[i] = a[i]
      /\ \A i \in 1 .. Len(b) : p[Len(a) + i] = b[i]
  OBVIOUS
<1> HIDE DEF p
<1>2. ASSUME NEW i \in DOMAIN p PROVE p[i].url \in UrlsOf(a) \cup UrlsOf(b)
  <2>1. CASE i <= Len(a)
    BY <1>1, <2>1 DEF UrlsOf
  <2>2. CASE ~(i <= Len(a))
    <3>1. i - Len(a) \in 1 .. Len(b) /\ Len(a) + (i - Len(a)) = i
      BY <1>1, <2>2
    <3> QED
      BY <1>1, <3>1 DEF UrlsOf
  <2> QED
    BY <2>1, <2>2
<1>3. ASSUME NEW i \in DOMAIN a PROVE a[i].url \in UrlsOf(p)
  <2>1. i \in DOMAIN p
    BY <1>1
  <2> QED
    BY <1>1, <2>1 DEF UrlsOf
<1>4. ASSUME NEW i \in DOMAIN b PROVE b[i].url \in UrlsOf(p)
  <2>1. Len(a) + i \in DOMAIN p
    BY <1>1
  <2> QED
    BY <1>1, <2>1 DEF UrlsOf
<1>5. UrlsOf(p) = UrlsOf(a) \cup UrlsOf(b)
  BY <1>2, <1>3, <1>4 DEF UrlsOf
<1> QED
  BY <1>1, <1>5 DEF p

(* The links of a node are the targets of its marks.                       *)
LEMMA LinksOfIs ==
  ASSUME NEW n \in Nodes
  PROVE  LinksOf(n) \in Seq(Links) /\ UrlsOf(LinksOf(n)) = HrefsOf(n) \ {Empty}
<1> DEFINE M == {m \in Marks : m.type = "link" /\ m.href # Empty}
           all == n.marks
           marks == Only(all, M)
           links == [i \in DOMAIN marks |-> [url |-> marks[i].href, text |-> n.text]]
<1>1. all \in Seq(Marks) /\ \A m \in Marks : m.type # "link" => m.href = Empty
  BY NodesAssumption
<1>2. CASE n.type # "text"
  <2>1. all = << >>
    BY <1>2, NodesAssumption
  <2>2. LinksOf(n) = << >>
    BY <1>2 DEF LinksOf
  <2>3. HrefsOf(n) = {} /\ UrlsOf(<< >>) = {} /\ << >> \in Seq(Links)
    BY <2>1 DEF HrefsOf, UrlsOf
  <2> QED
    BY <2>2, <2>3
<1>3. CASE n.type = "text"
  <2>1. LinksOf(n) = links
    BY <1>3 DEF LinksOf
  <2>2. n.text \in Words
    BY <1>3, TextSays
  <2>3. \A m \in Marks : m \in M <=> m.href # Empty
    BY <1>1
  <2>4. \A m \in M : m.href \in Targets
    BY DEF Targets
  <2>5. HrefsOf(n) = {all[i].href : i \in DOMAIN all}
    BY DEF HrefsOf
  <2> HIDE DEF M, all
  <2>6. marks \in Seq(M) /\ ToSet(marks) = ToSet(all) \cap M
    BY <1>1, OnlyType
  <2> HIDE DEF marks
  <2>7. DOMAIN marks = 1 .. Len(marks) /\ Len(marks) \in Nat /\ \A i \in 1 .. Len(marks) : marks[i] \in M
    BY <2>6
  <2>8. links \in Seq(Links)
    <3>1. \A i \in DOMAIN marks : links[i] \in Links
      BY <2>2, <2>4, <2>7 DEF Links
    <3>2. DOMAIN links = 1 .. Len(marks)
      BY <2>7
    <3> HIDE DEF links
    <3>3. links \in [1 .. Len(marks) -> Links]
      <4>1. links = [i \in 1 .. Len(marks) |-> links[i]]
        BY <3>2 DEF links
      <4> QED
        BY <2>7, <3>1, <4>1
    <3> QED
      BY <2>7, <3>3, SeqDef
  <2>9. UrlsOf(links) = {marks[i].href : i \in DOMAIN marks}
    BY DEF UrlsOf
  <2>10. {marks[i].href : i \in DOMAIN marks} = {m.href : m \in ToSet(all) \cap M}
    BY <2>6 DEF ToSet
  <2>11. ToSet(all) \subseteq Marks /\ ToSet(all) = {all[i] : i \in DOMAIN all}
    BY <1>1 DEF ToSet
  <2>12. {m.href : m \in ToSet(all) \cap M} = HrefsOf(n) \ {Empty}
    <3>1. ASSUME NEW m \in ToSet(all) \cap M PROVE m.href \in HrefsOf(n) \ {Empty}
      BY <2>3, <2>5, <2>11
    <3>2. ASSUME NEW h \in HrefsOf(n) \ {Empty} PROVE h \in {m.href : m \in ToSet(all) \cap M}
      <4>1. PICK i \in DOMAIN all : h = all[i].href
        BY <2>5
      <4>2. all[i] \in ToSet(all) /\ all[i] \in M
        BY <2>3, <2>11, <4>1
      <4> QED
        BY <4>1, <4>2
    <3> QED
      BY <3>1, <3>2
  <2> HIDE DEF links
  <2> QED
    BY <2>1, <2>8, <2>9, <2>10, <2>12
<1> QED
  BY <1>2, <1>3

(* ExtractLinks finds the target of every mark of every node within the    *)
(* document.                                                               *)
LEMMA ExtractLinksFinds ==
  ASSUME NEW n \in Nodes
  PROVE  ExtractLinks[n] \in Seq(Links) /\ UrlsOf(ExtractLinks[n]) = HrefsIn(n) \ {Empty}
<1> DEFINE P == {x \in Nodes : ExtractLinks[x] \in Seq(Links) /\ UrlsOf(ExtractLinks[x]) = HrefsIn(x) \ {Empty}}
<1>1. ASSUME NEW x \in Nodes, \A y \in Nodes : Height[y] < Height[x] => y \in P PROVE x \in P
  <2> DEFINE s == x.content
             start == LinksOf(x)
             f(t) == TextLoop!Loop(ExtractLinks, t, start)
             H(t) == UNION {HrefsIn(t[i]) : i \in DOMAIN t}
             S == {t \in Seq(P) : f(t) \in Seq(Links) /\ UrlsOf(f(t)) = (HrefsOf(x) \cup H(t)) \ {Empty}}
  <2>1. s \in Seq(P)
    <3>1. s \in Seq(Lower(x)) /\ Lower(x) \subseteq P
      BY <1>1, ContentIsLower DEF Lower
    <3> HIDE DEF s, P
    <3> QED
      BY <3>1, SeqMonotonic
  <2>2. start \in Seq(Links) /\ UrlsOf(start) = HrefsOf(x) \ {Empty}
    BY LinksOfIs
  <2>3. \A y \in P : y \in Nodes /\ ExtractLinks[y] \in Seq(Links) /\ UrlsOf(ExtractLinks[y]) = HrefsIn(y) \ {Empty}
    OBVIOUS
  <2> HIDE DEF P, s, start
  <2>4. << >> \in S
    <3> DEFINE none == << >>
    <3>1. f(none) = start
      BY TextLoop!LoopOfNothing
    <3>2. H(none) = {} /\ none \in Seq(P)
      OBVIOUS
    <3> HIDE DEF none, f, H
    <3>3. none \in S
      BY <2>2, <3>1, <3>2
    <3> QED
      BY <3>3 DEF none
  <2>5. ASSUME NEW t \in Seq(P), NEW y \in P, t \in S PROVE Append(t, y) \in S
    <3> DEFINE u == f(t)
               w == ExtractLinks[y]
               a == Append(t, y)
    <3>1. f(a) = u \o w
      <4>1. f(a) = TextBody(ExtractLinks, u, y)
        BY TextLoop!LoopOfAppend
      <4> QED
        BY <4>1 DEF TextBody
    <3>2. u \in Seq(Links) /\ UrlsOf(u) = (HrefsOf(x) \cup H(t)) \ {Empty}
      BY <2>5
    <3>3. w \in Seq(Links) /\ UrlsOf(w) = HrefsIn(y) \ {Empty}
      BY <2>3
    <3>4. H(a) = H(t) \cup HrefsIn(y)
      <4>1. /\ Len(t) \in Nat /\ DOMAIN t = 1 .. Len(t) /\ DOMAIN a = 1 .. Len(t) + 1
            /\ a[Len(t) + 1] = y /\ \A i \in 1 .. Len(t) : a[i] = t[i]
        OBVIOUS
      <4> HIDE DEF a
      <4>2. ASSUME NEW i \in DOMAIN a PROVE HrefsIn(a[i]) \subseteq H(t) \cup HrefsIn(y)
        <5>1. i \in DOMAIN t \/ i = Len(t) + 1
          BY <4>1
        <5> QED
          BY <4>1, <5>1
      <4>3. ASSUME NEW i \in DOMAIN t PROVE HrefsIn(t[i]) \subseteq H(a)
        <5>1. i \in DOMAIN a /\ a[i] = t[i]
          BY <4>1
        <5> QED
          BY <5>1
      <4>4. HrefsIn(y) \subseteq H(a)
        <5>1. Len(t) + 1 \in DOMAIN a
          BY <4>1
        <5> QED
          BY <4>1, <5>1
      <4> QED
        BY <4>2, <4>3, <4>4
    <3>5. a \in Seq(P)
      OBVIOUS
    <3> HIDE DEF u, w, a, f, H
    <3>6. u \o w \in Seq(Links) /\ UrlsOf(u \o w) = UrlsOf(u) \cup UrlsOf(w)
      BY <3>2, <3>3, UrlsOfBoth
    <3>7. a \in S
      BY <3>1, <3>2, <3>3, <3>4, <3>5, <3>6
    <3> QED
      BY <3>7 DEF a
  <2> HIDE DEF S
  <2>6. Seq(P) \subseteq S
    BY <2>4, <2>5, OnlyLoop!InductionOverSeq
  <2>7. ExtractLinks[x] = f(s)
    BY ExtractLinksIs DEF s, start
  <2>8. HrefsIn(x) = HrefsOf(x) \cup H(s)
    BY HrefsInIs DEF s
  <2> HIDE DEF f, H
  <2>9. ExtractLinks[x] \in Seq(Links) /\ UrlsOf(ExtractLinks[x]) = HrefsIn(x) \ {Empty}
    BY <2>1, <2>6, <2>7, <2>8 DEF S
  <2> QED
    BY <2>9 DEF P
<1> HIDE DEF P
<1>2. Height \in [Nodes -> Nat]
  BY NodesAssumption
<1>3. Nodes \subseteq P
  BY <1>1, <1>2, OnlyLoop!InductionOverHeights
<1> QED
  BY <1>3 DEF P

-----------------------------------------------------------------------------
(* References, as what they are.                                           *)
Kinds == {"jira", "github_pr", "external"}
Findings ==
  [kind : Kinds, key : Keys \cup {Empty}, url : Urls \cup {Empty}, pr : STRING \cup {Empty},
   text : Words \cup STRING]
TargetOf(u) == IF u \in Urls /\ MatchesJiraURL(u) THEN Form[u].key ELSE u

MapOf(m, s, f) == m = [i \in DOMAIN s |-> f[s[i]]]
ImageOf(f, S) == {f[x] : x \in S}

(* A sequence made of another by a function, element by element.           *)
LEMMA Mapped ==
  ASSUME NEW A, NEW B, NEW f, NEW s, NEW m, f \in [A -> B], s \in Seq(A), MapOf(m, s, f)
  PROVE  m \in Seq(B) /\ ToSet(m) = ImageOf(f, ToSet(s))
<1>1. DOMAIN s = 1 .. Len(s) /\ Len(s) \in Nat /\ \A i \in 1 .. Len(s) : s[i] \in A
  OBVIOUS
<1>0. m = [i \in DOMAIN s |-> f[s[i]]]
  BY DEF MapOf
<1>2. m \in [1 .. Len(s) -> B]
  BY <1>0, <1>1
<1>3. m \in Seq(B)
  BY <1>1, <1>2, SeqDef
<1>4. ToSet(m) = {f[x] : x \in ToSet(s)}
  BY <1>0, <1>1 DEF ToSet
<1> QED
  BY <1>3, <1>4 DEF ImageOf

(* The elements of two sequences of one type.                              *)
LEMMA SetOfTwo ==
  ASSUME NEW T, NEW a \in Seq(T), NEW b \in Seq(T)
  PROVE  a \o b \in Seq(T) /\ ToSet(a \o b) = ToSet(a) \cup ToSet(b)
<1> DEFINE U == T \cup {0}
<1>1. T \subseteq U /\ 0 \in U
  OBVIOUS
<1> HIDE DEF U
<1>2. a \in Seq(U) /\ b \in Seq(U)
  BY <1>1, SeqMonotonic
<1>3. ToSet(a \o b) = ToSet(a) \cup ToSet(b)
  BY <1>1, <1>2, SetOfBoth
<1>4. a \o b \in Seq(T)
  OBVIOUS
<1> QED
  BY <1>3, <1>4

(* A reference has what its classification gave it.                        *)
LEMMA ResultIs ==
  ASSUME NEW kind, NEW key, NEW url, NEW pr, NEW text
  PROVE  LET r == Ref(Result(kind, key, url, pr), text)
         IN  /\ r = [kind |-> kind, key |-> key, url |-> url, pr |-> pr, text |-> text]
             /\ r.kind = kind /\ r.key = key /\ r.url = url /\ r.pr = pr /\ r.text = text
BY DEF Ref, Result

(* What a URL is recognised by.                                            *)
LEMMA FormIs ==
  ASSUME NEW u \in Urls
  PROVE  Form[u].key \in Keys \cup {Empty} /\ Form[u].pr \in STRING
BY FormAssumption

(* A key is no URL, and neither is empty.                                  *)
LEMMA KeysAre == Empty \notin Keys /\ Empty \notin Urls /\ Keys \cap Urls = {}
BY FormAssumption

(* A link to an issue refers to its key, and any other to itself.          *)
LEMMA ClassifyIs ==
  ASSUME NEW u, NEW text \in Words \cup STRING
  PROVE  LET r == Ref(Classify(u), text)
         IN  /\ r \in Findings
             /\ r.kind = "jira" => u \in Keys \cup Urls /\ r.key = TargetOf(u) /\ r.key \in Keys
             /\ u \in Keys => r.kind = "jira"
             /\ u \in Urls /\ r.kind # "jira" => r.url = u /\ TargetOf(u) = u
<1> DEFINE e == Empty
           issueKind == "jira"
           github == "github_pr"
           external == "external"
<1>1. issueKind \in Kinds /\ github \in Kinds /\ external \in Kinds /\ issueKind # github /\ issueKind # external
  BY DEF Kinds
<1>2. ASSUME NEW kind \in Kinds, NEW key \in Keys \cup {e}, NEW url \in Urls \cup {e}, NEW pr \in STRING \cup {e}
      PROVE  Ref(Result(kind, key, url, pr), text) \in Findings
  BY ResultIs DEF Findings
<1>3. e \notin Keys /\ e \notin Urls /\ Keys \cap Urls = {}
  BY KeysAre
<1>4. Classify(u) = IF u \in Keys THEN Result(issueKind, u, e, e)
                    ELSE IF u \notin Urls THEN Result(external, e, e, e)
                    ELSE IF MatchesJiraURL(u) THEN Result(issueKind, Form[u].key, u, e)
                    ELSE IF MatchesGitHubPR(u) THEN Result(github, e, u, Form[u].pr)
                    ELSE Result(external, e, u, e)
  BY DEF Classify
<1> DEFINE r == Ref(Classify(u), text)
<1> SUFFICES /\ r \in Findings
             /\ r.kind = issueKind => u \in Keys \cup Urls /\ r.key = TargetOf(u) /\ r.key \in Keys
             /\ u \in Keys => r.kind = issueKind
             /\ u \in Urls /\ r.kind # issueKind => r.url = u /\ TargetOf(u) = u
  OBVIOUS
<1>5. \A kind, key, url, pr :
        /\ Ref(Result(kind, key, url, pr), text).kind = kind
        /\ Ref(Result(kind, key, url, pr), text).key = key
        /\ Ref(Result(kind, key, url, pr), text).url = url
  BY ResultIs
<1>6. TargetOf(u) = IF u \in Urls /\ MatchesJiraURL(u) THEN Form[u].key ELSE u
  BY DEF TargetOf
<1>7. MatchesJiraURL(u) => Form[u].key # e
  BY DEF MatchesJiraURL
<1>11. u \in Urls => Form[u].key \in Keys \cup {e} /\ Form[u].pr \in STRING
  BY FormIs
<1> HIDE DEF issueKind, github, external, e
<1>8. CASE u \in Keys
  <2>1. r = Ref(Result(issueKind, u, e, e), text)
    BY <1>4, <1>8
  <2>2. r.kind = issueKind /\ r.key = u /\ r.url = e
    BY <1>5, <2>1
  <2>3. r \in Findings
    <3>1. issueKind \in Kinds /\ u \in Keys \cup {e} /\ e \in Urls \cup {e} /\ e \in STRING \cup {e}
      BY <1>1, <1>8
    <3> HIDE DEF r
    <3> QED
      BY <1>2, <2>1, <3>1
  <2> HIDE DEF r
  <2> QED
    BY <1>1, <1>3, <1>6, <1>7, <1>11, <1>8, <2>2, <2>3
<1>9. CASE u \notin Keys /\ u \notin Urls
  <2>1. r = Ref(Result(external, e, e, e), text)
    BY <1>4, <1>9
  <2>2. r.kind = external /\ r.key = e /\ r.url = e
    BY <1>5, <2>1
  <2>3. r \in Findings
    <3>1. external \in Kinds /\ e \in Keys \cup {e} /\ e \in Urls \cup {e} /\ e \in STRING \cup {e}
      BY <1>1
    <3> HIDE DEF r
    <3> QED
      BY <1>2, <2>1, <3>1
  <2> HIDE DEF r
  <2> QED
    BY <1>1, <1>3, <1>6, <1>7, <1>11, <1>9, <2>2, <2>3
<1>10. CASE u \notin Keys /\ u \in Urls
  <2>1. CASE MatchesJiraURL(u)
    <3>1. r = Ref(Result(issueKind, Form[u].key, u, e), text)
      BY <1>4, <1>10, <2>1
    <3>2. r.kind = issueKind /\ r.key = Form[u].key /\ r.url = u
      BY <1>5, <3>1
    <3>3. r \in Findings
      <4>1. issueKind \in Kinds /\ Form[u].key \in Keys \cup {e} /\ u \in Urls \cup {e} /\ e \in STRING \cup {e}
        BY <1>1, <1>10, <1>11
      <4> HIDE DEF r
      <4> QED
        BY <1>2, <3>1, <4>1
    <3> HIDE DEF r
    <3> QED
      BY <1>1, <1>3, <1>6, <1>7, <1>11, <1>10, <2>1, <3>2, <3>3
  <2>2. CASE ~MatchesJiraURL(u) /\ MatchesGitHubPR(u)
    <3>1. r = Ref(Result(github, e, u, Form[u].pr), text)
      BY <1>4, <1>10, <2>2
    <3>2. r.kind = github /\ r.key = e /\ r.url = u
      BY <1>5, <3>1
    <3>3. r \in Findings
      <4>1. github \in Kinds /\ e \in Keys \cup {e} /\ u \in Urls \cup {e} /\ Form[u].pr \in STRING \cup {e}
        BY <1>1, <1>10, <1>11
      <4> HIDE DEF r
      <4> QED
        BY <1>2, <3>1, <4>1
    <3> HIDE DEF r
    <3> QED
      BY <1>1, <1>3, <1>6, <1>7, <1>11, <1>10, <2>2, <3>2, <3>3
  <2>3. CASE ~MatchesJiraURL(u) /\ ~MatchesGitHubPR(u)
    <3>1. r = Ref(Result(external, e, u, e), text)
      BY <1>4, <1>10, <2>3
    <3>2. r.kind = external /\ r.key = e /\ r.url = u
      BY <1>5, <3>1
    <3>3. r \in Findings
      <4>1. external \in Kinds /\ e \in Keys \cup {e} /\ u \in Urls \cup {e} /\ e \in STRING \cup {e}
        BY <1>1, <1>10
      <4> HIDE DEF r
      <4> QED
        BY <1>2, <3>1, <4>1
    <3> HIDE DEF r
    <3> QED
      BY <1>1, <1>3, <1>6, <1>7, <1>11, <1>10, <2>3, <3>2, <3>3
  <2> QED
    BY <2>1, <2>2, <2>3
<1> QED
  BY <1>8, <1>9, <1>10

(* Each link becomes a reference.                                          *)
LEMMA LinkedIs ==
  ASSUME NEW A, NEW B, B \subseteq Words \cup STRING, NEW s \in Seq([url : A, text : B])
  PROVE  Linked(s) \in Seq(Findings) /\ ToSet(Linked(s)) = {Ref(Classify(l.url), l.text) : l \in ToSet(s)}
<1> DEFINE L == [url : A, text : B]
           f == [l \in L |-> Ref(Classify(l.url), l.text)]
           m == Linked(s)
<1>1. f \in [L -> Findings]
  <2>1. \A l \in L : Ref(Classify(l.url), l.text) \in Findings
    BY ClassifyIs
  <2> QED
    BY <2>1
<1>2. s \in Seq(L) /\ \A l \in L : f[l] = Ref(Classify(l.url), l.text)
  OBVIOUS
<1>3. m = [i \in DOMAIN s |-> Ref(Classify(s[i].url), s[i].text)]
  BY DEF Linked
<1> HIDE DEF L, f, m
<1>4. \A i \in DOMAIN s : s[i] \in L
  BY <1>2
<1>5. MapOf(m, s, f)
  BY <1>2, <1>3, <1>4 DEF MapOf
<1>6. m \in Seq(Findings) /\ ToSet(m) = {f[x] : x \in ToSet(s)}
  <2>1. f \in [L -> Findings] /\ s \in Seq(L)
    BY <1>1, <1>2
  <2>2. MapOf(m, s, f)
    BY <1>5
  <2> DEFINE F == Findings
  <2>3. f \in [L -> F]
    BY <2>1
  <2> HIDE DEF F
  <2>4. m \in Seq(F) /\ ToSet(m) = ImageOf(f, ToSet(s))
    BY <2>1, <2>2, <2>3, Mapped
  <2> QED
    BY <2>4 DEF F, ImageOf
<1>7. ToSet(s) \subseteq L
  BY <1>4 DEF ToSet
<1>8. ToSet(m) = {Ref(Classify(l.url), l.text) : l \in ToSet(s)}
  BY <1>2, <1>6, <1>7
<1> QED
  BY <1>6, <1>8 DEF m

RelatedAs(x) == Ref(Result("jira", x.key, Empty, Empty), x.text)

(* Each related issue becomes a reference.                                 *)
LEMMA RelatedIs ==
  ASSUME NEW s \in Seq(Issues(Keys))
  PROVE  Related(s) \in Seq(Findings) /\ ToSet(Related(s)) = {RelatedAs(x) : x \in ToSet(s)}
<1> DEFINE L == Issues(Keys)
           f == [x \in L |-> RelatedAs(x)]
           m == Related(s)
<1>1. \A x \in L : RelatedAs(x) \in Findings
  <2> SUFFICES ASSUME NEW x \in L PROVE RelatedAs(x) \in Findings
    OBVIOUS
  <2> DEFINE issueKind == "jira"
             e == Empty
             r == Ref(Result(issueKind, x.key, e, e), x.text)
  <2>1. x.key \in Keys /\ x.text \in STRING /\ issueKind \in Kinds
    BY DEF Issues, Kinds
  <2>2. r = [kind |-> issueKind, key |-> x.key, url |-> e, pr |-> e, text |-> x.text]
    BY ResultIs
  <2>3. RelatedAs(x) = r
    BY DEF RelatedAs
  <2> HIDE DEF issueKind, L, r
  <2> QED
    BY <2>1, <2>2, <2>3 DEF Findings
<1>2. f \in [L -> Findings] /\ s \in Seq(L) /\ \A x \in L : f[x] = RelatedAs(x)
  BY <1>1
<1>3. m = [i \in DOMAIN s |-> RelatedAs(s[i])]
  BY DEF Related, RelatedAs
<1> HIDE DEF L, f, m
<1>4. \A i \in DOMAIN s : s[i] \in L
  BY <1>2
<1>5. MapOf(m, s, f)
  BY <1>2, <1>3, <1>4 DEF MapOf
<1>6. m \in Seq(Findings) /\ ToSet(m) = {f[x] : x \in ToSet(s)}
  <2>1. f \in [L -> Findings] /\ s \in Seq(L)
    BY <1>2
  <2>2. MapOf(m, s, f)
    BY <1>5
  <2> DEFINE F == Findings
  <2>3. f \in [L -> F]
    BY <2>1
  <2> HIDE DEF F
  <2>4. m \in Seq(F) /\ ToSet(m) = ImageOf(f, ToSet(s))
    BY <2>1, <2>2, <2>3, Mapped
  <2> QED
    BY <2>4 DEF F, ImageOf
<1>7. ToSet(s) \subseteq L
  BY <1>4 DEF ToSet
<1>8. ToSet(m) = {RelatedAs(x) : x \in ToSet(s)}
  BY <1>2, <1>6, <1>7
<1> QED
  BY <1>6, <1>8 DEF m

-----------------------------------------------------------------------------
(* The references of one kind, and the page of them.                       *)
LEMMA OfKindIs ==
  ASSUME NEW refs \in Seq(Findings), NEW kind
  PROVE  /\ OfKind(refs, kind) \in Seq(Findings)
         /\ ToSet(OfKind(refs, kind)) = {r \in ToSet(refs) : r.kind = kind}
<1> DEFINE R == ToSet(refs)
           K == {r \in R : r.kind = kind}
           F == Findings
<1>1. OfKind(refs, kind) = Only(refs, K) /\ R \cap K = K
  BY DEF OfKind
<1>2. refs \in Seq(F)
  OBVIOUS
<1> HIDE DEF K, F
<1>3. Only(refs, K) \in Seq(F) /\ ToSet(Only(refs, K)) = R \cap K
  BY <1>2, OnlyType
<1> QED
  BY <1>1, <1>3 DEF K, F

LineOf(r) == IF r.kind = "jira" THEN r.key ELSE r.url
TosOf(s) == {s[i].to : i \in DOMAIN s}

(* Every reference, of whatever kind, is a line of outbound.md.            *)
LEMMA OutboundIs ==
  ASSUME NEW refs \in Seq(Findings)
  PROVE  TosOf(RenderOutbound(refs)) = {LineOf(r) : r \in ToSet(refs)}
<1> DEFINE J == OfKind(refs, "jira")
           P == OfKind(refs, "github_pr")
           O == OfKind(refs, "external")
           a == [i \in DOMAIN J |-> [to |-> J[i].key, text |-> J[i].key]]
           b == [i \in DOMAIN P |-> [to |-> P[i].url, text |-> P[i].pr]]
           c == [i \in DOMAIN O |-> Labelled(O[i])]
           All == Keys \cup Urls \cup {Empty} \cup STRING \cup Words
           L == [to : All, text : All]
           F == Findings
           R == ToSet(refs)
           f == [r \in F |-> [to |-> r.key, text |-> r.key]]
           g == [r \in F |-> [to |-> r.url, text |-> r.pr]]
           h == [r \in F |-> Labelled(r)]
<1>1. RenderOutbound(refs) = a \o b \o c
  BY DEF RenderOutbound
<1>2. J \in Seq(F) /\ P \in Seq(F) /\ O \in Seq(F)
  BY OfKindIs
<1>3. /\ ToSet(J) = {r \in R : r.kind = "jira"}
      /\ ToSet(P) = {r \in R : r.kind = "github_pr"}
      /\ ToSet(O) = {r \in R : r.kind = "external"}
  BY OfKindIs
<1>4. f \in [F -> L] /\ g \in [F -> L] /\ h \in [F -> L]
  <2>1. ASSUME NEW r \in F PROVE r.key \in All /\ r.url \in All /\ r.pr \in All /\ r.text \in All
    BY DEF Findings
  <2>2. ASSUME NEW r \in F PROVE Labelled(r) \in L
    <3> DEFINE x == IF r.text = Empty THEN r.url ELSE r.text
    <3>1. Labelled(r) = [to |-> r.url, text |-> x]
      BY DEF Labelled
    <3>2. x \in All /\ r.url \in All
      BY <2>1
    <3> HIDE DEF x, All
    <3> QED
      BY <3>1, <3>2
  <2> HIDE DEF All, F
  <2> QED
    BY <2>1, <2>2
<1>5. /\ \A r \in F : f[r].to = r.key /\ g[r].to = r.url /\ h[r].to = r.url
  BY DEF Labelled
<1>6. R \subseteq F /\ \A r \in F : r.kind \in {"jira", "github_pr", "external"}
  <2>1. R \subseteq F
    BY DEF ToSet
  <2>2. \A r \in F : r.kind \in {"jira", "github_pr", "external"}
    BY DEF Findings, Kinds
  <2> QED
    BY <2>1, <2>2
<1>7. MapOf(a, J, f) /\ MapOf(b, P, g) /\ MapOf(c, O, h)
  <2> HIDE DEF J, P, O, F
  <2>1. (\A i \in DOMAIN J : J[i] \in F) /\ (\A i \in DOMAIN P : P[i] \in F) /\ (\A i \in DOMAIN O : O[i] \in F)
    BY <1>2
  <2> QED
    BY <2>1 DEF MapOf
<1> HIDE DEF J, P, O, L, F, R, f, g, h
<1>8. a \in Seq(L) /\ ToSet(a) = {f[r] : r \in ToSet(J)}
  <2>1. f \in [F -> L] /\ J \in Seq(F)
    BY <1>2, <1>4
  <2>2. MapOf(a, J, f)
    BY <1>7
  <2> HIDE DEF a
  <2>3. a \in Seq(L) /\ ToSet(a) = ImageOf(f, ToSet(J))
    BY <2>1, <2>2, Mapped
  <2> QED
    BY <2>3 DEF ImageOf
<1>9. b \in Seq(L) /\ ToSet(b) = {g[r] : r \in ToSet(P)}
  <2>1. g \in [F -> L] /\ P \in Seq(F)
    BY <1>2, <1>4
  <2>2. MapOf(b, P, g)
    BY <1>7
  <2> HIDE DEF b
  <2>3. b \in Seq(L) /\ ToSet(b) = ImageOf(g, ToSet(P))
    BY <2>1, <2>2, Mapped
  <2> QED
    BY <2>3 DEF ImageOf
<1>10. c \in Seq(L) /\ ToSet(c) = {h[r] : r \in ToSet(O)}
  <2>1. h \in [F -> L] /\ O \in Seq(F)
    BY <1>2, <1>4
  <2>2. MapOf(c, O, h)
    BY <1>7
  <2> HIDE DEF c
  <2>3. c \in Seq(L) /\ ToSet(c) = ImageOf(h, ToSet(O))
    BY <2>1, <2>2, Mapped
  <2> QED
    BY <2>3 DEF ImageOf
<1> HIDE DEF a, b, c
<1>11. a \o b \in Seq(L) /\ ToSet(a \o b) = ToSet(a) \cup ToSet(b)
  BY <1>8, <1>9, SetOfTwo
<1> DEFINE ab == a \o b
           all == ab \o c
<1>12. ToSet(all) = ToSet(ab) \cup ToSet(c)
  <2> HIDE DEF ab
  <2>1. ab \in Seq(L) /\ c \in Seq(L)
    BY <1>10, <1>11 DEF ab
  <2> QED
    BY <2>1, SetOfTwo
<1>13. ToSet(all) = ToSet(a) \cup ToSet(b) \cup ToSet(c)
  BY <1>11, <1>12
<1> HIDE DEF ab, all
<1>14. TosOf(all) = {x.to : x \in ToSet(all)}
  BY DEF TosOf, ToSet
<1> DEFINE issueKind == "jira"
           github == "github_pr"
           external == "external"
<1>15. /\ ToSet(J) = {r \in R : r.kind = issueKind} /\ ToSet(P) = {r \in R : r.kind = github}
       /\ ToSet(O) = {r \in R : r.kind = external}
       /\ \A r \in F : r.kind = issueKind \/ r.kind = github \/ r.kind = external
       /\ issueKind # github /\ issueKind # external
  BY <1>3, <1>6
<1>16. \A r : LineOf(r) = IF r.kind = issueKind THEN r.key ELSE r.url
  BY DEF LineOf
<1> HIDE DEF issueKind, github, external
<1>17. ASSUME NEW r \in R PROVE LineOf(r) \in {x.to : x \in ToSet(all)}
  <2>0. r \in F
    BY <1>6
  <2>1. CASE r.kind = issueKind
    <3>1. f[r] \in ToSet(all) /\ f[r].to = LineOf(r)
      BY <1>5, <1>8, <1>13, <1>15, <1>16, <2>0, <2>1
    <3> QED
      BY <3>1
  <2>2. CASE r.kind = github
    <3>1. g[r] \in ToSet(all) /\ g[r].to = LineOf(r)
      BY <1>5, <1>9, <1>13, <1>15, <1>16, <2>0, <2>2
    <3> QED
      BY <3>1
  <2>3. CASE r.kind = external
    <3>1. h[r] \in ToSet(all) /\ h[r].to = LineOf(r)
      BY <1>5, <1>10, <1>13, <1>15, <1>16, <2>0, <2>3
    <3> QED
      BY <3>1
  <2> QED
    BY <1>15, <2>0, <2>1, <2>2, <2>3
<1>18. ASSUME NEW x \in ToSet(all) PROVE x.to \in {LineOf(r) : r \in R}
  <2>1. CASE x \in ToSet(a)
    <3>1. PICK r \in ToSet(J) : x = f[r]
      BY <1>8, <2>1
    <3>2. r \in R /\ r \in F /\ x.to = LineOf(r)
      BY <1>5, <1>6, <1>15, <1>16, <3>1
    <3> QED
      BY <3>2
  <2>2. CASE x \in ToSet(b)
    <3>1. PICK r \in ToSet(P) : x = g[r]
      BY <1>9, <2>2
    <3>2. r \in R /\ r \in F /\ x.to = LineOf(r)
      BY <1>5, <1>6, <1>15, <1>16, <3>1
    <3> QED
      BY <3>2
  <2>3. CASE x \in ToSet(c)
    <3>1. PICK r \in ToSet(O) : x = h[r]
      BY <1>10, <2>3
    <3>2. r \in R /\ r \in F /\ x.to = LineOf(r)
      BY <1>5, <1>6, <1>15, <1>16, <3>1
    <3> QED
      BY <3>2
  <2> QED
    BY <1>13, <2>1, <2>2, <2>3
<1>19. TosOf(all) = {LineOf(r) : r \in R}
  BY <1>14, <1>17, <1>18
<1> QED
  BY <1>1, <1>19 DEF all, ab, R

-----------------------------------------------------------------------------
(* All that an issue refers to.                                            *)
Remotes == [url : STRING, text : STRING]
AllRefs(desc, parent, subtasks, links, remotes) ==
  Linked(desc) \o Related(parent) \o Related(subtasks) \o Related(links) \o Linked(remotes)
LinkedAs(l) == Ref(Classify(l.url), l.text)

(* The links of L and the issues of X are what is in R.                    *)
Mentions(R, L, X) == \A f : f \in R <=> (\E l \in L : f = LinkedAs(l)) \/ (\E x \in X : f = RelatedAs(x))

(* The references are the links and the related issues, and nothing else.  *)
LEMMA RefsAre ==
  ASSUME NEW desc \in Seq(Links), NEW parent \in Seq(Issues(Keys)), NEW subtasks \in Seq(Issues(Keys)),
         NEW links \in Seq(Issues(Keys)), NEW remotes \in Seq(Remotes)
  PROVE  /\ AllRefs(desc, parent, subtasks, links, remotes) \in Seq(Findings)
         /\ Mentions(ToSet(AllRefs(desc, parent, subtasks, links, remotes)),
                     ToSet(desc) \cup ToSet(remotes), ToSet(parent \o subtasks \o links))
<1> DEFINE a == Linked(desc)
           b == Related(parent)
           c == Related(subtasks)
           d == Related(links)
           e == Linked(remotes)
           F == Findings
           I == Issues(Keys)
           refs == a \o b \o c \o d \o e
<1>1. a \in Seq(F) /\ ToSet(a) = {LinkedAs(l) : l \in ToSet(desc)}
  <2>1. Words \subseteq Words \cup STRING /\ desc \in Seq([url : Targets, text : Words])
    BY DEF Links
  <2>2. Linked(desc) \in Seq(Findings) /\ ToSet(Linked(desc)) = {Ref(Classify(l.url), l.text) : l \in ToSet(desc)}
    BY <2>1, LinkedIs
  <2> QED
    BY <2>2 DEF LinkedAs
<1>2. e \in Seq(F) /\ ToSet(e) = {LinkedAs(l) : l \in ToSet(remotes)}
  <2>1. STRING \subseteq Words \cup STRING /\ remotes \in Seq([url : STRING, text : STRING])
    BY DEF Remotes
  <2>2. Linked(remotes) \in Seq(Findings) /\ ToSet(Linked(remotes)) = {Ref(Classify(l.url), l.text) : l \in ToSet(remotes)}
    BY <2>1, LinkedIs
  <2> QED
    BY <2>2 DEF LinkedAs
<1>3. /\ b \in Seq(F) /\ ToSet(b) = {RelatedAs(x) : x \in ToSet(parent)}
      /\ c \in Seq(F) /\ ToSet(c) = {RelatedAs(x) : x \in ToSet(subtasks)}
      /\ d \in Seq(F) /\ ToSet(d) = {RelatedAs(x) : x \in ToSet(links)}
  BY RelatedIs
<1>4. parent \in Seq(I) /\ subtasks \in Seq(I) /\ links \in Seq(I)
  OBVIOUS
<1> HIDE DEF a, b, c, d, e, F, I
<1> DEFINE ab == a \o b
<1>5. ab \in Seq(F) /\ ToSet(ab) = ToSet(a) \cup ToSet(b)
  BY <1>1, <1>3, SetOfTwo
<1> HIDE DEF ab
<1> DEFINE abc == ab \o c
<1>6. abc \in Seq(F) /\ ToSet(abc) = ToSet(ab) \cup ToSet(c)
  BY <1>5, <1>3, SetOfTwo
<1> HIDE DEF abc
<1> DEFINE abcd == abc \o d
<1>7. abcd \in Seq(F) /\ ToSet(abcd) = ToSet(abc) \cup ToSet(d)
  BY <1>6, <1>3, SetOfTwo
<1> HIDE DEF abcd
<1> DEFINE abcde == abcd \o e
<1>8. abcde \in Seq(F) /\ ToSet(abcde) = ToSet(abcd) \cup ToSet(e)
  BY <1>7, <1>2, SetOfTwo
<1> HIDE DEF abcde
<1> DEFINE ps == parent \o subtasks
<1>9. ps \in Seq(I) /\ ToSet(ps) = ToSet(parent) \cup ToSet(subtasks)
  BY <1>4, SetOfTwo
<1> HIDE DEF ps
<1> DEFINE psl == ps \o links
<1>10. ToSet(psl) = ToSet(ps) \cup ToSet(links)
  BY <1>4, <1>9, SetOfTwo
<1> HIDE DEF psl
<1>11. ToSet(abcde) = ToSet(a) \cup ToSet(b) \cup ToSet(c) \cup ToSet(d) \cup ToSet(e)
  BY <1>5, <1>6, <1>7, <1>8
<1>12. ToSet(psl) = ToSet(parent) \cup ToSet(subtasks) \cup ToSet(links)
  BY <1>9, <1>10
<1>13. ASSUME NEW f
       PROVE  f \in ToSet(abcde) <=>
                  \/ \E l \in ToSet(desc) \cup ToSet(remotes) : f = LinkedAs(l)
                  \/ \E x \in ToSet(psl) : f = RelatedAs(x)
  BY <1>1, <1>2, <1>3, <1>11, <1>12
<1>14. AllRefs(desc, parent, subtasks, links, remotes) = abcde
  BY DEF AllRefs, abcde, abcd, abc, ab, a, b, c, d, e
<1>15. psl = parent \o subtasks \o links
  BY DEF psl, ps
<1>16. Mentions(ToSet(abcde), ToSet(desc) \cup ToSet(remotes), ToSet(psl))
  BY <1>13 DEF Mentions
<1> QED
  BY <1>8, <1>14, <1>15, <1>16 DEF F

KeysOf(refs) == {r.key : r \in {f \in refs : f.kind = "jira"}}

(* What is mentioned is a line of outbound.md; the keys are those to crawl. *)
LEMMA NothingLost ==
  ASSUME NEW desc \in Seq(Links), NEW parent \in Seq(Issues(Keys)), NEW subtasks \in Seq(Issues(Keys)),
         NEW links \in Seq(Issues(Keys)), NEW remotes \in Seq(Remotes)
  PROVE  LET refs == ToSet(AllRefs(desc, parent, subtasks, links, remotes))
             related == {x.key : x \in ToSet(parent \o subtasks \o links)}
             linked == UrlsOf(desc) \cup UrlsOf(remotes)
             targets == {TargetOf(u) : u \in linked \cap (Keys \cup Urls)}
         IN  /\ related \cup targets \subseteq {LineOf(r) : r \in refs}
             /\ (related \cup targets) \cap Keys = KeysOf(refs)
<1> DEFINE R == ToSet(AllRefs(desc, parent, subtasks, links, remotes))
           X == ToSet(parent \o subtasks \o links)
           L == ToSet(desc) \cup ToSet(remotes)
           linked == UrlsOf(desc) \cup UrlsOf(remotes)
           related == {x.key : x \in X}
           targets == {TargetOf(u) : u \in linked \cap (Keys \cup Urls)}
           issueKind == "jira"
           lines == {LineOf(r) : r \in R}
           keys == KeysOf(R)
<1>1. \A f : f \in R <=> (\E l \in L : f = LinkedAs(l)) \/ (\E x \in X : f = RelatedAs(x))
  <2>1. Mentions(R, L, X)
    BY RefsAre
  <2> QED
    BY <2>1 DEF Mentions
<1>2. linked = {l.url : l \in L}
  BY DEF UrlsOf, ToSet
<1>3. \A x \in X : x.key \in Keys
  <2> DEFINE I == Issues(Keys)
             p == parent \o subtasks \o links
  <2>1. p \in Seq(I)
    <3>1. parent \in Seq(I) /\ subtasks \in Seq(I) /\ links \in Seq(I)
      OBVIOUS
    <3> HIDE DEF I
    <3> QED
      BY <3>1
  <2>2. \A x \in I : x.key \in Keys
    BY DEF Issues
  <2> HIDE DEF I, p
  <2>3. \A i \in DOMAIN p : p[i] \in I
    BY <2>1
  <2> QED
    BY <2>2, <2>3 DEF ToSet, p
<1>4. \A x : RelatedAs(x).kind = issueKind /\ RelatedAs(x).key = x.key
  <2> DEFINE empty == Empty
  <2>1. \A x : RelatedAs(x) = Ref(Result(issueKind, x.key, empty, empty), x.text)
    BY DEF RelatedAs
  <2> HIDE DEF issueKind, empty
  <2> QED
    BY <2>1, ResultIs
<1>5. \A l \in L : l.text \in Words \cup STRING
  <2>1. \A i \in DOMAIN desc : desc[i].text \in Words
    <3> DEFINE T == Links
    <3>1. desc \in Seq(T) /\ \A l \in T : l.text \in Words
      BY DEF Links
    <3> HIDE DEF T
    <3> QED
      BY <3>1
  <2>2. \A i \in DOMAIN remotes : remotes[i].text \in STRING
    <3> DEFINE T == Remotes
    <3>1. remotes \in Seq(T) /\ \A l \in T : l.text \in STRING
      BY DEF Remotes
    <3> HIDE DEF T
    <3> QED
      BY <3>1
  <2> QED
    BY <2>1, <2>2 DEF ToSet
<1>6. ASSUME NEW l \in L
      PROVE  /\ LinkedAs(l).kind = issueKind => l.url \in Keys \cup Urls /\ LinkedAs(l).key = TargetOf(l.url) /\ LinkedAs(l).key \in Keys
             /\ l.url \in Keys => LinkedAs(l).kind = issueKind
             /\ l.url \in Urls /\ LinkedAs(l).kind # issueKind => LinkedAs(l).url = l.url /\ TargetOf(l.url) = l.url
  BY <1>5, ClassifyIs DEF LinkedAs
<1>7. \A r : LineOf(r) = IF r.kind = issueKind THEN r.key ELSE r.url
  BY DEF LineOf
<1>8. Keys \cap Urls = {}
  BY KeysAre
<1> SUFFICES related \cup targets \subseteq lines /\ (related \cup targets) \cap Keys = keys
  OBVIOUS
<1>0. \A k : k \in keys <=> \E f \in R : f.kind = issueKind /\ k = f.key
  BY DEF KeysOf
<1> HIDE DEF R, X, L, linked, issueKind, keys
<1>9. ASSUME NEW k \in related PROVE k \in lines /\ k \in keys /\ k \in Keys
  <2>1. PICK x \in X : k = x.key
    OBVIOUS
  <2>2. RelatedAs(x) \in R
    BY <1>1
  <2>3. RelatedAs(x).kind = issueKind /\ RelatedAs(x).key = k /\ LineOf(RelatedAs(x)) = k
    BY <1>4, <1>7, <2>1
  <2> QED
    BY <1>0, <1>3, <2>1, <2>2, <2>3
<1>10. ASSUME NEW t \in targets PROVE t \in lines /\ (t \in Keys => t \in keys)
  <2>1. PICK u \in linked \cap (Keys \cup Urls) : t = TargetOf(u)
    OBVIOUS
  <2>2. PICK l \in L : l.url = u
    BY <1>2
  <2> DEFINE f == LinkedAs(l)
  <2>3. f \in R
    BY <1>1
  <2>4. f.kind = issueKind => f.key = t
    BY <1>6, <2>1, <2>2
  <2>5. f.kind # issueKind => f.url = t /\ t \in Urls
    BY <1>6, <2>1, <2>2
  <2> HIDE DEF f
  <2>6. LineOf(f) = t
    BY <1>7, <2>4, <2>5
  <2>7. t \in Keys => f.kind = issueKind
    BY <1>8, <2>5
  <2> QED
    BY <1>0, <2>3, <2>4, <2>6, <2>7
<1>11. ASSUME NEW k \in keys PROVE k \in (related \cup targets) \cap Keys
  <2>1. PICK f \in R : f.kind = issueKind /\ k = f.key
    BY <1>0
  <2>2. CASE \E l \in L : f = LinkedAs(l)
    <3>1. PICK l \in L : f = LinkedAs(l)
      BY <2>2
    <3>2. l.url \in Keys \cup Urls /\ k = TargetOf(l.url) /\ k \in Keys
      BY <1>6, <2>1, <3>1
    <3>3. l.url \in linked
      BY <1>2
    <3> QED
      BY <3>2, <3>3
  <2>3. CASE \E x \in X : f = RelatedAs(x)
    <3>1. PICK x \in X : f = RelatedAs(x)
      BY <2>3
    <3>2. k = x.key
      BY <1>4, <2>1, <3>1
    <3> QED
      BY <1>3, <3>2
  <2> QED
    BY <1>1, <2>2, <2>3
<1> QED
  BY <1>9, <1>10, <1>11

-----------------------------------------------------------------------------
(* What is parsed of a response.                                           *)
EndsBody(c, acc, l) == acc \o l.outward \o l.inward
EndsLoop == INSTANCE LoopProofs WITH Body <- EndsBody, Kept <- Held

(* The issues on both sides of the links.                                  *)
LEMMA ParseLinksIs ==
  ASSUME NEW I, NEW s \in Seq([outward : Seq(I), inward : Seq(I)])
  PROVE  ParseLinks(s) \in Seq(I)
<1> DEFINE E == [outward : Seq(I), inward : Seq(I)]
           f(t) == EndsLoop!Loop(0, t, << >>)
           S == {t \in Seq(E) : f(t) \in Seq(I)}
<1>1. << >> \in S
  <2> DEFINE none == << >>
  <2>1. f(none) = none /\ none \in Seq(I)
    BY EndsLoop!LoopOfNothing
  <2>2. none \in Seq(E)
    <3> HIDE DEF E
    <3> QED
      OBVIOUS
  <2> HIDE DEF none, f, E
  <2>3. none \in S
    BY <2>1, <2>2
  <2> QED
    BY <2>3 DEF none
<1>2. ASSUME NEW t \in Seq(E), NEW x \in E, t \in S PROVE Append(t, x) \in S
  <2> DEFINE u == f(t)
             a == Append(t, x)
             v == f(a)
  <2>1. x.outward \in Seq(I) /\ x.inward \in Seq(I)
    OBVIOUS
  <2> HIDE DEF E
  <2>2. v = u \o x.outward \o x.inward
    <3>1. v = EndsBody(0, u, x)
      BY EndsLoop!LoopOfAppend
    <3> HIDE DEF u, v
    <3> QED
      BY <3>1 DEF EndsBody
  <2>3. u \in Seq(I)
    BY <1>2
  <2>4. a \in Seq(E)
    OBVIOUS
  <2> HIDE DEF u, a, f
  <2>5. v \in Seq(I)
    <3> DEFINE p == x.outward
               q == x.inward
    <3>1. p \in Seq(I) /\ q \in Seq(I) /\ v = u \o p \o q
      BY <2>1, <2>2
    <3> HIDE DEF p, q, v
    <3> QED
      BY <2>3, <3>1
  <2>6. a \in S
    BY <2>4, <2>5
  <2> QED
    BY <2>6 DEF a
<1> HIDE DEF S, E
<1>3. Seq(E) \subseteq S
  BY <1>1, <1>2, OnlyLoop!InductionOverSeq
<1>4. ParseLinks(s) = f(s)
  BY DEF ParseLinks, ForEach, Apply, EndsLoop!Loop, EndsLoop!ForEach, EndsLoop!Apply, EndsBody
<1>5. s \in Seq(E)
  BY DEF E
<1> HIDE DEF f
<1> QED
  BY <1>3, <1>4, <1>5 DEF S

(* A list that is absent or null is empty.                                 *)
LEMMA ListIsOf ==
  ASSUME NEW v, v.is \in {"absent", "null", "bad", "ok"}, v.is # "bad", NEW T, v.is = "ok" => v.of \in Seq(T)
  PROVE  List(v) \in Seq(T)
<1>1. CASE v.is \in {"absent", "null"}
  <2>1. List(v) = << >>
    BY <1>1 DEF List, Given
  <2> QED
    BY <2>1
<1>2. CASE v.is = "ok"
  <2>1. List(v) = v.of
    BY <1>2 DEF List, Given
  <2> QED
    BY <1>2, <2>1
<1> QED
  BY <1>1, <1>2

(* A parent without a key is none.                                         *)
LEMMA ParseParentIs ==
  ASSUME NEW s \in Seq(Issues(Keys \cup {Empty}))
  PROVE  ParseParent(s) \in Seq(Issues(Keys))
<1> DEFINE I == Issues(Keys \cup {Empty})
           J == Issues(Keys)
           A == {p \in ToSet(s) : p.key # Empty}
<1>1. ParseParent(s) = Only(s, A)
  BY DEF ParseParent
<1>2. \A p \in I : p.key # Empty => p \in J
  BY DEF Issues
<1>3. s \in Seq(I)
  OBVIOUS
<1> HIDE DEF I, J, A
<1>4. Only(s, A) \in Seq(A)
  BY <1>3, OnlyType
<1>5. \A i \in DOMAIN s : s[i] \in I
  BY <1>3
<1>6. A \subseteq J
  BY <1>2, <1>5 DEF A, ToSet
<1>7. Only(s, A) \in Seq(J)
  BY <1>4, <1>6, SeqMonotonic
<1> QED
  BY <1>1, <1>7 DEF J

(* The remote links that are kept are those with a URL.                    *)
LEMMA ParseRemotesIs ==
  ASSUME NEW s \in Seq(Remotes)
  PROVE  ParseRemotes(s) \in Seq(Remotes)
<1> DEFINE A == {l \in ToSet(s) : l.url # Empty}
<1>1. ParseRemotes(s) = Only(s, A)
  BY DEF ParseRemotes
<1> HIDE DEF A
<1> QED
  BY <1>1, OnlyType

Response(r) == IsResponse(r) /\ Parses(r) /\ r.description.is # "bad"

(* What an issue has after the parser.                                     *)
LEMMA ParsedIs ==
  ASSUME NEW r, Response(r)
  PROVE  LET issue == Parse(r)
         IN  /\ issue.parent \in Seq(Issues(Keys)) /\ issue.subtasks \in Seq(Issues(Keys))
             /\ issue.links \in Seq(Issues(Keys)) /\ issue.remotes \in Seq(Remotes)
             /\ Doc(issue) \in Nodes
<1>1. /\ r.parent.is = "ok" => r.parent.of \in Seq(Issues(Keys \cup {Empty}))
      /\ r.subtasks.is = "ok" => r.subtasks.of \in Seq(Issues(Keys))
      /\ r.links.is = "ok" => r.links.of \in Seq([outward : Seq(Issues(Keys)), inward : Seq(Issues(Keys))])
      /\ r.remotes.is = "ok" => r.remotes.of \in Seq([url : STRING, text : STRING])
      /\ r.description.is = "ok" => r.description.of \in Documents
  BY DEF Response, IsResponse
<1>2. /\ r.parent.is \in {"absent", "null", "bad", "ok"} /\ r.subtasks.is \in {"absent", "null", "bad", "ok"}
      /\ r.links.is \in {"absent", "null", "bad", "ok"} /\ r.remotes.is \in {"absent", "null", "bad", "ok"}
      /\ r.description.is \in {"absent", "null", "bad", "ok"}
  BY DEF Response, IsResponse
<1>3. r.parent.is # "bad" /\ r.subtasks.is # "bad" /\ r.links.is # "bad" /\ r.remotes.is # "bad" /\ r.description.is # "bad"
  BY DEF Response, Parses
<1>4. List(r.parent) \in Seq(Issues(Keys \cup {Empty}))
  BY <1>1, <1>2, <1>3, ListIsOf
<1>5. List(r.subtasks) \in Seq(Issues(Keys))
  BY <1>1, <1>2, <1>3, ListIsOf
<1>6. List(r.links) \in Seq([outward : Seq(Issues(Keys)), inward : Seq(Issues(Keys))])
  BY <1>1, <1>2, <1>3, ListIsOf
<1>7. List(r.remotes) \in Seq(Remotes)
  BY <1>1, <1>2, <1>3, ListIsOf DEF Remotes
<1> DEFINE issue == Parse(r)
<1>8. /\ issue.parent = ParseParent(List(r.parent)) /\ issue.subtasks = List(r.subtasks)
      /\ issue.links = ParseLinks(List(r.links)) /\ issue.remotes = ParseRemotes(List(r.remotes))
      /\ issue.description = r.description
  BY DEF Parse
<1> HIDE DEF issue
<1>9. issue.parent \in Seq(Issues(Keys)) /\ issue.remotes \in Seq(Remotes)
  BY <1>4, <1>7, <1>8, ParseParentIs, ParseRemotesIs
<1>10. issue.links \in Seq(Issues(Keys))
  BY <1>6, <1>8, ParseLinksIs
<1>11. Doc(issue) \in Nodes
  <2>1. CASE r.description.is = "ok"
    <3>1. Doc(issue) = r.description.of
      BY <1>8, <2>1 DEF Doc, Given
    <3> QED
      BY <1>1, <2>1, <3>1 DEF Documents
  <2>2. CASE r.description.is \in {"absent", "null"}
    <3>1. Doc(issue) = Node("doc", << >>)
      BY <1>8, <2>2 DEF Doc, Given
    <3> QED
      BY <3>1, ContentAssumption
  <2> QED
    BY <1>2, <1>3, <2>1, <2>2
<1> QED
  BY <1>5, <1>8, <1>9, <1>10, <1>11 DEF issue

-----------------------------------------------------------------------------
(* The issue on its way: what each step has made of the response.          *)
GotOf(r) == [issue |-> Parse(r), refs |-> RefsOf(Parse(r))]
PagesOf(issue, refs, withNulls) ==
  [index |-> RenderIssue(issue, {}, withNulls), outbound |-> RenderOutbound(refs),
   keys |-> [i \in DOMAIN OfKind(refs, "jira") |-> OfKind(refs, "jira")[i].key]]
OnItsWay ==
  /\ IsResponse(response) /\ nulls \in BOOLEAN
  /\ at \in {"asked", "failed", "got", "rendered", "remote"}
  /\ at \in {"got", "rendered", "remote"} => Response(response) /\ got = GotOf(response)
  /\ at = "rendered" => pages = PagesOf(Parse(response), RefsOf(Parse(response)), nulls)
  /\ at = "remote" => reply = FromProto(ToProto(Parse(response), RefsOf(Parse(response))))

(* What the facade returns: the issue as parsed, and its references.       *)
LEMMA GotIs ==
  ASSUME NEW r
  PROVE  GotOf(r).issue = Parse(r) /\ GotOf(r).refs = RefsOf(Parse(r))
BY DEF GotOf

(* At the beginning nothing is in hand.                                    *)
LEMMA StartsOnItsWay == ContentInit => OnItsWay
<1> SUFFICES ASSUME ContentInit PROVE OnItsWay
  OBVIOUS
<1>1. IsResponse(response)
  <2>1. PICK topic \in DOMAIN Responses : response \in Responses[topic]
    BY DEF ContentInit
  <2> QED
    BY <2>1, ContentAssumption
<1>2. nulls \in BOOLEAN /\ at = "asked"
  BY DEF ContentInit
<1> QED
  BY <1>1, <1>2 DEF OnItsWay

(* Each step makes its piece of what the step before it made.              *)
LEMMA StaysOnItsWay == OnItsWay /\ [ContentNext]_contentVars => OnItsWay'
<1> SUFFICES ASSUME OnItsWay, [ContentNext]_contentVars PROVE OnItsWay'
  OBVIOUS
<1> USE DEF OnItsWay
<1>1. CASE GetIssue
  <2>1. response' = response /\ nulls' = nulls /\ at = "asked"
    BY <1>1 DEF GetIssue
  <2>2. CASE Parses(response) /\ response.description.is # "bad"
    <3>1. at' = "got" /\ got' = GotOf(response)
      BY <1>1, <2>2 DEF GetIssue, GotOf
    <3>2. Response(response)
      BY <2>2 DEF Response
    <3> QED
      BY <2>1, <3>1, <3>2
  <2>3. CASE ~(Parses(response) /\ response.description.is # "bad")
    <3>1. at' = "failed"
      BY <1>1, <2>3 DEF GetIssue
    <3> QED
      BY <2>1, <3>1
  <2> QED
    BY <2>2, <2>3
<1>2. CASE FetchAndRender
  <2>1. /\ response' = response /\ nulls' = nulls /\ got' = got
        /\ at = "got" /\ at' = "rendered"
        /\ pages' = PagesOf(got.issue, got.refs, nulls)
    BY <1>2 DEF FetchAndRender, PagesOf
  <2>2. Response(response) /\ got = GotOf(response)
    BY <2>1
  <2>3. got.issue = Parse(response) /\ got.refs = RefsOf(Parse(response))
    BY <2>2, GotIs
  <2>4. pages' = PagesOf(Parse(response), RefsOf(Parse(response)), nulls)
    BY <2>1, <2>3
  <2> QED
    BY <2>1, <2>2, <2>4
<1>3. CASE GetByBridge
  <2>1. /\ response' = response /\ nulls' = nulls /\ got' = got
        /\ at = "got" /\ at' = "remote"
        /\ reply' = FromProto(ToProto(got.issue, got.refs))
    BY <1>3 DEF GetByBridge
  <2>2. Response(response) /\ got = GotOf(response)
    BY <2>1
  <2>3. got.issue = Parse(response) /\ got.refs = RefsOf(Parse(response))
    BY <2>2, GotIs
  <2>4. reply' = FromProto(ToProto(Parse(response), RefsOf(Parse(response))))
    BY <2>1, <2>3
  <2> QED
    BY <2>1, <2>2, <2>4
<1>4. CASE UNCHANGED contentVars
  BY <1>4 DEF contentVars
<1> QED
  BY <1>1, <1>2, <1>3, <1>4 DEF ContentNext

(* So what is in hand was made of the response, always.                    *)
LEMMA AlwaysOnItsWay == ContentSpec => []OnItsWay
BY StartsOnItsWay, StaysOnItsWay, PTL DEF ContentSpec

(* What the pages of a response are.                                       *)
LEMMA PagesAre ==
  ASSUME NEW r, NEW withNulls
  PROVE  LET p == PagesOf(Parse(r), RefsOf(Parse(r)), withNulls)
             md == RenderMarkdown(Doc(Parse(r)))
         IN  /\ p.index.description = Described(md.buf) /\ p.index.unknown = RemoveRepeated(md.unknown)
             /\ p.index.fields = RenderFields(FieldIds, PreserveCustomFields(r.custom), ParseNames(r.names), withNulls)
             /\ p.outbound = RenderOutbound(RefsOf(Parse(r)))
             /\ p.keys = [i \in DOMAIN OfKind(RefsOf(Parse(r)), "jira") |-> OfKind(RefsOf(Parse(r)), "jira")[i].key]
             /\ Parse(r).names = ParseNames(r.names)
<1> DEFINE issue == Parse(r)
           refs == RefsOf(issue)
           index == RenderIssue(issue, {}, withNulls)
           outbound == RenderOutbound(refs)
           keys == [i \in DOMAIN OfKind(refs, "jira") |-> OfKind(refs, "jira")[i].key]
           md == RenderMarkdown(Doc(issue))
           p == PagesOf(issue, refs, withNulls)
<1>1. p.index = index /\ p.outbound = outbound /\ p.keys = keys
  <2>1. p = [index |-> index, outbound |-> outbound, keys |-> keys]
    BY DEF PagesOf
  <2> HIDE DEF p, index, outbound, keys
  <2> QED
    BY <2>1
<1>2. issue.custom = PreserveCustomFields(r.custom) /\ issue.names = ParseNames(r.names)
  BY DEF Parse
<1> HIDE DEF issue
<1>3. /\ index.description = Described(md.buf) /\ index.unknown = RemoveRepeated(md.unknown)
      /\ index.fields = RenderFields(FieldIds, issue.custom, issue.names, withNulls)
  BY DEF RenderIssue
<1> HIDE DEF md, index, outbound, keys, p, refs
<1>4. /\ p.index.description = Described(md.buf) /\ p.index.unknown = RemoveRepeated(md.unknown)
      /\ p.index.fields = RenderFields(FieldIds, PreserveCustomFields(r.custom), ParseNames(r.names), withNulls)
      /\ p.outbound = outbound /\ p.keys = keys /\ issue.names = ParseNames(r.names)
  BY <1>1, <1>2, <1>3
<1> QED
  BY <1>4 DEF md, outbound, keys, p, refs, issue

(* Every text of the description is in the page, in the same order.        *)
THEOREM TextIsKept == ContentSpec => []TextKept
<1>1. OnItsWay => TextKept
  <2> SUFFICES ASSUME OnItsWay, at = "rendered" PROVE Only(Markdown, Words) = CollectText[Doc(got.issue)]
    BY DEF TextKept
  <2>1. Response(response) /\ got = GotOf(response) /\ pages = PagesOf(Parse(response), RefsOf(Parse(response)), nulls)
    BY DEF OnItsWay
  <2> DEFINE doc == Doc(Parse(response))
             buf == RenderMarkdown(doc).buf
  <2>2. doc \in Nodes
    BY <2>1, ParsedIs
  <2>3. buf \in Seq(Tokens) /\ Only(buf, Words) = CollectText[doc] /\ Sound(buf)
    BY <2>2, DocumentIs DEF Renderings
  <2>4. Markdown = Described(buf)
    BY <2>1, PagesAre DEF Markdown
  <2>5. Doc(got.issue) = doc
    BY <2>1, GotIs
  <2> HIDE DEF buf, doc
  <2>6. Only(Described(buf), Words) = Only(buf, Words)
    BY <2>3, DescribedKeeps
  <2> QED
    BY <2>3, <2>4, <2>5, <2>6
<1> QED
  BY <1>1, AlwaysOnItsWay, PTL

(* Headings, list items and fences begin a line, and a fence is closed.    *)
THEOREM BlocksAreApart == ContentSpec => []BlocksApart
<1>1. OnItsWay => BlocksApart
  <2> SUFFICES ASSUME OnItsWay, at = "rendered" PROVE State(Markdown).well /\ ~State(Markdown).open
    BY DEF BlocksApart, State
  <2>1. Response(response) /\ pages = PagesOf(Parse(response), RefsOf(Parse(response)), nulls)
    BY DEF OnItsWay
  <2> DEFINE doc == Doc(Parse(response))
             buf == RenderMarkdown(doc).buf
  <2>2. doc \in Nodes
    BY <2>1, ParsedIs
  <2>3. buf \in Seq(Tokens) /\ Sound(buf)
    BY <2>2, DocumentIs DEF Renderings
  <2>4. Markdown = Described(buf)
    BY <2>1, PagesAre DEF Markdown
  <2> HIDE DEF buf, doc
  <2>5. Sound(Described(buf))
    BY <2>3, DescribedKeeps
  <2> QED
    BY <2>4, <2>5 DEF Sound
<1> QED
  BY <1>1, AlwaysOnItsWay, PTL

(* Every custom field has its entry, with all that Jira said.              *)
THEOREM FieldsAreKept == ContentSpec => []FieldsKept
<1>1. OnItsWay => FieldsKept
  <2> SUFFICES ASSUME OnItsWay, at = "rendered" PROVE FieldsKept
    BY Zenon DEF FieldsKept
  <2>1. /\ IsResponse(response) /\ nulls \in BOOLEAN /\ got = GotOf(response)
        /\ pages = PagesOf(Parse(response), RefsOf(Parse(response)), nulls)
    BY DEF OnItsWay
  <2> DEFINE in == response.custom
             shown == Only(FieldIds, {id \in DOMAIN in : in[id].is # "absent" /\ (nulls \/ in[id].is # "null")})
             fields == pages.index.fields
             label(i) == LabelFor(shown[i], got.issue.names)
  <2>2. fields = RenderFields(FieldIds, PreserveCustomFields(response.custom), ParseNames(response.names), nulls)
    BY <2>1, PagesAre
  <2>3. got.issue.names = ParseNames(response.names)
    BY <2>1, GotIs, PagesAre
  <2>4. /\ Len(fields) = Len(shown)
        /\ \A i \in DOMAIN shown :
             Entry(LabelFor(shown[i], ParseNames(response.names)), response.custom[shown[i]], fields[i])
    <3>1. shown = ShownOf(response.custom, nulls)
      BY DEF ShownOf
    <3> HIDE DEF fields, shown
    <3> QED
      BY <2>1, <2>2, <3>1, FieldsOfResponse
  <2>5. \A i \in DOMAIN shown : Entry(label(i), in[shown[i]], fields[i])
    BY <2>3, <2>4
  <2> HIDE DEF shown, fields, in
  <2>6. ASSUME NEW i \in DOMAIN shown
        PROVE  /\ Ink(fields[i]) =
                    Ink(<<"- ", label(i)>> \o IF in[shown[i]].is = "null" THEN <<"null">> ELSE in[shown[i]].of)
               /\ \A k \in DOMAIN fields[i] : fields[i][k] = "nl" => fields[i][k + 1] = "  "
    BY Zenon, <2>5 DEF Entry, SetIn, Said
  <2>7. /\ Len(fields) = Len(shown)
        /\ \A i \in DOMAIN shown :
             /\ Ink(fields[i]) =
                  Ink(<<"- ", label(i)>> \o IF in[shown[i]].is = "null" THEN <<"null">> ELSE in[shown[i]].of)
             /\ \A k \in DOMAIN fields[i] : fields[i][k] = "nl" => fields[i][k + 1] = "  "
    BY Zenon, <2>4, <2>6
  <2> QED
    BY Zenon, <2>7 DEF FieldsKept, shown, fields, in
<1> QED
  BY <1>1, AlwaysOnItsWay, PTL

-----------------------------------------------------------------------------
(* The references of an issue, and what the pages make of them.            *)
LEMMA RefsOfIs ==
  ASSUME NEW r, Response(r)
  PROVE  LET issue == Parse(r)
         IN  RefsOf(issue) = AllRefs(ExtractLinks[Doc(issue)], issue.parent, issue.subtasks, issue.links, issue.remotes)
<1> DEFINE issue == Parse(r)
           found == ExtractLinks[Doc(issue)]
           with == [issue EXCEPT !.description = found]
<1>1. RefsOf(issue) = Extract(with)
  BY DEF RefsOf
<1>2. /\ with.description = found /\ with.parent = issue.parent /\ with.subtasks = issue.subtasks
      /\ with.links = issue.links /\ with.remotes = issue.remotes
  <2> HIDE DEF found
  <2> QED
    BY DEF Parse
<1> HIDE DEF issue, found, with
<1>3. Extract(with) = AllRefs(found, issue.parent, issue.subtasks, issue.links, issue.remotes)
  BY <1>2 DEF Extract, AllRefs
<1> QED
  BY <1>1, <1>3 DEF issue, found

(* The references of a response are of the known kinds.                    *)
LEMMA RefsAreFindings ==
  ASSUME NEW r, Response(r)
  PROVE  RefsOf(Parse(r)) \in Seq(Findings)
<1> DEFINE issue == Parse(r)
           found == ExtractLinks[Doc(issue)]
<1>1. /\ issue.parent \in Seq(Issues(Keys)) /\ issue.subtasks \in Seq(Issues(Keys))
      /\ issue.links \in Seq(Issues(Keys)) /\ issue.remotes \in Seq(Remotes)
      /\ Doc(issue) \in Nodes
  BY ParsedIs
<1>2. found \in Seq(Links)
  BY <1>1, ExtractLinksFinds
<1>3. RefsOf(issue) = AllRefs(found, issue.parent, issue.subtasks, issue.links, issue.remotes)
  BY RefsOfIs
<1> HIDE DEF issue, found
<1>4. RefsOf(issue) \in Seq(Findings)
  BY <1>1, <1>2, <1>3, RefsAre
<1> QED
  BY <1>4 DEF issue

-----------------------------------------------------------------------------
(* The bridge: each kind has its name and each name its kind.              *)
Sent(x) == [x EXCEPT !.kind = KindString(x)]
Received(y) == [y EXCEPT !.kind = KindFromString(@), !.pr = Empty]

(* A kind, sent as its name, comes back as itself.                         *)
LEMMA KindsComeBack ==
  ASSUME NEW x, x.kind \in Kinds
  PROVE  KindFromString(KindString(x)) = x.kind
<1>1. CASE x.kind = "jira"
  <2>1. KindString(x) = IF x.url = Empty THEN "JiraKey" ELSE "JiraURL"
    BY <1>1 DEF KindString
  <2>2. KindString(x) \in {"JiraKey", "JiraURL"}
    BY <2>1
  <2>3. KindFromString(KindString(x)) = "jira"
    BY <2>2 DEF KindFromString
  <2> QED
    BY <1>1, <2>3
<1>2. CASE x.kind = "github_pr"
  <2>1. KindString(x) = "GitHubPR"
    BY <1>2 DEF KindString
  <2>2. KindFromString("GitHubPR") = "github_pr"
    BY DEF KindFromString
  <2> QED
    BY <1>2, <2>1, <2>2
<1>3. CASE x.kind = "external"
  <2>1. KindString(x) = "External"
    BY <1>3 DEF KindString
  <2>2. KindFromString("External") = "external"
    BY DEF KindFromString
  <2> QED
    BY <1>3, <2>1, <2>2
<1> QED
  BY <1>1, <1>2, <1>3 DEF Kinds

(* A reference over the bridge comes back, but for the pull request's      *)
(* name.                                                                   *)
LEMMA FindingsComeBack ==
  ASSUME NEW x \in Findings
  PROVE  Received(Sent(x)) = [x EXCEPT !.pr = Empty]
<1> DEFINE name == KindString(x)
           e == Empty
           y == Sent(x)
<1>1. x = [kind |-> x.kind, key |-> x.key, url |-> x.url, pr |-> x.pr, text |-> x.text] /\ x.kind \in Kinds
  BY DEF Findings
<1>2. KindFromString(name) = x.kind
  BY <1>1, KindsComeBack
<1>3. y = [kind |-> name, key |-> x.key, url |-> x.url, pr |-> x.pr, text |-> x.text]
  <2> HIDE DEF name
  <2>1. y = [x EXCEPT !.kind = name]
    BY DEF Sent, name
  <2> HIDE DEF y
  <2> QED
    BY <1>1, <2>1
<1> HIDE DEF name, y, e
<1>4. Received(y) = [kind |-> KindFromString(y.kind), key |-> y.key, url |-> y.url, pr |-> e, text |-> y.text]
  <2>1. Received(y) = [y EXCEPT !.kind = KindFromString(y.kind), !.pr = e]
    BY DEF Received, e
  <2> QED
    BY <1>3, <2>1
<1>5. [x EXCEPT !.pr = e] = [kind |-> x.kind, key |-> x.key, url |-> x.url, pr |-> e, text |-> x.text]
  BY <1>1
<1>6. y.kind = name /\ y.key = x.key /\ y.url = x.url /\ y.text = x.text
  BY <1>3
<1>7. Received(y) = [x EXCEPT !.pr = e]
  BY <1>2, <1>4, <1>5, <1>6
<1> QED
  BY <1>7 DEF y, e

(* So do all of them, in their order.                                      *)
LEMMA BridgeKeeps ==
  ASSUME NEW issue, NEW refs \in Seq(Findings)
  PROVE  FromProto(ToProto(issue, refs)).refs = [i \in DOMAIN refs |-> [refs[i] EXCEPT !.pr = Empty]]
<1> DEFINE answer == ToProto(issue, refs)
           answered == [i \in DOMAIN refs |-> Sent(refs[i])]
           back == [i \in DOMAIN answered |-> Received(answered[i])]
<1>1. answer.references = answered
  BY DEF ToProto, Sent
<1>2. FromProto(answer).refs = [i \in DOMAIN answer.references |-> Received(answer.references[i])]
  <2> HIDE DEF answer
  <2> QED
    BY DEF FromProto, Received
<1>3. back = [i \in DOMAIN refs |-> Received(Sent(refs[i]))]
  OBVIOUS
<1>4. \A i \in DOMAIN refs : refs[i] \in Findings
  OBVIOUS
<1>5. \A i \in DOMAIN refs : Received(Sent(refs[i])) = [refs[i] EXCEPT !.pr = Empty]
  BY <1>4, FindingsComeBack
<1>6. FromProto(answer).refs = back
  <2> HIDE DEF answer, answered
  <2> QED
    BY <1>1, <1>2
<1> HIDE DEF answer, back
<1>7. FromProto(answer).refs = [i \in DOMAIN refs |-> [refs[i] EXCEPT !.pr = Empty]]
  BY <1>3, <1>5, <1>6
<1> QED
  BY <1>7 DEF answer

(* The bridge shows the references of the facade, in the same order.       *)
THEOREM BridgeRefersToAll == ContentSpec => []BridgeRefers
<1>1. OnItsWay => BridgeRefers
  <2> SUFFICES ASSUME OnItsWay, at = "remote"
               PROVE  reply.refs = [i \in DOMAIN got.refs |-> [got.refs[i] EXCEPT !.pr = Empty]]
    BY DEF BridgeRefers
  <2> DEFINE refs == RefsOf(Parse(response))
  <2>1. Response(response) /\ got = GotOf(response) /\ reply = FromProto(ToProto(Parse(response), refs))
    BY DEF OnItsWay
  <2>2. got.refs = refs
    BY <2>1, GotIs
  <2>3. refs \in Seq(Findings)
    BY <2>1, RefsAreFindings
  <2> HIDE DEF refs
  <2>4. reply.refs = [i \in DOMAIN refs |-> [refs[i] EXCEPT !.pr = Empty]]
    BY <2>1, <2>3, BridgeKeeps
  <2> QED
    BY <2>2, <2>4
<1> QED
  BY <1>1, AlwaysOnItsWay, PTL

-----------------------------------------------------------------------------
(* Whatever an issue mentions, the reader finds.                           *)
LinesOf(outbound) == {outbound[i].to : i \in DOMAIN outbound}
RelatedOf(issue) == {x.key : x \in ToSet(issue.parent \o issue.subtasks \o issue.links)}
LinkedBy(remotes, doc) == UrlsOf(remotes) \cup HrefsIn(doc)
TargetsOf(linked) == {TargetOf(u) : u \in linked \cap (Keys \cup Urls)}

(* All that a response mentions is a line of outbound.md; the keys are to  *)
(* be crawled.                                                             *)
LEMMA MentionedIsFound ==
  ASSUME NEW r, Response(r)
  PROVE  LET issue == Parse(r)
             mentioned == RelatedOf(issue) \cup TargetsOf(LinkedBy(issue.remotes, Doc(issue)))
         IN  /\ mentioned \subseteq LinesOf(RenderOutbound(RefsOf(issue)))
             /\ mentioned \cap Keys = KeysOf(ToSet(RefsOf(issue)))
<1> DEFINE issue == Parse(r)
           found == ExtractLinks[Doc(issue)]
           refs == RefsOf(issue)
           linked == UrlsOf(found) \cup UrlsOf(issue.remotes)
           mentioned == RelatedOf(issue) \cup TargetsOf(linked)
<1>1. /\ issue.parent \in Seq(Issues(Keys)) /\ issue.subtasks \in Seq(Issues(Keys))
      /\ issue.links \in Seq(Issues(Keys)) /\ issue.remotes \in Seq(Remotes)
      /\ Doc(issue) \in Nodes
  BY ParsedIs
<1>2. found \in Seq(Links) /\ UrlsOf(found) = HrefsIn(Doc(issue)) \ {Empty}
  BY <1>1, ExtractLinksFinds
<1>3. refs = AllRefs(found, issue.parent, issue.subtasks, issue.links, issue.remotes)
  BY RefsOfIs
<1>4. refs \in Seq(Findings)
  BY RefsAreFindings
<1>5. linked \cap (Keys \cup Urls) = LinkedBy(issue.remotes, Doc(issue)) \cap (Keys \cup Urls)
  BY <1>2, KeysAre DEF LinkedBy
<1>6. TargetsOf(linked) = TargetsOf(LinkedBy(issue.remotes, Doc(issue)))
  BY <1>5 DEF TargetsOf
<1> HIDE DEF issue, found, refs
<1>7. LinesOf(RenderOutbound(refs)) = {LineOf(f) : f \in ToSet(refs)}
  BY <1>4, OutboundIs DEF LinesOf, TosOf
<1>8. /\ mentioned \subseteq {LineOf(f) : f \in ToSet(refs)}
      /\ mentioned \cap Keys = KeysOf(ToSet(refs))
  <2> DEFINE parent == issue.parent
             subtasks == issue.subtasks
             links == issue.links
             remotes == issue.remotes
  <2>1. /\ parent \in Seq(Issues(Keys)) /\ subtasks \in Seq(Issues(Keys))
        /\ links \in Seq(Issues(Keys)) /\ remotes \in Seq(Remotes) /\ found \in Seq(Links)
        /\ refs = AllRefs(found, parent, subtasks, links, remotes)
    BY <1>1, <1>2, <1>3
  <2>2. /\ RelatedOf(issue) = {x.key : x \in ToSet(parent \o subtasks \o links)}
        /\ linked = UrlsOf(found) \cup UrlsOf(remotes)
    BY DEF RelatedOf
  <2> HIDE DEF parent, subtasks, links, remotes, linked
  <2> DEFINE all == AllRefs(found, parent, subtasks, links, remotes)
             related == {x.key : x \in ToSet(parent \o subtasks \o links)}
             targets == {TargetOf(u) : u \in (UrlsOf(found) \cup UrlsOf(remotes)) \cap (Keys \cup Urls)}
  <2>3. related \cup targets \subseteq {LineOf(f) : f \in ToSet(all)}
    BY <2>1, NothingLost
  <2>4. (related \cup targets) \cap Keys = KeysOf(ToSet(all))
    BY <2>1, NothingLost
  <2>5. related \cup targets = mentioned
    BY <2>2 DEF TargetsOf
  <2> HIDE DEF related, targets, mentioned, all
  <2>6. refs = all
    BY <2>1 DEF all
  <2> QED
    BY <2>3, <2>4, <2>5, <2>6
<1>9. /\ mentioned \subseteq LinesOf(RenderOutbound(refs))
      /\ mentioned \cap Keys = KeysOf(ToSet(refs))
  BY <1>7, <1>8
<1> QED
  BY <1>6, <1>9 DEF issue, refs

(* The keys to crawl are those of the issues among the references.         *)
LEMMA KeysToCrawlAre ==
  ASSUME NEW refs \in Seq(Findings)
  PROVE  ToSet([i \in DOMAIN OfKind(refs, "jira") |-> OfKind(refs, "jira")[i].key]) = KeysOf(ToSet(refs))
<1> DEFINE J == OfKind(refs, "jira")
           keys == [i \in DOMAIN J |-> J[i].key]
<1>1. ToSet(J) = {f \in ToSet(refs) : f.kind = "jira"}
  BY OfKindIs
<1> HIDE DEF J
<1>2. ToSet(keys) = {f.key : f \in ToSet(J)}
  BY DEF ToSet
<1> HIDE DEF keys
<1>3. ToSet(keys) = KeysOf(ToSet(refs))
  BY <1>1, <1>2 DEF KeysOf
<1> QED
  BY <1>3 DEF keys, J

(* Of any response that parses: the related issues, and the keys and the   *)
(* URLs with a host among the targets of remote links and of link marks,   *)
(* are in outbound.md, the keys among these are crawled, and the types of  *)
(* the outermost nodes that were not rendered are named.                   *)
THEOREM NothingIsUnseen == ContentSpec => []NothingUnseen
<1>1. OnItsWay => NothingUnseen
  <2> SUFFICES ASSUME OnItsWay, at = "rendered" PROVE NothingUnseen
    BY DEF NothingUnseen
  <2> DEFINE issue == Parse(response)
             refs == RefsOf(issue)
             doc == Doc(issue)
             md == RenderMarkdown(doc)
  <2>1. Response(response) /\ got = GotOf(response) /\ pages = PagesOf(issue, refs, nulls)
    BY DEF OnItsWay
  <2>2. got.issue = issue
    BY <2>1, GotIs
  <2>3. refs \in Seq(Findings)
    BY <2>1, RefsAreFindings
  <2>4. doc \in Nodes
    BY <2>1, ParsedIs
  <2>5. md.unknown \in Seq(Types) /\ ToSet(md.unknown) = Missed(doc)
    BY <2>4, DocumentIs DEF Renderings
  <2>6. /\ pages.outbound = RenderOutbound(refs) /\ pages.index.unknown = RemoveRepeated(md.unknown)
        /\ pages.keys = [i \in DOMAIN OfKind(refs, "jira") |-> OfKind(refs, "jira")[i].key]
    BY <2>1, PagesAre
  <2>7. ToSet(pages.keys) = KeysOf(ToSet(refs))
    BY <2>3, <2>6, KeysToCrawlAre
  <2> HIDE DEF md
  <2>8. ToSet(pages.index.unknown) = Missed(doc)
    BY <2>5, <2>6, RemoveRepeatedKeeps
  <2> DEFINE linked == LinkedBy(issue.remotes, doc)
             mentioned == RelatedOf(issue) \cup TargetsOf(linked)
  <2>9. mentioned \subseteq LinesOf(pages.outbound) /\ mentioned \cap Keys = ToSet(pages.keys)
    BY <2>1, <2>6, <2>7, MentionedIsFound
  <2> HIDE DEF issue, refs
  <2>10. linked = {l.url : l \in ToSet(got.issue.remotes)} \cup Hrefs
    BY <2>2 DEF LinkedBy, UrlsOf, HrefsIn, Hrefs, ToSet
  <2>11. TargetsOf(linked) = {IF u \in Urls /\ MatchesJiraURL(u) THEN Form[u].key ELSE u :
                                u \in linked \cap (Keys \cup Urls)}
    BY DEF TargetsOf, TargetOf
  <2>12. ToSet(pages.index.unknown) = {n.type : n \in Reached[Doc(got.issue)]} \ KnownTypes
    BY <2>2, <2>8 DEF Missed
  <2> HIDE DEF linked
  <2> QED
    BY <2>2, <2>9, <2>10, <2>11, <2>12 DEF NothingUnseen, LinesOf, RelatedOf
<1> QED
  BY <1>1, AlwaysOnItsWay, PTL
=============================================================================
