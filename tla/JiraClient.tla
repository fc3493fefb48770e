----------------------------- MODULE JiraClient -----------------------------
(***************************************************************************)
(* The retry loop of pkg/client, doWithRetry, through which every call of  *)
(* the Jira API goes, with the network and Jira on the other side.         *)
(*                                                                         *)
(* A call sends its request, and sends it again after a 429 and after a    *)
(* transient network error, each of the two up to a number of times of its *)
(* own.  The loop does not look at the method: a POST is sent again like a *)
(* GET.  A request that the client gave up on may still be under way, and  *)
(* Jira may carry it out later.                                            *)
(*                                                                         *)
(* The calls here all write the same field of one issue (UpdateIssue);     *)
(* for CreateIssue, AddComment and the others, read "carried out" as       *)
(* created.  How long the loop sleeps is left out.                         *)
(***************************************************************************)
EXTENDS Naturals, FiniteSets

CONSTANTS
  Calls,                 \* calls of the client
  Loggers,               \* those whose client has a logger (WithLogger)
  MaxNetworkRetries,     \* c.maxNetworkRetries
  MaxRateLimitRetries,   \* c.maxRateLimitRetries
  Nobody                 \* nobody wrote the field yet

ASSUME ClientAssumption ==
  /\ Loggers \subseteq Calls
  /\ MaxNetworkRetries \in Nat
  /\ MaxRateLimitRetries \in Nat
  /\ Nobody \notin Calls

(* Bound on the requests of a call; no call is to reach beyond it.         *)
MaxTries == MaxNetworkRetries + MaxRateLimitRetries + 1
Tries    == 1 .. MaxTries

(* What became of a request: not sent; under way, perhaps for ever; Jira   *)
(* carried it out; Jira refused it.                                        *)
Fates == {"unsent", "flying", "applied", "refused"}

(* What doWithRetry returned: the body; the part of the body that came; an *)
(* error for a status 400, 401, 403, 404 or 409; ErrRateLimited; an error  *)
(* for another status, for a transient network error, for another network  *)
(* error, and for a context that is done.                                  *)
Outcomes == {"ok", "truncated", "denied", "rate_limited", "unexpected",
             "exhausted", "failed", "cancelled"}

VARIABLES
  pc,         \* where each call is: "idle", "send", "wait", "sleep", "done"
  network,    \* networkAttempts
  rate,       \* rateLimitAttempt
  sent,       \* how many requests the call sent
  cancelled,  \* is the context of the call done?
  outcome,    \* what the call returned, or "none"
  fate,       \* fate[c][n]: what became of the n-th request of call c
  field,      \* the call whose request Jira carried out last
  before      \* before[c]: the calls that had returned when c began

counters == <<network, rate>>
jira     == <<fate, field>>
vars     == <<pc, network, rate, sent, cancelled, outcome, fate, field, before>>

Init ==
  /\ pc = [c \in Calls |-> "idle"]
  /\ network = [c \in Calls |-> 0]
  /\ rate = [c \in Calls |-> 0]
  /\ sent = [c \in Calls |-> 0]
  /\ cancelled = [c \in Calls |-> FALSE]
  /\ outcome = [c \in Calls |-> "none"]
  /\ fate = [c \in Calls |-> [n \in Tries |-> "unsent"]]
  /\ field = Nobody
  /\ before = [c \in Calls |-> {}]

Goto(c, l)       == pc' = [pc EXCEPT ![c] = l]
SetFate(c, n, f) == fate' = [fate EXCEPT ![c][n] = f]

Return(c, o) ==
  /\ Goto(c, "done")
  /\ outcome' = [outcome EXCEPT ![c] = o]

-----------------------------------------------------------------------------
(***************************************************************************)
(* The surroundings: Jira, the network, and whoever holds the context.     *)
(***************************************************************************)
CarryOut(c, n) ==
  /\ fate[c][n] = "flying"
  /\ SetFate(c, n, "applied")
  /\ field' = c
  /\ UNCHANGED <<pc, counters, sent, cancelled, outcome, before>>

Refuse(c, n) ==
  /\ fate[c][n] = "flying"
  /\ SetFate(c, n, "refused")
  /\ UNCHANGED <<pc, counters, sent, cancelled, outcome, field, before>>

Cancel(c) ==
  /\ pc[c] # "done" /\ ~cancelled[c]
  /\ cancelled' = [cancelled EXCEPT ![c] = TRUE]
  /\ UNCHANGED <<pc, counters, sent, outcome, jira, before>>

Surroundings ==
  \E c \in Calls : Cancel(c) \/ \E n \in Tries : CarryOut(c, n) \/ Refuse(c, n)

-----------------------------------------------------------------------------
(***************************************************************************)
(* doWithRetry.                                                            *)
(***************************************************************************)
Begin(c) ==
  /\ pc[c] = "idle"
  /\ Goto(c, "send")
  /\ before' = [before EXCEPT ![c] = {d \in Calls : pc[d] = "done"}]
  /\ UNCHANGED <<counters, sent, cancelled, outcome, jira>>

(* The transport sends nothing when the context is done already.           *)
Send(c) ==
  /\ pc[c] = "send"
  /\ \/ /\ cancelled[c]
        /\ Return(c, "cancelled")
        /\ UNCHANGED <<sent, fate>>
     \/ /\ ~cancelled[c]
        /\ sent[c] < MaxTries
        /\ sent' = [sent EXCEPT ![c] = @ + 1]
        /\ SetFate(c, sent'[c], "flying")
        /\ Goto(c, "wait")
        /\ UNCHANGED outcome
  /\ UNCHANGED <<counters, cancelled, field, before>>

(* Slip: the retry is not counted.                                         *)
RetryNetworkUncounted(c) == network[c] < MaxNetworkRetries /\ UNCHANGED network

RetryNetwork(c) ==
  /\ network[c] < MaxNetworkRetries
  /\ network' = [network EXCEPT ![c] = @ + 1]

(* doOnce failed.  A timeout, or a body that breaks off, is transient; no  *)
(* other error is.                                                         *)
TransportError(c, transient) ==
  \/ /\ cancelled[c]
     /\ Return(c, "cancelled")
     /\ UNCHANGED network
  \/ /\ ~cancelled[c] /\ transient
     /\ RetryNetwork(c)
     /\ Goto(c, "sleep")
     /\ UNCHANGED outcome
  \/ /\ ~cancelled[c] /\ transient /\ network[c] >= MaxNetworkRetries
     /\ Return(c, "exhausted")
     /\ UNCHANGED network
  \/ /\ ~cancelled[c] /\ ~transient
     /\ Return(c, "failed")
     /\ UNCHANGED network

(* No answer: the client's timeout expires, the context is cancelled, or   *)
(* the connection fails.                                                   *)
NoAnswer(c) ==
  /\ pc[c] = "wait"
  /\ \E transient \in BOOLEAN : TransportError(c, transient)
  /\ UNCHANGED <<rate, sent, cancelled, jira, before>>

(* The status of an answer to the last request.  A gateway may answer for  *)
(* Jira, whatever became of the request.                                   *)
Status(c) ==
  {"other"} \cup (CASE fate[c][sent[c]] = "applied" -> {"success"}
                    [] fate[c][sent[c]] = "refused" -> {"error", "too_many"}
                    [] OTHER -> {})

(* Slip: one retry too few.                                                *)
LimitedEarly(c) ==
  \/ /\ rate[c] + 1 >= MaxRateLimitRetries
     /\ Return(c, "rate_limited")
     /\ UNCHANGED rate
  \/ /\ rate[c] + 1 < MaxRateLimitRetries
     /\ rate' = [rate EXCEPT ![c] = @ + 1]
     /\ Goto(c, "sleep")
     /\ UNCHANGED outcome
(* Slip: the retry is not counted.                                         *)
LimitedUncounted(c) ==
  /\ rate[c] < MaxRateLimitRetries
  /\ Goto(c, "sleep")
  /\ UNCHANGED <<rate, outcome>>

Limited(c) ==
  \/ /\ rate[c] >= MaxRateLimitRetries
     /\ Return(c, "rate_limited")
     /\ UNCHANGED rate
  \/ /\ rate[c] < MaxRateLimitRetries
     /\ rate' = [rate EXCEPT ![c] = @ + 1]
     /\ Goto(c, "sleep")
     /\ UNCHANGED outcome

(* Slip: any status that is no success is an answer of Jira.               *)
ErrorOfAnyStatus(s) == IF s = "success" THEN "ok" ELSE "denied"

(* What the loop returns for a status, other than 429.                     *)
OutcomeOf(s) ==
  CASE s = "success" -> "ok"
    [] s = "error"   -> "denied"
    [] OTHER         -> "unexpected"

(* An answer that was read to its end.                                     *)
Answer(c) ==
  /\ pc[c] = "wait"
  /\ \E s \in Status(c) :
       IF s = "too_many" THEN Limited(c) ELSE Return(c, OutcomeOf(s)) /\ UNCHANGED rate
  /\ UNCHANGED <<network, sent, cancelled, jira, before>>

(* An answer of which the body breaks off.  The transport that WithLogger  *)
(* installs drops the error and hands on what it has read.                 *)
BrokenAnswer(c) ==
  /\ pc[c] = "wait"
  /\ "success" \in Status(c)
  /\ IF c \in Loggers
     THEN Return(c, "truncated") /\ UNCHANGED network
     ELSE TransportError(c, TRUE)
  /\ UNCHANGED <<rate, sent, cancelled, jira, before>>

(* contextSleep.                                                           *)
Wake(c) ==
  /\ pc[c] = "sleep"
  /\ \/ Goto(c, "send") /\ UNCHANGED outcome
     \/ cancelled[c] /\ Return(c, "cancelled")
  /\ UNCHANGED <<counters, sent, cancelled, jira, before>>

-----------------------------------------------------------------------------
ClientStep(c) ==
  Send(c) \/ NoAnswer(c) \/ Answer(c) \/ BrokenAnswer(c) \/ Wake(c)

(* All calls returned.                                                     *)
Finished ==
  /\ \A c \in Calls : pc[c] = "done"
  /\ UNCHANGED vars

Next ==
  \/ \E c \in Calls : Begin(c) \/ ClientStep(c)
  \/ Surroundings
  \/ Finished

Spec == Init /\ [][Next]_vars

(* A call goes on: the client's timeout ends every wait for an answer, a   *)
(* timer every sleep.  Nothing is assumed of Jira.                         *)
FairSpec == Spec /\ \A c \in Calls : WF_vars(ClientStep(c))

-----------------------------------------------------------------------------
(***************************************************************************)
(* Properties.                                                             *)
(***************************************************************************)
(* The type of the variables: the counters stay within the limits that the *)
(* client was configured with.                                             *)
TypeOK ==
  /\ pc \in [Calls -> {"idle", "send", "wait", "sleep", "done"}]
  /\ network \in [Calls -> 0 .. MaxNetworkRetries]
  /\ rate \in [Calls -> 0 .. MaxRateLimitRetries]
  /\ sent \in [Calls -> 0 .. MaxTries]
  /\ cancelled \in [Calls -> BOOLEAN]
  /\ outcome \in [Calls -> Outcomes \cup {"none"}]
  /\ fate \in [Calls -> [Tries -> Fates]]
  /\ field \in Calls \cup {Nobody}
  /\ before \in [Calls -> SUBSET Calls]

Effects(c)  == {n \in Tries : fate[c][n] = "applied"}
Refusals(c) == {n \in Tries : fate[c][n] = "refused"}

(* Retries duplicate a call no more often than network errors made the     *)
(* loop send it again: a 429 never does.                                   *)
CopiesAreRetries ==
  \A c \in Calls : Cardinality(Effects(c)) <= network[c] + 1

(* The loop gives up for a reason only when it spent the retries for that  *)
(* reason: ErrRateLimited comes after a 429 to one request more than there *)
(* are retries, a transient network error after that many other requests.  *)
GivesUpWhenSpent ==
  \A c \in Calls :
    /\ outcome[c] = "rate_limited" => Cardinality(Refusals(c)) > MaxRateLimitRetries
    /\ outcome[c] = "exhausted" =>
         /\ network[c] = MaxNetworkRetries
         /\ sent[c] > MaxNetworkRetries

(* What is known of a call that returned, given what it returned and       *)
(* whether the loop met network errors.                                    *)
Verdict(c) ==
  IF pc[c] # "done" THEN "open"
  ELSE IF outcome[c] \in {"ok", "truncated"}
       THEN IF network[c] = 0 THEN "once" ELSE "atleast"
  ELSE IF outcome[c] \in {"denied", "rate_limited"} /\ network[c] = 0
       THEN "nothing" ELSE "unknown"

Settled(c) == Verdict(c) \in {"once", "nothing"}

(* A successful update is not undone by a call that had returned before it *)
(* began, unless that one met network errors or ended in doubt: then a     *)
(* request of it that was given up may overwrite the field.                *)
UpdateStands ==
  \A c \in Calls : outcome[c] \in {"ok", "truncated"} =>
    \A d \in before[c] : Settled(d) => field # d

Remote == INSTANCE RemoteCall
            WITH effects <- [c \in Calls |-> Effects(c)],
                 verdict <- [c \in Calls |-> Verdict(c)]

(* The loop keeps the promise of RemoteCall: a success without a network   *)
(* error was carried out once, any success at least once, and an error     *)
(* status without one not at all, then and later.                          *)
KeepsPromise == Remote!RemoteSpec

(* Every call returns, whatever Jira and the network do.                   *)
CallsReturn == \A c \in Calls : (pc[c] # "idle") ~> (pc[c] = "done")

-----------------------------------------------------------------------------
(***************************************************************************)
(* The inductive invariant.                                                *)
(***************************************************************************)
(* Every request but the last was followed by a retry of one kind.         *)
CountInv ==
  \A c \in Calls :
    /\ pc[c] = "idle" => sent[c] = 0
    /\ pc[c] \in {"idle", "send", "sleep"} => sent[c] = network[c] + rate[c]
    /\ pc[c] = "wait" => sent[c] = network[c] + rate[c] + 1
    /\ pc[c] = "done" => sent[c] \in {network[c] + rate[c], network[c] + rate[c] + 1}
    /\ \A n \in Tries : fate[c][n] = "unsent" <=> n > sent[c]

(* The refused requests that were followed by a retry.  There is one for   *)
(* every retry after a 429; without network errors there are no others.    *)
Retried(c) == {n \in Tries : n <= network[c] + rate[c] /\ fate[c][n] = "refused"}

RetryInv ==
  \A c \in Calls :
    /\ Cardinality(Retried(c)) >= rate[c]
    /\ network[c] = 0 => \A n \in Tries : n <= rate[c] => fate[c][n] = "refused"

(* What the last request came to, given what the call returned.            *)
OutcomeInv ==
  \A c \in Calls :
    /\ pc[c] = "done" <=> outcome[c] # "none"
    /\ outcome[c] \in {"ok", "truncated", "denied", "rate_limited", "exhausted"} =>
         sent[c] = network[c] + rate[c] + 1
    /\ outcome[c] \in {"ok", "truncated"} => fate[c][sent[c]] = "applied"
    /\ outcome[c] \in {"denied", "rate_limited"} => fate[c][sent[c]] = "refused"
    /\ outcome[c] = "rate_limited" => rate[c] = MaxRateLimitRetries
    /\ outcome[c] = "exhausted" => network[c] = MaxNetworkRetries

(* Once a call was carried out, no earlier call in which there is no doubt *)
(* is the last writer.                                                     *)
OrderInv ==
  \A c \in Calls :
    /\ pc[c] = "idle" => before[c] = {}
    /\ \A d \in before[c] :
         /\ pc[d] = "done" /\ d # c
         /\ Effects(c) # {} /\ Settled(d) => field # d

ClientInv == TypeOK /\ CountInv /\ RetryInv /\ OutcomeInv /\ OrderInv

=============================================================================
