---------------------------- MODULE CrawlLedger ----------------------------
(***************************************************************************)
(* What a crawl promises its caller, with no queue, no lock and no worker. *)
(* Every issue key the crawl accepts is a debt; the debt is settled by     *)
(* exactly one of the outcomes the Summary reports; and the crawl returns  *)
(* only when it owes nothing, after which the books are closed.            *)
(***************************************************************************)
CONSTANTS
  Keys,      \* issue keys
  Outcomes   \* the ways in which the Summary accounts for an accepted key

VARIABLES
  status,    \* status[k]: "unseen", "owed", or the outcome of k
  returned   \* has the crawl handed the Summary to its caller?

lvars == <<status, returned>>

LedgerInit ==
  /\ status = [k \in Keys |-> "unseen"]
  /\ returned = FALSE

(* A key is admitted to the crawl: the crawl now owes it an outcome.       *)
Accept(k) ==
  /\ ~returned
  /\ status[k] = "unseen"
  /\ status' = [status EXCEPT ![k] = "owed"]
  /\ UNCHANGED returned

(* An accepted key gets its outcome, once.                                 *)
Settle(k, o) ==
  /\ ~returned
  /\ status[k] = "owed"
  /\ status' = [status EXCEPT ![k] = o]
  /\ UNCHANGED returned

(* The Summary is handed over when nothing is owed.                        *)
Return ==
  /\ ~returned
  /\ \A k \in Keys : status[k] # "owed"
  /\ returned' = TRUE
  /\ UNCHANGED status

LedgerNext ==
  \/ \E k \in Keys : Accept(k)
  \/ \E k \in Keys, o \in Outcomes : Settle(k, o)
  \/ Return

LedgerSpec == LedgerInit /\ [][LedgerNext]_lvars
=============================================================================
