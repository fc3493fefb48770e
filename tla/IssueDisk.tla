----------------------------- MODULE IssueDisk -----------------------------
(***************************************************************************)
(* What the issue store promises, with no files but one page per issue.    *)
(* A call looks whether the issue has a page; if it has one and the caller *)
(* does not refetch it reports "exists"; otherwise it may put its page in  *)
(* place, in one indivisible step, once, and it reports "ok" only if it    *)
(* did.  A call that reports an error, or whose process dies, may have     *)
(* placed its page or not.                                                 *)
(***************************************************************************)
CONSTANTS
  Keys,      \* issue keys
  Writers,   \* the processes that write issues
  Refetch,   \* Refetch[w]: does w replace issues that exist?
  Pages,     \* what an index.md may hold
  None,      \* no page
  Blind      \* may a look miss a page that is there?

VARIABLES
  page,      \* page[k]: the page of issue k, or None
  stage,     \* stage[w]: "idle", "asked", "cleared" or "placed"
  request,   \* request[w]: the key and page of the call of w
  answer     \* answer[w]: what the last call of w reported, or "none"

dvars == <<page, stage, request, answer>>

DiskInit ==
  /\ page = [k \in Keys |-> None]
  /\ stage = [w \in Writers |-> "idle"]
  /\ request = [w \in Writers |-> None]
  /\ answer = [w \in Writers |-> "none"]

Reply(w, a) ==
  /\ stage' = [stage EXCEPT ![w] = "idle"]
  /\ answer' = [answer EXCEPT ![w] = a]

Ask(w, k, p) ==
  /\ stage[w] = "idle"
  /\ stage' = [stage EXCEPT ![w] = "asked"]
  /\ request' = [request EXCEPT ![w] = [key |-> k, page |-> p]]
  /\ answer' = [answer EXCEPT ![w] = "none"]
  /\ UNCHANGED page

Decline(w) ==
  /\ stage[w] = "asked"
  /\ ~Refetch[w] /\ page[request[w].key] # None
  /\ Reply(w, "exists")
  /\ UNCHANGED <<page, request>>

Clear(w) ==
  /\ stage[w] = "asked"
  /\ Refetch[w] \/ Blind \/ page[request[w].key] = None
  /\ stage' = [stage EXCEPT ![w] = "cleared"]
  /\ UNCHANGED <<page, request, answer>>

(* The page is put in place; the call reports it now or later.             *)
Put(w) ==
  /\ stage[w] = "cleared"
  /\ page' = [page EXCEPT ![request[w].key] = request[w].page]
  /\ \/ Reply(w, "ok")
     \/ stage' = [stage EXCEPT ![w] = "placed"] /\ UNCHANGED answer
  /\ UNCHANGED request

Confirm(w) ==
  /\ stage[w] = "placed"
  /\ Reply(w, "ok")
  /\ UNCHANGED <<page, request>>

Fail(w) ==
  /\ stage[w] \in {"cleared", "placed"}
  /\ Reply(w, "error")
  /\ UNCHANGED <<page, request>>

Die(w) ==
  /\ Reply(w, "none")
  /\ UNCHANGED <<page, request>>

DiskNext ==
  \E w \in Writers :
    \/ \E k \in Keys, p \in Pages : Ask(w, k, p)
    \/ Decline(w) \/ Clear(w) \/ Put(w) \/ Confirm(w) \/ Fail(w) \/ Die(w)

DiskSpec == DiskInit /\ [][DiskNext]_dvars
=============================================================================
