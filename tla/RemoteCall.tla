----------------------------- MODULE RemoteCall -----------------------------
(***************************************************************************)
(* What a caller of the Jira client may rely on.  Jira may carry a call    *)
(* out, as a whole and any number of times.  The call ends with a verdict: *)
(*   "once"     Jira carried it out exactly once,                          *)
(*   "atleast"  Jira carried it out, perhaps more than once,               *)
(*   "nothing"  Jira did not carry it out,                                 *)
(*   "unknown"  none of these.                                             *)
(* After "once" and "nothing" Jira never carries it out any more.          *)
(***************************************************************************)
CONSTANTS
  Calls,   \* calls of the client
  Tries    \* names for the times that Jira carries out a call

VARIABLES
  effects,   \* effects[c]: the times that Jira carried out c
  verdict    \* verdict[c]: "open", or one of the above

rvars == <<effects, verdict>>

RemoteInit ==
  /\ effects = [c \in Calls |-> {}]
  /\ verdict = [c \in Calls |-> "open"]

CarryOut(c) ==
  /\ verdict[c] \in {"open", "atleast", "unknown"}
  /\ \E n \in Tries \ effects[c] : effects' = [effects EXCEPT ![c] = @ \cup {n}]
  /\ UNCHANGED verdict

Close(c, v) ==
  /\ verdict[c] = "open"
  /\ v = "once" => \E n \in Tries : effects[c] = {n}
  /\ v = "atleast" => effects[c] # {}
  /\ v = "nothing" => effects[c] = {}
  /\ verdict' = [verdict EXCEPT ![c] = v]
  /\ UNCHANGED effects

RemoteNext ==
  \E c \in Calls :
    \/ CarryOut(c)
    \/ \E v \in {"once", "atleast", "nothing", "unknown"} : Close(c, v)

RemoteSpec == RemoteInit /\ [][RemoteNext]_rvars
=============================================================================
