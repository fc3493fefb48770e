------------------------------ MODULE Serving -------------------------------
(***************************************************************************)
(* The two servers: gRPC (internal/grpc) and MCP (internal/mcp).  A gRPC   *)
(* server starts, accepts calls, and on a signal drains them.  An MCP      *)
(* session is served over the facade (mode "self") or over a gRPC server   *)
(* (mode "bridge").  A crawl reports each fetched issue while it runs: its *)
(* workers emit events at the same time, on one stream of the server or to *)
(* one progress counter of the facade.                                     *)
(*                                                                         *)
(* grpc-go forbids two Sends on a stream at a time; what overlapping Sends *)
(* do is undefined: here, any of them may be lost.                         *)
(***************************************************************************)
EXTENDS Integers, Sequences, FiniteSets

CONSTANTS
  Calls,
  Requests,     \* what the calls ask for: functions from Calls to requests
  Workers,      \* the workers of a crawl; each fetches one issue
  Causes,       \* why a handler fails
  Defaults      \* cfg of the server and of the session: [issueCap, children]

Config  == [issueCap : Int, children : BOOLEAN]
Request == [by : {"mcp", "client"}, kind : {"crawl", "graph", "read", "write"},
            issueCap : Int, children : BOOLEAN]

ASSUME ServingAssumption ==
  /\ Requests \subseteq [Calls -> Request]
  /\ IsFiniteSet(Workers)
  /\ "" \notin Causes
  /\ Defaults \in Config

VARIABLES
  server,     \* "down", "listening", "draining", "returned"
  exit,       \* what Serve returned: "", "nil", "error"
  signalled,  \* is the context of Serve done?
  cfg,        \* s.cfg
  session,    \* the MCP session: "starting", "open", "closed"
  mode,       \* cfg.MCPMode
  writes,     \* cfg.MCPAllowWrites
  call,       \* call[c]: the caller's side
  handler,    \* handler[c]: the side that runs the call
  worker,     \* worker[c][w]: "fetch", "sending", "overlapped", "notify", "done"
  number,     \* number[c][w]: what the worker got from the progress counter
  stream,     \* stream[c]: the events on their way to the client
  progress    \* progress[c]: the numbers the MCP client was notified of

lifecycle == <<server, exit, signalled>>
mcp       == <<session, mode, writes>>
emitting  == <<worker, number, stream, progress>>
vars      == <<lifecycle, mcp, cfg, call, handler, emitting>>

(* req: by an MCP tool or a gRPC client.  at: how far the caller is; its   *)
(* connection may be "cut".  sum: did the summary arrive?  told: what the  *)
(* caller is told of an error.                                             *)
NewCall(r)  == [req |-> r, at |-> "new", sum |-> FALSE, told |-> ""]
NoHandler   == [at |-> "none", on |-> "", cfg |-> Defaults, cause |-> "", done |-> 0]

Init ==
  /\ server = "down" /\ exit = "" /\ signalled = FALSE
  /\ cfg = Defaults
  /\ session = "starting" /\ mode \in {"", "self", "bridge", "proxy"} /\ writes \in BOOLEAN
  /\ call \in {[c \in Calls |-> NewCall(r[c])] : r \in Requests}
  /\ handler = [c \in Calls |-> NoHandler]
  /\ worker = [c \in Calls |-> [w \in Workers |-> "fetch"]]
  /\ number = [c \in Calls |-> [w \in Workers |-> 0]]
  /\ stream = [c \in Calls |-> << >>]
  /\ progress = [c \in Calls |-> << >>]

Running(c) == handler[c].at = "running"
Crawls(c)  == call[c].req.kind = "crawl"
ByBridge(c) == call[c].req.by = "mcp" /\ mode = "bridge"
Remote(c)   == call[c].req.by = "client" \/ ByBridge(c)

-----------------------------------------------------------------------------
(* Serve.  The listener may fail to open, and to accept.                   *)
Listen ==
  /\ server = "down"
  /\ \/ server' = "listening" /\ UNCHANGED exit
     \/ server' = "returned" /\ exit' = "error"
  /\ UNCHANGED <<signalled, mcp, cfg, call, handler, emitting>>

Signal ==
  /\ ~signalled /\ signalled' = TRUE
  /\ UNCHANGED <<server, exit, mcp, cfg, call, handler, emitting>>

GracefulStop ==
  /\ signalled /\ server = "listening"
  /\ server' = "draining"
  /\ UNCHANGED <<exit, signalled, mcp, cfg, call, handler, emitting>>

Served(c) == Running(c) /\ handler[c].on = "server"

(* Slip: Stop in place of GracefulStop.                                    *)
ReturnAtOnce ==
  /\ server = "draining"
  /\ server' = "returned" /\ exit' = "nil"
  /\ UNCHANGED <<signalled, mcp, cfg, call, handler, emitting>>

Drained ==
  /\ server = "draining" /\ \A c \in Calls : ~Served(c)
  /\ server' = "returned" /\ exit' = "nil"
  /\ UNCHANGED <<signalled, mcp, cfg, call, handler, emitting>>

(* Serve returns the error of the listener at once, and the process ends   *)
(* with the calls that are under way.                                      *)
AcceptFails ==
  /\ server = "listening"
  /\ server' = "returned" /\ exit' = "error"
  /\ handler' = [c \in Calls |-> IF Served(c) THEN [handler[c] EXCEPT !.at = "ended"] ELSE handler[c]]
  /\ call' = [c \in Calls |-> IF Served(c) /\ call[c].at = "waiting"
                              THEN [call[c] EXCEPT !.at = "cut"] ELSE call[c]]
  /\ UNCHANGED <<signalled, mcp, cfg, emitting>>

-----------------------------------------------------------------------------
(* An MCP session: a mode that is none of the two is refused; the write    *)
(* tools are registered only when they are allowed.                        *)
ServeMCP ==
  /\ session = "starting"
  /\ session' = IF mode \in {"self", "bridge"} THEN "open" ELSE "closed"
  /\ UNCHANGED <<lifecycle, mode, writes, cfg, call, handler, emitting>>

CloseSession ==
  /\ session = "open" /\ session' = "closed"
  /\ call' = [c \in Calls |-> IF call[c].req.by = "mcp" /\ call[c].at = "waiting"
                              THEN [call[c] EXCEPT !.at = "cut"] ELSE call[c]]
  /\ UNCHANGED <<lifecycle, mode, writes, cfg, handler, emitting>>

HasTool(kind) == kind = "write" => writes

-----------------------------------------------------------------------------
(* A call reaches its handler.  A graph request overrides the server's     *)
(* configuration in a copy: numbers that are not zero, and the booleans as *)
(* they are.  The message of the bridge has neither.                       *)
(* Slip: the handler overrides s.cfg itself.                               *)
Overridden(base, req) ==
  [issueCap |-> IF req.issueCap # 0 THEN req.issueCap ELSE base.issueCap,
   children |-> req.children]
Asks(c) ==
  IF call[c].req.by = "mcp" THEN [call[c].req EXCEPT !.issueCap = 0, !.children = FALSE]
  ELSE call[c].req
ConfigFor(c) ==
  IF Remote(c) /\ call[c].req.kind = "graph" THEN Overridden(cfg, Asks(c)) ELSE cfg

Refuse(c) ==
  /\ call' = [call EXCEPT ![c].at = "refused"]
  /\ UNCHANGED handler

Start(c) ==
  /\ call' = [call EXCEPT ![c].at = "waiting"]
  /\ handler' = [handler EXCEPT ![c].at = "running", ![c].cfg = ConfigFor(c),
                                ![c].on = IF Remote(c) THEN "server" ELSE "session"]

Place(c) ==
  /\ call[c].at = "new"
  /\ call[c].req.by = "mcp" => session = "open"
  /\ IF \/ call[c].req.by = "mcp" /\ ~HasTool(call[c].req.kind)
        \/ Remote(c) /\ server # "listening"
     THEN Refuse(c)
     ELSE Start(c)

MakeSharing(c) ==
  /\ Place(c)
  /\ cfg' = IF Running(c)' THEN ConfigFor(c) ELSE cfg
  /\ UNCHANGED <<lifecycle, mcp, emitting>>

Make(c) ==
  /\ Place(c)
  /\ UNCHANGED <<lifecycle, mcp, cfg, emitting>>

-----------------------------------------------------------------------------
(* The workers of a crawl that runs behind the server: Emit is a Send on   *)
(* the stream, made by each worker on its own.                             *)
Sending(c) == {w \in Workers : worker[c][w] \in {"sending", "overlapped"}}

BeginSend(c, w) ==
  /\ Served(c) /\ Crawls(c) /\ worker[c][w] = "fetch"
  /\ worker' = [worker EXCEPT ![c] =
       [v \in Workers |-> IF v = w THEN IF Sending(c) = {} THEN "sending" ELSE "overlapped"
                          ELSE IF v \in Sending(c) THEN "overlapped" ELSE @[v]]]
  /\ UNCHANGED <<lifecycle, mcp, cfg, call, handler, number, stream, progress>>

(* Slip: a Send waits for its client even when it is gone.                 *)
EndSendToReader(c, w) ==
  /\ worker[c][w] \in {"sending", "overlapped"} /\ call[c].at = "waiting"
  /\ worker' = [worker EXCEPT ![c][w] = "done"]
  /\ stream' = [stream EXCEPT ![c] = Append(@, "fetched")]
  /\ UNCHANGED <<lifecycle, mcp, cfg, call, handler, number, progress>>

EndSend(c, w) ==
  /\ worker[c][w] \in {"sending", "overlapped"}
  /\ worker' = [worker EXCEPT ![c][w] = "done"]
  /\ \/ stream' = [stream EXCEPT ![c] = Append(@, "fetched")]
     \/ worker[c][w] = "overlapped" /\ UNCHANGED stream
  /\ UNCHANGED <<lifecycle, mcp, cfg, call, handler, number, progress>>

(* A crawl in the session: Emit adds one to the counter, then notifies.    *)
(* Slip: the counter is read and written in two steps.                     *)
CountUnsafely(c, w) ==
  /\ Running(c) /\ handler[c].on = "session" /\ Crawls(c)
  /\ \/ /\ worker[c][w] = "fetch"
        /\ worker' = [worker EXCEPT ![c][w] = "sending"]
        /\ number' = [number EXCEPT ![c][w] = handler[c].done + 1]
        /\ UNCHANGED handler
     \/ /\ worker[c][w] = "sending"
        /\ worker' = [worker EXCEPT ![c][w] = "notify"]
        /\ handler' = [handler EXCEPT ![c].done = number[c][w]]
        /\ UNCHANGED number
  /\ UNCHANGED <<lifecycle, mcp, cfg, call, stream, progress>>

Count(c, w) ==
  /\ Running(c) /\ handler[c].on = "session" /\ Crawls(c)
  /\ worker[c][w] = "fetch"
  /\ worker' = [worker EXCEPT ![c][w] = "notify"]
  /\ handler' = [handler EXCEPT ![c].done = @ + 1]
  /\ number' = [number EXCEPT ![c][w] = handler'[c].done]
  /\ UNCHANGED <<lifecycle, mcp, cfg, call, stream, progress>>

Notify(c, w) ==
  /\ worker[c][w] = "notify"
  /\ worker' = [worker EXCEPT ![c][w] = "done"]
  /\ progress' = [progress EXCEPT ![c] = Append(@, number[c][w])]
  /\ UNCHANGED <<lifecycle, mcp, cfg, call, handler, number, stream>>

-----------------------------------------------------------------------------
(* What the gRPC server tells of an error, and what the MCP tools tell: an *)
(* error that came over the bridge is none of the sentinels any more.      *)
ToStatusError(cause) ==
  CASE cause = "unauthorized" -> "Unauthenticated"
    [] cause = "forbidden"    -> "PermissionDenied"
    [] cause = "not_found"    -> "NotFound"
    [] cause = "rate_limited" -> "ResourceExhausted"
    [] cause = "bad_request"  -> "InvalidArgument"
    [] cause \in {"config", "conflict"} -> "FailedPrecondition"
    [] OTHER                  -> "Internal"
ClassifyError(cause) == IF cause \in {"config", "other"} THEN "unclassified" ELSE cause
Told(c) ==
  IF ByBridge(c) THEN "unclassified"
  ELSE IF Remote(c) THEN ToStatusError(handler[c].cause) ELSE ClassifyError(handler[c].cause)

Idle(c) == Crawls(c) => \A w \in Workers : worker[c][w] \in {"fetch", "done"}

(* A handler succeeds once the workers of its crawl are done; it may fail  *)
(* at any time when no worker is in Emit.  The summary is the last event.  *)
End(c, cause) ==
  /\ handler' = [handler EXCEPT ![c].at = "ended", ![c].cause = cause]
  /\ UNCHANGED <<lifecycle, mcp, cfg, worker, number, progress>>

Succeed(c) ==
  /\ Running(c) /\ (Crawls(c) => \A w \in Workers : worker[c][w] = "done")
  /\ End(c, "")
  /\ stream' = IF Served(c) /\ Crawls(c) THEN [stream EXCEPT ![c] = Append(@, "summary")] ELSE stream
  /\ UNCHANGED call

HandlerFails(c) ==
  /\ Running(c) /\ Idle(c)
  /\ \E cause \in Causes : End(c, cause)
  /\ UNCHANGED <<stream, call>>

(* The caller takes the events, then the end of the stream or the answer.  *)
(* The bridge counts the fetched events and keeps the summary.             *)
Answered(c) == call[c].at = "waiting" /\ handler[c].at = "ended"
Receive(c) ==
  /\ call[c].at = "waiting" /\ stream[c] # << >>
  /\ stream' = [stream EXCEPT ![c] = Tail(@)]
  /\ LET event == Head(stream[c])
     IN  /\ call' = [call EXCEPT ![c].sum = @ \/ event = "summary"]
         /\ progress' = IF ByBridge(c) /\ event = "fetched"
                        THEN [progress EXCEPT ![c] = Append(@, Len(@) + 1)] ELSE progress
  /\ UNCHANGED <<lifecycle, mcp, cfg, handler, worker, number>>

Answer(c) ==
  /\ Answered(c) /\ stream[c] = << >>
  /\ call' = [call EXCEPT ![c].at = IF handler[c].cause = "" THEN "ok" ELSE "error",
                          ![c].told = IF handler[c].cause = "" THEN "" ELSE Told(c)]
  /\ UNCHANGED <<lifecycle, mcp, cfg, handler, emitting>>

(* The connection breaks, or the client goes: the stream's context is      *)
(* done, Sends fail unnoticed, and the crawl ends.                         *)
(* Slip: any error of Recv ends the stream.                                *)
BreakAsEnd(c) ==
  /\ call[c].at = "waiting" /\ Remote(c)
  /\ call' = [call EXCEPT ![c].at = "ok"]
  /\ UNCHANGED <<lifecycle, mcp, cfg, handler, emitting>>

Break(c) ==
  /\ call[c].at = "waiting" /\ Remote(c)
  /\ call' = [call EXCEPT ![c].at = "cut"]
  /\ UNCHANGED <<lifecycle, mcp, cfg, handler, emitting>>

-----------------------------------------------------------------------------
Work(c) ==
  \/ \E w \in Workers : BeginSend(c, w) \/ EndSend(c, w) \/ Count(c, w) \/ Notify(c, w)
  \/ Succeed(c)

Next ==
  \/ Listen \/ Signal \/ GracefulStop \/ Drained \/ AcceptFails
  \/ ServeMCP \/ CloseSession
  \/ \E c \in Calls : Make(c) \/ Work(c) \/ HandlerFails(c) \/ Receive(c) \/ Answer(c) \/ Break(c)

(* The goroutines of the server and of the crawls run on.                  *)
Spec == /\ Init /\ [][Next]_vars
        /\ WF_vars(Listen \/ GracefulStop \/ Drained)
        /\ \A c \in Calls : WF_vars(Work(c)) /\ WF_vars(Receive(c) \/ Answer(c))

-----------------------------------------------------------------------------
(* Serve returns nil only when every call it accepted has run to its end:  *)
(* a stop cuts no crawl.                                                   *)
StopWaits == exit = "nil" => signalled /\ \A c \in Calls : ~Served(c)

(* The server stops when it is told to, however many calls are under way.  *)
Stops == signalled ~> server = "returned"

(* A call runs with the server's own configuration and its own overrides,  *)
(* never with those of another call: in a graph request a cap that is zero *)
(* stands for the server's, and a boolean that is set is obeyed.  What an  *)
(* unset boolean stands for is left open: GetGraph takes it for false,     *)
(* although its comment says of these knobs that "Zero values fall through *)
(* to the server's configured defaults" (server.go:319-323).               *)
OwnConfig ==
  \A c \in Calls : handler[c].at # "none" =>
    LET asked == Asks(c)
        used  == handler[c].cfg
    IN  IF Remote(c) /\ call[c].req.kind = "graph"
        THEN /\ used.issueCap = IF asked.issueCap # 0 THEN asked.issueCap ELSE Defaults.issueCap
             /\ asked.children => used.children
             /\ used.children => asked.children \/ Defaults.children
        ELSE used = Defaults

(* The MCP client sees no number of fetched issues twice; when a crawl     *)
(* succeeded without overlapping Sends it saw them all, over the bridge in *)
(* their order.                                                            *)
ProgressFaithful ==
  \A c \in Calls :
    /\ \A i, j \in DOMAIN progress[c] : progress[c][i] = progress[c][j] => i = j
    /\ ByBridge(c) => \A i \in DOMAIN progress[c] : progress[c][i] = i
    /\ Crawls(c) /\ call[c].req.by = "mcp" /\ handler[c].on = "session" /\ call[c].at = "ok" =>
         {progress[c][i] : i \in DOMAIN progress[c]} = 1 .. Cardinality(Workers)

(* A crawl that the caller believes to have succeeded has succeeded, and   *)
(* over a stream its summary has arrived: a stream that breaks is not      *)
(* taken for one that ended.                                               *)
SuccessIsComplete ==
  \A c \in Calls : call[c].at = "ok" =>
    handler[c].at = "ended" /\ handler[c].cause = "" /\ (Crawls(c) /\ Remote(c) => call[c].sum)

(* "Callers using one sink instance must ensure Emit is called from a      *)
(* single goroutine": no two Sends are under way on a stream.              *)
OneSendAtATime == \A c \in Calls : Cardinality(Sending(c)) <= 1
=============================================================================
