----------------------------- MODULE MCServing ------------------------------
(* A crawl beside a second call of any kind.                               *)
EXTENDS Serving, TLC

CONSTANTS c1, c2

MCDefaults == [issueCap |-> 500, children |-> TRUE]
Ask(by, kind, n) == [by |-> by, kind |-> kind, issueCap |-> n, children |-> n = 7]
MCRequests ==
  {(c1 :> Ask(a, "crawl", 0)) @@ (c2 :> r) :
      a \in {"mcp", "client"}, r \in {Ask("client", "graph", 7), Ask("mcp", "write", 0)}}
  \cup {(c1 :> Ask("client", "graph", 7)) @@ (c2 :> r) :
      r \in {Ask("client", "graph", 5), Ask("mcp", "graph", 0)}}
=============================================================================
