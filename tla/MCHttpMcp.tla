----------------------------- MODULE MCHttpMcp -----------------------------
(* Instance of HttpMcp: two calls of one agent and a description of the    *)
(* tools, which uses the default identity, over a pool of one session.     *)
EXTENDS HttpMcp

CONSTANTS a1, a2, d1

Calls == {a1, a2, d1}
Callers == [c \in Calls |->
  CASE c \in {a1, a2} -> "alice" [] OTHER -> DEFAULT_IDENTITY_KEY]
Descriptions == {d1}
=============================================================================
