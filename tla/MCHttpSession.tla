----------------------------- MODULE MCHttpSession -----------------------------
(* Pipelines of two requests, the second of any kind, and of three.          *)
EXTENDS HttpSession

R(body, size) ==
    [head |-> "ok", route |-> "handler", body |-> body, size |-> size,
     flawed |-> FALSE, expect |-> FALSE, keep |-> TRUE]

Get == R("none", 0)
Post == R("length", 2)
Chunked == R("chunked", 2)
Expecting == [R("length", 1) EXCEPT !.expect = TRUE]

Enders ==
    {[Get EXCEPT !.head = "bad"], [Get EXCEPT !.keep = FALSE],
     [Get EXCEPT !.route = "upgrade"], [Post EXCEPT !.route = "nowhere"],
     [Get EXCEPT !.route = "deep"], [Get EXCEPT !.route = "nowhere"],
     [Expecting EXCEPT !.flawed = TRUE], [Chunked EXCEPT !.flawed = TRUE],
     [R("chunked", 1) EXCEPT !.expect = TRUE]}

MCStreams ==
    {<<Get, b>> : b \in {Expecting} \cup Enders}
      \cup {<<a, Get>> : a \in {Post, Chunked, Expecting}} \cup {<<Chunked, Chunked>>}
      \cup {<<Get, b, Get>> : b \in {Get, Post}}
=============================================================================
