------------------------------ MODULE MCParser ------------------------------
(* Sources of a few lines.                                                  *)
EXTENDS Parser

At(k, ls) == {[at |-> k] @@ l : l \in ls}

Label(name, deps) == [at |-> 0, is |-> "label", name |-> name, deps |-> deps]
Cond(is, c)       == [is |-> is, cond |-> c]
Fn(fn, args, trailer) == [is |-> "call", fn |-> fn, balanced |-> TRUE, named |-> TRUE,
                          args |-> args, trailer |-> trailer]
Verb(v, shaped, trailer) == [is |-> "statement", verb |-> v, shaped |-> shaped,
                             trailer |-> trailer, approved |-> TRUE]
Field(f, v) == [at |-> 0, is |-> "header", field |-> f, value |-> v]
Else        == [is |-> "else"]
Op          == Verb("?", TRUE, "none")

\* The lines of which blocks are made.
Light == {Label("a", <<>>), [at |-> 0] @@ Else}
         \cup At(4, {Op, Cond("if", "ok"), Cond("elif", "ok"), Else})
         \cup At(8, {Op, Cond("if", "ok"), Else})

\* Lines that take the place of one of these.
Medium == {Label("b", <<"a">>), Label("default", <<"a">>), [at |-> 0, is |-> "text"]}
          \cup At(4, {[is |-> "foreach", iter |-> "i"], Cond("if", "condition"),
                      Cond("elif", "single-equals"), [is |-> "needs", deps |-> <<"b">>]})
          \cup At(8, {Cond("elif", "ok"), [is |-> "needs", deps |-> <<"b">>],
                      [is |-> "block"], [is |-> "odd"]})
          \cup At(2, {Op}) \cup At(6, {Op}) \cup At(12, {Op, Else})

Calls == {Fn("emit", <<>>, "none"), Fn("emit", <<>>, "binds"),
          [Fn("emit", <<>>, "none") EXCEPT !.balanced = FALSE],
          [Fn("emit", <<>>, "none") EXCEPT !.named = FALSE],
          Fn("emit", <<>>, "bad"), Fn("tool", <<>>, "none"),
          Fn("inline", [skill |-> "s"], "both"),
          Fn("execute_skill", [name |-> "s", approved |-> "y"], "both"),
          Fn("execute_skill", [name |-> "s", skill_name |-> "t"], "none"),
          Fn("shell", [command |-> "c", approved |-> "y"], "both"),
          Fn("shell", [command |-> "c", argv |-> "strings"], "none"),
          Fn("shell", [argv |-> "strings", unsafe |-> "true"], "none"),
          Fn("shell", [argv |-> "empty"], "none"),
          Fn("shell", [argv |-> "strings"], "binds"),
          Fn("file_read", [path |-> "p"], "both"),
          Fn("file_write", [path |-> "p", approved |-> "y"], "binds"),
          Fn("notify", [agent |-> "g", approved |-> "y"], "fallback"),
          Fn("notify", [agent |-> "g", connectors |-> "no list"], "none")}

Verbs == {Verb("$", TRUE, t) : t \in {"none", "binds", "fallback", "both"}}
         \cup {Verb("$set", b, "none") : b \in BOOLEAN} \cup {Verb("$append", FALSE, "none")}
         \cup {Verb("!", TRUE, "none")}

Fields == {Field("skill", "s"), Field("skill", "default"), Field("onerror", "x"),
           Field("type", "data"), Field("type", "other"), Field("autonomous", "true"),
           Field("timeout", "ref"), Field("deadline", "other"), Field("tags", {"t"}), Field("tags", {"u"}),
           Field("status", [status |-> "Approved", token |-> TRUE]),
           Field("status", [status |-> "Draft", token |-> FALSE]),
           Field("status", [status |-> "Draft", token |-> TRUE]),
           Field("vars", <<[name |-> "v", default |-> FALSE]>>),
           Field("vars", <<[name |-> "w", default |-> TRUE]>>),
           Field("returns", <<[name |-> "v", default |-> FALSE]>>),
           Field("returns", <<[name |-> "outputs", default |-> FALSE]>>),
           Field("triggers", {[source |-> "cron", name |-> "c"]}),
           Field("triggers", {[source |-> "sensor", name |-> "c"]}),
           Field("output", <<[kind |-> "text", colon |-> FALSE, target |-> FALSE]>>),
           Field("output", <<[kind |-> "file", colon |-> FALSE, target |-> FALSE]>>),
           Field("event-type", "e"), Field("templates", <<"s">>),
           Field("requires", [requires |-> {"r"}]),
           Field("requires", [secrets |-> {"s"}, capabilities |-> {"c"}])}

Heavy == Fields
         \cup {[at |-> 0] @@ Cond("if", "ok"), Label("while", <<>>), Label("default", <<>>)}
         \cup At(4, Calls \cup Verbs \cup {Cond("if", "malformed"), Cond("if", "single-equals"),
                                           Cond("elif", "malformed"), Cond("elif", "condition"),
                                           [is |-> "foreach", iter |-> none],
                                           [is |-> "foreach", iter |-> "for"],
                                           [is |-> "nospace"]})
         \cup At(8, Calls)

MCLine == Light \cup Medium \cup Heavy

MCWeight(l) == IF l \in Light THEN 1 ELSE IF l \in Medium \cup Fields THEN 3 ELSE 4
\* Of the lines of which blocks are made, a source begins with a header.
FirstLine == source = <<>> /\ here \in Light => here.is = "label"
=============================================================================
