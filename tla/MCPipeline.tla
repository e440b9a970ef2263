----------------------------- MODULE MCPipeline -----------------------------
(* Small skills and installations for Pipeline, by the question they ask.  *)
EXTENDS Pipeline, TLC

Atom(ref, chain, shape, rhs) == [ref |-> ref, chain |-> chain, shape |-> shape, rhs |-> rhs]
MCSimple == ("a" :> Atom("A", "none", "truthy", None)) @@ ("b" :> Atom("B", "fallback", "eq", None))
            @@ ("c" :> Atom("C", "none", "ne", None)) @@ ("d" :> Atom("A", "none", "lt", None))
            @@ ("e" :> Atom("A", "none", "in", "L"))

Target(deps, ops, orelse) == [deps |-> deps, ops |-> ops, orelse |-> orelse]

Plain == [errors |-> {}, name |-> "host", status |-> "Approved", triggers |-> FALSE, caps |-> {},
          vars |-> <<>>, requires |-> <<>>, returns |-> {}, secretRequires |-> {"key"},
          templateSecrets |-> {}, droppedSecrets |-> FALSE, templates |-> {}, template |-> {},
          outputs |-> {}, event |-> FALSE, autonomous |-> FALSE, bounded |-> FALSE, explicit |-> TRUE,
          entry |-> "t", order |-> <<"t">>, targets |-> "t" :> Target(<<>>, <<>>, <<>>), marks |-> {}]

(* mail may send and declares what it can do, db declares nothing.         *)
Connected == ("mail" :> [allowed |-> {"send", "list"}, static |-> {"send"}, schema |-> <<>>])
             @@ ("db" :> [allowed |-> {None}, static |-> {None}, schema |-> <<>>])
             @@ ("data_write" :> [allowed |-> {None}, static |-> {None}, schema |-> <<>>])

Site == [registry |-> TRUE, connectors |-> Connected, agents |-> {}, models |-> {}, features |-> {},
         store |-> "up", skills |-> <<>>, configErrors |-> FALSE, mutating |-> {"data_write"},
         unsafeShell |-> "off", shellAllowlist |-> {"ls"}, bareArrayReturnTools |-> {},
         entry |-> "name", inputs |-> <<>>, resolver |-> {}, fs |-> TRUE, answers |-> {"text", "null"}]

One(ops, orelse) == [Plain EXCEPT !.targets = "t" :> Target(<<>>, ops, orelse)]
Case(s, e) == [skill |-> s, env |-> e]

Say == NoOp
Refer(v) == [NoOp EXCEPT !.refs = {Ref(v)}]
CondRefs(cond) ==
  {[Ref(Simple[a].ref) EXCEPT !.filter = IF Simple[a].chain = "none" THEN None ELSE Simple[a].chain] :
     a \in {cond[i] : i \in DOMAIN cond} \cap DOMAIN Simple}
If(cond, ops) == [NoOp EXCEPT !.kind = "if", !.refs = CondRefs(cond), !.blocks = <<[cond |-> cond, ops |-> ops]>>]
Elif(cond, other, ops) ==
  [If(cond, ops) EXCEPT !.blocks = @ \o <<[cond |-> other, ops |-> ops], [cond |-> <<>>, ops |-> <<>>]>>]
Foreach(r, ops) == [NoOp EXCEPT !.kind = "foreach", !.set = "I", !.refs = {r}, !.blocks = <<[cond |-> <<>>, ops |-> ops]>>]
Call1(con, tool) == [NoOp EXCEPT !.kind = "$", !.con = con, !.tool = tool, !.bind = "R"]
Run1(tool, unsafe) == [NoOp EXCEPT !.kind = "shell", !.tool = tool, !.unsafe = unsafe, !.bind = "R"]
Inline1(name, bind) == [NoOp EXCEPT !.kind = "inline", !.skill = name, !.bind = bind]

(* Targets: what depends on what.                                          *)
Deps == {<<>>, <<"b">>, <<"c", "b">>, <<"t">>, <<"gone">>}
Graphs == {Case([Plain EXCEPT !.entry = e, !.order = <<"t", "b", "c">>,
                   !.targets = ("t" :> Target(d, <<Say>>, <<>>)) @@ ("b" :> Target(f, <<Say>>, <<>>))
                               @@ ("c" :> Target(g, <<>>, <<>>))],
                [Site EXCEPT !.entry = by]) :
             e \in {"t", "b"}, d \in Deps, f \in Deps, g \in Deps, by \in {"name", "embedder"}}

(* Calls, shell ops, files and mutations, where lint looks and where not.  *)
Palette ==
  {Say, Refer("R"), Refer("V"), Refer("X"), Refer("NOW"), Refer("ERROR_CONTEXT"),
   Call1("mail", "send"), Call1("mail", "list"), Call1("mail", "drop"), Call1("gone", "send"), Call1("db", "any"),
   Call1(None, "db"), Call1(None, "gone"), [Call1(None, "gone") EXCEPT !.fallback = TRUE],
   Call1(None, "data_write"), [Call1(None, "data_write") EXCEPT !.approved = TRUE],
   Call1(None, "json_parse"), Call1(None, "execute_skill"),
   [Call1("db", "any") EXCEPT !.secrets = {"key"}], [Call1("db", "any") EXCEPT !.secrets = {"other"}],
   Run1("ls", FALSE), Run1("rm", FALSE), [Run1("ref", FALSE) EXCEPT !.refs = {Ref("A")}], Run1("ls", TRUE), [Run1("ls", FALSE) EXCEPT !.secrets = {"other"}],
   [NoOp EXCEPT !.kind = "file_read", !.bind = "R"], [NoOp EXCEPT !.kind = "file_read", !.marks = {"encoding"}],
   [NoOp EXCEPT !.kind = "file_write", !.approved = TRUE], [NoOp EXCEPT !.kind = "file_write"],
   [NoOp EXCEPT !.kind = "notify", !.bind = "R"],
   [NoOp EXCEPT !.kind = "$set", !.set = "R", !.val = "list"], [NoOp EXCEPT !.kind = "$append", !.set = "R"],
   [NoOp EXCEPT !.kind = "$set", !.set = "R", !.val = "ref", !.refs = {Ref("V")}],
   [NoOp EXCEPT !.refs = {[Ref("R") EXCEPT !.field = "id"]}], [NoOp EXCEPT !.refs = {[Ref("R") EXCEPT !.filter = "pluck"]}]}
Placed(x, y) == {One(<<x, y>>, <<>>), One(<<y, x>>, <<Refer("R")>>), One(<<x>>, <<y>>),
                 One(<<If(<<"a">>, <<x>>), y>>, <<>>), One(<<Foreach(Ref("V"), <<x>>), y>>, <<Refer("I")>>)}
Inputs1 == ("A" :> "text") @@ ("V" :> "list")
Palettes == {Case([s EXCEPT !.vars = Inputs1, !.autonomous = auto], [Site EXCEPT !.unsafeShell = u]) :
               s \in UNION {Placed(x, y) : x \in Palette, y \in {o \in Palette : o.bind # "R"} \cup {Call1(None, "data_write")}},
               auto \in {FALSE}, u \in {"off"}}
            \cup {Case([s EXCEPT !.vars = Inputs1, !.autonomous = TRUE], [Site EXCEPT !.unsafeShell = "on", !.shellAllowlist = list, !.fs = FALSE]) :
               s \in UNION {Placed(x, Refer("R")) : x \in Palette}, list \in {{"bash"}, None}}

(* Loops over what a variable may hold, in both spellings.                 *)
Iterations == {Case([One(<<[Foreach([Ref("V") EXCEPT !.form = form, !.filter = filter], body) EXCEPT !.set = iterator],
                      Refer("V"), Refer(late)>>, <<Refer("I")>>)
                 EXCEPT !.vars = "V" :> "list"],
               [Site EXCEPT !.inputs = "V" :> v]) :
            iterator \in {"I", "V"}, form \in {"brace", "paren"}, filter \in {None, "fallback"}, late \in {"I", "R", "NOW"},
            body \in {<<>>, <<Call1("db", "any"), Refer("R")>>, <<[NoOp EXCEPT !.kind = "$set", !.set = "V", !.val = "num"]>>},
            v \in {"list", "nolist", "null", "empty", "text", "obj"}}

(* Inputs: given, resolved, defaulted or missing.                          *)
Given == {Case([One(<<Refer("V"), Refer("Q")>>, <<>>) EXCEPT !.vars = "V" :> d, !.requires = r],
               [Site EXCEPT !.inputs = i, !.resolver = res, !.entry = by]) :
            d \in {None, "text", "spaced", "objects"}, r \in {"Q" :> TRUE, "Q" :> FALSE, "V" :> FALSE},
            i \in {<<>>, "V" :> "text", "Q" :> "text", ("V" :> "obj") @@ ("Q" :> "null")},
            res \in {{}, {"Q"}}, by \in {"name", "trigger", "embedder"}}

(* Data skills, one of them inlining another.                              *)
Stored(type, approved, ops) ==
  [status |-> "Approved", same |-> TRUE, returns |-> {}, type |-> type, approved |-> approved,
   entry |-> "t", order |-> <<"t">>, targets |-> "t" :> Target(<<>>, ops, <<>>)]
Shelves == {("rules" :> Stored(type, ok, <<Say, inner>>)) @@ ("more" :> Stored("data", ok2, <<Refer("Z"), back>>)) :
              type \in {"data", "procedural"}, ok \in BOOLEAN, ok2 \in BOOLEAN,
              inner \in {Say, Inline1("more", None)}, back \in {Say, Inline1("rules", "Y"), Inline1("host", None)}}
Inlines == {Case([s EXCEPT !.vars = "A" :> "text"], [Site EXCEPT !.skills = shelf, !.entry = by, !.store = st]) :
              s \in {One(<<Inline1("rules", b)>>, <<>>) : b \in {None, "Y"}}
                    \cup {One(<<If(<<"a">>, <<Inline1("rules", None)>>)>>, <<Inline1("rules", None)>>),
                          One(<<Refer("X")>>, <<Inline1("rules", None)>>), One(<<Inline1("gone", None)>>, <<>>)},
              shelf \in Shelves, by \in {"name", "trigger"}, st \in {"up", "down"}}

(* Conditions over three atoms, with and without parentheses and `not`.    *)
Nots == {<<>>, <<"not">>}
Atoms == {"a", "b", "c"}
Conds == {n \o <<"a", op>> \o m \o <<"b", oq, "c">> : n \in Nots, m \in Nots, op \in {"or", "and"}, oq \in {"or", "and"}}
         \cup {n \o <<"(", "a", op, "b", ")", oq>> \o m \o <<"c">> : n \in Nots, m \in Nots, op \in {"or", "and"}, oq \in {"or", "and"}}
         \cup {<<"a", op>> \o n \o <<"(", "b", oq>> \o m \o <<"c", ")">> : n \in Nots, m \in Nots, op \in {"or", "and"}, oq \in {"or", "and"}}
         \cup {<<"(", "a", ")", op, "(", "b", ")">> : op \in {"or", "and"}}
         \cup {<<"(", "(", "a", ")", ")">>, <<"not", "not", "a">>, <<"a", "b">>, <<"or", "a">>, <<"(", "a">>, <<"d">>, <<"e">>, <<"not", "(", "d", ")", "or", "c">>}
Values == {"text", "empty", "nolist", "num", "null"}
CallC == [Call1("db", "any") EXCEPT !.bind = "C"]
Asking(cond, first) == IF first THEN <<Elif(cond, <<"c">>, <<Say>>), CallC>> ELSE <<CallC, If(cond, <<Say>>)>>
Conditions == {Case([One(Asking(cond, first), <<>>)
                       EXCEPT !.vars = ("A" :> "text") @@ ("B" :> "text") @@ ("L" :> l),
                              !.errors = IF validateCondition(cond) THEN {} ELSE {"condition"}],
                    [Site EXCEPT !.inputs = ("A" :> v) @@ ("B" :> w), !.answers = {"text"}]) :
                 cond \in Conds, first \in BOOLEAN,
                 v \in Values, w \in Values, l \in {"list", "text"}}

MCCases == Graphs \cup Palettes \cup Iterations \cup Given \cup Inlines \cup Conditions
=============================================================================
