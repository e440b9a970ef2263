------------------------------ MODULE MCExecutor ------------------------------
(* Two skills, the second composed by the first, in every way the          *)
(* properties tell apart.                                                  *)
EXTENDS Executor

CONSTANTS x

PlainOp == [kind |-> "local", id |-> "", tool |-> "", bare |-> FALSE,
            fallback |-> FALSE, mutation |-> FALSE, approved |-> FALSE, effecting |-> FALSE,
            outlives |-> FALSE, timeout |-> 0, uses |-> {}, out |-> {},
            body |-> <<>>, orelse |-> <<>>, child |-> ""]

Tool(i, name) == [PlainOp EXCEPT !.kind = "tool", !.id = i, !.tool = name]
Write(i)  == [Tool(i, "create") EXCEPT !.mutation = TRUE, !.effecting = TRUE]
Move(i)   == [Tool(i, "move") EXCEPT !.effecting = TRUE, !.outlives = TRUE, !.timeout = 1]
Ask(i)    == [Tool(i, "llm") EXCEPT !.bare = TRUE, !.fallback = TRUE, !.out = {x}]
\* `$ remote.execute_skill`: a skill that another server runs.
Remote(i) == [Tool(i, "execute_skill") EXCEPT !.effecting = TRUE]
Shell(i)  == [PlainOp EXCEPT !.kind = "shell", !.id = i, !.effecting = TRUE, !.fallback = TRUE]
File(k, i) == [PlainOp EXCEPT !.kind = k, !.id = i, !.mutation = (k = "file_write"),
                             !.approved = (k = "file_write"), !.fallback = TRUE]
Notify(i) == [PlainOp EXCEPT !.kind = "notify", !.id = i, !.uses = {x}]
Parse(i)  == [PlainOp EXCEPT !.kind = "json_parse", !.id = i, !.out = {x}]
Extend(i) == [PlainOp EXCEPT !.kind = "append", !.id = i, !.uses = {x}]
Emit(i)   == [PlainOp EXCEPT !.id = i]
Run(i, fb) == [PlainOp EXCEPT !.kind = "skill", !.id = i, !.child = "child", !.fallback = fb]
Again(i)  == [Run(i, TRUE) EXCEPT !.child = "main"]
Gone(i)   == [Run(i, TRUE) EXCEPT !.child = "none"]
Missing(i) == [PlainOp EXCEPT !.kind = "inline", !.id = i]
Each(i, b) == [PlainOp EXCEPT !.kind = "foreach", !.id = i, !.out = {x}, !.body = b]
Choice(i, b, c) == [PlainOp EXCEPT !.kind = "if", !.id = i, !.body = b, !.orelse = c]

T(ops) == [ops |-> ops, recovers |-> FALSE, orelse |-> <<>>]
TE(ops, else) == [ops |-> ops, recovers |-> TRUE, orelse |-> else]

Skill(ts) == [targets |-> ts, autonomous |-> FALSE, deadline |-> Never, timeout |-> 0,
              template |-> {}, delivers |-> FALSE, address |-> {}]
Auto(b)    == [b EXCEPT !.autonomous = TRUE]
Within(b, d) == [b EXCEPT !.deadline = d]
Sends(b)   == [b EXCEPT !.delivers = TRUE]
To(b)      == [Sends(b) EXCEPT !.address = {x}]
Text(b)    == [b EXCEPT !.template = {x}]

\* Bodies that are composed: an effect alone, under an else block, or cut early.
Write1 == Skill(<<T(<<Write("cw")>>)>>)
Move1  == Skill(<<TE(<<Move("cm")>>, <<Ask("ca")>>)>>)
Shell1 == Skill(<<T(<<Shell("cs"), Emit("ce")>>)>>)
Text1  == Text(Sends(Skill(<<T(<<Ask("ct")>>)>>)))

\* Bodies that are started.
Degrade == Sends(Skill(<<T(<<Run("run", TRUE), Emit("e")>>), T(<<Ask("a")>>)>>))
Recover == Skill(<<TE(<<Run("run", FALSE)>>, <<Write("w")>>), T(<<File("file_write", "f")>>)>>)
Report  == To(Skill(<<TE(<<Ask("a"), Notify("n")>>, <<Gone("g"), Missing("m")>>),
                         T(<<File("file_read", "f")>>)>>))
Loop    == Skill(<<T(<<Parse("p"), Each("l", <<Shell("s"), Extend("t")>>), Notify("n")>>)>>)
Nest    == To(Skill(<<T(<<Choice("i", <<Parse("p")>>, <<Again("again")>>), Move("mv")>>)>>))

MCBody == [ write |-> Write1, autowrite |-> Auto(Write1), move |-> Within(Move1, 1),
            shell |-> Shell1, text |-> Text1,
            degrade |-> Degrade, recover |-> Recover, autorecover |-> Auto(Recover),
            report |-> Report, loop |-> Within(Loop, 2), nest |-> Nest,
            remote |-> Skill(<<T(<<Ask("a"), Remote("r")>>)>>),
            cut |-> Text(Auto(Skill(<<T(<<Write("w"), Ask("a")>>)>>))) ]

Direct(b) == UNION {Range(t.ops) \cup Range(t.orelse) : t \in Range(b.targets)}
MCOps == LET outer == UNION {Direct(b) : b \in Range(MCBody)}
         IN  outer \cup UNION {Range(o.body) \cup Range(o.orelse) : o \in outer}

Composed == {"write", "autowrite", "move", "shell", "text"}

Setups(mains, children, entries) ==
  { q \in [store : {[main |-> m, child |-> c] : m \in mains, c \in children},
           approved : [{"main", "child"} -> BOOLEAN], skill : {"main"}, entry : entries,
           secured : BOOLEAN, mechanical : BOOLEAN, ceiling : {1, 3, Never}] :
      \* Triggers and calls by name pass the gate first; previews come over MCP.
      /\ q.entry # "source" => q.approved.main
      /\ q.mechanical => q.entry = "source" }

MCSetup ==
  Setups({"degrade", "recover", "autorecover", "report", "loop", "nest"}, Composed,
         {"trigger", "name", "source"})
  \cup Setups({"cut", "remote"}, {"write"}, {"name"})
=============================================================================
