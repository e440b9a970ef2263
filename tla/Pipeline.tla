------------------------------- MODULE Pipeline -------------------------------
(***************************************************************************)
(* A skill from its text to the end of its run: the author lints it        *)
(* (lint_skill), somebody runs it, compile() lints it again with what that *)
(* caller knows, resolves its inputs, takes in the data skills it inlines  *)
(* and orders its targets (compile.ts), and execute() walks them with the  *)
(* values of its variables (runtime.ts).  Lint, compiler and runtime judge *)
(* the same op in three places; the properties say how far they agree.     *)
(*                                                                         *)
(* env, the installation, never changes and holds besides what Lint names: *)
(* entry (who runs the skill), inputs, resolver, fs, answers, secured.     *)
(* Time, deadlines and composition are Executor's; values are the classes  *)
(* of Condition.                                                           *)
(***************************************************************************)
EXTENDS Lint, Condition

CONSTANTS Cases,      \* pairs of a skill and an installation
          MaxItems    \* bound: items of a list

ASSUME NoneAssumption ==
  None \notin {"lint", "parse", "no targets", "no entry", "inputs", "cycle", "dependency", "reference loop",
               "not approved", "mutation", "secret", "missing skill", "uninitialized", "unresolved", "filter",
               "tool", "path", "encoding", "not appendable", "unsafe", "binary", "connector"}
ASSUME ItemsAssumption == MaxItems \in Nat

VARIABLES
  phase,    \* written, compiled, refused, running, ended
  clean,    \* lint_skill was asked and reported no error
  warned,   \* the rules lint_skill warned with
  failure,  \* why compile() threw
  plan,     \* the targets with data skills inlined, their order, what was inlined
  at,       \* the target being run, an index of the order
  part,     \* "ops" or "else"
  todo,     \* what is left of it
  vars,     \* the variables' values
  refused   \* history: the ops that were refused, and why

state == <<skill, env, phase, clean, warned, failure, plan, at, part, todo, vars, refused>>

(* What the parser makes of a text: finitely many targets, each with the   *)
(* list of its dependencies; blocks under `if` and `foreach` only, a loop  *)
(* with one, none deeper than MaxNesting; every condition accepted and the *)
(* entry one of the targets, the last if none is named, or an error        *)
(* reported.                                                               *)
WellFormed(op) ==
  /\ DOMAIN op = DOMAIN NoOp /\ op.kind \notin {"item", "end"} /\ op.val # Absent
  /\ op.kind = "$set" /\ op.val = "ref" => op.refs # {}
  /\ op.kind \notin {"if", "foreach"} => op.blocks = <<>>
  /\ op.kind = "foreach" => DOMAIN op.blocks = {1}
  /\ op.blocks \in Seq(Own(op.blocks))
  /\ \A j \in DOMAIN op.blocks : DOMAIN op.blocks[j] = {"cond", "ops"}
  /\ \A j \in DOMAIN op.blocks : op.blocks[j].ops \in Seq(Own(op.blocks[j].ops))
Shallow(ops) == \A op \in Nested(ops)[MaxNesting] : op.blocks = <<>>
OpList(ops) == ops \in Seq(Own(ops)) /\ Shallow(ops) /\ \A op \in walkOps(ops) : WellFormed(op)
Parsed(text) ==
  /\ {"targets", "entry"} \subseteq DOMAIN text /\ IsFiniteSet(DOMAIN text.targets)
  /\ \A t \in DOMAIN text.targets :
       /\ DOMAIN text.targets[t] = {"deps", "ops", "orelse"} /\ text.targets[t].deps \in Seq(STRING)
       /\ OpList(text.targets[t].ops) /\ OpList(text.targets[t].orelse)
Accepted(cond) == cond = <<>> \/ (cond \in Seq(Token) /\ validateCondition(cond))
ConditionsAccepted(text) ==
  \A t \in DOMAIN text.targets : \A op \in walkOps(text.targets[t].ops) \cup walkOps(text.targets[t].orelse) :
    \A j \in DOMAIN op.blocks : Accepted(op.blocks[j].cond)

(* What bootstrap() wires: lint_skill is given the registry and whether    *)
(* unsafe shell ops run.  An input, a default and an answer are values.    *)
Wired(site) ==
  /\ {"registry", "configErrors", "unsafeShell", "store", "entry"} \subseteq DOMAIN site
  /\ site.registry = TRUE /\ site.unsafeShell \in {"on", "off"} /\ None \notin DOMAIN site.connectors
  /\ Absent \notin site.answers /\ \A v \in DOMAIN site.inputs : site.inputs[v] # Absent

ASSUME CasesAssumption ==
  \A c \in Cases :
    /\ Parsed(c.skill) /\ (ConditionsAccepted(c.skill) \/ "condition" \in c.skill.errors)
    /\ \/ c.skill.errors # {} \/ c.skill.entry \in DOMAIN c.skill.targets
       \/ c.skill.entry = None /\ DOMAIN c.skill.targets = {}
    /\ \A v \in DOMAIN c.skill.vars : c.skill.vars[v] # Absent
    /\ Wired(c.env) /\ IsFiniteSet(DOMAIN c.env.skills)
    /\ \A name \in DOMAIN c.env.skills : Parsed(c.env.skills[name])

-----------------------------------------------------------------------------
(* compile()                                                               *)

(* The preflight knows no registry unless an embedder hands one over, and  *)
(* a fired trigger's compile() is not even given the SkillStore.           *)
PreflightEnv == [env EXCEPT !.registry = FALSE, !.configErrors = FALSE, !.unsafeShell = "unset",
                            !.store = IF env.entry = "trigger" THEN "none" ELSE @]
Preflight == INSTANCE Lint WITH env <- PreflightEnv

(* Caller's input, then the `# Requires:` cascade, then the default.       *)
Required == {r \in DOMAIN skill.requires : skill.requires[r] \/ r \in env.resolver}
Defaulted == {v \in DOMAIN skill.vars : skill.vars[v] # None}
Resolved == (DOMAIN env.inputs \cap Inputs) \cup Required \cup Defaulted
MissingInputs == Inputs \ Resolved

(* coerceLiteralValue: what a literal's text is taken for.                 *)
Coerced(val) == CASE val = "spaced" -> "text" [] val = "objects" -> "list" [] OTHER -> val
Initial(v) == IF v \in DOMAIN env.inputs THEN env.inputs[v]
              ELSE IF v \in Required THEN "text" ELSE Coerced(skill.vars[v])

(* The dependencies one after the other; deeper is the visit of one.       *)
Dependencies(deeper, deps, visiting, order) ==
  LET after[i \in 0..Len(deps)] ==
        IF i = 0 THEN [order |-> order, fail |-> None]
        ELSE IF after[i - 1].fail # None THEN after[i - 1]
        ELSE deeper[deps[i]][visiting][after[i - 1].order]
  IN after[Len(deps)]

(* Variant: a target is listed before what it depends on.                  *)
RootFirst(deeper, targets, name, visiting, order) ==
  IF name \in Range(order) THEN [order |-> order, fail |-> None]
  ELSE IF name \in visiting THEN [order |-> order, fail |-> "cycle"]
  ELSE IF name \notin DOMAIN targets THEN [order |-> order, fail |-> "dependency"]
  ELSE Dependencies(deeper, targets[name].deps, visiting \cup {name}, Append(order, name))

(* Leaves first from the entry; dependencies in the order written.  A path *)
(* without a cycle has at most every target once.                          *)
Finished(name, deps) == IF deps.fail # None THEN deps ELSE [deps EXCEPT !.order = Append(@, name)]
Visit(deeper, targets, name, visiting, order) ==
  IF name \in Range(order) THEN [order |-> order, fail |-> None]
  ELSE IF name \in visiting THEN [order |-> order, fail |-> "cycle"]
  ELSE IF name \notin DOMAIN targets THEN [order |-> order, fail |-> "dependency"]
  ELSE Finished(name, Dependencies(deeper, targets[name].deps, visiting \cup {name}, order))
toposort(targets, entry) ==
  LET named == {entry} \cup UNION {Range(targets[t].deps) : t \in DOMAIN targets}
      path[n \in 0..Cardinality(DOMAIN targets) + 1] ==
        [name \in named |-> [visiting \in SUBSET DOMAIN targets |-> [order \in Seq(named) |->
           IF n = 0 THEN [order |-> order, fail |-> "cycle"]
           ELSE Visit(path[n - 1], targets, name, visiting, order)]]]
  IN path[Cardinality(DOMAIN targets) + 1][entry][{}][<<>>]

(* The emits at the top of a data skill's targets, in their order.         *)
EmitsAmong(ops) ==
  LET emits[i \in 0..Len(ops)] ==
        IF i = 0 THEN <<>> ELSE IF ops[i].kind = "emit" THEN Append(emits[i - 1], ops[i]) ELSE emits[i - 1]
  IN emits[Len(ops)]
EmitsOf(d, sorted) ==
  LET emits[i \in 0..Len(sorted.order)] ==
        IF i = 0 THEN <<>> ELSE emits[i - 1] \o EmitsAmong(d.targets[sorted.order[i]].ops)
  IN [ops |-> IF sorted.fail # None THEN <<>> ELSE emits[Len(sorted.order)], fail |-> sorted.fail]
dataSkillEmitOps(d) ==
  IF d.entry = None THEN [ops |-> <<>>, fail |-> None] ELSE EmitsOf(d, toposort(d.targets, d.entry))

(* With `-> VAR` the content is one value, else an emit for each.          *)
dataSkillContent(op, emits) ==
  IF op.bind = None THEN emits
  ELSE << [NoOp EXCEPT !.kind = "$set", !.set = op.bind, !.val = "text",
                       !.refs = UNION {emits[i].refs : i \in DOMAIN emits}] >>

Loadable(name) == StoreUp /\ Known(name)

(* Variant: the host's approval covers what it inlines.                    *)
HostApproved(name) == TRUE

(* evaluateApprovalGate on the data skill's own text.                      *)
Approved(name) == env.skills[name].approved

OneOf(fails) == IF fails = {} THEN None ELSE CHOOSE f \in fails : TRUE
Left(op, why) == [ops |-> <<op>>, inlined |-> {}, fail |-> why]

(* An op whose blocks were gone through; an inline whose skill was.        *)
WithBlocks(op, bs) ==
  [ops |-> <<[op EXCEPT !.blocks = [j \in DOMAIN bs |-> [op.blocks[j] EXCEPT !.ops = bs[j].ops]]]>>,
   inlined |-> UNION {bs[j].inlined : j \in DOMAIN bs},
   fail |-> OneOf({bs[j].fail : j \in DOMAIN bs} \ {None})]
Content(op, emits, d) ==
  [ops |-> dataSkillContent(op, emits.ops), inlined |-> {op.skill} \cup d.inlined,
   fail |-> IF d.fail # None THEN d.fail ELSE emits.fail]
Baking(op, d) == Content(op, dataSkillEmitOps(d.data), d)
Joined(acc, here) == [ops |-> acc.ops \o here.ops, inlined |-> acc.inlined \cup here.inlined, fail |-> here.fail]
WithTargets(data, main, orelse) ==
  [data |-> [data EXCEPT !.targets = [t \in DOMAIN main |->
               [data.targets[t] EXCEPT !.ops = main[t].ops, !.orelse = orelse[t].ops]]],
   inlined |-> UNION {main[t].inlined \cup orelse[t].inlined : t \in DOMAIN main},
   fail |-> OneOf(({main[t].fail : t \in DOMAIN main} \cup {orelse[t].fail : t \in DOMAIN main}) \ {None})]

(* deeper is what becomes of a list of ops one list further in.            *)
inlineDataSkills(deeper, data, chain) ==
  WithTargets(data, [t \in DOMAIN data.targets |-> deeper[data.targets[t].ops][chain]],
                    [t \in DOMAIN data.targets |-> deeper[data.targets[t].orelse][chain]])
inlineOp(deeper, op, chain) ==
  CASE op.kind # "inline" -> WithBlocks(op, [j \in DOMAIN op.blocks |-> deeper[op.blocks[j].ops][chain]])
    [] op.kind = "inline" /\ op.skill \in chain -> Left(op, "reference loop")
    [] OTHER ->
         IF ~Loadable(op.skill) \/ env.skills[op.skill].type # "data" THEN Left(op, None)
         ELSE IF ~Approved(op.skill) THEN Left(op, "not approved")
         ELSE Baking(op, inlineDataSkills(deeper, env.skills[op.skill], chain \cup {op.skill}))
inlineOps(deeper, ops, chain) ==
  LET after[i \in 0..Len(ops)] ==
        IF i = 0 THEN [ops |-> <<>>, inlined |-> {}, fail |-> None]
        ELSE IF after[i - 1].fail # None THEN after[i - 1]
        ELSE Joined(after[i - 1], inlineOp(deeper, ops[i], chain))
  IN after[Len(ops)]

(* All lists of ops: of the skill, of the stored ones, and their blocks.   *)
ListsOf(targets) == UNION {{targets[t].ops, targets[t].orelse} : t \in DOMAIN targets}
BlocksOf(ops) == UNION {{op.blocks[j].ops : j \in DOMAIN op.blocks} : op \in Own(ops)}
OpLists ==
  LET lists[n \in 0..MaxNesting] ==
        IF n = 0 THEN ListsOf(skill.targets) \cup UNION {ListsOf(env.skills[name].targets) : name \in DOMAIN env.skills}
        ELSE UNION {BlocksOf(ops) : ops \in lists[n - 1]}
  IN UNION {lists[n] : n \in 0..MaxNesting}

(* A chain has every skill once, and each at most MaxNesting blocks.       *)
Chained == {skill.name} \cup DOMAIN env.skills
Lists == Cardinality(Chained) * (MaxNesting + 1)
Inlining ==
  LET inlining[n \in 0..Lists] ==
        [ops \in OpLists |-> [chain \in SUBSET Chained |->
           IF n = 0 THEN [ops |-> ops, inlined |-> {}, fail |-> "reference loop"]
           ELSE inlineOps(inlining[n - 1], ops, chain)]]
  IN inlining[Lists]

Baked == IF PreflightEnv.store = "none" THEN [data |-> skill, inlined |-> {}, fail |-> None]
         ELSE inlineDataSkills(Inlining, skill, {skill.name})
Order == IF Targets = {} THEN [order |-> <<>>, fail |-> None] ELSE toposort(skill.targets, skill.entry)

(* The first thing compile() throws for; an embedder may skip the lint.    *)
compileFailure ==
  IF env.entry # "embedder" /\ Preflight!Errors("compile-preflight") # {} THEN "lint"
  ELSE IF skill.errors # {} THEN "parse"
  ELSE IF Targets = {} /\ skill.template = {} THEN "no targets"
  ELSE IF no_entry_target THEN "no entry"
  ELSE IF MissingInputs # {} THEN "inputs"
  ELSE IF Baked.fail # None THEN Baked.fail
  ELSE Order.fail

-----------------------------------------------------------------------------
(* The runtime: references, and what an op is refused for.                 *)

Ambient == [n \in {"NOW", "USER", "TRIGGER_TYPE", "SESSION_CONTEXT", "TRIGGER_PAYLOAD"} |->
              IF n \in {"SESSION_CONTEXT", "TRIGGER_PAYLOAD"} THEN "empty" ELSE "text"]

(* resolveRef: a field of what is no object is undefined.                  *)
resolveRef(r) ==
  LET v == ValueOf(r.var, vars) IN IF r.field = None THEN v ELSE IF v = "obj" THEN "text" ELSE Absent

(* substituteRuntime throws for what nothing bound, and where a filter     *)
(* cannot be applied.                                                      *)
Unresolved(refs) == {r.var : r \in {x \in refs : x.filter # "fallback" /\ resolveRef(x) = Absent}}
Unfilterable(refs) == \E r \in refs : r.filter = "pluck" /\ resolveRef(r) \notin {"list", "nolist"}

(* The text a single reference becomes, read as a literal again.           *)
substituted(r) == LET v == resolveRef(r)
                  IN IF r.filter = "fallback" /\ Missing(v) THEN "text" ELSE IF v = "null" THEN "text" ELSE v
SetValue(op) == IF op.val = "ref" THEN substituted(CHOOSE r \in op.refs : TRUE) ELSE Coerced(op.val)

(* Items a loop may run over: the paren form looks the name up, filter and *)
(* all; the brace form is substituted first.                               *)
ListRef(op) == CHOOSE r \in op.refs : TRUE
resolveListExpr(op) ==
  IF op.refs = {} THEN 1..MaxItems
  ELSE LET r == ListRef(op)
           v == IF r.form = "paren" THEN (IF r.filter = None THEN resolveRef(r) ELSE Absent) ELSE substituted(r)
       IN IF v = "list" THEN 1..MaxItems ELSE IF Missing(v) THEN {0} ELSE {1}

(* The references substituted before the op is looked at any further.      *)
Substituted(op) == CASE op.kind = "if" -> {}
                     [] op.kind = "foreach" -> {r \in op.refs : r.form = "brace"}
                     [] OTHER -> op.refs

Intrinsic(op) == op.kind = "$" /\ op.con = None /\ op.tool \in BARE_FORM_INTRINSICS
Connector(op) == IF op.con = None THEN op.tool ELSE op.con

(* dispatch-validate.ts: the allow-list, then the tools the class declares.*)
validateQualifiedDispatch(op) ==
  LET c == env.connectors[op.con] IN
  (c.allowed = {None} \/ op.tool \in c.allowed) /\ (c.static = {None} \/ op.tool \in c.static)

(* The first check that does not let an op pass.                           *)
FirstOf(checks) ==
  LET on == {i \in DOMAIN checks : checks[i].on}
  IN IF on = {} THEN None ELSE checks[CHOOSE i \in on : \A j \in on : i =< j].why

(* Refused whatever fallback the op has, in the order of the handlers.     *)
Thrown(op) ==
  LET checks ==
    << [why |-> "mutation", on |-> Unconfirmed(op)],
       [why |-> "secret", on |-> op.kind = "$" /\ ~(op.secrets \subseteq skill.secretRequires)],
       [why |-> "missing skill", on |-> op.kind = "inline"],
       [why |-> "uninitialized", on |-> op.kind = "$append" /\ op.set \notin DOMAIN vars],
       [why |-> "unresolved", on |-> Unresolved(Substituted(op)) # {}],
       [why |-> "filter", on |-> Unfilterable(Substituted(op))],
       [why |-> "tool", on |-> op.kind = "$" /\ op.con \in Connectors /\ ~validateQualifiedDispatch(op)],
       [why |-> "path", on |-> op.kind \in {"file_read", "file_write"} /\ ~env.fs],
       [why |-> "encoding", on |-> op.kind = "file_read" /\ "encoding" \in op.marks],
       [why |-> "not appendable", on |-> op.kind = "$append" /\ ValueOf(op.set, vars) \in {"obj", "null"}] >>
  IN FirstOf(checks)

(* Refused inside the try a `(fallback:)` belongs to.  Without a list of   *)
(* binaries none is allowed; of a token that is a reference one can tell   *)
(* only what it was substituted with (Shell).                              *)
isBinaryAllowed(op) ==
  /\ env.shellAllowlist # None
  /\ IF Binary(op) = None THEN env.shellAllowlist # {} ELSE Binary(op) \in env.shellAllowlist
Caught(op) ==
  LET checks ==
    << [why |-> "secret", on |-> op.kind = "shell" /\ ~(op.secrets \subseteq skill.secretRequires)],
       [why |-> "unsafe", on |-> op.kind = "shell" /\ op.unsafe /\ env.unsafeShell # "on"],
       [why |-> "binary", on |-> op.kind = "shell" /\ ~isBinaryAllowed(op)],
       [why |-> "connector", on |-> op.kind = "$" /\ ~Intrinsic(op) /\ Connector(op) \notin Connectors] >>
  IN FirstOf(checks)

-----------------------------------------------------------------------------
(* execute(): targets, blocks and ops.                                     *)

Op == Head(todo).op
Deep == Head(todo).deep
Items(ops, deep) == [i \in DOMAIN ops |-> [op |-> ops[i], deep |-> deep, keep |-> {}]]
OpsOf(i) == IF i \in DOMAIN plan.order THEN Items(plan.targets[plan.order[i]].ops, FALSE) ELSE <<>>
ElseOf(i) == Items(plan.targets[plan.order[i]].orelse, FALSE)

Init ==
  /\ \E c \in Cases : skill = c.skill /\ env = c.env
  /\ phase = "written" /\ clean = FALSE /\ warned = {} /\ failure = None
  /\ plan = [targets |-> <<>>, order |-> <<>>, inlined |-> {}]
  /\ at = 1 /\ part = "ops" /\ todo = <<>>
  /\ vars = <<>> /\ refused = {}

LintSkill ==
  /\ phase = "written"
  /\ clean' = (Errors("api") = {})
  /\ warned' = Warnings("api")
  /\ UNCHANGED <<skill, env, phase, failure, plan, at, part, todo, vars, refused>>

Compile ==
  /\ phase = "written"
  /\ failure' = compileFailure
  /\ IF compileFailure # None
     THEN phase' = "refused" /\ UNCHANGED <<plan, vars>>
     ELSE /\ phase' = "compiled"
          /\ plan' = [targets |-> Baked.data.targets, order |-> Order.order, inlined |-> Baked.inlined]
          /\ vars' = [v \in Resolved \cup DOMAIN Ambient |-> IF v \in Resolved THEN Initial(v) ELSE Ambient[v]]
  /\ UNCHANGED <<skill, env, clean, warned, at, part, todo, refused>>

Start == /\ phase = "compiled"
         /\ phase' = "running"
         /\ todo' = OpsOf(1)
         /\ UNCHANGED <<skill, env, clean, warned, failure, plan, at, part, vars, refused>>

Running == phase = "running" /\ UNCHANGED <<skill, env, clean, warned, failure, plan>>
AtOp == Running /\ todo # <<>>

NextTarget == at' = at + 1 /\ part' = "ops" /\ todo' = OpsOf(at + 1)

(* The next target, or, past the last one, the end.                        *)
TargetDone ==
  /\ Running /\ todo = <<>> /\ at =< Len(plan.order)
  /\ NextTarget
  /\ UNCHANGED <<phase, vars, refused>>

End == /\ phase = "running" /\ todo = <<>> /\ at > Len(plan.order)
       /\ phase' = "ended"
       /\ UNCHANGED <<skill, env, clean, warned, failure, plan, at, part, todo, vars, refused>>

(* An op threw: the target's else block, the next target after a failing   *)
(* else block, the end of the loop without one.                            *)
Throw(why, names) ==
  /\ refused' = refused \cup {[op |-> Op, why |-> why, names |-> names, part |-> part, deep |-> Deep]}
  /\ IF part = "else" THEN NextTarget
     ELSE IF ElseOf(at) # <<>> THEN part' = "else" /\ todo' = ElseOf(at) /\ UNCHANGED at
     ELSE at' = Len(plan.order) + 1 /\ todo' = <<>> /\ UNCHANGED part
  /\ UNCHANGED <<phase, vars>>

Bind(name, value) ==
  /\ vars' = IF name = None THEN vars ELSE [n \in DOMAIN vars \cup {name} |-> IF n = name THEN value ELSE vars[n]]
  /\ todo' = Tail(todo)
  /\ UNCHANGED <<phase, at, part, refused>>

Refuse ==
  /\ AtOp /\ Thrown(Op) # None
  /\ Throw(Thrown(Op), Unresolved(Substituted(Op)))

Cleared(kind) == AtOp /\ Op.kind = kind /\ Thrown(Op) = None

(* What went wrong inside the try: the fallback's value, or thrown.        *)
Fail(why) == IF Op.fallback THEN Bind(Op.bind, "text") ELSE Throw(why, {})

Set == Cleared("$set") /\ Bind(Op.set, SetValue(Op))

Accumulate ==
  /\ Cleared("$append")
  /\ Bind(Op.set, IF ValueOf(Op.set, vars) \in {"list", "nolist"} THEN "list" ELSE "text")

Emit == (Cleared("emit") \/ Cleared("?")) /\ Bind(None, "text")

(* A call's answer, what it is bound to, an answer with isError.           *)
Call ==
  /\ Cleared("$")
  /\ \/ Caught(Op) # None /\ Fail(Caught(Op))
     \/ Caught(Op) = None /\ (Fail("failed") \/ (~Intrinsic(Op) /\ Throw("isError", {})))
     \/ /\ Caught(Op) = None
        /\ \E v \in IF Op.tool = "execute_skill" THEN {"obj"} ELSE env.answers :
             Bind(Op.bind, IF Op.fallback /\ ~Intrinsic(Op) /\ Missing(v) THEN "text" ELSE v)

(* A reference may have been substituted with a binary that is not listed. *)
Shell ==
  /\ Cleared("shell")
  /\ \/ Caught(Op) # None /\ Fail(Caught(Op))
     \/ Caught(Op) = None /\ Binary(Op) = None /\ Fail("binary")
     \/ Caught(Op) = None /\ Fail("failed")
     \/ Caught(Op) = None /\ \E v \in {"text", "empty"} : Bind(Op.bind, IF Op.fallback THEN "text" ELSE v)

FileRead == Cleared("file_read") /\ (Fail("failed") \/ \E v \in {"text", "empty"} : Bind(Op.bind, v))
FileWrite == Cleared("file_write") /\ (Throw("failed", {}) \/ Bind(None, "text"))
Notify == Cleared("notify") /\ Bind(Op.bind, "obj")

-----------------------------------------------------------------------------
(* Blocks.                                                                 *)

(* The first branch whose condition holds; `else` comes last.              *)
FirstStop(reads, stops) ==
  IF stops = {} THEN [branch |-> 0, reads |-> "false"]
  ELSE LET j == CHOOSE i \in stops : \A k \in stops : i =< k IN [branch |-> j, reads |-> reads[j]]
Reading(reads) == FirstStop(reads, {j \in DOMAIN reads : reads[j] # "false"})
Outcome(op) ==
  Reading([j \in DOMAIN op.blocks |->
             IF op.blocks[j].cond = <<>> THEN "true" ELSE evalCondition(op.blocks[j].cond, vars)])

(* The names a condition asks for that nothing bound.                      *)
Asked(cond) == UNION {{Simple[cond[i]].ref, Simple[cond[i]].rhs} : i \in {k \in DOMAIN cond : cond[k] \in DOMAIN Simple}}
AskedUnbound(op) == (UNION {Asked(op.blocks[j].cond) : j \in DOMAIN op.blocks}) \ (DOMAIN vars \cup {None})

Enter(o) ==
  CASE o.branch = 0 -> Bind(None, "text")
    [] o.reads = "true" ->
         /\ todo' = Items(Op.blocks[o.branch].ops, TRUE) \o Tail(todo)
         /\ UNCHANGED <<phase, at, part, vars, refused>>
    [] OTHER -> Throw(o.reads, IF o.reads = "unresolved" THEN AskedUnbound(Op) ELSE {})
Branch == Cleared("if") /\ Enter(Outcome(Op))

(* A round binds the item and runs the body; what the loop's rounds have   *)
(* bound goes when it ends, and stays when one throws.                     *)
Rounds(round, n) ==
  LET rounds[i \in 0..n] == IF i = 0 THEN <<>> ELSE rounds[i - 1] \o round
  IN rounds[n]
Loop ==
  /\ Cleared("foreach")
  /\ \E n \in resolveListExpr(Op) :
       LET round == <<[op |-> [Op EXCEPT !.kind = "item", !.refs = {}], deep |-> TRUE, keep |-> {}]>>
                      \o Items(Op.blocks[1].ops, TRUE)
           end == <<[op |-> [Op EXCEPT !.kind = "end", !.refs = {}], deep |-> TRUE, keep |-> DOMAIN vars]>>
       IN todo' = Rounds(round, n) \o end \o Tail(todo)
  /\ UNCHANGED <<phase, at, part, vars, refused>>

Item == Cleared("item") /\ Bind(Op.set, "text")

(* Variant: a loop clears all it has touched.                              *)
KeptButTouched(names) == [n \in names \ Binds(Op) |-> vars[n]]

Kept(names) == [n \in names |-> vars[n]]

EndLoop == /\ Cleared("end")
           /\ vars' = Kept(Head(todo).keep)
           /\ todo' = Tail(todo)
           /\ UNCHANGED <<phase, at, part, refused>>

Stopped == phase \in {"refused", "ended"} /\ UNCHANGED state

Blocks == Branch \/ Loop \/ Item \/ EndLoop
Ops == Refuse \/ Set \/ Accumulate \/ Emit \/ Call \/ Shell \/ FileRead \/ FileWrite \/ Notify
Next == LintSkill \/ Compile \/ Start \/ TargetDone \/ End \/ Ops \/ Blocks \/ Stopped

Spec == Init /\ [][Next]_state

-----------------------------------------------------------------------------
(* Properties.                                                             *)

(* What lint_skill has passed, compile() takes as well (compile.ts:141):   *)
(* it fails only for what no linter can know, the values of this run, the  *)
(* approval and the references of other skills, and, when a trigger fires, *)
(* for want of the SkillStore that nobody hands it (scheduler.ts:514).     *)
CleanCompiles ==
  clean /\ failure # None =>
    \/ failure = "inputs" /\ MissingInputs # {}
    \/ Baked.fail # None /\ failure = Baked.fail
    \/ failure = "lint" /\ env.entry = "trigger" /\ Preflight!missing_skillstore_for_data_ref

(* A run carries out what its entry needs and nothing else, each target    *)
(* once and after the targets it depends on (compile.ts:517).              *)
OrderSound ==
  phase \in {"compiled", "running", "ended"} /\ Targets # {} =>
    /\ Range(plan.order) = Reached({skill.entry}) /\ IsInjective(plan.order)
    /\ \A i \in DOMAIN plan.order : \A d \in Range(skill.targets[plan.order[i]].deps) :
         \E j \in 1..(i - 1) : plan.order[j] = d

(* Text of another skill gets into a run only if that skill is data and    *)
(* stands on its own approval, at any depth (compile.ts:413), and in a run *)
(* with a store no reference to such a skill is left, in blocks and else   *)
(* blocks either.                                                          *)
InlinedStands ==
  phase \in {"compiled", "running", "ended"} =>
    /\ \A n \in plan.inlined : env.skills[n].type = "data" /\ env.skills[n].approved
    /\ env.entry # "trigger" =>
         \A t \in DOMAIN plan.targets :
           \A op \in walkOps(plan.targets[t].ops) \cup walkOps(plan.targets[t].orelse) :
             op.kind = "inline" => ~(Loadable(op.skill) /\ env.skills[op.skill].type = "data")

(* What lint and runtime agree on of what may be called, run and spliced   *)
(* (dispatch-validate.ts:1): of a skill that lint_skill has passed no op   *)
(* is refused at run time for its connector, tool or shell policy, at any  *)
(* depth of blocks, but for else blocks, which lint does not look into,    *)
(* and none for a secret, there either; of an op at the top of a target    *)
(* that the mutation gate refuses it had warned (lint.ts:2340,             *)
(* mutation-gate.ts:37).  On binaries lint only advises (lint.ts:2249): it *)
(* has none to compare with where the operator listed none, and no word    *)
(* where it is a reference (lint.ts:2257, 2311); any other it has passed   *)
(* the runtime runs.                                                       *)
DispatchChecked ==
  clean => \A x \in refused :
    /\ x.why # "secret"
    /\ x.why \in {"connector", "tool", "unsafe"} => x.part = "else"
    /\ x.why = "binary" => x.part = "else" \/ env.shellAllowlist = None \/ Binary(x.op) = None
    /\ x.why = "mutation" /\ ~x.deep /\ x.part = "ops" => "unconfirmed-mutation" \in warned

(* A variable that turns out unbound (runtime.ts:2580) is never an input   *)
(* of the skill: compile() gave each a value or threw, and no loop takes   *)
(* it away; and where lint looks (the lines at the top of targets, not an  *)
(* unsafe shell op, a reference with a fallback or the condition of an     *)
(* elif, lint.ts:4044) it is a name some op of the skill would have bound, *)
(* or the one ambient name the runtime never binds.                        *)
UnboundExplained ==
  \A x \in refused : x.why = "unresolved" =>
    /\ x.names \cap (Inputs \cup DOMAIN Ambient) = {} \/ \E r \in x.op.refs : r.field # None
    /\ /\ clean /\ x.part = "ops" /\ x.op \in UNION {Top(t) : t \in Targets}
       /\ ~(x.op.kind = "shell" /\ x.op.unsafe) /\ \A r \in x.op.refs : r.field = None
       => x.names \cap {r.var : r \in {q \in x.op.refs : q.filter # "fallback"}} \subseteq Bound \cup {"ERROR_CONTEXT"}

Agreed(reads, cond) ==
  reads # "invalid" /\ (reads \in {"true", "false"} => Meaning(cond, vars) = {reads = "true"})

(* The two descents over a condition agree with each other and with its    *)
(* grammar (parser.ts:402, runtime.ts:2891): what was accepted is never    *)
(* unreadable when its branch is reached, and has the one value all its    *)
(* readings have.                                                          *)
ConditionsAgree ==
  phase = "running" /\ todo # <<>> /\ Op.kind = "if" =>
    \A j \in DOMAIN Op.blocks :
      Op.blocks[j].cond # <<>> => Agreed(evalCondition(Op.blocks[j].cond, vars), Op.blocks[j].cond)
=============================================================================
