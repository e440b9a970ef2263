-------------------------------- MODULE Lint --------------------------------
(***************************************************************************)
(* The linter (lint.ts): the rules a parsed skill is read with before it   *)
(* is stored, compiled or run.                                             *)
(*                                                                         *)
(* A rule is one operator, true when it reports something.  What a rule    *)
(* looks for in the text of an op is a mark the op carries; what matters   *)
(* here is where it looks (the top of a target, inside blocks, inside the  *)
(* `else:` of a target), what it asks of the surroundings, and what makes  *)
(* it keep silent.  Most rules walk the ops of a target with walkOps,      *)
(* which goes into blocks and not into the `else:`.                        *)
(*                                                                         *)
(*   skill   the parsed skill                                              *)
(*   env     what the caller hands to lint: registry, store, shell options *)
(***************************************************************************)
EXTENDS Naturals, Sequences, FiniteSets, SequencesExt

CONSTANTS None,
          MaxNesting   \* bound: blocks within blocks

ASSUME NestingAssumption == MaxNesting \in Nat

VARIABLES skill, env

(* An op with nothing on its line; an instance says what differs.          *)
NoOp == [kind |-> "emit", con |-> None, tool |-> None, args |-> {}, refs |-> {},
         bind |-> None, set |-> None, val |-> None, fallback |-> FALSE, approved |-> FALSE,
         unsafe |-> FALSE, argv |-> FALSE, skill |-> None, marks |-> {},
         secrets |-> {}, leaks |-> {}, blocks |-> <<>>]

(* A reference in an op's text: its variable, whether it goes on with a    *)
(* field, the field, its filter, "$(...)" or "${...}".                     *)
Ref(v) == [var |-> v, field |-> None, filter |-> None, form |-> "brace"]

KNOWN_FILTERS == {"url", "shell", "json", "trim", "length", "fallback", "isodate", "contains",
                  "head", "tail", "lines", "pluck"}

AMBIENT_VARS == {"NOW", "USER", "SESSION_CONTEXT", "TRIGGER_TYPE", "TRIGGER_PAYLOAD", "ERROR_CONTEXT"}

BARE_FORM_INTRINSICS == {"execute_skill", "json_parse"}

-----------------------------------------------------------------------------
(* Walking the ops.                                                        *)

Own(ops) == {ops[i] : i \in DOMAIN ops}
InBlocks(S) == UNION {UNION {Own(op.blocks[j].ops) : j \in DOMAIN op.blocks} : op \in S}

(* What stands n blocks deep.                                              *)
Nested(ops) ==
  LET nested[n \in 0..MaxNesting] == IF n = 0 THEN Own(ops) ELSE InBlocks(nested[n - 1])
  IN nested
walkOps(ops) == UNION {Nested(ops)[n] : n \in 0..MaxNesting}

Targets == DOMAIN skill.targets
Top(t) == Own(skill.targets[t].ops)
Walked(t) == walkOps(skill.targets[t].ops)
InElse(t) == walkOps(skill.targets[t].orelse)

(* Variant: a rule looks at the top of the targets only.                   *)
AllTop == UNION {Top(t) : t \in Targets}

AllWalked == UNION {Walked(t) : t \in Targets}
AllElse == UNION {InElse(t) : t \in Targets}
Calls(ops) == {op \in ops : op.kind = "$"}
Shells(ops) == {op \in ops : op.kind = "shell"}

(* Every op with the path of the blocks around it (walkOpsWithScope).      *)
At(ops, path) == {[op |-> ops[i], at |-> i, path |-> path] : i \in DOMAIN ops}
Within(x) == UNION {At(x.op.blocks[j].ops, Append(x.path, <<x.op.kind, x.at, j>>)) : j \in DOMAIN x.op.blocks}
walkOpsWithScope(ops) ==
  LET nested[n \in 0..MaxNesting] == IF n = 0 THEN At(ops, <<>>) ELSE UNION {Within(x) : x \in nested[n - 1]}
  IN UNION {nested[n] : n \in 0..MaxNesting}

isAncestorScope(p, q) == Len(p) < Len(q) /\ p = SubSeq(q, 1, Len(p))

(* Names an op binds, and the names a skill declares or binds somewhere.   *)
Binds(op) == {op.set, op.bind} \ {None}
Bound == UNION {Binds(op) : op \in AllWalked \cup AllElse}
Inputs == DOMAIN skill.vars \cup DOMAIN skill.requires
Declared == Inputs \cup Bound

(* Skills named by inline or execute_skill (collectAmpRefsFromOps).        *)
References == {op.skill : op \in {o \in AllWalked : \/ o.kind = "inline"
                                                    \/ o.kind = "$" /\ o.tool = "execute_skill" /\ o.con = None}} \ {None}

(* What reaches lint of the registry.                                      *)
HasRegistry == env.registry
Connectors == DOMAIN env.connectors
Qualified == {op \in Calls(AllWalked) : op.con # None}
Bare == {op \in Calls(AllWalked) : op.con = None}
Allowed(c, tool) == env.connectors[c].allowed = {None} \/ tool \in env.connectors[c].allowed
Names(op, service) == op.kind = "$" /\ (op.con = service \/ (op.con = None /\ op.tool = service))
Keys(op) == {a.key : a \in op.args}

(* The schema of the tool an op calls, when the connector could be asked.  *)
Described(op) == /\ op.kind = "$" /\ op.con \in Connectors
                 /\ Allowed(op.con, op.tool) /\ op.tool \in DOMAIN env.connectors[op.con].schema
Schema(op) == env.connectors[op.con].schema[op.tool]

-----------------------------------------------------------------------------
(* Parse errors, each with the rule that owns its wording.                 *)

parse_error == \E k \in skill.errors : k \notin {"condition", "equals", "malformed $", "reserved", "indent"}
malformed_op_grammar == \E k \in skill.errors : k \in {"malformed $", "malformed call", "legacy"}
invalid_conditional_syntax == "condition" \in skill.errors
single_equals == "equals" \in skill.errors
reserved_keyword == "reserved" \in skill.errors
indentation == "indent" \in skill.errors

(* Targets and their order.                                                *)
no_targets == Targets = {} /\ skill.template = {} /\ skill.errors = {}
no_entry_target == Targets # {} /\ skill.entry = None

(* The least set with what is in ts and what its targets depend on.        *)
Needs(S) == UNION {Range(skill.targets[t].deps) : t \in S \cap Targets}
Closed(S) == Needs(S) \subseteq S
Reached(ts) == {t \in ts \cup Needs(Targets) : \A S \in SUBSET (ts \cup Needs(Targets)) : ts \subseteq S /\ Closed(S) => t \in S}

orphan_target == skill.entry \in Targets /\ Targets \ Reached({skill.entry}) # {}

(* A cycle met from t, or the targets finished; deeper is the visit of a   *)
(* dependency.  A path without a cycle has at most every target once.      *)
Visited(deeper, t, visiting, visited) ==
  IF t \in visiting THEN [cycle |-> TRUE, visited |-> visited]
  ELSE IF t \in visited \/ t \notin Targets THEN [cycle |-> FALSE, visited |-> visited \cup {t}]
  ELSE LET deps == skill.targets[t].deps
           after[i \in 0..Len(deps)] ==
             IF i = 0 THEN [cycle |-> FALSE, visited |-> visited]
             ELSE IF after[i-1].cycle THEN after[i-1]
             ELSE deeper[deps[i]][visiting \cup {t}][after[i-1].visited]
           end == after[Len(deps)]
       IN [cycle |-> end.cycle, visited |-> end.visited \cup {t}]
visit(entry) ==
  LET named == {entry} \cup Needs(Targets)
      path[n \in 0..Cardinality(Targets) + 1] ==
        [t \in named |-> [visiting \in SUBSET Targets |-> [visited \in SUBSET named |->
           IF n = 0 THEN [cycle |-> TRUE, visited |-> visited] ELSE Visited(path[n - 1], t, visiting, visited)]]]
  IN path[Cardinality(Targets) + 1][entry][{}][{}]
circular_dependency == skill.entry # None /\ visit(skill.entry).cycle

(* Variant: only the entry's dependencies are looked up.                   *)
missing_for_entry ==
  skill.entry \in Targets /\ \E i \in DOMAIN skill.targets[skill.entry].deps :
    skill.targets[skill.entry].deps[i] \notin Targets

missing_dependency == \E t \in Targets : \E i \in DOMAIN skill.targets[t].deps : skill.targets[t].deps[i] \notin Targets
missing_default_target == Targets # {} /\ ~skill.explicit

(* Variables.                                                              *)
undeclared_var ==
  \E t \in Targets : \E op \in Top(t) :
    /\ ~(op.kind = "shell" /\ op.unsafe)
    /\ \E r \in op.refs : r.filter # "fallback" /\ r.field = None /\ r.var \notin AMBIENT_VARS \cup Declared
unknown_returns_ref == skill.returns \ Declared # {}
unknown_filter == \E t \in Targets : \E op \in Top(t) : \E r \in op.refs : r.filter \notin KNOWN_FILTERS \cup {None}
unset_template_var == \E r \in skill.template : r.var # None /\ r.var \notin AMBIENT_VARS \cup Declared
space_separated_vars == "spaced name" \in skill.marks
vars_space_separated == "spaced default" \in skill.marks

(* Other skills.  A store that cannot be asked makes one report.           *)
StoreUp == env.store = "up"
HasStore == env.store # "none"
Known(name) == name \in DOMAIN env.skills
unknown_skill_reference ==
  HasStore /\ References # {} /\ (~StoreUp \/ \E n \in References : ~Known(n))
unknown_template_reference ==
  HasStore /\ skill.templates # {} /\ (~StoreUp \/ \E n \in skill.templates : ~Known(n))
disabled_skill_reference == StoreUp /\ \E n \in References : Known(n) /\ env.skills[n].status = "Disabled"
reference_to_disabled_skill == disabled_skill_reference
missing_skillstore_for_data_ref ==
  ~HasStore /\ \E t \in Targets : \E op \in Top(t) : op.kind = "inline"
skill_name_collision(site) ==
  /\ StoreUp /\ skill.name # None /\ site # "cli"
  /\ Known(skill.name) /\ ~env.skills[skill.name].same

(* What a binding of execute_skill may be asked for.                       *)
ALWAYS_EXPORTED == {"skill_name", "outputs", "transcript", "errors", "target_order", "fallbacks",
                    "agent_delivery_receipts", "final_vars"}
unexported_final_var_access ==
  /\ StoreUp
  /\ \E call \in {op \in Bare : op.tool = "execute_skill" /\ op.bind # None /\ Known(op.skill)} :
       \E op \in AllWalked \cup AllElse : \E r \in op.refs :
         /\ r.var = call.bind /\ r.field # None
         /\ r.field \notin ALWAYS_EXPORTED \cup env.skills[call.skill].returns

-----------------------------------------------------------------------------
(* Calls: the connector, the tool and its arguments.                       *)

unknown_connector == HasRegistry /\ \E op \in Qualified : op.con \notin Connectors
connector_as_tool ==
  HasRegistry /\ \E op \in Bare : op.tool \in Connectors /\ "second word" \in op.marks
disallowed_tool == HasRegistry /\ \E op \in Qualified : op.con \in Connectors /\ ~Allowed(op.con, op.tool)

(* A connector whose class lists no tools has static = {None}.             *)
Static(c) == env.connectors[c].static
unknown_tool_on_connector ==
  HasRegistry /\ \E op \in Qualified :
    op.con \in Connectors /\ Static(op.con) # {None} /\ op.tool \notin Static(op.con) /\ Allowed(op.con, op.tool)
unverified_qualified_tool ==
  HasRegistry /\ \E op \in Qualified :
    op.con \in Connectors /\ Static(op.con) = {None} /\ ~Described(op)

(* A bare call goes to a connector of the tool's name; with none, every    *)
(* call of the tool in the target needs a fallback, and then the report is *)
(* a note only.                                                            *)
Unwired(t) == {op \in Calls(Walked(t)) : op.con = None /\ op.tool \notin BARE_FORM_INTRINSICS \cup Connectors}
unwired_primary_connector == HasRegistry /\ \E t \in Targets : \E op \in Unwired(t) : ~op.fallback
unwired_but_covered ==
  HasRegistry /\ \E t \in Targets : \E op \in Unwired(t) : \A o \in Unwired(t) : o.tool = op.tool => o.fallback
unknown_connector_class == env.configErrors

(* `timeout` and `approved` are the runtime's own and no tool's.           *)
RESERVED_DISPATCH_KWARGS == {"timeout", "approved"}
unknown_connector_arg ==
  HasRegistry /\ \E op \in AllWalked :
    Described(op) /\ ~Schema(op).open /\ Keys(op) \ (Schema(op).props \cup RESERVED_DISPATCH_KWARGS) # {}
missing_required_connector_arg ==
  HasRegistry /\ \E op \in AllWalked :
    Described(op) /\ Schema(op).required \ (Keys(op) \ RESERVED_DISPATCH_KWARGS) # {}

LLM_KWARG_SURFACE == {"prompt", "maxTokens", "model", "timeout", "approved", "fallback"}
DATA_READ_KWARG_SURFACE == {"mode", "query", "limit", "connector", "fallback", "domain_tags", "filters", "min_confidence"}
unknown_llm_model ==
  HasRegistry /\ \E op \in AllWalked : Names(op, "llm") /\
    \E a \in op.args : a.key = "model" /\ a.val \notin env.models \cup {"ref", "empty"}
unknown_llm_arg == \E op \in AllWalked : Names(op, "llm") /\ Keys(op) \ LLM_KWARG_SURFACE # {}
unknown_data_read_arg == \E op \in AllWalked : Names(op, "data_read") /\ Keys(op) \ DATA_READ_KWARG_SURFACE # {}
deprecated_addressed_to ==
  \E op \in Calls(AllWalked) : op.tool = "data_write" /\ "addressed_to" \in Keys(op)
colon_kwarg_syntax == \E op \in Calls(AllWalked) : "key: value" \in op.marks
unknown_capability == HasRegistry /\ skill.caps \ env.features # {}

(* What is bound from a call has to be parsed before it is measured.       *)
remote_result_needs_parse ==
  LET bound == {op.bind : op \in {o \in Calls(AllWalked) : o.tool # "json_parse"}} \ {None}
      parsed == UNION {{r.var : r \in op.refs} : op \in {o \in Bare : o.tool = "json_parse"}}
  IN \E op \in AllWalked \cup AllElse : \E r \in op.refs : r.filter = "length" /\ r.var \in bound \ parsed
-----------------------------------------------------------------------------
(* Secrets: a marker is for the text of a shell op or a call, and nothing  *)
(* else.  What the walk does not account for (a line the parser dropped,   *)
(* the ops of an `else:`) counts as outside of every op.                   *)

isBuiltinNonSinkDollar(op) == op.kind = "$" /\ op.con = None /\ op.tool \in BARE_FORM_INTRINSICS
Sink(op) == op.kind = "shell" \/ (op.kind = "$" /\ ~isBuiltinNonSinkDollar(op))
secretSinkText(op) == IF Sink(op) THEN op.secrets ELSE {}
secretNonSinkText(op) == op.leaks \cup (op.secrets \ secretSinkText(op))
secret_use_only ==
  \/ \E op \in AllWalked : secretNonSinkText(op) # {}
  \/ skill.templateSecrets # {} \/ skill.droppedSecrets
  \/ \E op \in AllElse : op.secrets \cup op.leaks # {}
secret_undeclared ==
  (skill.templateSecrets \cup UNION {op.secrets \cup op.leaks : op \in AllWalked}) \ skill.secretRequires # {}
secret_dynamic_name == \E op \in AllWalked : "bad secret" \in op.marks
credential_in_args == "credential" \in skill.marks \/ \E op \in AllWalked : "credential" \in op.marks

(* Files and shell.                                                        *)
unknown_file_encoding == \E op \in AllWalked : op.kind = "file_read" /\ "encoding" \in op.marks
Unsafe(ops) == {op \in Shells(ops) : op.unsafe}
unsafe_shell_op == Unsafe(AllWalked) # {}
unsafe_shell_disabled == env.unsafeShell = "off" /\ Unsafe(AllWalked) # {}
unsafe_shell_ambiguous_subst ==
  \E op \in Unsafe(AllWalked) : \E r \in op.refs :
    r.form = "paren" /\ r.field = None /\ (r.filter # None \/ r.var \notin AMBIENT_VARS \cup Declared)
unsafe_shell_unescaped_subst ==
  \E op \in Unsafe(AllWalked) : \E r \in op.refs :
    r.field = None /\ r.var \in Declared \ AMBIENT_VARS /\ r.filter # "shell"
shell_quoted_var_in_command == \E op \in Shells(AllWalked) : ~op.unsafe /\ ~op.argv /\ "quoted ref" \in op.marks
firstShellToken(op) == IF op.tool = "ref" THEN None ELSE op.tool
(* Without a list the rule keeps silent, and for a token that is a         *)
(* reference.                                                              *)
Binary(op) == IF op.unsafe THEN "bash" ELSE firstShellToken(op)
shell_binary_not_allowed(site) ==
  /\ site # "compile-preflight" /\ env.shellAllowlist # None
  /\ \E op \in Shells(AllWalked) : Binary(op) \notin env.shellAllowlist \cup {None}

-----------------------------------------------------------------------------
(* Mutations, and values that are appended to, iterated and substituted.   *)

(* What changes something outside (classifyMutation), and who may          *)
(* (authorizationGranted).                                                 *)
classifyMutation(op) == op.kind = "file_write" \/ (op.kind = "$" /\ op.tool \in env.mutating)
authorizationGranted(op) == op.approved \/ skill.autonomous
Unconfirmed(op) == classifyMutation(op) /\ ~authorizationGranted(op)

unconfirmed_mutation == \E t \in Targets : \E op \in Top(t) : Unconfirmed(op)

(* The scopes of a target that set the name, and those that append to it.  *)
Scopes(t, kind, name) ==
  {x.path : x \in {y \in walkOpsWithScope(skill.targets[t].ops) : y.op.kind = kind /\ y.op.set = name}}
Appended(t) == {op.set : op \in {o \in Walked(t) : o.kind = "$append"}}
Visible(inits, path) == path \in inits \/ \E p \in inits : isAncestorScope(p, path)
uninitialized_append ==
  \E t \in Targets : \E name \in Appended(t) \ Inputs :
    \E path \in Scopes(t, "$append", name) : ~Visible(Scopes(t, "$set", name), path)
pathContainsForeach(path) == \E i \in DOMAIN path : path[i][1] = "foreach"
foreach_local_accumulator_target ==
  \E t \in Targets : \E name \in Appended(t) :
    \E path \in Scopes(t, "$append", name) \cap Scopes(t, "$set", name) :
      pathContainsForeach(path) /\ \A p \in Scopes(t, "$set", name) : ~isAncestorScope(p, path)

(* The ops of targets in the order they are written.                       *)
Written(ops) ==
  LET written[n \in 0..MaxNesting] ==
        [s \in Seq(walkOps(ops)) |->
           FlattenSeq([i \in DOMAIN s |->
             <<s[i]>> \o IF n = 0 THEN <<>>
                         ELSE FlattenSeq([j \in DOMAIN s[i].blocks |-> written[n - 1][s[i].blocks[j].ops]])])]
  IN written[MaxNesting][ops]
WrittenIn(names) == FlattenSeq([i \in DOMAIN names |-> Written(skill.targets[names[i]].ops)])

(* The lines that set a name to a literal.                                 *)
LiteralSets(ops, name) == SelectSeq(ops, LAMBDA o : o.kind = "$set" /\ o.set = name /\ o.val # "ref")

(* The literal a name has last been given by a list of targets, or its     *)
(* default.                                                                *)
Literal(names, name) ==
  LET sets == LiteralSets(WrittenIn(names), name)
  IN IF sets # <<>> THEN Last(sets).val ELSE IF name \in DOMAIN skill.vars THEN skill.vars[name] ELSE None
isNumericBooleanOrNullLiteral(val) == val \in {"num", "obj"}
append_to_non_list ==
  \E i \in DOMAIN skill.order : \E name \in Appended(skill.order[i]) :
    isNumericBooleanOrNullLiteral(Literal(SubSeq(skill.order, 1, i), name))

(* The op that last gave a name its value (buildBindingOrigins).           *)
Origin(v) ==
  LET ws == SelectSeq(WrittenIn(skill.order), LAMBDA o : \/ o.kind \in {"$set", "foreach"} /\ o.set = v
                                                         \/ o.kind \in {"$", "shell"} /\ o.bind = v)
  IN IF ws = <<>> THEN NoOp ELSE Last(ws)
FromCall(v) == Origin(v).kind = "$"
isOriginSuspect(v) ==
  \/ Origin(v) = NoOp /\ v \in DOMAIN skill.vars /\ skill.vars[v] = "spaced"
  \/ Origin(v).kind \in {"$", "shell", "foreach"}
  \/ Origin(v).kind = "$set" /\ Origin(v).val \in {"ref", "spaced"}
append_structured_to_string ==
  \E t \in Targets : \E op \in Walked(t) : \E r \in op.refs :
    /\ op.kind = "$append" /\ r.field = None /\ r.filter # "json"
    /\ FromCall(r.var) /\ Literal(<<t>>, op.set) \in {"text", "spaced"}
object_iteration_advisory ==
  \E op \in AllWalked : \E r \in op.refs :
    /\ op.kind = "foreach" /\ r.field = None /\ r.filter = None
    /\ FromCall(r.var) /\ Origin(r.var).tool \notin env.bareArrayReturnTools
unquoted_substitution_in_kwarg_value ==
  \E op \in Shells(AllWalked) : \E r \in op.refs : "quoted ref" \notin op.marks /\ isOriginSuspect(r.var)
set_json_literal_advisory == \E op \in AllWalked : op.kind = "$set" /\ op.val = "objects"

-----------------------------------------------------------------------------
(* The text of ops.                                                        *)

deprecated_question == \E op \in AllWalked : op.kind = "?"
deprecated_substitution_shape == \E op \in AllWalked \cup AllElse : \E r \in op.refs : r.form = "paren"
unparsed_json_field_access == \E op \in AllWalked : "field of filter" \in op.marks
numeric_subscript == \E op \in AllWalked : "index" \in op.marks
transcript_footgun == \E op \in AllWalked : \E r \in op.refs : r.field = "transcript" /\ r.filter = None
unguarded_dotted_ref_in_condition == \E op \in AllWalked : op.kind = "if" /\ "dotted" \in op.marks

(* Headers and outputs.                                                    *)
status_disabled == skill.status = "Disabled"
draft_with_trigger == skill.status = "Draft" /\ skill.triggers
legacy_frontmatter_header == "delivery-context" \in skill.marks
AgentOutputs == {o \in skill.outputs : o.kind \in {"agent", "template"}}
unused_augmenting_header == AgentOutputs = {} /\ skill.event
HasEmit(ops) == \E op \in ops : op.kind = "emit"
output_agent_target_no_emit == skill.template = {} /\ (\E o \in AgentOutputs : o.to # None) /\ ~HasEmit(AllWalked)
output_agent_target_no_connector ==
  HasRegistry /\ env.agents = {} /\ \E o \in AgentOutputs : o.to # None
TextKinds == {"text", "agent", "template", "file"}
OutputKinds == {o.kind : o \in skill.outputs}
body_template_detected ==
  skill.template # {} /\ (\A r \in skill.template : r.var = None) /\ OutputKinds \cap TextKinds = {}
emit_with_template ==
  /\ skill.template # {} /\ HasEmit(AllWalked \cup AllElse)
  /\ (skill.outputs = {} \/ OutputKinds \cap TextKinds # {})
template_looks_like_target == "ambiguous template" \in skill.marks
address_routed_wake == (\E op \in AllWalked : op.kind = "notify" /\ "@" \in op.marks) \/ \E o \in AgentOutputs : o.to = "@"

(* Something may wait for as long as it likes.                             *)
unbounded_no_deadline ==
  /\ ~skill.bounded
  /\ \E op \in AllWalked \cup AllElse :
       \/ op.kind \in {"shell", "notify"}
       \/ op.kind = "$" /\ "timeout" \notin Keys(op)

-----------------------------------------------------------------------------
(* What lint reports.                                                      *)

Report(rule, fires) == IF fires THEN {rule} ELSE {}

Errors(site) ==
  Report("parse-error", parse_error) \cup Report("no-targets", no_targets)
  \cup Report("no-entry-target", no_entry_target) \cup Report("unknown-capability", unknown_capability)
  \cup Report("undeclared-var", undeclared_var) \cup Report("unknown-returns-ref", unknown_returns_ref)
  \cup Report("unknown-filter", unknown_filter) \cup Report("unset-template-var", unset_template_var)
  \cup Report("malformed-op-grammar", malformed_op_grammar)
  \cup Report("invalid-conditional-syntax", invalid_conditional_syntax)
  \cup Report("single-equals", single_equals) \cup Report("indentation", indentation)
  \cup Report("reserved-keyword", reserved_keyword) \cup Report("unknown-connector", unknown_connector)
  \cup Report("connector-as-tool", connector_as_tool)
  \cup Report("unknown-connector-class", unknown_connector_class)
  \cup Report("unwired-primary-connector", unwired_primary_connector)
  \cup Report("disallowed-tool", disallowed_tool) \cup Report("unknown-tool-on-connector", unknown_tool_on_connector)
  \cup Report("uninitialized-append", uninitialized_append)
  \cup Report("foreach-local-accumulator-target", foreach_local_accumulator_target)
  \cup Report("append-to-non-list", append_to_non_list)
  \cup Report("disabled-skill-reference", disabled_skill_reference)
  \cup Report("secret-use-only", secret_use_only) \cup Report("secret-undeclared", secret_undeclared)
  \cup Report("secret-dynamic-name", secret_dynamic_name) \cup Report("status-disabled", status_disabled)
  \cup Report("circular-dependency", circular_dependency)
  \cup Report("missing-dependency", missing_dependency)
  \cup Report("missing-skillstore-for-data-ref", missing_skillstore_for_data_ref)
  \cup Report("unsafe-shell-disabled", unsafe_shell_disabled)
  \cup Report("shell-binary-not-allowed", shell_binary_not_allowed(site))
  \cup Report("missing-default-target", missing_default_target)
  \cup Report("colon-kwarg-syntax", colon_kwarg_syntax)

Warnings(site) ==
  Report("orphan-target", orphan_target) \cup Report("unknown-skill-reference", unknown_skill_reference)
  \cup Report("unknown-template-reference", unknown_template_reference)
  \cup Report("reference-to-disabled-skill", reference_to_disabled_skill)
  \cup Report("unexported-final-var-access", unexported_final_var_access)
  \cup Report("unknown-llm-model", unknown_llm_model) \cup Report("unknown-llm-arg", unknown_llm_arg)
  \cup Report("unknown-data-read-arg", unknown_data_read_arg)
  \cup Report("unknown-connector-arg", unknown_connector_arg)
  \cup Report("missing-required-connector-arg", missing_required_connector_arg)
  \cup Report("deprecated-addressed-to", deprecated_addressed_to)
  \cup Report("credential-in-args", credential_in_args) \cup Report("unknown-file-encoding", unknown_file_encoding)
  \cup Report("space-separated-vars", space_separated_vars)
  \cup Report("vars-space-separated", vars_space_separated)
  \cup Report("deprecated-question", deprecated_question)
  \cup Report("shell-quoted-var-in-command", shell_quoted_var_in_command)
  \cup Report("unsafe-shell-ambiguous-subst", unsafe_shell_ambiguous_subst)
  \cup Report("unsafe-shell-unescaped-subst", unsafe_shell_unescaped_subst)
  \cup Report("unsafe-shell-op", unsafe_shell_op) \cup Report("unconfirmed-mutation", unconfirmed_mutation)
  \cup Report("draft-with-trigger", draft_with_trigger)
  \cup Report("unused-augmenting-header", unused_augmenting_header)
  \cup Report("output-agent-target-no-emit", output_agent_target_no_emit)
  \cup Report("output-agent-target-no-connector", output_agent_target_no_connector)
  \cup Report("template-looks-like-target", template_looks_like_target)
  \cup Report("transcript-footgun", transcript_footgun) \cup Report("numeric-subscript", numeric_subscript)
  \cup Report("legacy-frontmatter-header", legacy_frontmatter_header)
  \cup Report("unguarded-dotted-ref-in-condition", unguarded_dotted_ref_in_condition)
  \cup Report("unquoted-substitution-in-kwarg-value", unquoted_substitution_in_kwarg_value)
  \cup Report("deprecated-substitution-shape", deprecated_substitution_shape)

Infos(site) ==
  Report("remote-result-needs-parse", remote_result_needs_parse)
  \cup Report("unverified-qualified-tool", unverified_qualified_tool)
  \cup Report("unwired-primary-connector", unwired_but_covered)
  \cup Report("unparsed-json-field-access", unparsed_json_field_access)
  \cup Report("skill-name-collision", skill_name_collision(site))
  \cup Report("set-json-literal-advisory", set_json_literal_advisory)
  \cup Report("body-template-detected", body_template_detected)
  \cup Report("emit-with-template", emit_with_template)
  \cup Report("append-structured-to-string", append_structured_to_string)
  \cup Report("object-iteration-advisory", object_iteration_advisory)
  \cup Report("address-routed-wake", address_routed_wake)
  \cup Report("unbounded-no-deadline", unbounded_no_deadline)

(* A skill with an error is not stored, compiled or run. *)
lint(site) == [errors |-> Errors(site), warnings |-> Warnings(site), infos |-> Infos(site)]
=============================================================================
