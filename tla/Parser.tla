------------------------------- MODULE Parser -------------------------------
(* parse() of parser.ts: one pass over the lines of a skill's source, with  *)
(* a stack of open blocks kept by indentation.  The source is written while *)
(* it is read: a step chooses the line that follows, which the code looks   *)
(* at before it takes `name:` for a target.  Blank lines are left out, and  *)
(* so is the folding of literals over several lines.                        *)
(* A block is named by the number of the line that opens it, an op by its   *)
(* own line.                                                                *)
EXTENDS Integers, SequencesExt

CONSTANTS
  Line,      \* the lines a source may have
  Weight(_), \* what a line counts towards the bound on a source's length
  MaxWeight, \* bound: the weight of a source
  MaxFaults, \* bound: parse errors after which a source is not continued
  none       \* null

\* What stands where: a line at the margin, and a line that is indented.
ASSUME LineAssumption ==
  /\ none \notin Line
  /\ \A l \in Line :
       /\ l.at \in Nat
       /\ l.is \in IF l.at = 0 THEN {"label", "text", "header", "if", "elif", "else"}
                 ELSE {"needs", "if", "elif", "else", "foreach", "call", "statement",
                       "block", "nospace", "odd"}
       /\ l.is = "statement" /\ l.verb \in {"$set", "$append", "?"} => l.trailer = "none"

INDENT_STEP == 4

Reserved == {"default", "needs", "if", "elif", "else", "foreach", "in", "not", "unsafe",
             "while", "for", "match", "try", "catch", "return"}

RESERVED_ENVELOPE_FIELDS == {"skill_name", "outputs", "transcript", "errors", "target_order",
                             "fallbacks", "agent_delivery_receipts", "final_vars"}

VARIABLES
  source,   \* the lines read
  here,     \* the line being read, or none at the end of the source
  current,  \* currentTarget: its header's line, or 0
  stack,    \* scopeStack
  targets,  \* the map from names to the header that holds the name
  order,    \* the names in the map's order
  tree,     \* what the lines became: ops, branches, else blocks, dependencies
  entry,    \* entryTarget
  explicit, \* entryTargetExplicit
  seen,     \* hasTargetOrDefaultBeenSeen
  template, \* templateContentBeforeTarget, templateContentAfterTarget, ambiguous lines
  head,     \* the header fields
  faults    \* parseErrors: what is wrong, and the line it is reported at

vars == <<source, here, current, stack, targets, order, tree, entry, explicit, seen,
          template, head, faults>>
ast  == <<targets, order, tree>>
goal == <<entry, explicit, seen>>

n == Len(source) + 1

EmptyTree ==
  [ops |-> <<>>, arms |-> <<>>, otherwise |-> <<>>, elseOf |-> <<>>, deps |-> <<>>]

EmptyHead ==
  [name |-> none, type |-> "procedural", status |-> none, token |-> FALSE,
   autonomous |-> none, timeout |-> none, deadline |-> none, vars |-> <<>>,
   returns |-> <<>>, tags |-> {}, triggers |-> {}, outputs |-> <<>>, eventType |-> none,
   templates |-> <<>>, requires |-> {}, secrets |-> {}, capabilities |-> {}]

Init ==
  /\ source = <<>> /\ here \in Line
  /\ current = 0 /\ stack = <<>>
  /\ targets = <<>> /\ order = <<>> /\ tree = EmptyTree
  /\ entry = none /\ explicit = FALSE /\ seen = FALSE
  /\ template = [before |-> FALSE, after |-> FALSE, ambiguous |-> {}]
  /\ head = EmptyHead /\ faults = {}

-----------------------------------------------------------------------------
(* Reading                                                                  *)

Reading == here # none

When(b, f) == IF b THEN {f} ELSE {}

\* The map f in which a has the entry b.
With(f, a, b) == [x \in DOMAIN f \cup {a} |-> IF x = a THEN b ELSE f[x]]

\* Every step reports what it found in its line and goes on to the next.
Report(F) ==
  /\ faults' = faults \cup {[line |-> n, fault |-> f] : f \in F}
  /\ source' = Append(source, here)
  /\ here' \in LET left == FoldSeq(LAMBDA l, w : w - Weight(l), MaxWeight, source')
               IN  {none} \cup {l \in Line : Weight(l) <= left /\ Cardinality(faults') < MaxFaults}

Faulty(f) == Report({f})
Sound     == Report({})

HasOpBlock == here' # none /\ here'.at > 0

-----------------------------------------------------------------------------
(* Header fields: `# Field: value`, at any line that starts with `#`        *)

Scalars == {"type", "autonomous", "timeout", "deadline"}

Exports(entries) ==
  LET good(e) == ~e.default /\ e.name \notin RESERVED_ENVELOPE_FIELDS
  IN  SelectSeq(entries, good)

Names(entries) == [i \in DOMAIN entries |-> entries[i].name]

TriggerOk(t) == t.source \in {"cron", "event"} /\ t.name # ""

OutputOk(o) == IF o.colon THEN o.kind \in {"agent", "template", "file"} /\ o.target
               ELSE o.kind \in {"text", "none"}

Gathered(a, b) == a \cup b

\* The fields after a line; a value that is refused leaves its field alone.
Single(h, l) ==
  LET v == l.value IN
  CASE l.field = "skill"      -> [h EXCEPT !.name = v]
    [] l.field \in Scalars    -> IF v = "other" THEN h ELSE [h EXCEPT ![l.field] = v]
    [] l.field = "status"     -> IF v.status = "other" THEN h
                                 ELSE [h EXCEPT !.status = v.status,
                                         !.token = @ \/ (v.token /\ v.status = "Approved")]
    [] OTHER -> h

Declared(h, l) ==
  CASE l.field = "vars"    -> [h EXCEPT !.vars = l.value]
    [] l.field = "returns" -> [h EXCEPT !.returns = Names(Exports(l.value))]
    [] OTHER -> h

Listed(h, l) ==
  LET v == l.value IN
  CASE l.field = "tags"       -> [h EXCEPT !.tags = Gathered(@, v)]
    [] l.field = "triggers"   -> [h EXCEPT !.triggers = Gathered(@, {t \in v : TriggerOk(t)})]
    [] l.field = "output"     -> [h EXCEPT !.outputs = @ \o SelectSeq(v, OutputOk)]
    [] l.field = "event-type" -> [h EXCEPT !.eventType = v]
    [] l.field = "templates"  -> [h EXCEPT !.templates = v]
    [] l.field = "requires"   -> [f \in DOMAIN h |-> IF f \in DOMAIN v THEN Gathered(h[f], v[f])
                                                     ELSE h[f]]
    [] OTHER -> h

Headed(h, l) == Listed(Declared(Single(h, l), l), l)

HeaderFaults(l) ==
  LET v == l.value IN
  CASE l.field = "skill"      -> When(v \in Reserved, "reserved")
    [] l.field \in Scalars   -> When(v = "other", l.field)
    [] l.field = "status"     -> When(v.status = "other" \/ (v.token /\ v.status # "Approved"),
                                      "status")
    [] l.field = "vars"       -> When(ToSet(Names(v)) \cap Reserved # {}, "reserved")
    [] l.field = "returns"    -> When(Len(Exports(v)) < Len(v), "returns")
                                 \cup When(ToSet(Names(Exports(v))) \cap Reserved # {},
                                           "reserved")
    [] l.field = "onerror"    -> {"onerror"}
    [] l.field = "triggers"   -> When(\E t \in v : ~TriggerOk(t), "triggers")
    [] l.field = "output"     -> When(\E o \in ToSet(v) : ~OutputOk(o), "output")
    [] OTHER -> {}

Header ==
  /\ Reading /\ here.is = "header"
  /\ head' = Headed(head, here)
  /\ Report(HeaderFaults(here))
  /\ UNCHANGED <<current, stack, ast, goal, template>>

-----------------------------------------------------------------------------
(* Lines at the margin                                                      *)

\* `name:` is a target only when the next line is indented, else it is prose.
Prose == here.is = "text" \/ (here.is = "label" /\ here.name # "default" /\ ~HasOpBlock)

recordTemplate ==
  template' = [template EXCEPT
    !.before = @ \/ ~seen, !.after = @ \/ seen,
    !.ambiguous = IF here.is = "label" /\ here.deps = <<>> THEN @ \cup {n} ELSE @]

Text ==
  /\ Reading /\ here.is \in {"text", "label"}
  /\ Sound /\ Prose
  /\ recordTemplate
  /\ UNCHANGED <<current, stack, ast, goal, head>>

\* Before the first target an indented line is prose too.
IndentedText ==
  /\ Reading /\ here.at > 0 /\ ~seen
  /\ Sound
  /\ recordTemplate
  /\ UNCHANGED <<current, stack, ast, goal, head>>

TopIf ==
  /\ Reading /\ here.at = 0 /\ here.is \in {"if", "elif"}
  /\ Faulty("top-level-if")
  /\ UNCHANGED <<current, stack, ast, goal, template, head>>

Frame(kind, depth, chain) == [kind |-> kind, depth |-> depth, block |-> n, chain |-> chain]

Top == Last(stack)

\* The else block of a target: the frame on top is taken for the target's own.
TopElse ==
  /\ Reading /\ here.at = 0 /\ here.is = "else"
  /\ \/ /\ current = 0 \/ stack = <<>>
        /\ Faulty("else-without-target") /\ UNCHANGED <<stack, tree>>
     \/ /\ current # 0 /\ stack # <<>> /\ Top.kind = "target-else"
        /\ Faulty("duplicate-else") /\ UNCHANGED <<stack, tree>>
     \/ /\ current # 0 /\ stack # <<>> /\ Top.kind # "target-else"
        /\ stack' = Append(Front(stack), Frame("target-else", INDENT_STEP, 0))
        /\ tree' = [tree EXCEPT !.elseOf = With(@, current, n)]
        /\ Sound
  /\ UNCHANGED <<current, targets, order, goal, template, head>>

Default ==
  /\ Reading /\ here.is = "label" /\ here.name = "default"
  /\ Sound
  /\ entry' = IF here.deps = <<>> THEN none ELSE Head(here.deps)
  /\ explicit' = TRUE /\ seen' = TRUE
  /\ current' = 0 /\ stack' = <<>>
  /\ UNCHANGED <<ast, template, head>>

\* A header takes its name over from an earlier one and keeps its place.
TargetHeader ==
  /\ Reading /\ here.is = "label" /\ here.name # "default"
  /\ seen' = TRUE
  /\ current' = n /\ stack' = <<Frame("main", INDENT_STEP, 0)>>
  /\ targets' = With(targets, here.name, n)
  /\ order' = IF here.name \in DOMAIN targets THEN order ELSE Append(order, here.name)
  /\ tree' = [tree EXCEPT !.deps = With(@, n, here.deps)]
  /\ Report(When(here.name \in Reserved, "reserved")) /\ HasOpBlock
  /\ UNCHANGED <<entry, explicit, template, head>>

-----------------------------------------------------------------------------
(* Indented lines                                                           *)

Indented == Reading /\ here.at > 0 /\ seen

Homeless == current = 0 \/ stack = <<>>

Orphan ==
  /\ Indented /\ Homeless
  /\ Faulty("orphan")
  /\ UNCHANGED <<current, stack, ast, goal, template, head>>

\* Variant: the depth of the block is not compared.
AnyIf(f) == f.kind \in {"if", "elif"}

\* `elif` and `else` look for the `if` they continue before anything is closed.
Continues(f) == f.kind \in {"if", "elif"} /\ f.depth = here.at + INDENT_STEP

contIdx == IF here.is \in {"elif", "else"} THEN SelectLastInSeq(stack, Continues) ELSE 0

\* A refused condition still opens a block, so that its lines are not reported too.
Continue ==
  /\ Indented /\ ~Homeless /\ contIdx > 0
  /\ LET f == stack[contIdx] IN
     \/ /\ here.is = "elif" /\ here.cond = "malformed"
        /\ stack' = SubSeq(stack, 1, contIdx - 1)
        /\ Faulty("malformed") /\ UNCHANGED tree
     \/ /\ here.is = "elif" /\ here.cond \in {"single-equals", "condition"}
        /\ stack' = Append(SubSeq(stack, 1, contIdx - 1), Frame("elif", f.depth, f.chain))
        /\ Faulty(here.cond) /\ UNCHANGED tree
     \/ /\ here.is = "elif" /\ here.cond = "ok"
        /\ stack' = Append(SubSeq(stack, 1, contIdx - 1), Frame("elif", f.depth, f.chain))
        /\ tree' = [tree EXCEPT !.arms[f.chain] = Append(@, n)]
        /\ Sound
     \/ /\ here.is = "else"
        /\ stack' = Append(SubSeq(stack, 1, contIdx - 1),
                           Frame("conditional-else", f.depth, f.chain))
        /\ tree' = [tree EXCEPT !.otherwise = With(@, f.chain, n)]
        /\ Sound
  /\ UNCHANGED <<current, targets, order, goal, template, head>>

\* Variant: a block at the line's own depth is closed as well.
popBelow(s, depth) == SubSeq(s, 1, SelectLastInSeq(s, LAMBDA f : f.depth < depth))

popToDepth(s, depth) ==
  SubSeq(s, 1, SelectLastInSeq(s, LAMBDA f : f.depth <= depth))

Popped == popToDepth(stack, here.at)

Deepest == Indented /\ ~Homeless /\ contIdx = 0

\* Less than one step in: every block is closed and the line is left out.
Dropped ==
  /\ Deepest /\ Popped = <<>>
  /\ Sound
  /\ stack' = <<>>
  /\ UNCHANGED <<current, ast, goal, template, head>>

MidBlock ==
  /\ Deepest /\ Popped # <<>> /\ Last(Popped).depth # here.at
  /\ stack' = Popped
  /\ Faulty("mid-block")
  /\ UNCHANGED <<current, ast, goal, template, head>>

InBlock == Deepest /\ Popped # <<>> /\ Last(Popped).depth = here.at

\* Variant: the block is looked up before the deeper ones are closed.
PlacedOnTop(op) == With(tree.ops, n, [op EXCEPT !.block = Top.block])

Placed(op) == With(tree.ops, n, [op EXCEPT !.block = Last(Popped).block])

Opened(kind, chain) == Append(Popped, Frame(kind, here.at + INDENT_STEP, chain))

Plain(op) == [op |-> op, block |-> 0, binds |-> FALSE, fallback |-> FALSE, approved |-> FALSE]

\* A line in a block that becomes nothing: stack closed, the fault reported.
Refuse(f) ==
  /\ stack' = Popped
  /\ Faulty(f)
  /\ UNCHANGED <<current, ast, goal, template, head>>

Needs ==
  /\ InBlock /\ here.is = "needs" /\ Last(Popped).kind = "main"
  /\ Sound
  /\ stack' = Popped
  /\ tree' = [tree EXCEPT !.deps[current] = @ \o here.deps]
  /\ UNCHANGED <<current, targets, order, goal, template, head>>

StrayElif == InBlock /\ here.is = "elif" /\ Refuse("elif-without-if")

If ==
  /\ InBlock /\ here.is = "if"
  /\ \/ here.cond = "malformed" /\ Refuse("malformed")
     \/ /\ here.cond \in {"single-equals", "condition"}
        /\ stack' = Opened("if", n)
        /\ tree' = [tree EXCEPT !.arms = With(@, n, <<n>>)]
        /\ Faulty(here.cond)
        /\ UNCHANGED <<current, targets, order, goal, template, head>>
     \/ /\ here.cond = "ok"
        /\ stack' = Opened("if", n)
        /\ tree' = [tree EXCEPT !.ops = Placed(Plain("if")), !.arms = With(@, n, <<n>>)]
        /\ Sound
        /\ UNCHANGED <<current, targets, order, goal, template, head>>

Foreach ==
  /\ InBlock /\ here.is = "foreach"
  /\ \/ here.iter = none /\ Refuse("malformed")
     \/ /\ here.iter # none
        /\ stack' = Opened("foreach", 0)
        /\ tree' = [tree EXCEPT !.ops = Placed(Plain("foreach"))]
        /\ Report(When(here.iter \in Reserved, "reserved"))
        /\ UNCHANGED <<current, targets, order, goal, template, head>>

-----------------------------------------------------------------------------
(* Ops.  A function call is [fn, balanced, named, args, trailer]: args maps *)
(* the names of the arguments to what the code looks at in their values.    *)

Trailers == {"none", "binds", "fallback", "both"}

Binds(l)    == l.trailer \in {"binds", "both"}
Falls(l)    == l.trailer \in {"fallback", "both"}
Given(l, a) == a \in DOMAIN l.args

\* Which of binding, fallback and approval the op of a call keeps.
Keeps ==
  [ emit          |-> {"approved"},
    inline        |-> {"binds", "fallback", "approved"},
    execute_skill |-> {"binds", "fallback", "approved"},
    shell         |-> {"binds", "fallback", "approved"},
    file_read     |-> {"binds", "fallback"},
    file_write    |-> {"binds", "approved"},
    notify        |-> {"binds", "fallback", "approved"} ]

SkillNamed(l) ==
  Given(l, "name") /\ Given(l, "skill_name") => l.args.name = l.args.skill_name

ShellFault(l) ==
  IF ~Given(l, "argv") THEN {}
  ELSE IF Given(l, "command") THEN {"argv-and-command"}
  ELSE IF Given(l, "unsafe") /\ l.args.unsafe = "true" THEN {"argv-and-unsafe"}
  ELSE When(l.args.argv # "strings", "argv")

\* What keeps a call from becoming an op.
CallFaults(l) ==
  IF ~l.balanced THEN {"unbalanced"}
  ELSE IF ~l.named THEN {"argument"}
  ELSE IF l.trailer \notin Trailers THEN {"trailer"}
  ELSE CASE l.fn = "emit"          -> When(Binds(l), "emit-binds")
         [] l.fn = "execute_skill" -> When(~SkillNamed(l), "two-names")
         [] l.fn = "shell"         -> ShellFault(l)
         [] l.fn \in {"inline", "file_read", "file_write", "notify"} -> {}
         [] OTHER                  -> {"unknown-call"}

CallOp(l) ==
  LET keeps == Keeps[l.fn]
  IN  [op       |-> IF l.fn = "execute_skill" THEN "$" ELSE l.fn,
       block    |-> 0,
       binds    |-> "binds" \in keeps /\ Binds(l),
       fallback |-> "fallback" \in keeps /\ Falls(l),
       approved |-> "approved" \in keeps /\ Given(l, "approved")]

\* A bad list of connectors is reported, and the op is kept without it.
Connectors(l) == l.fn = "notify" /\ Given(l, "connectors") /\ l.args.connectors # "strings"

Call ==
  /\ InBlock /\ here.is = "call"
  /\ \/ /\ CallFaults(here) # {}
        /\ \E f \in CallFaults(here) : Refuse(f)
     \/ /\ CallFaults(here) = {}
        /\ stack' = Popped
        /\ tree' = [tree EXCEPT !.ops = Placed(CallOp(here))]
        /\ Report(When(Connectors(here), "connectors"))
        /\ UNCHANGED <<current, targets, order, goal, template, head>>

\* `$ tool`, `$set`, `$append`, `?` and the ops of earlier versions.
Legacy == {">", "~", "&", "??", "@", "!"}

\* The tail of `$` is looked for only when the result is bound.
StatementOp(l) ==
  [op |-> l.verb, block |-> 0, approved |-> l.verb = "$" /\ l.approved,
   binds |-> l.verb = "$" /\ Binds(l), fallback |-> l.verb = "$" /\ l.trailer = "both"]

Statement ==
  /\ InBlock /\ here.is = "statement"
  /\ \/ here.verb \in Legacy /\ Refuse("legacy")
     \/ here.verb \in {"$set", "$append"} /\ ~here.shaped /\ Refuse("malformed")
     \/ /\ here.verb \in {"$", "?"} \/ (here.verb \in {"$set", "$append"} /\ here.shaped)
        /\ Sound
        /\ stack' = Popped
        /\ tree' = [tree EXCEPT !.ops = Placed(StatementOp(here))]
        /\ UNCHANGED <<current, targets, order, goal, template, head>>

\* A word and a colon that open no block the language knows, `else:` included:
\* the lines below it are taken in and thrown away.
UnknownBlock ==
  /\ InBlock /\ here.is \in {"block", "else"}
  /\ stack' = Opened("unknown-block", 0)
  /\ Faulty("unknown-block")
  /\ UNCHANGED <<current, ast, goal, template, head>>

NoSpace == InBlock /\ here.is = "nospace" /\ Refuse("no-space")

\* What is none of these, a comment or a `needs:` in a nested block, is passed over.
PassedOver ==
  /\ InBlock
  /\ \/ here.is = "odd"
     \/ here.is = "needs" /\ Last(Popped).kind # "main"
  /\ Sound
  /\ stack' = Popped
  /\ UNCHANGED <<current, ast, goal, template, head>>

-----------------------------------------------------------------------------
(* The end of the source                                                    *)

lastTarget == IF order = <<>> THEN none ELSE Last(order)

Result == IF entry = none THEN lastTarget ELSE entry

EndFaults ==
  When(Result # none /\ Result \notin DOMAIN targets, "missing-entry")
  \cup When(template.before /\ template.after, "two-templates")


-----------------------------------------------------------------------------
Next ==
  \/ Header \/ Text \/ IndentedText \/ TopIf \/ TopElse \/ Default \/ TargetHeader
  \/ Orphan \/ Continue \/ Dropped \/ MidBlock
  \/ Needs \/ StrayElif \/ If \/ Foreach \/ Call \/ Statement
  \/ UnknownBlock \/ NoSpace \/ PassedOver

Spec == Init /\ [][Next]_vars

-----------------------------------------------------------------------------
(* What the indentation says, line by line                                  *)

Lines == 1..Len(source)

Below(j) == IF j = Len(source) THEN here ELSE source[j + 1]

\* `name:` above an indented line is a target.
IsTarget(j) == /\ source[j].is = "label" /\ source[j].name # "default"
               /\ Below(j) # none /\ Below(j).at > 0

IsDefault(j) == source[j].is = "label" /\ source[j].name = "default"

Counts(j) == IsTarget(j) \/ IsDefault(j) \/ source[j].is \notin {"text", "header", "label"}

Opens(j) ==
  \/ IsTarget(j) \/ source[j].is = "else"
  \/ source[j].is \in {"if", "elif"} /\ source[j].at > 0 /\ source[j].cond = "ok"
  \/ source[j].is = "foreach" /\ source[j].iter # none

\* The lines of target bodies, and the line each one stands under.
InBody == {l \in Lines : source[l].at > 0 /\ \E j \in 1..(l - 1) : IsTarget(j) \/ IsDefault(j)}

LastOf(S) == IF S = {} THEN 0 ELSE Max(S)

Owner(l) == LastOf({j \in 1..(l - 1) : Counts(j) /\ source[j].at < source[l].at})

WellSet(l) == /\ Owner(l) # 0 /\ Opens(Owner(l))
              /\ source[l].at = source[Owner(l)].at + INDENT_STEP

\* The `if` that an indented `elif` or `else` continues.
IfOf(l) ==
  LET j == LastOf({j \in 1..(l - 1) : /\ Counts(j) /\ source[j].at <= source[l].at
                                      /\ ~(source[j].is = "elif" /\ source[j].at = source[l].at)})
  IN  IF j # 0 /\ source[j].is = "if" /\ source[j].at = source[l].at THEN j ELSE 0

IsOp(l) == source[l].is \in {"call", "statement", "foreach", "if"}

-----------------------------------------------------------------------------
(* What the tree holds                                                      *)

Live[b \in 0..Len(source)] ==
  \/ \E x \in DOMAIN targets : targets[x] = b
  \/ \E x \in DOMAIN targets : targets[x] \in DOMAIN tree.elseOf /\ tree.elseOf[targets[x]] = b
  \/ b \in DOMAIN tree.ops /\ tree.ops[b].op = "foreach" /\ Live[tree.ops[b].block]
  \/ \E i \in DOMAIN tree.ops \cap DOMAIN tree.arms :
       /\ b \in ToSet(tree.arms[i]) \/ (i \in DOMAIN tree.otherwise /\ tree.otherwise[i] = b)
       /\ Live[tree.ops[i].block]

Kept(l) == l \in DOMAIN tree.ops /\ Live[tree.ops[l].block]

\* The source is read and nothing was wrong with it.
Clean == here = none /\ faults = {} /\ EndFaults = {}

TargetOf(l) == LastOf({j \in 1..(l - 1) : IsTarget(j) \/ IsDefault(j)})

MarginElse(j) == source[j].at = 0 /\ source[j].is = "else"

\* The shapes of source the parser is silent about and that it takes otherwise
\* than the indentation says.
OneHeaderPerName == \A i, j \in Lines : IsTarget(i) /\ IsTarget(j) /\ i # j
                                        => source[i].name # source[j].name

OneElsePerTarget == \A i, j \in Lines : MarginElse(i) /\ MarginElse(j) /\ i # j
                                        => TargetOf(i) # TargetOf(j)

\* No `else:` at the margin below a block in a block, whose frames would outlive it.
ElseBelowOneBlock ==
  \A j \in Lines : MarginElse(j) =>
    LET p == LastOf({i \in 1..(j - 1) : Counts(i)}) IN
      p # 0 => source[p].at + (IF Opens(p) THEN INDENT_STEP ELSE 0) <= 2 * INDENT_STEP

Stepped == \A l \in InBody : source[l].at >= INDENT_STEP

Regular == OneHeaderPerName /\ OneElsePerTarget /\ ElseBelowOneBlock /\ Stepped

\* What a line says of its result and of its authorization is in its op.
Says(l) ==
  source[l].is \in {"call", "statement"} =>
    /\ tree.ops[l].binds = (Binds(source[l]) /\ tree.ops[l].op # "?")
    /\ source[l].is = "call" /\ source[l].fn # "file_read" /\ Given(source[l], "approved")
       => tree.ops[l].approved

-----------------------------------------------------------------------------
(* Properties                                                               *)

\* An op of a target body is kept in the block its indentation puts it in,
\* with its binding and its approval, or the parse has an error.
KeptWhereWritten ==
  Clean /\ Regular =>
    \A l \in InBody : IsOp(l) =>
      WellSet(l) /\ Kept(l) /\ tree.ops[l].block = Owner(l) /\ Says(l)

\* An `elif` and an `else` are branches of the `if` they stand below.
BranchWhereWritten ==
  Clean /\ Regular =>
    \A l \in InBody : source[l].is \in {"elif", "else"} =>
      LET i == IfOf(l) IN
        /\ i # 0 /\ Kept(i)
        /\ IF source[l].is = "elif" THEN l \in ToSet(tree.arms[i])
           ELSE i \in DOMAIN tree.otherwise /\ tree.otherwise[i] = l

\* A line one step below a header, an `else`, an `if`, an `elif`, a `foreach` or
\* an unknown block is not reported for its indentation, not even when the
\* condition or the word above it was refused.
NoCascade ==
  here = none /\ Regular =>
    \A f \in faults : f.fault \in {"orphan", "mid-block"} =>
      LET o == Owner(f.line)
          t == TargetOf(f.line)
      IN  ~ /\ t # 0 /\ IsTarget(t)
            /\ source[o].is \in {"label", "else", "if", "elif", "foreach", "block"}
            /\ source[f.line].at = source[o].at + INDENT_STEP
            /\ \A g \in faults : g.line = o =>
                 g.fault \in {"single-equals", "condition", "unknown-block", "reserved"}
=============================================================================
