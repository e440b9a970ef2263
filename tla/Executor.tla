------------------------------ MODULE Executor ------------------------------
(* One run of a skill and of the skills it composes (runtime.ts,           *)
(* composition.ts, mutation-gate.ts): execute() walks the targets of a     *)
(* skill, execOps and execOp their ops, `$ execute_skill` starts a nested  *)
(* execute().  The call stack of the nested executes is `stack`, an        *)
(* exception on its way up is `exc`, the op or delivery that is awaited is *)
(* `flight`.  Data is left out but for which variables are bound.          *)
EXTENDS Integers, SequencesExt

CONSTANTS
  Var,        \* variables ops bind and refer to
  Ops,        \* the ops that occur in stored bodies, at any depth
  Body,       \* stored bodies: a function from their names to their code
  Setup,      \* the stores and the ways of starting a run a behaviour begins with
  Never,      \* "no deadline", "no timer"
  CleanupCap, \* CLEANUP_CAP_MS, in ticks
  Absolute,   \* DEFAULT_RUNTIME_ABSOLUTE_TIMEOUT_MS, in ticks
  MaxDepth,   \* DEFAULT_MAX_RECURSION_DEPTH
  MaxItems    \* bound: items of a foreach list

ASSUME Times == /\ CleanupCap \in Nat \ {0} /\ Absolute \in Nat \ {0}
                /\ MaxDepth \in Nat /\ MaxItems \in Nat /\ Never \notin Nat

VARIABLES
  setup,   \* the skill store, how the run was started, the operator's settings; never changes
  stack,   \* frames of execute(), outermost first
  exc,     \* the exception being thrown
  flight,  \* what the top frame awaits
  outcome, \* what the caller of the outermost run got
  issued,  \* history: every effect that was started, and for which skill
  lost,    \* history: the ops the deadline cut before they had answered
  raised   \* history: the deadline has been raised

vars == <<setup, stack, exc, flight, outcome, issued, lost, raised>>

-----------------------------------------------------------------------------
(* Instants are kept as the time left until them.                          *)

Time == Nat \cup {Never}

\* What the parser makes of a body, and what a store and a caller may be.  A
\* `$` op is `bare` when it names its tool without a connector: `$ llm` and not
\* `$ remote.llm`.  An op is `effecting` when it may really change something
\* outside; a shell op always may, the bare built-ins of DISPATCH_NON_EFFECTING
\* never do.  Triggers and calls by name pass the approval gate before the run
\* starts.
NonEffecting == {"data_read", "json_parse", "execute_skill", "llm"}

Harmless(op) == op.tool \in NonEffecting /\ op.bare

\* A connector's tool that happens to bear the name of one of these built-ins.
Homonym(op) == op.tool \in NonEffecting /\ ~op.bare

Kinds == {"local", "append", "inline", "json_parse", "tool", "skill", "shell", "file_read",
          "file_write", "notify", "if", "foreach", "item", "end"}

ASSUME Parsed ==
  /\ Ops \subseteq [kind : Kinds \ {"item", "end"}, id : STRING, tool : STRING, bare : BOOLEAN,
                   fallback : BOOLEAN, mutation : BOOLEAN, approved : BOOLEAN,
                   effecting : BOOLEAN, outlives : BOOLEAN, timeout : Nat,
                   uses : SUBSET Var, out : SUBSET Var, body : Seq(Ops), orelse : Seq(Ops),
                   child : STRING]
  /\ \A o \in Ops : (o.kind = "shell" => o.effecting) /\ (Harmless(o) => ~o.effecting)
  /\ \A b \in DOMAIN Body :
       /\ Body[b] \in [targets : Seq([ops : Seq(Ops), recovers : BOOLEAN, orelse : Seq(Ops)]),
                      autonomous : BOOLEAN, deadline : Time, timeout : Nat,
                      template : SUBSET Var, delivers : BOOLEAN, address : SUBSET Var]
       /\ Body[b].targets # <<>>

ASSUME Started ==
  \A q \in Setup :
    /\ q.store \in [DOMAIN q.store -> DOMAIN Body]
    /\ q.approved \in [DOMAIN q.store -> BOOLEAN]
    /\ q.skill \in DOMAIN q.store /\ q.entry \in {"trigger", "name", "source"}
    /\ q.secured \in BOOLEAN /\ q.mechanical \in BOOLEAN /\ q.ceiling \in Time
    /\ q.entry # "source" => q.approved[q.skill]

Earlier(a, b) == IF a = Never THEN b ELSE IF b = Never \/ a <= b THEN a ELSE b

Passed(t) == t # Never /\ t = 0

Sooner(t) == IF t = Never \/ t = 0 THEN t ELSE t - 1

-----------------------------------------------------------------------------
Code(s) == Body[setup.store[s]]

Top == Last(stack)
Op  == Head(Top.todo)

NoExc   == [kind |-> "none", id |-> "none", cut |-> {}]
Landed  == [phase |-> "idle", timer |-> Never, reserve |-> 0]
Running == [kind |-> "running", errors |-> {}, expired |-> FALSE, uncertain |-> {}]

WithTop(f) == [stack EXCEPT ![Len(stack)] = f]

Enter(f, part, todo) == [f EXCEPT !.part = part, !.todo = todo]

Bound(inherited, own) == Earlier(Earlier(inherited, setup.ceiling), own)

\* execute(): a frame starts with the tightest of the inherited bound, the
\* operator's ceiling and its own `# Deadline:`.
Frame(s, depth, runRoot, auth, inherited) ==
  [skill |-> s, depth |-> depth, runRoot |-> runRoot, auth |-> auth,
   left |-> Bound(inherited, Code(s).deadline),
   target |-> 1, part |-> "ops", todo |-> Code(s).targets[1].ops,
   bound |-> {}, errors |-> {}, done |-> {}, expired |-> FALSE, uncertain |-> {}]

\* Variant: whichever run is cut first returns what it has.
EveryRun(f) == TRUE

\* The boundary that turns the deadline into a result.
IsRoot(f) == f.depth = 0 \/ f.runRoot

\* The scheduler calls execute() itself; MCP callers go through
\* executeSkillByName, or executeSkillFromSource for a body of their own.
FirstFrame ==
  LET s == setup.skill IN
  CASE setup.entry = "trigger" -> Frame(s, 0, FALSE, TRUE, Never)
    [] setup.entry = "name"    -> Frame(s, 1, TRUE, TRUE, Never)
    [] setup.entry = "source"  -> Frame(s, 1, TRUE, ~setup.secured \/ setup.approved[s], Never)

Init == /\ setup \in Setup
        /\ stack = <<FirstFrame>>
        /\ exc = NoExc
        /\ flight = Landed
        /\ outcome = Running
        /\ issued = {}
        /\ lost = {}
        /\ raised = FALSE

-----------------------------------------------------------------------------
(* How an op ends.                                                         *)

\* An op's value is bound and the next op is up.
Finished(f, op) == [f EXCEPT !.todo = Tail(@), !.bound = @ \cup op.out, !.done = @ \cup {op.id}]

Finish == /\ stack' = WithTop(Finished(Top, Op))
          /\ flight' = Landed
          /\ UNCHANGED <<exc, outcome, lost, raised>>

Throw(e) == /\ exc' = e
            /\ flight' = Landed
            /\ UNCHANGED <<stack, outcome>>

Raise == Throw([NoExc EXCEPT !.kind = "op", !.id = Op.id]) /\ UNCHANGED <<lost, raised>>

\* A failure inside the try of an op's handler binds the `(fallback:)`.
Fail == IF Op.fallback THEN Finish ELSE Raise

\* Variant: what the mutation gate takes for a mutation.
MutatingName(op) == op.mutation

\* dispatchUncertainWhenCut looks at the tool's name, its connector left off; a
\* shell op is always uncertain.
UncertainWhenCut(op) == op.kind = "shell" \/ op.tool \notin NonEffecting

\* RunDeadlineExceeded for the op in flight, tagged with it.
Cut == /\ Throw([kind |-> "deadline", id |-> Op.id,
                 cut |-> IF UncertainWhenCut(Op) THEN {Op.id} ELSE {}])
       /\ lost' = lost \cup {Op}
       /\ raised' = TRUE

-----------------------------------------------------------------------------
(* execOps and execOp up to the dispatch.                                  *)

Gates == {"tool", "skill", "json_parse"}                    \* the `$` ops
Effects == Gates \cup {"shell", "file_read", "file_write", "notify"}
Dispatches == {"tool", "shell"}

AtOp == /\ outcome.kind = "running"
        /\ exc = NoExc
        /\ flight = Landed
        /\ Top.part \in {"ops", "else"}
        /\ Top.todo # <<>>

\* Variant: the `# Autonomous:` of the run's first skill covers what it composes.
UnconfirmedByRoot(op) == op.mutation /\ ~op.approved /\ ~Code(stack[1].skill).autonomous

\* classifyMutation and authorizationGranted.
Unconfirmed(op) == op.mutation /\ ~op.approved /\ ~Code(Top.skill).autonomous

\* The secured-mode choke of execOpInner.
Unauthorized(op) == op.kind \in Effects /\ setup.secured /\ ~Top.auth

\* A foreach over an unset variable has no items.
Unbound(op) == op.kind # "foreach" /\ ~(op.uses \subseteq Top.bound)

Cleared(kinds) == /\ AtOp
                  /\ Op.kind \in kinds
                  /\ ~Unconfirmed(Op) /\ ~Unauthorized(Op) /\ ~Unbound(Op)
                  /\ UNCHANGED setup

\* None of these is inside the try that a fallback belongs to.
Refused == /\ AtOp
           /\ Unconfirmed(Op) \/ Unauthorized(Op) \/ Unbound(Op)
           /\ Raise
           /\ UNCHANGED <<setup, issued>>

\* $set, ? and emit.
Local == Cleared({"local"}) /\ Finish /\ UNCHANGED issued

\* $append needs a list or a string to append to.
Accumulate == Cleared({"append"}) /\ (Finish \/ Raise) /\ UNCHANGED issued

Inline == Cleared({"inline"}) /\ Raise /\ UNCHANGED issued

\* Mechanical mode runs no effect; a shell op has looked at the deadline by then.
Preview == /\ Cleared(Effects)
           /\ setup.mechanical
           /\ ~(Op.kind = "shell" /\ Passed(Top.left))
           /\ Finish
           /\ UNCHANGED issued

JsonParse == /\ Cleared({"json_parse"})
             /\ ~setup.mechanical
             /\ Finish \/ Fail
             /\ UNCHANGED issued

\* resolveOpTimeoutMs fails fast for `$` and shell.
PastDeadline == /\ Cleared(Dispatches)
                /\ setup.mechanical => Op.kind = "shell"
                /\ Passed(Top.left)
                /\ Throw([NoExc EXCEPT !.kind = "deadline", !.id = Op.id])
                /\ raised' = TRUE
                /\ UNCHANGED <<issued, lost>>

\* A secret the skill does not declare, a tool or a path the operator did not
\* list: thrown before the op's try.
Undeclared == /\ Cleared(Gates \cup {"file_read", "file_write"})
              /\ Op.kind \in Gates \/ ~setup.mechanical
              /\ Raise
              /\ UNCHANGED issued

\* A binary that is not listed and a connector that is not wired: inside it.
Denied == /\ Cleared(Dispatches)
          /\ ~setup.mechanical /\ ~Passed(Top.left)
          /\ Fail
          /\ UNCHANGED issued

-----------------------------------------------------------------------------
(* Dispatch: an op in flight, its timer and the deadline.                  *)

\* Variant: no built-in bound.
DeclaredTimeout(f, op) == IF op.timeout # 0 THEN op.timeout
                          ELSE IF Code(f.skill).timeout # 0 THEN Code(f.skill).timeout
                          ELSE Never

BaseTimeout(f, op) == IF op.kind = "tool" /\ op.timeout # 0 THEN op.timeout
                      ELSE IF Code(f.skill).timeout # 0 THEN Code(f.skill).timeout
                      ELSE Absolute

\* The cleanup slice is reserved for connectors that have an onAbort.
Reserve(f, op) == IF op.kind = "tool" /\ op.outlives /\ f.left # Never
                  THEN Earlier(CleanupCap, f.left)
                  ELSE 0

Timer(f, op) == IF op.kind \notin Dispatches THEN Never
                ELSE Earlier(BaseTimeout(f, op),
                             IF f.left = Never THEN Never ELSE f.left - Reserve(f, op))

Effect(f, id, unconfirmed) == [id |-> id, skill |-> f.skill, unconfirmed |-> unconfirmed]

Issue == /\ Cleared(Effects \ {"skill", "json_parse"})
         /\ ~setup.mechanical
         /\ Op.kind \in Dispatches => ~Passed(Top.left)
         /\ flight' = [phase |-> "open", timer |-> Timer(Top, Op), reserve |-> Reserve(Top, Op)]
         /\ issued' = issued \cup {Effect(Top, Op.id, Op.mutation /\ ~Op.approved)}
         /\ UNCHANGED <<stack, exc, outcome, lost, raised>>

InFlight(phases) == flight.phase \in phases /\ UNCHANGED <<setup, issued>>

\* The value of a promise that settles in time, or while onAbort still runs.
Answered == InFlight({"open", "cleanup"}) /\ Finish

\* A tool result with isError is thrown after the try: no fallback applies.
ToolError == InFlight({"open", "cleanup"}) /\ Op.kind = "tool" /\ Raise

\* A rejection; one that follows the deadline's abort is the deadline.  notify
\* puts failures into its ack, file_write has no fallback.
Rejected == /\ InFlight({"open", "cleanup"})
            /\ Op.kind # "notify"
            /\ CASE flight.phase = "cleanup"   -> Cut
                 [] flight.phase # "cleanup" /\ Op.kind = "file_write" -> Raise
                 [] OTHER                      -> Fail

\* The timer of dispatchWithTimeout: the run's deadline, or the op's timeout.
ToolTimer == /\ InFlight({"open"})
             /\ Op.kind = "tool"
             /\ Passed(flight.timer)
             /\ IF Top.left # Never /\ Top.left <= flight.reserve
                THEN IF flight.reserve > 0
                     THEN /\ flight' = [flight EXCEPT !.phase = "cleanup"]
                          /\ UNCHANGED <<stack, exc, outcome, lost, raised>>
                     ELSE Cut
                ELSE Fail

\* onAbort has returned, or its slice is used up.
CleanedUp == InFlight({"cleanup"}) /\ Cut

\* execShellCommand kills the process, and learns what it died of when its
\* output is closed.
ShellTimer == /\ InFlight({"open"})
              /\ Op.kind = "shell"
              /\ Passed(flight.timer)
              /\ flight' = [flight EXCEPT !.phase = "killed"]
              /\ UNCHANGED <<stack, exc, outcome, lost, raised>>

ShellClosed == /\ InFlight({"killed"})
               /\ IF Passed(Top.left) THEN Cut ELSE Fail

-----------------------------------------------------------------------------
(* Blocks and composition.                                                 *)

Do(ops) == /\ stack' = WithTop([Top EXCEPT !.todo = ops \o Tail(@)])
           /\ UNCHANGED <<exc, flight, outcome, issued, lost, raised>>

\* A condition may compare what cannot be compared.
If == /\ Cleared({"if"})
      /\ \/ Raise /\ UNCHANGED issued
         \/ \E branch \in {Op.body, Op.orelse} : Do(branch \o <<[Op EXCEPT !.kind = "local"]>>)

\* The ops of a loop's body, n times over.
Rounds(n, ops) == [k \in 1..(n * Len(ops)) |-> ops[((k - 1) % Len(ops)) + 1]]

\* The loop's own variables go when it ends; an op that throws leaves them.
Foreach == /\ Cleared({"foreach"})
           /\ \E n \in IF Op.uses \subseteq Top.bound THEN 0..MaxItems ELSE {0} :
                Do(Rounds(n, <<[Op EXCEPT !.kind = "item", !.uses = {}]>> \o Op.body)
                   \o <<[Op EXCEPT !.kind = "end", !.uses = {}, !.out = Top.bound]>>)

Item == /\ Cleared({"item"})
        /\ stack' = WithTop([Top EXCEPT !.todo = Tail(@), !.bound = @ \cup Op.out])
        /\ UNCHANGED <<exc, flight, outcome, issued, lost, raised>>

EndForeach == /\ Cleared({"end"})
              /\ stack' = WithTop([Top EXCEPT !.todo = Tail(@), !.bound = Op.out,
                                              !.done = @ \cup {Op.id}])
              /\ UNCHANGED <<exc, flight, outcome, issued, lost, raised>>

TooDeep(f) == f.depth + 1 > MaxDepth

\* The skill is stored and passes the gate.
Composable(s) == s \in DOMAIN setup.store /\ setup.approved[s]

\* executeSkillByName: the child has its own approval, and starts afresh but
\* for the depth and the deadline.
Compose == /\ Cleared({"skill"})
           /\ ~setup.mechanical
           /\ IF TooDeep(Top) \/ ~Composable(Op.child)
              THEN Fail
              ELSE /\ stack' = Append(stack, Frame(Op.child, Top.depth + 1, FALSE, TRUE, Top.left))
                   /\ UNCHANGED <<exc, flight, outcome, lost, raised>>
           /\ UNCHANGED issued

-----------------------------------------------------------------------------
(* The target loop of execute() and the way up.                            *)

Target(f) == Code(f.skill).targets[f.target]

NextTarget(f) == LET ts == Code(f.skill).targets IN
  IF f.target = Len(ts) THEN Enter(f, "render", <<>>)
  ELSE [Enter(f, "ops", ts[f.target + 1].ops) EXCEPT !.target = @ + 1]

Between == outcome.kind = "running" /\ flight = Landed /\ UNCHANGED <<setup, flight, issued, lost, raised>>

TargetDone == /\ Between
              /\ exc = NoExc
              /\ Top.part \in {"ops", "else"} /\ Top.todo = <<>>
              /\ stack' = WithTop(NextTarget(Top))
              /\ UNCHANGED <<exc, outcome>>

\* Variant: a failure that an else block recovers from is not recorded.
RecoveredErrors(f) == IF Target(f).recovers THEN f.errors ELSE f.errors \cup {exc.id}

WithError(f) == f.errors \cup {exc.id}

\* A failed target runs its else block; without one the loop is left.  A
\* failing else block is recorded and the loop goes on.
TargetFailed == /\ Between
                /\ exc.kind = "op"
                /\ LET f == [Top EXCEPT !.errors = WithError(Top)] IN
                   stack' = WithTop(CASE Top.part = "else"    -> NextTarget(f)
                                      [] Top.part # "else" /\ Target(f).recovers
                                           -> Enter(f, "else", Target(f).orelse)
                                      [] OTHER                -> Enter(f, "render", <<>>))
                /\ exc' = NoExc
                /\ UNCHANGED outcome

Escape == outcome' = [Running EXCEPT !.kind = "threw"]

\* The run boundary: the root turns the deadline into a result, a child lets it pass.
RunBoundary == /\ Between
               /\ exc.kind = "deadline"
               /\ IF IsRoot(Top)
                  THEN /\ stack' = WithTop([Enter(Top, "render", <<>>) EXCEPT
                                              !.expired = TRUE, !.uncertain = exc.cut,
                                              !.errors = @ \cup {exc.id}])
                       /\ exc' = NoExc
                       /\ UNCHANGED outcome
                  ELSE /\ stack' = Front(stack)
                       /\ UNCHANGED exc
                       /\ IF Len(stack) = 1 THEN Escape ELSE UNCHANGED outcome

\* The caller's `$ execute_skill` has failed with what its child threw.
ChildThrew == LET f == stack[Len(stack) - 1] IN
  /\ stack' = IF Head(f.todo).fallback
              THEN [Front(stack) EXCEPT ![Len(stack) - 1] = Finished(f, Head(f.todo))]
              ELSE Front(stack)
  /\ exc' = IF Head(f.todo).fallback THEN NoExc
            ELSE [NoExc EXCEPT !.kind = "op", !.id = Head(f.todo).id]

Delivers(f) == /\ Code(f.skill).delivers
               /\ ~setup.mechanical /\ ~f.expired
               /\ ~(setup.secured /\ ~f.auth)

\* Past the loop: the body text is rendered, and the delivery gets its address.
Rendered(f)  == Code(f.skill).template \subseteq f.bound
Addressed(f) == Code(f.skill).address \subseteq f.bound

Render == /\ Between
          /\ exc = NoExc /\ Top.part = "render" /\ Rendered(Top)
          /\ stack' = WithTop(Enter(Top, "deliver", <<>>))
          /\ UNCHANGED <<exc, outcome>>

\* Both throw if they refer to a variable the run did not bind.
Unresolved == /\ Between
              /\ exc = NoExc
              /\ \/ Top.part = "render" /\ ~Rendered(Top)
                 \/ Top.part = "deliver" /\ Delivers(Top) /\ ~Addressed(Top)
              /\ IF Len(stack) > 1
                 THEN ChildThrew /\ UNCHANGED outcome
                 ELSE stack' = <<>> /\ Escape /\ UNCHANGED exc

\* The agent's connector is awaited without a timer.
Deliver == /\ outcome.kind = "running" /\ exc = NoExc /\ flight = Landed
           /\ Top.part = "deliver" /\ Delivers(Top) /\ Addressed(Top)
           /\ stack' = WithTop(Enter(Top, "return", <<>>))
           /\ flight' = [Landed EXCEPT !.phase = "delivery"]
           /\ issued' = issued \cup {Effect(Top, "delivery", FALSE)}
           /\ UNCHANGED <<setup, exc, outcome, lost, raised>>

\* A failed delivery is only logged.
Delivered == /\ InFlight({"delivery"})
             /\ flight' = Landed
             /\ UNCHANGED <<stack, exc, outcome, lost, raised>>

\* The trace is written and the result returned, to the caller's op if it has one.
Return ==
  /\ Between
  /\ exc = NoExc
  /\ Top.part = "return" \/ (Top.part = "deliver" /\ ~Delivers(Top))
  /\ IF Len(stack) > 1
     THEN LET f == stack[Len(stack) - 1] IN
          /\ stack' = [Front(stack) EXCEPT ![Len(stack) - 1] = Finished(f, Head(f.todo))]
          /\ UNCHANGED outcome
     ELSE /\ stack' = <<>>
          /\ outcome' = [kind |-> "returned", errors |-> Top.errors,
                         expired |-> Top.expired, uncertain |-> Top.uncertain]
  /\ UNCHANGED exc

-----------------------------------------------------------------------------
Tick == /\ outcome.kind = "running"
        /\ stack' = [i \in DOMAIN stack |-> [stack[i] EXCEPT !.left = Sooner(@)]]
        /\ flight' = [flight EXCEPT !.timer = Sooner(@)]
        /\ <<stack', flight'>> # <<stack, flight>>
        /\ UNCHANGED <<setup, exc, outcome, issued, lost, raised>>

Block   == If \/ Foreach \/ Item \/ EndForeach \/ Compose
Before  == Refused \/ Local \/ Accumulate \/ Inline \/ Preview \/ JsonParse \/ PastDeadline \/ Undeclared
           \/ Denied \/ Issue
Timers  == ToolTimer \/ CleanedUp \/ ShellTimer \/ ShellClosed
Way     == TargetDone \/ TargetFailed \/ RunBoundary \/ Render \/ Unresolved \/ Deliver \/ Delivered
           \/ Return
Settles == Answered \/ ToolError \/ Rejected

Next == Block \/ Before \/ Timers \/ Way \/ Settles \/ Tick

Spec == Init /\ [][Next]_vars

\* The interpreter goes on by itself and timers fire.  Killed processes close
\* their output, and files and agent connectors, which have no timer, answer;
\* tools and processes may hang for good.
Fairness == /\ WF_vars(Before \/ Block \/ Way \/ Timers)
            /\ WF_vars(Tick)
            /\ WF_vars(Answered /\ Op.kind \notin Dispatches)

FairSpec == Spec /\ Fairness

-----------------------------------------------------------------------------
(* Properties.                                                             *)

\* Composition lends no authority (composition.ts:180, runtime.ts:612): an
\* unconfirmed mutation starts only in a skill that is itself Autonomous, and
\* in secured mode an effect only in a skill that is itself approved, whatever
\* the skills around it may do.
OwnAuthority ==
  \A e \in issued : /\ e.unconfirmed => Code(e.skill).autonomous
                    /\ setup.secured => setup.approved[e.skill]

\* It lends no time: a composed skill never outlives the bound of its caller
\* (runtime.ts:573).
DeadlineTightens ==
  \A i \in 2..Len(stack) : Earlier(stack[i].left, stack[i - 1].left) = stack[i].left

\* A composed skill has neither the authority nor the time of those around it.
LendsNothing == OwnAuthority /\ DeadlineTightens

\* Once the deadline has been raised nothing starts any more, at any depth: no
\* op, no nested run, no delivery; no fallback and no else block takes it for a
\* failure of its own (errors.ts:250, runtime.ts:621).
Uncatchable ==
  [][raised => /\ flight' = Landed
               /\ Len(stack') <= Len(stack)
               /\ issued' = issued
               /\ \A i \in DOMAIN stack' : stack'[i].done = stack[i].done]_vars

\* The caller of the outermost run learns of the deadline, exactly when it was
\* raised, and of the op it cut, if that may have had its effect; it is never told
\* of a built-in that has none (runtime.ts:644, 1978).  A connector's tool with the
\* name of such a built-in is the exception: the comment at runtime.ts:1992 has
\* every `$ connector.tool` reported, but the code asks for the tool's name only
\* (runtime.ts:1813), and takes `$ remote.execute_skill` for the built-in.  The log
\* as a whole is lost in one way: the cut left a variable of the body text unbound,
\* and the render that follows throws (runtime.ts:704).
CutReported ==
  /\ outcome.kind = "returned" =>
       /\ outcome.expired = raised
       /\ \A o \in lost : o.effecting => o.id \in outcome.uncertain \/ Homonym(o)
       /\ \A u \in outcome.uncertain : \E o \in lost : u = o.id /\ ~Harmless(o)
  /\ outcome.kind = "threw" /\ lost # {} => Code(setup.skill).template # {}

\* A result without errors is the result of the whole skill: every op of every
\* target was carried out, or its fallback taken, at any depth (runtime.ts:633).
CleanMeansComplete ==
  \A i \in DOMAIN stack :
    LET f == stack[i] IN
    f.part \in {"deliver", "return"} /\ f.errors = {} =>
      \A t \in Range(Code(f.skill).targets) : \A o \in Range(t.ops) : o.id \in f.done

\* Every run ends, with a result or an exception, even if tools never answer.
RunEnds == <>(outcome.kind # "running")
=============================================================================
