# Skillscript in TLA+

Skillscript is a runtime for small text programs ("skills") that agents write,
an operator approves, and a scheduler fires.  This directory specifies the parts
of it whose correctness depends on order, overlap and failure: TLA+ modules
translated from `src/src`, TLC instances that check them, and TLAPS proofs of
what matters most for every instance.  Paths below are relative to the
repository's `src/` unless they start with `src/`.

## 1. Inventory

| Component (source) | State it keeps | Operations | What is hard | What makes it correct |
|---|---|---|---|---|
| Trigger registry (`scheduler.ts`) | `triggers` (Map id -> registration), `nextId`, `cronState` | register, unregister, enable, sync of a skill's declared triggers, drop on delete, fireEvent, poll tick | event names change hands between skills, clients and spellings; cron polled twice a minute; expiry in the poll that fires | one holder per event name, ids that stay what they are, one fire per minute and registration, nothing fired after expiry |
| Persistent registry and boot (`bootstrap.ts`, `bootstrap-from-env.ts`) | `triggers.json` | write-through hook, hydration with pruning, declarative wiring | failing or torn writes, crash between a change and its write, declared triggers that displace stored ones | every acknowledged registration survives a restart, nothing dead comes back |
| Request handlers (`mcp-server.ts`, `dashboard/server.ts`) | locals carried over awaits | skill_status, skill_write, register_trigger, /approve, /delete, /event | store-then-sync with two awaits in between, overlapping requests, deletes racing writes | the declared triggers in service are those of the stored, Approved body |
| Failure supervisor (`supervisor.ts`, `scheduler.ts`, `trace.ts`) | cursor, notified set, their sidecar file, trace files | sweep: query, route to the handler skill, mark, prune, persist | sweeps that overlap, runs that end while a scan is under way, restarts, the handler's own traces | every failed fire is routed, once |
| Skill store, filesystem (`connectors/skill-store.ts`) | `<name>.skill.md`, `<name>.versions.jsonl` | load, store, update_status, delete, version | two files written one after the other, overlapping writers, status kept over rewrites | file and log agree, only an approval makes a body Approved |
| Skill store, SQLite (`connectors/sqlite-skill-store.ts`) | a row in `skills`, rows in `skill_versions` | the same | several processes on one database, a read before the transaction | row, history and gate agree |
| Approval gate (`approval.ts`) | none | stamp, evaluate | body changed between gate and run | nothing unapproved has effects in secured mode |
| Run executor (`runtime.ts`, `composition.ts`, `mutation-gate.ts`) | variables, errors, effect log, deadline, authority | targets, ops, fallback, else, composition, delivery | deadline cutting an op in flight, uncatchable unwinding through nested runs, timeouts racing answers, text rendered after a failure | nothing starts past the deadline, what it cut is reported, a composed skill has no authority but its own, every run ends |
| HTTP MCP connector (`connectors/http-mcp.ts`) | session pool in order of use, per entry its id, its pending handshake and its tools | call, shared handshake, eviction, one retry, describeTools, manifest | a session evicted while calls hold it, a stale session answered after another call replaced it, a retry of what was done | an effect once and in the caller's own session; a pool that is bounded and never wedged |
| Remote MCP connector (`connectors/mcp-remote.ts`) | child process, shared handshake, latched error, pending table | spawn, handshake, call, timeout, abort, exit, dispose | late answers, a dead child's exit event after a new child was started, calls that share a handshake that fails | every call settles, with its own answer; the connector is served again once faults stop |
| Connector registry and configuration (`connectors/registry.ts`, `connectors/config.ts`) | named instances, connectors.json | load, validate, register | configuration errors half way | boot refuses or is complete |
| Parser (`parser.ts`) | stack of open blocks, the header so far, errors | parse, line by line | dedents over several blocks, branches that continue a block that was refused, lines taken for something else | an op stands in the tree where its indentation puts it, or there is an error; one mistake is one error |
| Conditions and values (`parser.ts`, `runtime.ts`) | none | accept at parse time, evaluate at run time | two descents over one string | what was accepted has one meaning |
| Linter and dispatch checks (`lint.ts`, `dispatch-validate.ts`, `mutation-gate.ts`) | none | 75 rules over a parsed skill, some of which ask the store and the registry | rules that look at less than the runtime does | what lint passes is not refused for what lint looks at |
| Compiler (`compile.ts`) | none | lint again, resolve inputs, inline data skills, order targets | dependency cycles, approvals of what is inlined, callers that hand it less | each target once and after those it needs; no unapproved text |
| Deletion guard (`skill-dependents.ts`) | none | list, load each, ask or refuse, delete | a directory written while it is scanned, files that cannot be read | no dependent is orphaned that the operator was not shown |
| Catalog and surface (`skill-catalog.ts`, `skill-surface.ts`) | reference index and its version token | rebuild on demand | rebuilds that overlap changes | what it shows was there |
| Metrics, audit, provenance, secrets, safe paths, observed shapes | small files | append, read | -- | -- |
| CLI, help, SPA, examples, scaffolds | -- | -- | -- | -- |

Components interact through a few objects: the SkillStore (every handler, the
scheduler's dispatch and the boot wiring read it; /approve, skill_status,
skill_write, /delete and `$ skill_write` in running skills write it), the
Scheduler (handlers and boot change it, the poll loop and /event read it), the
`onTriggersChanged` callback from the Scheduler to `triggers.json`, and the
trace store (runs write it, the supervisor's sweep reads it).  The executor calls
connectors, of which the remote and the HTTP one are specified here, and its runs
leave the traces the supervisor reads.  Before a skill runs its text goes through
parser, linter and compiler, and again through the last two each time.

## 2. Plan

The order is that of importance: what decides *which* skill runs first, then
what tells the operator that one failed, then what a run itself does, then the
stores below them.

| Step | Module | Composes | State |
|---|---|---|---|
| 1 | `Registry`: the trigger map as a value | -- | done |
| 2 | `Triggers`: scheduler, triggers.json, boot, poll loop, request handlers | `Registry` | done |
| 3 | `RegistryLoop`: the registering loop as the code has it | `Triggers` | done |
| 4 | `TriggersProofs` | `Triggers` | done |
| 5 | `Notifier` (abstract) and `Supervisor` (detailed) | the second implements the first | done |
| 6 | `SupervisorProofs` | `Supervisor` | done |
| 7 | `RemoteMcp`: the connector over a child process | -- | done |
| 8 | `Executor`: a run and the runs it composes | -- | done |
| 9 | `SkillStoreFs`: body file and version log, the approval gate, overlapping writers, a crash between the two files | -- | done |
| 10 | `SkillStoreProofs` | `SkillStoreFs` | done |
| 11 | `Approval`: the gate's verdict and what a rewrite does to a signature | used by both stores | done |
| 12 | `HttpMcp`: session pool, shared handshake, eviction, retry | -- | done |
| 13 | `McpProofs` | 7, 12 | done |
| 14 | `Parser`: the lines of a source and the stack of blocks | -- | done |
| 15 | `Condition`, `Lint`, `Pipeline`: a skill from lint to the end of its run | the third uses the other two | done |
| 16 | `SkillStoreSqlite` | `Approval` | done |
| 17 | `Dependents`: the deletion guard's scan | -- | done |
| 18 | `Substrates`, `SubstratesProofs`: a host with either store, and the proofs of the database and of the guard | 16, 17 | done |
| 19 | `ExecutorProofs` | 8 | done |
| 20 | `ParserProofs`: the stack of blocks as the invariant, and what is live as a least set | 14 | done |
| 21 | `PipelineProofs`: order, inlining, the run as what is left of its target, the readings of a condition, lint's search for cycles against the sort | 15 | done |
| 22 | an abstract store of one record per skill, which `Triggers` assumes and both stores implement while requests do not overlap | 9, 16 | planned |
| 23 | the page's three parallel reads against the index token; the string filters | 22 | planned |

Every module has its parameters as CONSTANTS with named assumptions and one
action per operation.  Where the code descends (into blocks, conditions, targets and
the skills a skill inlines) the model has a recursive function over how deep it still
may go, with a number that a descent cannot use up: no module has a recursive operator.
Next to a definition stands, where there is one, a *variant* of it: the form it
would have with a plausible bug.  No module uses the variants; a property that
still held with one of them in the definition's place would say nothing about
that definition.

## 3. The modules and the code

**`Registry`** is `Scheduler.triggers` (`scheduler.ts`) as a function from ids
to registrations: lower-casing, displacement of the holder of an event name,
expiry, `fireEvent`'s choice of skills, and what a row of `triggers.json` keeps
(everything but the parameters).  The loops that register several triggers are
in closed form (`RegisterAll`).  **`RegistryLoop`** has the loop itself, turn by
turn of `registerTrigger` over the insertion-ordered Map, and `LoopAgrees` says that in
every registry the scheduler can reach the two give the same map and next id.

**`Triggers`** is one process: `triggers`, `nextId`, `cronState` are the
scheduler's fields, `file` is `triggers.json`, `skills` the SkillStore as the
handlers see it, `toWire` the rest of `wireDeclarativeTriggers`' loop at boot,
`handler` what each request in flight carries over its awaits.

| Action | Code |
|---|---|
| `Boot`, `BootFails`, `WireSkill`, `Crash` | `bootstrap` -> `hydratePersistedTriggers`; its unguarded rewrite; one turn of `wireDeclarativeTriggers`; the end of the process |
| `Tick` | `tick()`: expiry sweep, then cron evaluation |
| `RegisterTrigger` and its load, `UnregisterTrigger`, `SetTriggerEnabled` | the trigger tools of `mcp-server.ts` with the scheduler's methods and the write-through hook |
| the status, write, approve, delete and bridge requests, each split at its awaits | `skill_status`, `skill_write`, `POST /approve`, `POST /delete`, `$ skill_write`, then `syncTriggersForSkill` |

A write of `triggers.json` may fail and leave the old file or half a file.

**`Supervisor`** is the failure sweep: `cursor`, `notified`, `loaded`, `queue`
are the `SweeperState`, `file` its sidecar, `run` the runs and their trace
records, `sweep` each sweep under way, split at its awaits (load, query, route,
persist).  Sweeps overlap because `start()` does not wait for a tick.
**`Notifier`** is what it promises: a failure is alerted, and no more often than
once plus the number of restarts.

**`RemoteMcp`** is `RemoteMcpConnector`: `child`, `error`, `init`, `disposed`
are its fields, `pending` its table, `proc` what becomes of the child processes,
`start` how far the `doStart` of each is, `wire` the frames in the pipes, `calls`
the callers.  A step is a turn of the event loop; a call that a handshake lets go
continues before any other event (`TurnOver`), as promise callbacks do.  Child
names and request ids are used again once nothing refers to them, so runs are not
bounded in length.

**`Executor`** is one call of `execute()` and all that it nests: `stack` is the
stack of frames, each with its deadline (as the time left), the ops still to do
and the variables bound; `exc` is the exception on its way up; `flight` what the
top frame awaits, with its timer.  The body of an `if` or `foreach` is put in
front of the ops to do, as `execOps` would run it.  An op is a record that says
what the properties tell apart: its kind, the name of its tool and whether it stands
without a connector (`bare`), whether it has a fallback, whether the gate takes it
for a mutation, whether it really may have an effect, what it uses and binds.  Name
and effect are apart because the code judges a cut op by its tool's name alone
(`UncertainWhenCut`).

| Actions | Code |
|---|---|
| `Refused`, `Local`, `Accumulate`, `Inline`, `Preview`, `JsonParse`, `PastDeadline`, `Undeclared`, `Denied`, `Issue` | `execOps`' gate, the choke of `execOpInner`, and the cases of its switch up to the await |
| `Answered`, `ToolError`, `Rejected`, `ToolTimer`, `CleanedUp`, `ShellTimer`, `ShellClosed` | `dispatchWithTimeout`, `execShellCommand`, and the catches and fallbacks after them |
| `If`, `Foreach`, `Item`, `EndForeach`, `Compose` | control ops, `executeSkillByName` |
| `TargetDone`, `TargetFailed`, `RunBoundary`, `Render`, `Unresolved`, `Deliver`, `Delivered`, `Return` | the target loop and the tail of `execute()`; `Unresolved` is the throw from the body text or from the address of the delivery |

**`SkillStoreFs`** is `FilesystemSkillStore` for one skill (its files are named
after it, so skills do not meet): `body` is `<name>.skill.md`, as the text the
signature covers, the status header and the text the token in it signs; `log` is
`<name>.versions.jsonl`, as the three things the code reads back of it, which are
the author on the first line, the status on the last, and whether that line is
whole; `mode` is the mode of the process; `op` is what each request in flight
carries over its awaits.  `told` is no state of the code: it records which
answers callers have had, and the properties speak of those.

| Actions | Code |
|---|---|
| `SkillWrite`, `BridgeWrite`, `Approve`, `SkillStatus`, `Delete` | `skill_write`, `$ skill_write`, `POST /approve` and `skillfile approve`, `skill_status`, `POST /delete`, up to their first await on the store |
| `Exists`, `Load`, `Check`, `ReadAuthor`, `ReadStatus`, `ReadBody` | the reads before a write: `metadata`, `load`, the gate before `update_status`, `readFirstVersionAuthor`, `readLastVersionStatus` with what `store()` resolves from it, the read of `update_status()` |
| `OpenBody`, `WriteBody`, `AppendLine` | `writeFile`, which truncates before it writes, then `appendFile` |
| `Unlink`, `Purge` | the two `unlink`s of `delete()` |
| `Fail` | a file operation that fails or a process that ends there, with half a body or half a line written |

**`Approval`** is what both stores and the gate share: a body is its text, its
status header and the text its token signs; `Gate` is the verdict, `Stamped` and
`Header` are what the rewrites leave of a signature.

**`SkillStoreSqlite`** is `SqliteSkillStore` for one skill: `row` is its row in
`skills`, `versions` what `skill_versions` has for each body.  Within a process
the store's methods do not await, so each request runs in a process of its own
and a transaction is one step; `update_status()` reads the row before its
transaction.  The author column, which nothing checks, is left out.

| Actions | Code |
|---|---|
| `SkillWrite`, `BridgeWrite`, `Approve`, `SkillStatus`, `Delete`, `Exists`, `Load`, `Check` | the requests up to the store's method, as above |
| `Put` | `store()`, one transaction |
| `ReadRow`, `Commit` | `update_status()`: the read, then the transaction |
| `Remove`, `Fail` | `delete()`; a transaction that is undone |

**`Dependents`** is the guard of the delete surfaces over a directory: `file` is
what each skill says of the one to be deleted (it composes it where the guard
looks, composes it where no scan of this kind sees it, or does not), `scan` the
deletion under way.

| Actions | Code |
|---|---|
| `Truncate`, `Finish`, `Unlink`, `Outage`, `Restore` | what other requests and the disk do to the files meanwhile |
| `Start`, `ReadDir`, `ListOne`, `Listed` | `skillfile delete`, `POST /delete`; the store's `query()`, which passes over what it cannot read |
| `LoadOne`, `Answer`, `Confirm`, `Delete` | the loop of `findStaticDependents`, the refusal or the question, the deletion |

**`Substrates`** composes the two: a host has one store or the other
(`bootstrap.ts:697`), and the other side is idle.

**`HttpMcp`** is `HttpMcpConnector` and the server it calls.  `pool` is its Map of
sessions in order of use, `entry` every entry ever made (an evicted one lives on
in the calls that hold it), `init` the handshakes, `call` the dispatches, `net`
the requests and answers under way.  The server is external: it pins a session to
the identity that opens it, forgets its sessions when it restarts, and may insist
on the end of the handshake.

| Actions | Code |
|---|---|
| `Start`, `Wake` | `call()`, `describeTools()`, `manifest()` to their first request: `getOrCreateEntry` with eviction, `ensureSession`; the calls that await a handshake go on |
| `InitReply`, `NotifReply` | `initialize()`: the session id, then the notification; on failure the promise is forgotten |
| `Reply` | the answer; one of 400 or more discards the entry and dispatches once more |
| `Serve`, `RefuseSession`, `Restart`, `Lose`, `Fail` | the server and the network |

**`Parser`** is `parse()`: one pass over the lines with the stack of open blocks
(`stack` is `scopeStack`).  The source is written while it is read, so every
source within the bound is parsed; a block is named by the line that opens it and
an op by its own line.  After the parse the properties read the source again, by
its indentation alone, and compare.

| Actions | Code |
|---|---|
| `Header`, `Text`, `IndentedText`, `TopIf`, `TopElse`, `Default`, `TargetHeader` | header fields; prose; lines at the margin |
| `Orphan`, `Continue`, `Dropped`, `MidBlock` | the dedent: an indented line outside a target, a branch continued, a line that is given up, a line at a depth no block has |
| `Needs`, `StrayElif`, `If`, `Foreach`, `Call`, `Statement` | `needs:`, branches, loops, function-call ops, sigil ops |
| `UnknownBlock`, `NoSpace`, `PassedOver` | what is no op |

**`Condition`** has the two descents over a condition's tokens, the parser's
`validateCondition` and the runtime's `evalCondition`, and, apart from both, the
values its readings have (`OrMeaning`).  **`Lint`** has the 75 rules of `lint.ts`, one
predicate each, grouped as the code runs them: what a rule searches for in text
is a mark the op carries, and what matters is where it looks (`walkOps` goes into
blocks and not into the `else:` of a target), what it asks of registry and store,
and what makes it silent.  **`Pipeline`** takes a skill through all of it.  Values
are known by class (text, a number, a list, null, ...), tools may answer anything.

| Actions | Code |
|---|---|
| `LintSkill`, `Compile`, `Start` | `lint_skill`; `compile()`: lint again with what this caller knows, inputs, data skills inlined, targets ordered; `execute()` |
| `Set`, `Accumulate`, `Emit`, `Call`, `Shell`, `FileRead`, `FileWrite`, `Notify` | the ops, with fallbacks |
| `Refuse` | what an op is refused for, in the order of the code's checks |
| `Branch`, `Loop`, `Item`, `EndLoop` | conditions and loops |
| `TargetDone`, `End`, `Stopped` | the target loop and its end |

`Executor` and `Pipeline` divide `runtime.ts`: the first has time, nesting and
authority and leaves values out; the second has values and bindings and leaves
time and nesting out.  `Pipeline` says of its `Cases` what the parser and the server
see to (`CasesAssumption`): a text is a finite map of targets whose ops have blocks under
`if` and `foreach` only and to a bounded depth (`Parsed`), each condition in it was
accepted or an error reported (`Accepted`), its entry is one of its targets or an error
was reported (`parser.ts:2256`), and `lint_skill` has the registry and the
shell option of the server it belongs to (`Wired`, `mcp-server.ts:1061`).

## 4. What is checked

| Run | Question | Properties |
|---|---|---|
| `registry` | do clients, declared triggers, the expiry sweep, a failing or torn write and a crash leave registry and file consistent, and what can make a schedule fire again in the minute it fired in? | `EventNameUnique` (one holder per name in any spelling), `RowIdentity` (an id on disk means the same trigger in memory), `StoredNamesUnique` (hydration brings every row back), `FileAgrees` (an acknowledged registration survives a crash unless the last write failed, and nothing dead comes back but what a declared trigger displaced), `LoopAgrees` (the closed form is what the loop computes), `FiresOncePerStint` (a new registration can, and each of those fires once) |
| `overlap` | with two requests in flight, running skills that write skills among them: which skills' triggers can overlapping requests spoil, and for how long? | `DeclarativeServed` (the declared triggers in service are those of the stored, Approved body, for skills whose latest requests did not overlap) |
| `live` | with clients that take events over, and restarts over any store and file: do declared triggers come into service? | `ComesIntoService` |
| `race` | *fails*: are status changes live whatever overlaps? | `StatusChangesLive` |
| `sweep` | does any failure slip past the cursor, is the notified-set bounded, what does a restart repeat? | `NothingSlips`, `WindowOnly`, `IsNotifier` (refinement of `Notifier`, its liveness included) |
| `stores` | two requests on one skill overlap and end between any two awaits: do body and log agree again, what runs, who may write? | `FilesAgree` (after a request that ran alone both files tell one story, whatever happened before), `OnlyAuthorityApproves` (a rewrite approves nothing), `ApprovedIsSigned` (in secured mode no unsigned body is headed Approved), `AuthorLocked` |
| `substrates` | two processes on one database; or a deletion that scans a directory which is written, and in part unreadable, meanwhile | `RowTruthful` (the row's status is the gate's verdict and what the history has, but for a re-approval in secured mode), `NoOrphanUnseen` (no dependent is orphaned that the scan could have shown) |
| `remote` | do answers reach their requests, is anybody left waiting, is a failed handshake or a dead child got over? | `AnswersMatch`, `NobodyForgotten`, `OnlyFailedLinger`, `EveryCallSettles`, `HealsAlone` |
| `http` | do two calls and a description, with one pooled session, get their effects once and in their own session, and does the connector recover? | `PinnedIdentity`, `PoolBounded`, `NoDoubleEffect`, `Recovers` |
| `exec` | does anything start past the deadline, is what it cut reported, is authority confined, does every run end? | `LendsNothing` (neither authority nor time), `CutReported` (every effect the deadline cut is reported, but for a connector's tool that bears the name of a built-in, and no built-in without effects is), `CleanMeansComplete`, `Uncatchable`, `RunEnds` |
| `parse` | does what parses without an error stand where its indentation puts it, and is one mistake one error? | `KeptWhereWritten`, `BranchWhereWritten`, `NoCascade` |
| `static` | how far do lint, compiler and runtime agree? | `CleanCompiles` (what lint passed compiles, but for what no linter knows), `OrderSound`, `InlinedStands` (inlined text is data and stands on its own approval), `DispatchChecked` (where lint looks, no op of a clean skill is refused for its connector, tool or shell policy, nor for a binary that is written out, when there is a list to compare it with), `UnboundExplained` (an unbound variable is never an input), `ConditionsAgree` |

Each module of state has a type invariant (`TypeOK`) or the types in its
comments; the type invariants were checked with TLC and, where section 7 says
so, proved, and no run repeats them.

The run that fails shows where the code does not do what it says:
`syncTriggersForSkill` applies the status its own request stored, after a second
await.  Two overlapping requests on one skill can sync in the other order than
they stored; the skill is then Approved and has no trigger in service, until its
next request or a restart (`race`).

The properties name what the code does not give, so that the exceptions are
findings too, stated and not made runs of:

*Scheduler and supervisor.*  `cronState` dedupes the fires of a trigger id within
a minute, is in memory, and goes with its id: a sync of the skill
(`scheduler.ts:594-612`) or a restart (`scheduler.ts:156`) in the minute a cron
fired in gives the schedule a new id without it, and it fires again.
`FiresOncePerStint` therefore counts, over restarts too, the registrations of a
schedule that have been in service in the minute, and bounds its fires by them; that
a schedule fires at most once in a minute does not hold.  The parameters of a client's event trigger are not
stored, so a restart makes its payload check stricter (`bootstrap.ts:785`).  A
declared trigger that displaces a client's event does not call the hook, so the
row stays (`scheduler.ts:242`; the exception in `FileAgrees`).  A torn
`triggers.json` is ignored as a whole at boot (`bootstrap.ts:812`).  A tick does
not wait for the previous one and a run is marked after its handler returned, so
a slow handler is run twice about one failure (`scheduler.ts:400`;
`docs/adopter-playbook.md:668` says at most one alert).  A child run under the
parent's trace id can hide one of two failures; a run composed by the handler is
itself routed when it fails.

*Filesystem store.*  `$ skill_write` makes its body a Draft, but `store()` gives a
skill that exists the status its log ends with, so in unsecured mode a running
skill that overwrites an Approved skill leaves the new body Approved
(`skill-store.ts:222`; `docs/adopter-playbook.md:1110`).  A line of the log that
was cut makes the next overwrite take the status its body declares and swallows
the line that follows; a delete that fails between the two files leaves a log
whose author and status the next skill of that name inherits
(`skill-store.ts:361`); a Disabled that overlaps an overwrite is undone by it;
`update_status()` that reads a file another request has just truncated writes an
empty body (`skill-store.ts:387`); a hand-placed file has no log, so it is
overwritten as if it were new.

*SQLite store.*  `update_status(Approved)` in secured mode takes the signature it
has just verified out of the body, so the skill is listed Approved and refused
(the comment says it mirrors the other store, which keeps it): the exception in
`RowTruthful`.  An overwrite keeps no status, so rewriting an older signed body
enables a Disabled skill again; there is no author lock and `/approve` erases the
author; the "append-only history" overwrites the row of a body that comes back;
an `update_status()` that another process's delete overtakes leaves an orphan
version, and one that straddles a rewrite puts the old body back.

*Deletion guard.*  It does not see `else:` blocks of targets or computed names,
and the query before it skips files that cannot be read and takes a truncated one
for empty, against its fail-closed contract (`skill-dependents.ts:23`).

*Connectors.*  The exit event of a replaced child latches the error of its
successor, so after one `initialize` timeout each start kills the healthy child of
the previous one (`mcp-remote.ts:226`; the premise of `HealsAlone`).
`describeTools` and `manifest` have no retry, so a default session the server
forgot fails them until a call of that identity or an eviction replaces it.  A second call during a handshake is sent before
the notification that ends it (`http-mcp.ts:421`).  Any answer of 400 or more is
taken for a report that nothing was done, 500 included (`http-mcp.ts:455`): with
`LateErrors` `NoDoubleEffect` is false.

*Runtime.*  Whether a cut op may have had its effect is decided by the name of its
tool, without the connector (`runtime.ts:1813`): the comment at `runtime.ts:1992` has
every `$ connector.tool` reported and leaves out bare built-ins only, but
`$ remote.execute_skill`, and the `data_read`, `json_parse` and `llm` of a connector,
go unreported (`Homonym`, the other exception in `CutReported`, which `exec` reaches
and without which it fails).  The body text is rendered outside any try, so a run that the deadline
cut throws from there when the text refers to what the cut op would have bound,
and the log of uncertain effects is lost (`runtime.ts:704`; the exception in
`CutReported`).  A tool result with `isError` is thrown after the try its
`(fallback:)` belongs to; file_read, file_write and notify do not look at the
deadline; an op with a cleanup hook is still started inside the slice reserved
for cleanup; the kill of a shell op does not reach its grandchildren.  A
`foreach` leaks its bindings between turns, and all of them when it throws.
`resolveListExpr` looks up only the `$(X)` spelling: `${X}` of null runs one turn
over "null", and `$(X|filter)` none.  `ERROR_CONTEXT` is bound by nobody, though
lint takes it for ambient (`lint.ts:483`; `language-reference.md:721`).

*Parser.*  `parser.ts:1696` drops a line without an error, against the comment
at 1604.  A second header of one name, a second `else:` at the margin, an `else:`
at the margin below two open blocks, and an indentation below four columns are
taken otherwise than they read (the premise `Regular`).

*Lint and compiler.*  Most rules do not look into `else:` blocks; undeclared-var,
unknown-filter, unconfirmed-mutation and the missing SkillStore are looked for
only at the top of targets, and an elif's condition never.  A legal secret in a
shell op of an `else:` is reported as an error.  `lintSync` always throws, since
the rule list holds asynchronous ones (`lint.ts:315`).  `circular-dependency` says
it checks skill references and checks targets only (`lint.ts:1887`).  Only the
runtime calls `dispatch-validate.ts`, whose header says lint does too.  A fired
trigger is compiled without SkillStore, so a skill with a top-level `inline(...)`
always fails when it fires (`scheduler.ts:514`; `language-reference.md:36`).  The
compile preflight does not know the shell allow-list.  Where the operator gave no
list, lint says nothing of binaries (`lint.ts:2274`) and the runtime refuses each of
them; a binary that is a reference (`${BIN} x`) lint passes over (`lint.ts:2257`), and
the runtime compares what it stands for (`runtime.ts:1259`).  Lint says of this rule
that it only advises (`lint.ts:2249`): the exceptions in `DispatchChecked`.  An
`inline` inside a data skill that cannot be resolved is lost, against "leave the op
intact".  `((a))` is refused as a condition.

## 5. Bounds

- `Triggers`: `MaxId` ids, of which clients may use up to `ClientIds`;
  `MaxTime` half-minutes, of which each may have several polls, so that a minute is
  polled twice and a minute boundary is crossed; `MaxFaults` failed writes; `MaxCrashes` restarts.  Two
  skills, two bodies with one event in two spellings: an event changes hands
  between two skills, a client and a body, which is every pair there is; a third body, never stored, declares one event
  twice around another one, for `LoopAgrees`.  The
  runs divide the axes: `registry` has time, faults and a crash, with skills that are
  approved again and deleted, and a schedule, declared and registered by a client too,
  that matches the second of two minutes; `overlap` a changing store with no clock, where
  bodies declare events only; `live` a changing store with a client's event and a crash.
  Ids only grow in one life, so a bound on them bounds the length of a history,
  not its shape; the proofs have no bound.
- `Supervisor`: `Margin` 2, `WriteDelay` and `ScanTime` 1: the least values with
  which a record can appear late in every way the assumption
  `WriteDelay + ScanTime <= Margin` allows; `MaxTime` 3 moves the window past the
  margin; one restart; two fires and a handler run, one sweep at a time.
- `RemoteMcp`: two callers with two children and three request ids; `MaxStale`
  bounds the frames nobody waits for.  The safety part was also run with three
  children and four ids.
- `HttpMcp`: two calls of one agent and one description, a pool of one, so that
  every change of identity evicts; one fault, which is a restart, a loss or a
  failure at any moment.  `LateErrors` is off, for the reason above; the proofs
  have it both ways.
- `Executor`: instants are the time left until them, so no clock is bounded.
  Ceilings 1, 3 and none against `CleanupCap` 1 and `Absolute` 2 give every
  order of deadline, timeout and cleanup slice; `MaxDepth` 2 lets the depth limit
  be hit from a call by name; loops have at most `MaxItems` = 2 turns.  Six bodies
  that compose, five that are composed, two that are there to be cut, one of them in
  a connector's tool that bears a built-in's name; three ways to be started, secured or
  not, preview or not, each skill approved or not.
- `Parser`: a source weighs at most `MaxWeight` = 6.  Lines of which blocks are
  made (headers, ops, `if`, `elif`, `else` at two depths) weigh 1, so there are
  six of them and two blocks open and close; lines that take the place of one of
  these weigh 3, and so do header fields; the many forms of calls weigh 4 and come
  with two lines around them.  `MaxFaults` 2: `NoCascade` is about the second error.  A source
  of light lines begins with a header.
- `Pipeline`: the skills are grouped by the question they are for: graphs of
  three targets with up to two dependencies each, cycles and missing ones
  included; an op of every kind next to another, at the top, in a block, in an
  `else:`; loops over every class of value in both spellings; inputs given,
  resolved, defaulted or missing; data skills that inline each other or the host;
  conditions of three atoms with every placing of `not` and parentheses.
  `MaxDepth` 4 is more than any condition here nests, `MaxNesting` 2 more than any block.
- `SkillStoreFs`: two requests in flight, two texts, and three bodies to hand in
  or to find in the directory: signed, edited under the signature of another
  text, and without a header.  One agent and the owner are the two names an author can
  differ in.  Both modes, but for `forceAlwaysDraft`, which is off (on, every
  `skill_write` hands in a Draft, which is what `BridgeWrite` does).  Nothing
  bounds the length of a history: the log is kept as what is read back of it.
- `Substrates`: the same three bodies and two requests for the database; three
  skills beside the one to be deleted, so that one is read, one is written
  meanwhile and one cannot be read.  Requests and skills are symmetric.

## 6. Fairness

Safety runs (`registry`, `overlap`, `stores`, `substrates`, `parse`, `static`)
assume none.  `live` assumes that a request in flight goes on and
that boot goes on (the event loop turns and the store answers); nothing makes
requests, polls or restarts happen.  `sweep` assumes that the timer ticks, that
loads, queries, writes and handler runs end (the runtime has an absolute
timeout), and that a query that is tried again and again succeeds in the end
(strong fairness: a trace directory that is never readable alerts nothing).
`remote` assumes that request timers go off, that a turn ends, that exit
events are delivered and that a living child answers and is
read; without the last one being served cannot be asked for.  `http` assumes that
the server serves or refuses what reaches it and that answers are handled, that
calls which wait go on once their handshake is settled, and that the calls of the
instance are made; nothing makes faults happen, and `Recovers` speaks of calls made
after the last one.  `exec`
assumes that the interpreter goes on, that timers go off, that a killed process
closes its output, and that files and agents' connectors answer; tools and
processes may hang for ever.

## 7. What is proved

Eight modules of proofs; a theorem holds for every value of the constants that
meets the assumptions the model's module names, and what a theorem needs beyond
those is a hypothesis it states.

`TriggersProofs` proves `TypeCorrect`, `OneSkillPerEvent`, `OneRowPerEvent` and
`IdMeansOneTrigger`: `TypeOK`, `EventNameUnique`, `StoredNamesUnique` and
`RowIdentity` are invariants.  None of them is inductive alone.  The invariant
`Inv` adds `Wiring` (the skills boot has yet to wire are stored and Approved: no
request runs before boot is through), `GoodMap` (the ids in the map are below
`nextId`, event names are lower-cased and have one holder), `FileGood` (the same
of the rows on disk) and `RowsBelowNext` (while the process runs, every stored row
has an id below `nextId`): that is what makes a fresh id fresh on disk too, and it
is why hydration's seeding of `nextId` matters.  `RegisterAllGood` carries the
weight: registering any sequence on a good map gives a good map.

Three more invariants stand on `Inv`.
- `FileAgreesAlways`: `FileAgrees` is inductive next to `Inv`; what costs is that
  the loop of a sync displaces client triggers without calling the hook, so its
  effect on the map has to be told apart from that of `registerTrigger`.
- `FiresPerStint`: `FiresOncePerStint`, by `WithinStints`: the fires of a schedule
  and its registrations that have yet to fire in this minute (`Unfired`) are
  together no more than those that came into service in it.  Polls turn the second
  into the first, removals and a crash only lose some, and what boots, syncs and
  clients add is counted.
- `DeclaredAreServed`: `DeclarativeServed`, for any number of overlapping requests,
  skills, bodies, restarts and failed writes.  The invariant `Service` says that
  two requests on one skill make it `raced` (`Alone`), that the request of a skill
  that is not raced carries what the store holds (`CarriesTruth`), that what boot
  has yet to wire has no declared trigger in service (`Unwired`), and of every
  skill that is settled, that its declared triggers are exactly those of its
  record, less those somebody took out (`InService`).  The part that is easy to
  miss is a body that declares one event twice: only its last registration stays,
  and a later sync of *another* skill may take that one as well
  (`RegisterAllAt`, `OneSurvives`).
- `LoopIsRegisterAll`: `LoopAgrees`, for bodies that declare any number of triggers.
  The loop is a recursive function over its turns.  That there is such a
  function (`TurnsExist`), and that after every turn the Map lists what the closed
  form of the turns so far has (`TurnIs`), are shown by the least turn at which they
  would fail; `RegisterOneIs` is the turn itself, where the first holder in insertion order is
  the only one, and `RegisterMore` adds one registration to the closed form.

`SupervisorProofs` proves `SupervisorTypeCorrect` and `NoFailureSlips`:
`NothingSlips` holds with any number of overlapping sweeps, restarts and failed
writes, which the run cannot show (it has one sweep at a time).  The invariant
`IInv` says that records in the making are `Timely`; that the cursor in memory, in
the file and in every snapshot on its way to the file has no missed failure
behind its margin (`CursorOK`, `NotedOK`, `SnapshotOK`); and that each
sweep under way has every missed failure its query could reach among what it has
still to do (`SweepOK`).  It needs `WriteDelay + ScanTime <= Margin`, which is the
meaning of the code's `SWEEP_MARGIN_MS`, and `OwnTraces`, that no two runs share a
trace id; without the latter it is false, since a composed run and its parent
may.  `NotifiedInWindow` (`WindowOnly`) and `ImplementsNotifier` (every initial
state and step of `Supervisor` is one of `Notifier`, by the mapping of
`IsNotifier`, whose fairness is left to the run) also need `OneSweep`, that sweeps
do not overlap: with two of them TLC finds both false, since the later one to end
prunes by its own, older maximum and a handler is called twice.  The code allows
the overlap (section 4); the theorems say what holds when no handler outlasts the
interval of the timer.

`SkillStoreProofs` proves `StoreTypeCorrect` and `StoreSigns`: `TypeOK` is an
invariant and `ApprovedIsSigned` holds of every step, for every set of texts,
authors and hand-placed bodies and any number of requests in flight.  That a
step leaves a signed body says nothing of where the body came from, so the
invariant `SInv` follows it: in secured mode a request asks for the key until its body is
resolved, has the authority for no status but Approved unless it is an
`update_status()`, and carries a signed body, or one that is not Approved, from
then on.  `ResolvedSigned` is the part about `store()` itself: whatever the log
ends with, with the key asked for it resolves no unsigned Approved body.
`StoreFilesAgree`, `StoreOnlyAuthority` and `StoreAuthorLocked` (`FilesAgree`,
`OnlyAuthorityApproves`, `AuthorLocked`) share the invariant `Story`: which
requests ran alone (`Lonely`), what a request that runs alone has read and what
the two files hold between its two writes (`Settled`), that an Approved status
anywhere goes back to a grant (`Trust`), and that while nothing was disturbed every
request past the author check bears the log's author (`Locked`).

`SubstratesProofs` proves `SqliteTypeCorrect` and `SqliteRowTruthful`, for
any number of processes and any texts (`SqliteAssumption`).  The invariant adds
`Carried`: what a request carries to its transaction is a status it may set and,
when it changes one, a body under the header that says so, without a signature;
that is why the row agrees with the gate after a commit that another process
straddled.  For the directory it proves `GuardSound`, for any number of skills.  The
invariant is `ScanSound`: a dependent that has not been written since the scan began
has been shown, is still on its way to be (`OnTheWay`), or could not be read.
Both are carried over to the host as the run has it
(`HostRowTruthful`, `HostGuardSound`): each side of a host with either store is
that store, or idle.

`McpProofs` has both connectors.  It proves `RemoteTypeCorrect`, `RemoteAnswersMatch`,
`RemoteNobodyForgotten` and `RemoteOnlyFailedLinger`, for any callers, children and
request ids.  `AnswersMatch` is not inductive: the invariant says of every pending
entry and every frame in a pipe to whom it belongs (`Belongs`), that who waits has
asked and who has asked is pending (`HasAsked`, `Waits`), and that the session's
handshake is that of the present child (`SessionOk`), which is what an exit event
of an older child has to leave alone.

Of the other connector it proves `HttpTypeCorrect`, `HttpPinned` and `HttpPoolBounded`, for
every set of callers, every pool size, any number of faults, and late errors
included (`PoolAssumption`).  An effect happens in the session its request names,
and requests outlive the entries that sent them, so the invariant says of each
place a session id can be (an entry, a request, an answer on its way back) that
the server pinned that session to the identity of its holder, and that calls and
handshakes hold entries of their own identity.  `HttpOnce` (`NoDoubleEffect`) has the
hypothesis `~LateErrors`, without which it is false (section 4): by `Once`, a call
has one request under way (`OneUnderWay`), and one that was refused, or has yet to
be sent, was not served (`RefusedUndone`).

`ExecutorProofs` proves `ExecutorLendsNothing`, `ExecutorCutReported`,
`ExecutorCleanMeansComplete` and the action property `ExecutorUncatchable`, for every set of
bodies the parser may yield (`Parsed`), every store and setup (`Started`), any
depth of composition and any deadlines.  The invariant `IInv` adds to the types that
the frames nest (each below the first stands for a composing op of the one above
it, and has no later deadline: `Nested`), that what is awaited is an op of the top
frame (`Awaited`), what an exception on its way up may have passed
(`Unwinding`), and that a frame has the authority its own skill has
(`OwnAuthority`).  For `CutReported` it says that the deadline carries, in the exception
or in the result, exactly the ops it cut that the code's test by name takes for
uncertain (`Reported`); `ReportedRight` then compares that test with what the ops
really may do, and what is left between the two are the homonyms.

`ParserProofs` proves `KeptWhereWrittenAlways`, `BranchWhereWrittenAlways` and
`NoCascadeAlways`, for sources of any length and depth over any set of lines
(`LineAssumption`: what may stand at the margin and what may be indented).  The
properties speak of the end of a source; the invariant `IInv` (`ParserInvariance`) says what the parser
knows at every line of it, in two halves.
- `Stacked`, for regular sources (`Regular`, section 4) with or without errors: the
  frames' depths rise by one step each, but for the frame of the target's `else:`,
  which is as deep as the target's own and may be any of them (`Shape`); every line
  that opened a block which no line has left has its frame (`Covered`), whatever was
  wrong with its condition; and no report of an indentation so far was an echo
  (`Rightly`).
- `Faithful`, for sources without errors: each frame stands for the line that
  opened it, at that line's depth plus a step (`FrameIs`), and all lines since are
  in its block (`Inner`); the frame of an `if` knows the `if`, nothing but its
  branches stood beside it, and it has no `else` yet (`OfIf`); the top frame is the
  one the last line opened or stands in (`TopIs`); every block an op is in was
  opened by an earlier line that something leads to (`Maps`, `Linked`); and the
  lines read so far are where they belong (`Bodied`).

The twenty actions are taken as the seven things they do to the stack (`Step`), and
`OldLines` and `OldOwners` say that a further line changes nothing the indentation said
of the earlier ones.  `Live` is a recursive function over a finite set of lines.  The
least set of lines closed under its clauses gives a function that satisfies them, so the one
`Live` names does too (`LiveUnfolds`); and since blocks are opened by earlier lines,
a least line that something leads to and that is not live cannot exist
(`AllLinkedLive`).  TLC checked the conjuncts of `IInv` over the instance of `parse`.

`PipelineProofs` proves `OrderIsSound`, `InlinedAreApproved`, `DispatchIsChecked`,
`UnboundIsExplained`, `ConditionsAlwaysAgree` and `CleanAlwaysCompiles`, for every set of skills and installations that meet
`CasesAssumption`, any graph of targets, library, nesting (`MaxNesting`) and answers.
The invariant has two layers.
- `RunInv` is what `compile()` leaves behind: the case never changes (`OneCase`), and
  from then on the plan has the order and the inlined ops it computed (`Planned`), which
  fit the targets (`Laid`).  The rest is about the two descents as functions.
  `toposort` is a recursive function over the length of a path, shown to
  exist and to satisfy its clause at every length; by the least length at which it
  would go wrong, what a visit lists has each name once, after what it depends on, and
  is reachable from where it began; a path that revisits nothing is never longer than
  the number of targets, so the bound is not met.  `inlineOps` likewise, over lists within
  lists: what was inlined was approved data, and no such reference is left in what
  a list becomes, blocks and else blocks included.
- `WholeInv` is about the run.  `Following` says that what is still to do is a queue of ops of
  the current target, of their blocks, or of the ends of loops, with what each end will
  keep; `Kept1` that every input and ambient name has a value, which each loop's end
  must give back; `Agreeing` that what was refused so far is explained.  An op that
  came from an inlined skill is an emit or a `$set`, which lint's rules on
  dispatch have nothing to say of; any other op of the plan is one of the skill's own,
  at the same place (top, block or `else:`), so the rule that walked it has seen it.
  A binary written out is looked up in one list by both judges, if there is one;
  one that is a reference lint cannot compare (`ReferenceSound`).

`ConditionsAlwaysAgree` adds to `WholeInv` only that the conditions of an op are as the
parser accepted them; the rest is about texts.  A text with a reading closes what it
opens (`Balanced`), and what may stand beside an `and` has no `or` outside parentheses
(`Shape`, kept by the grammar's clauses: `ShapeOf`).  So a cut at a connective inside
parentheses, or at one that is not the last, leaves a part without readings, and the
place both descents cut at is the only one (`OrCut`, `AndCut`).  One turn of the
descents then agrees with one step of the grammar, with parentheses stripped or not
(`TurnAgrees`), and so do all, by the length of the text (`DescentsAgree`).

`CleanAlwaysCompiles` compares two judges of one skill; its invariant is `CleanInv`, that
a clean skill has no rule of lint against it (`Silent`) and fails to compile for nothing but
what excuses it (`Excused`).  Lint looks for a cycle with one walk over the targets and
the compiler sorts them with another; both are recursive functions, and step by step, by how
much longer a path may get, a walk that meets no cycle has visited just what the sort
has listed (`SameWay`, `LintOrders`).  That every dependency is a target is lint's other
rule, and that the entry is one is the parser's.  The preflight reads the same rules with less of
the installation: the rules about the skill alone say the same (`SameForTheSkill`), those that
need the registry are silent without it, and one is left, the store that a trigger's
compile() is not handed (`PreflightPasses`).

Only model-checked are `ComesIntoService`, `EveryCallSettles`, `HealsAlone`, `Recovers`,
`RunEnds` and the fairness of `IsNotifier`: liveness is out of the prover's reach.  Every
invariant and every safety property of a step that a passing run checks has its theorem.

## 8. What is left out

- `Triggers`: a SkillStore call is one step and does not fail; the parser does
  not throw on a stored body; the stored signature verifies with the key the
  server signs with; command-line processes that write the store next to a
  serving process are not there.
- `Supervisor`: a query finds what was there when it began and any part of what
  came meanwhile; records are scanned in any order.
- `RemoteMcp`: frames arrive whole; a failed spawn is a child that dies at once;
  dispose() is called once; a frame that cannot be written fails its request
  (`Timeout`), but the `error` event of the child's stdin, to which nobody listens
  (`mcp-remote.ts:431`) and which would end the process, does not happen.
- `HttpMcp`: what the frames of a reply hold; a caller that gives up (the runtime
  abandons the promise, and the connector does not learn of it); dispose().
- `Executor`: approvals and bodies do not change during one run (that is
  `Triggers`); loading, gating and compiling a composed skill are one condition,
  `approved`; timers never go off early; conditions, values, filters and secrets
  are in `Pipeline`, here a condition or a loop may go any way; a skill delivers once; the
  connectors a notify op tries are one await.
- `Parser`: quoting, literals folded over several lines and blank lines; a
  condition is well-formed or not (`Condition` has its grammar).
- `Lint`, `Pipeline`: what rules search for in text is a mark; the wording of
  findings, the rendered prompt and the provenance block; of the filters only
  `fallback` and `pluck`, which decide whether a run goes on; the bindings of
  `target.output` and empty `else:` blocks.
- Stores: the parser does not throw on a stored body; a write that was
  cut leaves its header whole; a signature verifies exactly for the text it was
  made of, with the key of this installation; headers are flush left, as
  the parser and the stores' own readers both take them; `query`, `versions` and
  `version` only read.
- `Dependents`: over the database a scan is the same with reads that cannot be
  torn, so only the directory is modelled; one deletion at a time.
- Catalog and surface are read-only views that are built anew for each question;
  the connector registry is a table filled once at boot; command line, help, page,
  metrics, audit, provenance and paths are texts, counters and pure functions;
  data stores, models and agents pass one call on to what is outside.  Two hazards
  have no property: a register_trigger whose skill is rewritten before the
  registration (`mcp-server.ts:687`; the payload check is then that of the old
  body), and the
  grandchildren of a shell op (`runtime.ts:2206`), which are the operating
  system's.
- Components without a module are listed in `PROJECT.json` with the reason.
