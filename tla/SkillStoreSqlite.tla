--------------------------- MODULE SkillStoreSqlite ---------------------------
(***************************************************************************)
(* SqliteSkillStore (connectors/sqlite-skill-store.ts) for one skill: its  *)
(* row in `skills`, what `skill_versions` says of it, and the requests     *)
(* that write them.  Each request runs in a process of its own (a server   *)
(* for each agent, the dashboard) on one database file: within a process   *)
(* the store's methods do not await, so only other processes come between  *)
(* their steps, and a transaction is one step.                             *)
(***************************************************************************)
EXTENDS Approval

CONSTANTS
  Source,    \* the bodies agents hand in
  Modes,     \* the modes the processes may be started in
  Op         \* requests in flight

ASSUME SqliteAssumption ==
  /\ None \notin Text
  /\ Source \subseteq BodyOf(Text)
  /\ Modes \subseteq [secured : BOOLEAN, draft : BOOLEAN]

Row == [source : BodyOf(Text), status : Status]
NoRow == [source |-> NoFile, status |-> None]

\* What a request carries from one step to the next: the body it was given or
\* will write and the status it was given the authority to set.
Request ==
  [pc : {"idle", "exists", "load", "check", "put", "read", "commit", "remove"},
   src : BodyOf(Text) \cup {NoFile}, want : Status \cup {None}]
At(pc, src, want) == [pc |-> pc, src |-> src, want |-> want]
Idle == At("idle", NoFile, None)

VARIABLES
  mode,      \* [secured, draft]: secured mode, forceAlwaysDraft
  row,       \* the row of `skills`
  versions,  \* the status `skill_versions` records, by content hash
  op,        \* what each request in flight carries
  told       \* what no code depends on:
             \*   orphaned   a status change was recorded after the skill had been deleted
             \*   reapproved in secured mode the row is as a status change to Approved left it
vars == <<mode, row, versions, op, told>>

TypeOK ==
  /\ mode \in Modes
  /\ row \in Row \cup {NoRow}
  /\ versions \in [BodyOf(Text) -> Status \cup {None}]
  /\ op \in [Op -> Request]
  /\ told \in [orphaned : BOOLEAN, reapproved : BOOLEAN]

NoVersions == [b \in BodyOf(Text) |-> None]

Init ==
  /\ mode \in Modes
  /\ row = NoRow
  /\ versions = NoVersions
  /\ op = [o \in Op |-> Idle]
  /\ told = [orphaned |-> FALSE, reapproved |-> FALSE]

-------------------------------------------------------------------------------
(* Requests. *)

Start(o, request) == /\ op[o] = Idle
                     /\ op' = [op EXCEPT ![o] = request]
                     /\ UNCHANGED <<mode, row, versions, told>>
Goes(o, pc, src) ==
  op' = [op EXCEPT ![o] = At(pc, src, op[o].want)] /\ UNCHANGED <<mode, row, versions, told>>
Refused(o) == op' = [op EXCEPT ![o] = Idle] /\ UNCHANGED <<mode, row, versions, told>>

First(overwrite) == IF overwrite THEN "put" ELSE "exists"

\* skill_write of the server.
SkillWrite(o, src, overwrite) ==
  LET forced == mode.draft \/ (mode.secured /\ ~Gate(src, TRUE))
  IN  Start(o, At(First(overwrite), IF forced THEN Header(src, "Draft") ELSE src, None))

\* `$ skill_write` in a running skill.
BridgeWrite(o, src, overwrite) ==
  Start(o, At(First(overwrite), Header(src, "Draft"), None))

\* POST /approve.
Approve(o) == Start(o, At("load", NoFile, "Approved"))

\* skill_status.
SkillStatus(o, status) ==
  Start(o, At(IF status = "Approved" /\ mode.secured THEN "check" ELSE "read", NoFile, status))

\* POST /delete with force.
Delete(o) == Start(o, At("load", NoFile, None))

Exists(o) ==
  /\ op[o].pc = "exists"
  /\ \/ row = NoRow /\ Goes(o, "put", op[o].src)
     \/ row # NoRow /\ Refused(o)

\* What /approve and /delete do first.
Load(o) ==
  /\ op[o].pc = "load"
  /\ \/ row = NoRow /\ Refused(o)
     \/ row # NoRow /\ op[o].want = None /\ Goes(o, "remove", NoFile)
     \/ row # NoRow /\ op[o].want = "Approved" /\ Goes(o, "put", Stamped(row.source))

Check(o) ==
  /\ op[o].pc = "check"
  /\ \/ Gate(row.source, TRUE) /\ Goes(o, "read", NoFile)
     \/ ~Gate(row.source, TRUE) /\ Refused(o)

-------------------------------------------------------------------------------
(* The store's methods. *)

\* Variant: the body's own header is not looked at.
DeclaredByCaller(src, want) == IF want # None THEN want ELSE "Draft"

\* The status a store() is for: its caller's, else the body's.
Declared(src, want) ==
  IF want # None THEN want ELSE IF src.status # None THEN src.status ELSE "Draft"

\* store(): what it writes of a body.  Nothing is kept of the row it replaces.
Resolved(src, want, secured) ==
  LET status == Declared(src, want)
  IN  IF status = "Approved" /\ secured /\ ~Gate(src, TRUE)
      THEN [source |-> Header(src, "Draft"), status |-> "Draft"]
      ELSE [source |-> src, status |-> status]

\* store(), one transaction.
Put(o) ==
  /\ op[o].pc = "put"
  /\ row' = Resolved(op[o].src, op[o].want, mode.secured)
  /\ versions' = [versions EXCEPT ![row'.source] = row'.status]
  /\ op' = [op EXCEPT ![o] = Idle]
  /\ told' = [told EXCEPT !.reapproved = FALSE]
  /\ UNCHANGED mode

\* update_status() reads the row before its transaction,
ReadRow(o) ==
  /\ op[o].pc = "read"
  /\ LET refused == row = NoRow \/ (op[o].want = "Approved" /\ mode.secured /\ ~Gate(row.source, TRUE))
     IN  \/ refused /\ Refused(o)
         \/ ~refused /\ Goes(o, "commit", Header(row.source, op[o].want))

\* which updates the row if there still is one, and records the change either way.
Commit(o) ==
  /\ op[o].pc = "commit"
  /\ row' = IF row = NoRow THEN NoRow ELSE [source |-> op[o].src, status |-> op[o].want]
  /\ versions' = [versions EXCEPT ![op[o].src] = op[o].want]
  /\ op' = [op EXCEPT ![o] = Idle]
  /\ told' = [orphaned |-> told.orphaned \/ row = NoRow,
              reapproved |-> row # NoRow /\ mode.secured /\ op[o].want = "Approved"]
  /\ UNCHANGED mode

\* delete(), one transaction, which fails if the row is gone.
Remove(o) ==
  /\ op[o].pc = "remove"
  /\ row' = NoRow
  /\ versions' = IF row = NoRow THEN versions ELSE NoVersions
  /\ op' = [op EXCEPT ![o] = Idle]
  /\ told' = [told EXCEPT !.orphaned = @ /\ row = NoRow, !.reapproved = FALSE]
  /\ UNCHANGED mode

\* The database is busy or fails, or the process ends: the transaction is undone.
Fail(o) == op[o] # Idle /\ Refused(o)

Next ==
  \E o \in Op :
    \/ \E src \in Source, overwrite \in BOOLEAN : SkillWrite(o, src, overwrite) \/ BridgeWrite(o, src, overwrite)
    \/ Approve(o) \/ Delete(o) \/ \E status \in Status : SkillStatus(o, status)
    \/ Exists(o) \/ Load(o) \/ Check(o) \/ Put(o) \/ ReadRow(o) \/ Commit(o) \/ Remove(o) \/ Fail(o)

Spec == Init /\ [][Next]_vars

-------------------------------------------------------------------------------
(* Properties. *)

\* The row tells the truth about the skill: its status is what the gate will say
\* of its body, except after a status change to Approved in secured mode, which
\* takes the signature it has just verified out of the body; its version is in the
\* history with that status; and what was deleted has no history, unless another
\* process changed its status while it was being deleted
\* (sqlite-skill-store.ts:356, :449, :483, :488).
RowTruthful ==
  /\ row # NoRow =>
       /\ versions[row.source] = row.status
       /\ row.status = "Approved" <=> Gate(row.source, mode.secured) \/ told.reapproved
  /\ row = NoRow /\ ~told.orphaned => versions = NoVersions
=============================================================================
