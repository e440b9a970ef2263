----------------------------- MODULE SkillStoreFs -----------------------------
(***************************************************************************)
(* FilesystemSkillStore (connectors/skill-store.ts) for one skill, with    *)
(* the requests that write it and the approval gate (approval.ts): the     *)
(* body file <name>.skill.md and the log <name>.versions.jsonl, written    *)
(* one after the other by requests that overlap and that may end between   *)
(* any two of their awaits.                                                *)
(***************************************************************************)
EXTENDS Approval

CONSTANTS
  Author,    \* identities skill_write is called under, None if none is attested
  Owner,     \* the user the process runs as, in whose name the rest is done
  Source,    \* the bodies agents hand in, and files put there by hand
  Modes,     \* the modes a process may be started in
  Requests,  \* the kinds of request that are made
  Op         \* requests in flight

ASSUME StoreAssumption ==
  /\ {None, Damaged} \cap (Text \cup {Owner}) = {} /\ Damaged \notin Author
  /\ Source \subseteq BodyOf(Text)
  /\ Modes \subseteq [secured : BOOLEAN, draft : BOOLEAN]
  /\ Requests \subseteq {"write", "bridge", "approve", "status", "delete"}

Empty == [text |-> Damaged, status |-> None, sig |-> None]

\* Of the log the code reads the first line's changed_by, the last line's
\* status, and whether there is a last line and it ends in a newline.
NoLog == [author |-> None, last |-> None, tail |-> "none"]
Log == {l \in [author : Author \cup {Owner, None}, last : Status \cup {None},
                tail : {"none", "whole", "torn"}] :
          /\ l.tail = "none" => l = NoLog
          /\ l.tail = "torn" => l.last = None}

\* What a request carries over its awaits: the body it was given or will write,
\* the author it asks for or has, the status it was given the authority to set,
\* the mode of its process, the status resolved, the state of its open file, and
\* whether it has been alone so far.
Request ==
  [kind : Requests \cup {None},
   pc : {"idle", "exists", "load", "check", "author", "status", "read",
         "open", "write", "append", "unlink", "purge"},
   src : Body, author : Author \cup {Owner, None}, want : Status \cup {None}, keyed : BOOLEAN,
   status : Status \cup {None}, fd : {"own", "shared", "gone"}, alone : BOOLEAN]

Idle == [kind |-> None, pc |-> "idle", src |-> Empty, author |-> None, want |-> None,
         keyed |-> FALSE, status |-> None, fd |-> "own", alone |-> FALSE]

VARIABLES
  mode,   \* [secured, draft]: secured mode, forceAlwaysDraft
  body,   \* the body file
  log,    \* the version log
  op,     \* what each request in flight carries over its awaits
  told    \* what callers have been told (no code depends on it):
          \*   born      a request on this skill was acknowledged since it came to be
          \*   granted   the last answer to a status change or an approval, or the
          \*             first answer of all, left the skill Approved
          \*   settled   the last change to a file is that of an acknowledged
          \*             request that overlapped no other
          \*   trusted   since the last acknowledged status change, approval or delete
          \*             that was alone: no overlap, no torn line
          \*   spotless  since the skill came to be: no overlap, no failed write
vars == <<mode, body, log, op, told>>

Told == [born : BOOLEAN, granted : BOOLEAN, settled : BOOLEAN, trusted : BOOLEAN, spotless : BOOLEAN]

TypeOK ==
  /\ mode \in Modes
  /\ body \in Body \cup {NoFile}
  /\ log \in Log
  /\ op \in [Op -> Request]
  /\ told \in Told

\* A new store, or a directory with a hand-written file and no log.
Init ==
  /\ mode \in Modes
  /\ body \in Source \cup {NoFile}
  /\ log = NoLog
  /\ op = [o \in Op |-> Idle]
  /\ told = [born |-> FALSE, granted |-> body.status = "Approved", settled |-> FALSE,
             trusted |-> TRUE, spotless |-> TRUE]

-------------------------------------------------------------------------------
(* What a write makes of the log and of a status. *)

\* Variant: the first line is read as the last.
AppendedFirst(l, author, status) ==
  IF l.tail = "none" THEN [author |-> author, last |-> status, tail |-> "whole"]
  ELSE [l EXCEPT !.tail = "whole"]

\* What appendFile makes of the log: a line that follows a torn one is lost in it.
Appended(l, author, status) ==
  CASE l.tail = "none"  -> [author |-> author, last |-> status, tail |-> "whole"]
    [] l.tail = "whole" -> [l EXCEPT !.last = status]
    [] OTHER            -> [l EXCEPT !.last = None, !.tail = "whole"]

\* What is left of an append that was cut.
Torn(l) == [l EXCEPT !.last = None, !.tail = "torn"]

\* Variant: what the body declares goes before what the skill was.
DeclaredStatus(src, want, last) ==
  IF want # None THEN want ELSE IF src.status # None THEN src.status
  ELSE IF last # None THEN last ELSE "Draft"

\* The status a store() is for: the one its caller has the authority to set, else
\* the one the log ends with, else the one the body declares.
StatusOf(src, want, last) ==
  IF want # None THEN want ELSE IF last # None THEN last
  ELSE IF src.status # None THEN src.status ELSE "Draft"

\* store(): the status and the body to write, from the last status in the log.
Resolved(src, want, keyed, last) ==
  LET status == StatusOf(src, want, last)
      out == IF last # None /\ src.status \notin {None, status} THEN Header(src, status) ELSE src
      minting == status = "Approved" /\ out.status \in {None, "Approved"}
  IN  IF ~minting THEN [status |-> status, out |-> out]
      ELSE IF ~keyed THEN [status |-> status, out |-> Header(out, status)]
      ELSE IF Gate(out, keyed) THEN [status |-> status, out |-> out]
      ELSE [status |-> "Draft", out |-> Header(out, "Draft")]

-------------------------------------------------------------------------------
(* Requests. *)

Alone(o) == \A q \in Op \ {o} : op[q] = Idle

Start(o, request) ==
  /\ op[o] = Idle
  /\ request.kind \in Requests
  /\ op' = [q \in Op |-> IF q = o THEN [request EXCEPT !.alone = Alone(o)]
                         ELSE [op[q] EXCEPT !.alone = FALSE]]
  /\ told' = [told EXCEPT !.trusted = @ /\ Alone(o), !.spotless = @ /\ Alone(o)]
  /\ UNCHANGED <<mode, body, log>>

\* skill_write of the server; without overwrite it looks for the skill first.
SkillWrite(o, src, author, overwrite) ==
  LET forced == mode.draft \/ (mode.secured /\ ~Gate(src, TRUE))
  IN  Start(o, [Idle EXCEPT !.kind = "write", !.pc = IF overwrite THEN "author" ELSE "exists",
                            !.src = IF forced THEN Header(src, "Draft") ELSE src,
                            !.author = author, !.keyed = mode.secured])

\* `$ skill_write` in a running skill.
BridgeWrite(o, src, overwrite) ==
  Start(o, [Idle EXCEPT !.kind = "bridge", !.pc = IF overwrite THEN "author" ELSE "exists",
                        !.src = Header(src, "Draft"), !.keyed = mode.secured])

\* POST /approve, or `skillfile approve` in a process of its own, which is
\* always in secured mode.
Approve(o, keyed) ==
  Start(o, [Idle EXCEPT !.kind = "approve", !.pc = "load", !.want = "Approved", !.keyed = keyed])

SkillStatus(o, status) ==
  Start(o, [Idle EXCEPT !.kind = "status", !.want = status, !.keyed = mode.secured,
                        !.pc = IF status = "Approved" /\ mode.secured THEN "check" ELSE "read"])

\* POST /delete with force.
Delete(o) == Start(o, [Idle EXCEPT !.kind = "delete", !.pc = "load"])

Goes(o, request) == op' = [op EXCEPT ![o] = request] /\ UNCHANGED <<mode, body, log, told>>
Writes(o, out, status) ==
  Goes(o, [op[o] EXCEPT !.pc = "open", !.src = out, !.status = status, !.want = None, !.keyed = FALSE])
Refused(o) == op' = [op EXCEPT ![o] = Idle] /\ UNCHANGED <<mode, body, log, told>>

Exists(o) ==
  /\ op[o].pc = "exists"
  /\ \/ body = NoFile /\ Goes(o, [op[o] EXCEPT !.pc = "author"])
     \/ body # NoFile /\ Refused(o)

Load(o) ==
  /\ op[o].pc = "load"
  /\ \/ body = NoFile /\ Refused(o)
     \/ body # NoFile /\ op[o].kind = "approve" /\ Goes(o, [op[o] EXCEPT !.pc = "author", !.src = Stamped(body)])
     \/ body # NoFile /\ op[o].kind = "delete" /\ Goes(o, [op[o] EXCEPT !.pc = "unlink"])

\* skill_status checks the signature before update_status does.
Check(o) ==
  /\ op[o].pc = "check"
  /\ \/ Gate(body, TRUE) /\ Goes(o, [op[o] EXCEPT !.pc = "read"])
     \/ ~Gate(body, TRUE) /\ Refused(o)

\* Variant: the author who asks is the author.
ReadAuthorTaken(o) ==
  /\ op[o].pc = "author"
  /\ LET r == op[o]
     IN  Goes(o, [r EXCEPT !.pc = "status", !.author = IF r.author = None THEN Owner ELSE r.author])

\* store(): readFirstVersionAuthor.
ReadAuthor(o) ==
  /\ op[o].pc = "author"
  /\ LET r == op[o]
         locked == log.author # None
     IN  \/ locked /\ r.author \notin {None, log.author} /\ Refused(o)
         \/ locked /\ r.author \in {None, log.author} /\ Goes(o, [op[o] EXCEPT !.pc = "status", !.author = log.author])
         \/ ~locked /\ Goes(o, [op[o] EXCEPT !.pc = "status", !.author = IF r.author = None THEN Owner ELSE r.author])

\* store(): readLastVersionStatus and what follows from it.
ReadStatus(o) ==
  /\ op[o].pc = "status"
  /\ LET to == Resolved(op[o].src, op[o].want, op[o].keyed, log.last)
     IN  Writes(o, to.out, to.status)

\* update_status() up to its write.
ReadBody(o) ==
  /\ op[o].pc = "read"
  /\ LET r == op[o]
         keeps == r.want = "Approved" /\ r.keyed
     IN  \/ body = NoFile /\ Refused(o)
         \/ body # NoFile /\ keeps /\ ~Gate(body, TRUE) /\ Refused(o)
         \/ body # NoFile /\ keeps /\ Gate(body, TRUE)
            /\ Writes(o, body, r.want)
         \/ body # NoFile /\ ~keeps
            /\ Writes(o, Header(body, r.want), r.want)

\* writeFile opens and truncates,
OpenBody(o) ==
  /\ op[o].pc = "open"
  /\ body' = Empty
  /\ op' = [op EXCEPT ![o].pc = "write"]
  /\ told' = [told EXCEPT !.settled = FALSE]
  /\ UNCHANGED <<mode, log>>

\* then writes at the beginning of the file it opened: over what another
\* request wrote meanwhile, or into a file that is no longer there.
WriteBody(o) ==
  /\ op[o].pc = "write"
  /\ body' \in CASE op[o].fd = "own"    -> {op[o].src}
                 [] op[o].fd = "shared" -> {op[o].src, [op[o].src EXCEPT !.text = Damaged]}
                 [] op[o].fd = "gone"   -> {body}
  /\ op' = [q \in Op |-> IF q = o THEN [op[q] EXCEPT !.pc = "append", !.fd = "own"]
                         ELSE IF op[q].pc = "write" /\ op[q].fd = "own" /\ op[o].fd # "gone"
                              THEN [op[q] EXCEPT !.fd = "shared"] ELSE op[q]]
  /\ UNCHANGED <<mode, log, told>>

\* The line of the log, and the answer.  update_status leaves changed_by out.
AppendLine(o) ==
  LET r == op[o]
      authority == r.kind \in {"approve", "status"}
  IN  /\ r.pc = "append"
      /\ log' = Appended(log, IF r.kind = "status" THEN None ELSE r.author, r.status)
      /\ op' = [op EXCEPT ![o] = Idle]
      /\ told' = [told EXCEPT
                    !.born = TRUE,
                    !.granted = IF authority \/ ~told.born THEN r.status = "Approved" ELSE @,
                    !.settled = r.alone,
                    !.trusted = @ \/ (authority /\ r.alone /\ log'.last # None)]
      /\ UNCHANGED <<mode, body>>

\* delete() unlinks the body,
Unlink(o) ==
  /\ op[o].pc = "unlink"
  /\ body' = NoFile
  /\ op' = [q \in Op |-> IF q = o THEN [op[q] EXCEPT !.pc = "purge"]
                         ELSE IF op[q].pc = "write" THEN [op[q] EXCEPT !.fd = "gone"] ELSE op[q]]
  /\ told' = [told EXCEPT !.settled = FALSE]
  /\ UNCHANGED <<mode, log>>

\* then the log.
Purge(o) ==
  /\ op[o].pc = "purge"
  /\ log' = NoLog
  /\ op' = [op EXCEPT ![o] = Idle]
  /\ told' = [born |-> FALSE, granted |-> FALSE, settled |-> op[o].alone,
              trusted |-> told.trusted \/ op[o].alone, spotless |-> told.spotless \/ op[o].alone]
  /\ UNCHANGED <<mode, body>>

\* A file operation fails, or the process ends: the request is over, a write
\* may have been done in part.  A crash is this step for every request.
Fail(o) ==
  LET r == op[o]
      started == r.pc \in {"write", "append", "purge"}
  IN  /\ r # Idle
      /\ \/ r.pc = "write" /\ r.fd # "gone" /\ body' = [r.src EXCEPT !.text = Damaged] /\ log' = log
         \/ r.pc = "append" /\ log' = Torn(log) /\ body' = body
         \/ UNCHANGED <<body, log>>
      /\ op' = [op EXCEPT ![o] = Idle]
      /\ told' = [told EXCEPT !.trusted = @ /\ log' = log, !.spotless = @ /\ ~started]
      /\ UNCHANGED mode

Next ==
  \E o \in Op :
    \/ \E src \in Source, overwrite \in BOOLEAN :
         \/ \E author \in Author : SkillWrite(o, src, author, overwrite)
         \/ BridgeWrite(o, src, overwrite)
    \/ \E keyed \in {mode.secured, TRUE} : Approve(o, keyed)
    \/ \E status \in Status : SkillStatus(o, status)
    \/ Delete(o)
    \/ Exists(o) \/ Load(o) \/ Check(o) \/ ReadAuthor(o) \/ ReadStatus(o) \/ ReadBody(o)
    \/ OpenBody(o) \/ WriteBody(o) \/ AppendLine(o) \/ Unlink(o) \/ Purge(o)
    \/ Fail(o)

Spec == Init /\ [][Next]_vars

-------------------------------------------------------------------------------
(* Properties. *)

\* When the last change is that of an acknowledged request that ran alone, the
\* two files tell one story, whatever failed or overlapped before: both are
\* there or neither, and a status that can be read from the log is Approved
\* exactly if the gate lets the body run (skill-store.ts:270, :279).
FilesAgree ==
  told.settled =>
    /\ body = NoFile <=> log.tail = "none"
    /\ log.last # None => (log.last = "Approved" <=> Gate(body, mode.secured))

\* A rewrite approves nothing: a skill that requests left in peace since the
\* last status change, approval or delete runs only if that request, or the one
\* that made the skill, approved it; failed writes in between do not matter
\* (skill-store.ts:199).
OnlyAuthorityApproves ==
  told.trusted /\ told.settled => (Gate(body, mode.secured) => told.granted)

\* In secured mode the store writes no Approved header without the signature of
\* what it heads, however requests overlap and fail (skill-store.ts:251, :407).
ApprovedIsSigned ==
  [][mode.secured /\ body' # body /\ body'.status = "Approved" /\ body'.text # Damaged
       => body'.sig = body'.text]_vars

\* While no requests overlapped and no write failed, no store() in another
\* name than the one the log begins with is acknowledged (skill-store.ts:182).
AuthorLocked ==
  [][\A o \in Op :
       told.spotless /\ op[o].kind = "write" /\ AppendLine(o) /\ log'.author # None
         => op[o].author = log'.author]_vars

=============================================================================
