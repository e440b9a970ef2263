--------------------------- MODULE SubstratesProofs ---------------------------
(***************************************************************************)
(* For every set of texts and sources and any number of requests in        *)
(* flight: the type invariant of SkillStoreSqlite, and that the row tells  *)
(* the truth about the skill.  For any number of skills and any way their  *)
(* files are written, lost and unreadable while a scan goes on: the guard  *)
(* of Dependents.  And that the host with either store behaves as that     *)
(* store does, so that what is proved of the directory and of the database *)
(* holds of the host.                                                      *)
(***************************************************************************)
EXTENDS Substrates, TLAPS

\* What a request carries to its transaction: a status it may set and, when the
\* status changes, a body under the header that says so, without a signature.
Carries(r, secured) ==
  /\ r.pc \in {"exists", "put"} =>
       /\ r.src \in BodyOf(Text)
       /\ r.want = None \/ (r.want = "Approved" /\ r.src.status = "Approved")
  /\ r.pc = "load" => r.want \in {None, "Approved"}
  /\ r.pc \in {"check", "read", "commit"} => r.want \in Status
  /\ r.pc = "commit" => r.src \in BodyOf(Text) /\ r.src.status = r.want /\ r.src.sig = None

Carried == \A o \in Op : Carries(op[o], mode.secured)

IInv == TypeOK /\ Carried /\ RowTruthful

-------------------------------------------------------------------------------
(* Bodies. *)

\* A rewritten header and a stamp make a body of a body.
LEMMA RewrittenBody ==
  ASSUME NEW b \in BodyOf(Text), NEW s \in Status
  PROVE  Header(b, s) \in BodyOf(Text) /\ Stamped(b) \in BodyOf(Text)
BY DEF Header, Stamped, BodyOf, Status

\* Status names are no placeholder, and a row is told from its absence by its body.
LEMMA RowIsThere ==
  ASSUME NEW r \in Row
  PROVE  r # NoRow /\ r.status # None
BY SqliteAssumption DEF Row, NoRow, Status, None

\* What a header rewrite leaves runs in unsecured mode only.
LEMMA UnsignedGate ==
  ASSUME NEW b \in BodyOf(Text), b.sig = None, NEW keyed \in BOOLEAN
  PROVE  Gate(b, keyed) <=> (b.status = "Approved" /\ ~keyed)
BY DEF Gate

\* store() writes a row whose status is what the gate will say of its body.
LEMMA ResolvedTruthful ==
  ASSUME NEW src \in BodyOf(Text), NEW want, NEW secured \in BOOLEAN,
         want = None \/ (want = "Approved" /\ src.status = "Approved")
  PROVE  /\ Resolved(src, want, secured) \in Row
         /\ Resolved(src, want, secured).status = "Approved"
              <=> Gate(Resolved(src, want, secured).source, secured)
<1> DEFINE status == Declared(src, want)
<1>1. status \in Status
  BY DEF Declared, BodyOf, Status
<1>2. status = "Approved" <=> src.status = "Approved"
  BY DEF Declared, BodyOf, Status, None
<1>3. Gate(src, TRUE) => Gate(src, secured)
  BY DEF Gate
<1>4. Gate(src, secured) => src.status = "Approved"
  BY DEF Gate
<1>5. ~secured => (Gate(src, secured) <=> src.status = "Approved")
  BY DEF Gate
<1> HIDE DEF status
<1>6. CASE status = "Approved" /\ secured /\ ~Gate(src, TRUE)
  <2>1. Resolved(src, want, secured) = [source |-> Header(src, "Draft"), status |-> "Draft"]
    BY <1>6 DEF Resolved, status
  <2>2. Header(src, "Draft") \in BodyOf(Text)
    BY RewrittenBody DEF Status
  <2>3. ~Gate(Header(src, "Draft"), secured)
    BY DEF Gate, Header
  <2> QED
    BY <2>1, <2>2, <2>3 DEF Row, Status
<1>7. CASE ~(status = "Approved" /\ secured /\ ~Gate(src, TRUE))
  <2>1. Resolved(src, want, secured) = [source |-> src, status |-> status]
    BY <1>7 DEF Resolved, status
  <2>2. status = "Approved" <=> Gate(src, secured)
    BY <1>2, <1>3, <1>4, <1>5, <1>7
  <2> QED
    BY <1>1, <2>1, <2>2 DEF Row
<1> QED
  BY <1>6, <1>7

-------------------------------------------------------------------------------
(* Steps. *)

\* The steps that touch neither the row nor its history.
Reads(o) == /\ UNCHANGED <<mode, row, versions, told>>
            /\ \E r \in Request : Carries(r, mode.secured) /\ op' = [op EXCEPT ![o] = r]

\* They keep the invariant.
LEMMA ReadsKeep ==
  ASSUME IInv, NEW o \in Op, Reads(o)
  PROVE  IInv'
<1>1. PICK r \in Request : Carries(r, mode.secured) /\ op' = [op EXCEPT ![o] = r]
  BY DEF Reads
<1>2. TypeOK'
  BY <1>1 DEF IInv, TypeOK, Reads
<1>3. Carried'
  <2>1. ASSUME NEW q \in Op PROVE Carries(op'[q], mode.secured)
    BY <1>1 DEF IInv, TypeOK, Carried
  <2> QED
    BY <2>1 DEF Carried, Carries, Reads
<1>4. RowTruthful'
  BY DEF IInv, RowTruthful, Reads
<1> QED
  BY <1>2, <1>3, <1>4 DEF IInv

\* A request that is over is a request.
LEMMA IdleType == Idle \in Request /\ \A s : Carries(Idle, s)
BY DEF Idle, At, Request, Carries

\* A refusal touches nothing but the request.
LEMMA RefusedReads ==
  ASSUME NEW o \in Op, Refused(o)
  PROVE  Reads(o)
BY IdleType DEF Refused, Reads

\* A request that begins.
LEMMA StartReads ==
  ASSUME NEW o \in Op, NEW r \in Request, Carries(r, mode.secured), Start(o, r)
  PROVE  Reads(o)
BY DEF Start, Reads

\* A write that begins, with a body and no say in its status.
LEMMA WriteReads ==
  ASSUME NEW o \in Op, NEW src \in BodyOf(Text), NEW overwrite \in BOOLEAN,
         Start(o, At(First(overwrite), src, None))
  PROVE  Reads(o)
<1>1. At(First(overwrite), src, None) \in Request
  BY DEF First, At, Request
<1>2. Carries(At(First(overwrite), src, None), mode.secured)
  BY DEF First, At, Carries
<1> QED
  BY <1>1, <1>2, StartReads

\* So do the two requests that write a body,
LEMMA RequestReads ==
  ASSUME IInv, NEW o \in Op, NEW src \in Source, NEW overwrite \in BOOLEAN,
         SkillWrite(o, src, overwrite) \/ BridgeWrite(o, src, overwrite)
  PROVE  Reads(o)
<1>1. src \in BodyOf(Text) /\ Header(src, "Draft") \in BodyOf(Text)
  BY SqliteAssumption, RewrittenBody DEF Status
<1>2. CASE SkillWrite(o, src, overwrite)
  <2> DEFINE out == IF mode.draft \/ (mode.secured /\ ~Gate(src, TRUE)) THEN Header(src, "Draft") ELSE src
  <2>1. out \in BodyOf(Text)
    BY <1>1
  <2>2. Start(o, At(First(overwrite), out, None))
    BY <1>2 DEF SkillWrite
  <2> HIDE DEF out
  <2> QED
    BY <2>1, <2>2, WriteReads
<1>3. CASE BridgeWrite(o, src, overwrite)
  BY <1>1, <1>3, WriteReads DEF BridgeWrite
<1> QED
  BY <1>2, <1>3

\* and the others.
LEMMA OtherReads ==
  ASSUME NEW o \in Op, NEW status \in Status, Approve(o) \/ Delete(o) \/ SkillStatus(o, status)
  PROVE  Reads(o)
<1>1. ASSUME NEW want \in {None, "Approved"}, Start(o, At("load", NoFile, want))
      PROVE  Reads(o)
  <2>1. At("load", NoFile, want) \in Request /\ Carries(At("load", NoFile, want), mode.secured)
    BY DEF At, Request, Carries, Status
  <2> QED
    BY <1>1, <2>1, StartReads
<1>2. CASE Approve(o) \/ Delete(o)
  BY <1>1, <1>2 DEF Approve, Delete
<1>3. CASE SkillStatus(o, status)
  <2> DEFINE pc == IF status = "Approved" /\ mode.secured THEN "check" ELSE "read"
  <2>1. pc \in {"check", "read"}
    OBVIOUS
  <2>2. Start(o, At(pc, NoFile, status))
    BY <1>3 DEF SkillStatus
  <2> HIDE DEF pc
  <2>3. At(pc, NoFile, status) \in Request /\ Carries(At(pc, NoFile, status), mode.secured)
    BY <2>1 DEF At, Request, Carries
  <2> QED
    BY <2>2, <2>3, StartReads
<1> QED
  BY <1>2, <1>3

\* A request that goes on without touching anything but itself.
LEMMA GoesReads ==
  ASSUME IInv, NEW o \in Op, NEW pc, NEW src, Goes(o, pc, src),
         At(pc, src, op[o].want) \in Request, Carries(At(pc, src, op[o].want), mode.secured)
  PROVE  Reads(o)
BY DEF Goes, Reads

\* The steps of a request up to its transaction.
LEMMA StepReads ==
  ASSUME IInv, NEW o \in Op, Exists(o) \/ Load(o) \/ Check(o) \/ ReadRow(o) \/ Fail(o)
  PROVE  Reads(o)
<1>1. op[o] \in Request /\ Carries(op[o], mode.secured)
  BY DEF IInv, TypeOK, Carried
<1>2. row # NoRow => row.source \in BodyOf(Text)
  BY DEF IInv, TypeOK, Row
<1>3. CASE Exists(o)
  <2>1. At("put", op[o].src, op[o].want) \in Request /\ Carries(At("put", op[o].src, op[o].want), mode.secured)
    BY <1>1, <1>3 DEF Exists, At, Request, Carries
  <2> QED
    BY <1>3, <2>1, GoesReads, RefusedReads DEF Exists
<1>4. CASE Load(o)
  <2>1. At("remove", NoFile, op[o].want) \in Request /\ Carries(At("remove", NoFile, op[o].want), mode.secured)
    BY <1>1 DEF At, Request, Carries
  <2>2. CASE row # NoRow /\ op[o].want = "Approved" /\ Goes(o, "put", Stamped(row.source))
    <3>1. Stamped(row.source) \in BodyOf(Text) /\ Stamped(row.source).status = "Approved"
      BY <1>2, <2>2, RewrittenBody DEF Stamped, Status
    <3>2. /\ At("put", Stamped(row.source), op[o].want) \in Request
          /\ Carries(At("put", Stamped(row.source), op[o].want), mode.secured)
      BY <1>1, <2>2, <3>1 DEF At, Request, Carries
    <3> QED
      BY <2>2, <3>2, GoesReads
  <2> QED
    BY <1>4, <2>1, <2>2, GoesReads, RefusedReads DEF Load
<1>5. CASE Check(o)
  <2>1. At("read", NoFile, op[o].want) \in Request /\ Carries(At("read", NoFile, op[o].want), mode.secured)
    BY <1>1, <1>5 DEF Check, At, Request, Carries
  <2> QED
    BY <1>5, <2>1, GoesReads, RefusedReads DEF Check
<1>6. CASE ReadRow(o)
  <2>1. CASE row # NoRow /\ Goes(o, "commit", Header(row.source, op[o].want))
    <3>1. op[o].want \in Status
      BY <1>1, <1>6 DEF ReadRow, Carries
    <3>2. /\ Header(row.source, op[o].want) \in BodyOf(Text)
          /\ Header(row.source, op[o].want).status = op[o].want
          /\ Header(row.source, op[o].want).sig = None
      <4>1. Header(row.source, op[o].want) \in BodyOf(Text)
        BY <1>2, <2>1, <3>1, RewrittenBody
      <4> QED
        BY <4>1 DEF Header
    <3>3. /\ At("commit", Header(row.source, op[o].want), op[o].want) \in Request
          /\ Carries(At("commit", Header(row.source, op[o].want), op[o].want), mode.secured)
      BY <3>1, <3>2 DEF At, Request, Carries
    <3> QED
      BY <2>1, <3>3, GoesReads
  <2> QED
    BY <1>6, <2>1, RefusedReads DEF ReadRow
<1>7. CASE Fail(o)
  BY <1>7, RefusedReads DEF Fail
<1> QED
  BY <1>3, <1>4, <1>5, <1>6, <1>7

\* A request that is over keeps the types and what the others carry.
LEMMA OverCarries ==
  ASSUME IInv, NEW o \in Op, op' = [op EXCEPT ![o] = Idle], mode' = mode
  PROVE  Carried' /\ op' \in [Op -> Request]
<1>1. op' \in [Op -> Request]
  BY IdleType DEF IInv, TypeOK
<1>2. ASSUME NEW q \in Op PROVE Carries(op'[q], mode'.secured)
  BY <1>2, IdleType DEF IInv, TypeOK, Carried
<1>3. Carried'
  BY <1>2 DEF Carried, Carries
<1> QED
  BY <1>1, <1>3

\* store() writes row and history together.
LEMMA PutKeeps ==
  ASSUME IInv, NEW o \in Op, Put(o)
  PROVE  IInv'
<1> DEFINE r == Resolved(op[o].src, op[o].want, mode.secured)
<1>1. mode.secured \in BOOLEAN
  BY SqliteAssumption DEF IInv, TypeOK
<1>2. /\ op[o].src \in BodyOf(Text)
      /\ op[o].want = None \/ (op[o].want = "Approved" /\ op[o].src.status = "Approved")
  BY DEF IInv, Carried, Carries, Put
<1>3. r \in Row /\ (r.status = "Approved" <=> Gate(r.source, mode.secured))
  BY <1>1, <1>2, ResolvedTruthful
<1>4. /\ row' = r /\ mode' = mode
      /\ versions' = [versions EXCEPT ![row'.source] = row'.status]
      /\ told' = [told EXCEPT !.reapproved = FALSE]
      /\ op' = [op EXCEPT ![o] = Idle]
  BY DEF Put
<1> HIDE DEF r
<1>5. row' \in Row /\ row' # NoRow /\ row'.source \in BodyOf(Text) /\ row'.status \in Status
  BY <1>3, <1>4, RowIsThere DEF Row
<1>6. versions' \in [BodyOf(Text) -> Status \cup {None}] /\ versions'[row'.source] = row'.status
  BY <1>4, <1>5 DEF IInv, TypeOK
<1>7. told' \in [orphaned : BOOLEAN, reapproved : BOOLEAN] /\ ~told'.reapproved
  BY <1>4 DEF IInv, TypeOK
<1>8. Carried' /\ op' \in [Op -> Request]
  BY <1>4, OverCarries
<1>9. TypeOK'
  BY <1>4, <1>5, <1>6, <1>7, <1>8 DEF IInv, TypeOK
<1>10. RowTruthful'
  BY <1>3, <1>4, <1>5, <1>6, <1>7 DEF RowTruthful, Gate
<1> QED
  BY <1>8, <1>9, <1>10 DEF IInv

\* update_status() does, or records a change that took no effect.
LEMMA CommitKeeps ==
  ASSUME IInv, NEW o \in Op, Commit(o)
  PROVE  IInv'
<1> DEFINE src == op[o].src  want == op[o].want
<1>1. src \in BodyOf(Text) /\ want \in Status /\ src.status = want /\ src.sig = None
  BY DEF IInv, Carried, Carries, Commit
<1>2. mode.secured \in BOOLEAN
  BY SqliteAssumption DEF IInv, TypeOK
<1>3. /\ row' = IF row = NoRow THEN NoRow ELSE [source |-> src, status |-> want]
      /\ mode' = mode
      /\ versions' = [versions EXCEPT ![src] = want]
      /\ told' = [orphaned |-> told.orphaned \/ row = NoRow,
                  reapproved |-> row # NoRow /\ mode.secured /\ want = "Approved"]
      /\ op' = [op EXCEPT ![o] = Idle]
  BY DEF Commit
<1>4. Gate(src, mode.secured) <=> (want = "Approved" /\ ~mode.secured)
  BY <1>1, <1>2, UnsignedGate
<1> HIDE DEF src, want
<1>5. versions' \in [BodyOf(Text) -> Status \cup {None}] /\ versions'[src] = want
  BY <1>1, <1>3 DEF IInv, TypeOK
<1>6. [source |-> src, status |-> want] \in Row
  BY <1>1 DEF Row
<1>7. told' \in [orphaned : BOOLEAN, reapproved : BOOLEAN]
  BY <1>2, <1>3 DEF IInv, TypeOK
<1>8. Carried' /\ op' \in [Op -> Request]
  BY <1>3, OverCarries
<1>9. TypeOK'
  BY <1>3, <1>5, <1>6, <1>7, <1>8 DEF IInv, TypeOK
<1>10. CASE row = NoRow
  <2>1. row' = NoRow /\ told'.orphaned
    BY <1>3, <1>10
  <2> QED
    BY <1>8, <1>9, <2>1 DEF IInv, RowTruthful
<1>11. CASE row # NoRow
  <2>1. row' = [source |-> src, status |-> want] /\ row' # NoRow
    BY <1>3, <1>6, <1>11, RowIsThere
  <2>2. told'.reapproved <=> (mode.secured /\ want = "Approved")
    BY <1>3, <1>11
  <2>3. RowTruthful'
    BY <1>3, <1>4, <1>5, <2>1, <2>2 DEF RowTruthful, Gate
  <2> QED
    BY <1>8, <1>9, <2>3 DEF IInv
<1> QED
  BY <1>10, <1>11

\* delete() takes both.
LEMMA RemoveKeeps ==
  ASSUME IInv, NEW o \in Op, Remove(o)
  PROVE  IInv'
<1>1. /\ row' = NoRow /\ mode' = mode
      /\ versions' = IF row = NoRow THEN versions ELSE NoVersions
      /\ told' = [told EXCEPT !.orphaned = @ /\ row = NoRow, !.reapproved = FALSE]
      /\ op' = [op EXCEPT ![o] = Idle]
  BY DEF Remove
<1>2. Carried' /\ op' \in [Op -> Request]
  BY <1>1, OverCarries
<1>3. told' = [orphaned |-> told.orphaned /\ row = NoRow, reapproved |-> FALSE]
  BY <1>1 DEF IInv, TypeOK
<1>4. TypeOK'
  BY <1>1, <1>2, <1>3 DEF IInv, TypeOK, NoVersions
<1>5. RowTruthful'
  BY <1>1, <1>3 DEF IInv, RowTruthful, NoVersions
<1> QED
  BY <1>2, <1>4, <1>5 DEF IInv

-------------------------------------------------------------------------------

\* An empty database.
LEMMA InitHolds == Init => IInv
<1> SUFFICES ASSUME Init PROVE IInv
  OBVIOUS
<1>1. TypeOK
  BY IdleType DEF Init, TypeOK, NoVersions
<1>2. Carried
  BY IdleType DEF Init, Carried
<1>3. RowTruthful
  BY DEF Init, RowTruthful
<1> QED
  BY <1>1, <1>2, <1>3 DEF IInv

\* Every step keeps the invariant.
LEMMA NextKeeps == IInv /\ [Next]_vars => IInv'
<1> SUFFICES ASSUME IInv, [Next]_vars PROVE IInv'
  OBVIOUS
<1>1. CASE UNCHANGED vars
  BY <1>1 DEF vars, IInv, TypeOK, Carried, Carries, RowTruthful, Gate
<1>2. CASE Next
  <2>1. PICK o \in Op :
          \/ \E src \in Source, overwrite \in BOOLEAN : SkillWrite(o, src, overwrite) \/ BridgeWrite(o, src, overwrite)
          \/ Approve(o) \/ Delete(o) \/ \E status \in Status : SkillStatus(o, status)
          \/ Exists(o) \/ Load(o) \/ Check(o) \/ Put(o) \/ ReadRow(o) \/ Commit(o) \/ Remove(o) \/ Fail(o)
    BY <1>2 DEF Next
  <2>2. CASE \E src \in Source, overwrite \in BOOLEAN : SkillWrite(o, src, overwrite) \/ BridgeWrite(o, src, overwrite)
    <3>1. "Draft" \in Status
      BY DEF Status
    <3> QED
      BY <2>2, <3>1, RequestReads, ReadsKeep
  <2>3. CASE Approve(o) \/ Delete(o) \/ \E status \in Status : SkillStatus(o, status)
    <3>1. PICK status \in Status : Approve(o) \/ Delete(o) \/ SkillStatus(o, status)
      BY <2>3 DEF Status
    <3> QED
      BY <3>1, OtherReads, ReadsKeep
  <2>4. CASE Exists(o) \/ Load(o) \/ Check(o) \/ ReadRow(o) \/ Fail(o)
    BY <2>4, StepReads, ReadsKeep
  <2> QED
    BY <2>1, <2>2, <2>3, <2>4, PutKeeps, CommitKeeps, RemoveKeeps
<1> QED
  BY <1>1, <1>2

\* The tables keep their types, whatever the processes do.
THEOREM SqliteTypeCorrect == Spec => []TypeOK
<1>1. Spec => []IInv
  BY InitHolds, NextKeeps, PTL DEF Spec
<1>2. IInv => TypeOK
  BY DEF IInv
<1> QED
  BY <1>1, <1>2, PTL

\* The row agrees with its history and with the gate, for any number of processes.
THEOREM SqliteRowTruthful == Spec => []RowTruthful
<1>1. Spec => []IInv
  BY InitHolds, NextKeeps, PTL DEF Spec
<1>2. IInv => RowTruthful
  BY DEF IInv
<1> QED
  BY <1>1, <1>2, PTL

-------------------------------------------------------------------------------
(* The guard of the delete surfaces, over the directory of the host.        *)

Scanning == scan.pc \in {"list", "load", "asked", "unlink"} /\ scan.by # "forced"

\* The dependents that are still to be found: a skill that has not been written
\* since the scan began and composes the target has been shown, is on its way to
\* be, or could not be read.
OnTheWay(s) ==
  /\ scan.pc = "list" => s \in scan.todo \cup scan.listed \cup scan.missed
  /\ scan.pc = "load" => s \in scan.todo \cup scan.shown \cup scan.missed
  /\ scan.pc \in {"asked", "unlink"} => s \in scan.shown \cup scan.missed

ScanSound ==
  /\ scan.by = "cli" /\ scan.pc = "unlink" => scan.shown = {}
  /\ scan.pc \in {"query", "list"} => scan.shown = {}
  /\ scan.by = "forced" => scan.pc = "unlink"
  /\ scan.by = "nobody" <=> scan.pc = "idle"
  /\ scan.pc = "asked" => scan.by = "page"
  /\ Scanning => \A s \in Skill \ scan.touched :
       /\ writing[s] = Files!Absent
       /\ file[s] = "names" => OnTheWay(s)
       /\ s \in scan.shown => file[s] = "names"

GuardInv == Files!TypeOK /\ ScanSound
ScanType ==
  [by : {"nobody", "cli", "page", "forced"}, pc : {"idle", "query", "list", "load", "asked", "unlink"},
   todo : SUBSET Skill, listed : SUBSET Skill, shown : SUBSET Skill,
   touched : SUBSET Skill, missed : SUBSET Skill]

-------------------------------------------------------------------------------

\* Nothing has been scanned.
LEMMA GuardInit == Files!Init => GuardInv
<1> SUFFICES ASSUME Files!Init PROVE GuardInv
  OBVIOUS
<1>1. Files!TypeOK
  BY DEF Files!Init, Files!TypeOK, Files!NoScan, Files!Content
<1>2. ScanSound
  BY DEF Files!Init, ScanSound, Scanning, Files!NoScan
<1> QED
  BY <1>1, <1>2 DEF GuardInv

\* The directory may change under a scan, in a file that is then touched.
LEMMA DirectoryKeeps ==
  ASSUME GuardInv, NEW s \in Skill,
         NEW f \in Files!Content \cup {Files!Absent}, NEW w \in Files!Content \cup {Files!Absent},
         file' = [file EXCEPT ![s] = f], writing' = [writing EXCEPT ![s] = w], Files!Touch(s),
         UNCHANGED <<target, unreadable>>
  PROVE  GuardInv'
<1>1. scan \in ScanType
  BY DEF GuardInv, Files!TypeOK, ScanType
<1>2. CASE scan.pc \in {"idle", "query"}
  <2>1. scan' = scan
    BY <1>2 DEF Files!Touch
  <2>2. Files!TypeOK'
    BY <2>1 DEF GuardInv, Files!TypeOK
  <2>3. ScanSound'
    BY <1>2, <2>1 DEF GuardInv, ScanSound, Scanning
  <2> QED
    BY <2>2, <2>3 DEF GuardInv
<1>3. CASE scan.pc \notin {"idle", "query"}
  <2>1. /\ scan' \in ScanType /\ scan'.touched = scan.touched \cup {s}
        /\ scan'.by = scan.by /\ scan'.pc = scan.pc /\ scan'.todo = scan.todo
        /\ scan'.listed = scan.listed /\ scan'.shown = scan.shown /\ scan'.missed = scan.missed
    BY <1>1, <1>3 DEF Files!Touch, ScanType
  <2>2. Files!TypeOK'
    BY <2>1 DEF GuardInv, Files!TypeOK, ScanType
  <2>3. ASSUME NEW q \in Skill \ scan'.touched
        PROVE  q \in Skill \ scan.touched /\ file'[q] = file[q] /\ writing'[q] = writing[q]
    BY <2>1 DEF GuardInv, Files!TypeOK
  <2>4. ScanSound'
    BY <2>1, <2>3 DEF GuardInv, ScanSound, Scanning, OnTheWay
  <2> QED
    BY <2>2, <2>4 DEF GuardInv
<1> QED
  BY <1>2, <1>3

\* Writes, cut or not, and deletions of other skills.
LEMMA FilesKeep ==
  ASSUME GuardInv, NEW s \in Skill,
         \/ \E content \in {"names", "hides", "plain"} : Files!Truncate(s, content)
         \/ Files!Finish(s) \/ Files!Unlink(s)
  PROVE  GuardInv'
<1>1. CASE \E content \in {"names", "hides", "plain"} : Files!Truncate(s, content)
  BY <1>1, DirectoryKeeps DEF Files!Truncate, Files!Content
<1>2. CASE Files!Finish(s)
  <2>1. writing[s] \in Files!Content \cup {Files!Absent} /\ file[s] \in Files!Content \cup {Files!Absent}
    BY DEF GuardInv, Files!TypeOK
  <2>2. file' = [file EXCEPT ![s] = writing[s]] \/ file' = [file EXCEPT ![s] = file[s]]
    BY <1>2 DEF Files!Finish, GuardInv, Files!TypeOK
  <2> QED
    BY <1>2, <2>1, <2>2, DirectoryKeeps DEF Files!Finish
<1>3. CASE Files!Unlink(s)
  <2>1. writing' = [writing EXCEPT ![s] = Files!Absent]
    BY <1>3 DEF Files!Unlink, GuardInv, Files!TypeOK
  <2> QED
    BY <1>3, <2>1, DirectoryKeeps DEF Files!Unlink
<1> QED
  BY <1>1, <1>2, <1>3

\* An outage and a restored target leave the scan and what it reads alone.
LEMMA OutsideKeeps ==
  ASSUME GuardInv, Files!Restore \/ \E s \in Skill : Files!Outage(s)
  PROVE  GuardInv'
<1>1. UNCHANGED <<file, writing, scan>> /\ unreadable' \subseteq Skill /\ target' \in BOOLEAN
  BY DEF Files!Restore, Files!Outage, GuardInv, Files!TypeOK
<1> QED
  BY <1>1 DEF GuardInv, Files!TypeOK, ScanSound, Scanning, OnTheWay

\* A scan that ends is no scan.
LEMMA EndedKeeps ==
  ASSUME GuardInv, scan' = Files!NoScan, UNCHANGED <<file, unreadable, writing>>, target' \in BOOLEAN
  PROVE  GuardInv'
BY DEF GuardInv, Files!TypeOK, ScanSound, Scanning, Files!NoScan

\* The steps of the scan.
LEMMA StartKeeps ==
  ASSUME GuardInv, NEW by \in {"cli", "page", "forced"}, Files!Start(by)
  PROVE  GuardInv'
<1> DEFINE pc == IF by = "forced" THEN "unlink" ELSE "query"
<1>1. scan' = [by |-> by, pc |-> pc, todo |-> {}, listed |-> {}, shown |-> {}, touched |-> {}, missed |-> {}]
  BY DEF Files!Start, Files!Steps, Files!NoScan
<1>2. UNCHANGED <<target, file, unreadable, writing>>
  BY DEF Files!Start, Files!Steps
<1>3. Files!TypeOK'
  BY <1>1, <1>2 DEF GuardInv, Files!TypeOK
<1>4. ScanSound'
  BY <1>1 DEF ScanSound, Scanning
<1> QED
  BY <1>3, <1>4 DEF GuardInv

\* The scan begins: what is being written is touched.
LEMMA ReadDirKeeps ==
  ASSUME GuardInv, Files!ReadDir
  PROVE  GuardInv'
<1>1. scan \in ScanType /\ scan.pc = "query" /\ scan.shown = {} /\ scan.by # "forced"
  BY DEF GuardInv, Files!TypeOK, ScanType, ScanSound, Files!ReadDir
<1>2. /\ scan' = [scan EXCEPT !.pc = "list", !.todo = {s \in Skill : file[s] # Files!Absent},
                              !.touched = {s \in Skill : writing[s] # Files!Absent}]
      /\ UNCHANGED <<target, file, unreadable, writing>>
  BY DEF Files!ReadDir, Files!Steps
<1>3. /\ scan' \in ScanType /\ scan'.pc = "list" /\ scan'.by = scan.by /\ scan'.shown = {}
      /\ scan'.todo = {s \in Skill : file[s] # Files!Absent}
      /\ scan'.touched = {s \in Skill : writing[s] # Files!Absent}
  BY <1>1, <1>2 DEF ScanType
<1>4. Files!TypeOK'
  BY <1>2, <1>3 DEF GuardInv, Files!TypeOK, ScanType
<1>5. ScanSound'
  <2>1. ASSUME NEW s \in Skill \ scan'.touched
        PROVE  writing'[s] = Files!Absent /\ (file'[s] = "names" => s \in scan'.todo)
    BY <1>2, <1>3 DEF Files!Absent
  <2> QED
    BY <1>1, <1>3, <2>1 DEF GuardInv, ScanSound, Scanning, OnTheWay
<1> QED
  BY <1>4, <1>5 DEF GuardInv

\* A file is listed, missed or gone.
LEMMA ListOneKeeps ==
  ASSUME GuardInv, NEW s \in Skill, Files!ListOne(s)
  PROVE  GuardInv'
<1> DEFINE readable == file[s] # Files!Absent /\ s \notin unreadable
<1>1. scan \in ScanType /\ scan.pc = "list"
  BY DEF GuardInv, Files!TypeOK, ScanType, Files!ListOne
<1>2. UNCHANGED <<target, file, unreadable, writing>>
  BY DEF Files!ListOne, Files!Steps
<1>3. /\ scan' \in ScanType
      /\ scan'.pc = "list" /\ scan'.by = scan.by /\ scan'.shown = scan.shown /\ scan'.touched = scan.touched
      /\ scan'.todo = scan.todo \ {s}
      /\ scan'.listed = IF readable THEN scan.listed \cup {s} ELSE scan.listed
      /\ scan'.missed = IF s \in unreadable THEN scan.missed \cup {s} ELSE scan.missed
  BY <1>1 DEF Files!ListOne, Files!Steps, ScanType
<1>4. Files!TypeOK'
  BY <1>2, <1>3 DEF GuardInv, Files!TypeOK, ScanType
<1>5. ScanSound'
  <2>1. ASSUME NEW q \in Skill, file[q] = "names", q \in scan.todo \cup scan.listed \cup scan.missed
        PROVE  q \in scan'.todo \cup scan'.listed \cup scan'.missed
    BY <1>3, <2>1 DEF Files!Absent
  <2> QED
    BY <1>1, <1>2, <1>3, <2>1 DEF GuardInv, ScanSound, Scanning, OnTheWay
<1> QED
  BY <1>4, <1>5 DEF GuardInv

\* What was listed is to be loaded.
LEMMA ListedKeeps ==
  ASSUME GuardInv, Files!Listed
  PROVE  GuardInv'
<1>1. scan \in ScanType /\ scan.pc = "list" /\ scan.todo = {}
  BY DEF GuardInv, Files!TypeOK, ScanType, Files!Listed
<1>2. UNCHANGED <<target, file, unreadable, writing>>
  BY DEF Files!Listed, Files!Steps
<1>3. /\ scan' \in ScanType
      /\ scan'.pc = "load" /\ scan'.by = scan.by /\ scan'.shown = scan.shown /\ scan'.touched = scan.touched
      /\ scan'.todo = scan.listed /\ scan'.missed = scan.missed
  BY <1>1 DEF Files!Listed, Files!Steps, ScanType
<1>4. Files!TypeOK'
  BY <1>2, <1>3 DEF GuardInv, Files!TypeOK, ScanType
<1>5. ScanSound'
  BY <1>1, <1>2, <1>3 DEF GuardInv, ScanSound, Scanning, OnTheWay
<1> QED
  BY <1>4, <1>5 DEF GuardInv

\* A loaded skill is shown if it composes the target.
LEMMA LoadOneKeeps ==
  ASSUME GuardInv, NEW s \in Skill, Files!LoadOne(s)
  PROVE  GuardInv'
<1>1. CASE Files!Ended
  BY <1>1, EndedKeeps DEF Files!Ended, Files!Steps, GuardInv, Files!TypeOK
<1>2. CASE Files!Steps([scan EXCEPT !.todo = @ \ {s}, !.shown = @ \cup Files!Finds(s)])
  <2>1. scan \in ScanType /\ scan.pc = "load"
    BY DEF GuardInv, Files!TypeOK, ScanType, Files!LoadOne
  <2>2. UNCHANGED <<target, file, unreadable, writing>>
    BY <1>2 DEF Files!Steps
  <2>3. Files!Finds(s) \subseteq Skill
    BY DEF Files!Finds
  <2>4. /\ scan' \in ScanType
        /\ scan'.pc = "load" /\ scan'.by = scan.by /\ scan'.touched = scan.touched
        /\ scan'.todo = scan.todo \ {s} /\ scan'.missed = scan.missed
        /\ scan'.shown = scan.shown \cup Files!Finds(s)
    BY <1>2, <2>1, <2>3 DEF Files!Steps, ScanType
  <2>5. Files!TypeOK'
    BY <2>2, <2>4 DEF GuardInv, Files!TypeOK, ScanType
  <2>6. ScanSound'
    BY <2>1, <2>2, <2>4 DEF GuardInv, ScanSound, Scanning, OnTheWay, Files!Finds
  <2> QED
    BY <2>5, <2>6 DEF GuardInv
<1> QED
  BY <1>1, <1>2 DEF Files!LoadOne

\* A deletion goes on with nothing to show, or with what was shown.
LEMMA AnswerKeeps ==
  ASSUME GuardInv, Files!Answer \/ Files!Confirm
  PROVE  GuardInv'
<1>1. CASE Files!Ended
  BY <1>1, EndedKeeps DEF Files!Ended, Files!Steps, GuardInv, Files!TypeOK
<1>2. ASSUME NEW pc \in {"asked", "unlink"}, Files!Steps([scan EXCEPT !.pc = pc]),
             \/ scan.pc = "load" /\ scan.todo = {}
             \/ scan.pc = "asked",
             scan.by = "cli" => scan.shown = {}, pc = "asked" => scan.by = "page",
             scan.by # "forced"
      PROVE  GuardInv'
  <2>1. scan \in ScanType
    BY DEF GuardInv, Files!TypeOK, ScanType
  <2>2. UNCHANGED <<target, file, unreadable, writing>>
    BY <1>2 DEF Files!Steps
  <2>3. /\ scan' \in ScanType
        /\ scan'.pc = pc /\ scan'.by = scan.by /\ scan'.touched = scan.touched
        /\ scan'.missed = scan.missed /\ scan'.shown = scan.shown
    BY <1>2, <2>1 DEF Files!Steps, ScanType
  <2>4. Files!TypeOK'
    BY <2>2, <2>3 DEF GuardInv, Files!TypeOK, ScanType
  <2>5. ScanSound'
    BY <1>2, <2>1, <2>2, <2>3 DEF GuardInv, ScanSound, Scanning, OnTheWay
  <2> QED
    BY <2>4, <2>5 DEF GuardInv
<1>3. CASE Files!Answer
  <2>1. scan.pc = "load" /\ scan.todo = {} /\ scan.by # "forced"
    BY <1>3 DEF Files!Answer, GuardInv, ScanSound
  <2>2. CASE scan.by = "cli" /\ scan.shown = {} /\ Files!Steps([scan EXCEPT !.pc = "unlink"])
    BY <1>2, <2>1, <2>2
  <2>3. CASE scan.by = "page" /\ Files!Steps([scan EXCEPT !.pc = "asked"])
    BY <1>2, <2>1, <2>3
  <2> QED
    BY <1>1, <1>3, <2>2, <2>3 DEF Files!Answer
<1>4. CASE Files!Confirm
  <2>1. scan.pc = "asked" /\ scan.by \notin {"forced", "cli"}
    BY <1>4 DEF Files!Confirm, GuardInv, ScanSound
  <2> QED
    BY <1>1, <1>2, <1>4, <2>1 DEF Files!Confirm
<1> QED
  BY <1>3, <1>4

\* Every step keeps the invariant.
LEMMA GuardNext == GuardInv /\ [Files!Next]_Files!vars => GuardInv'
<1> SUFFICES ASSUME GuardInv, [Files!Next]_Files!vars PROVE GuardInv'
  OBVIOUS
<1>1. CASE UNCHANGED Files!vars
  BY <1>1 DEF Files!vars, GuardInv, Files!TypeOK, ScanSound, Scanning, OnTheWay
<1>2. CASE Files!Next
  <2>1. CASE Files!Delete
    BY <2>1, EndedKeeps DEF Files!Delete
  <2> QED
    BY <1>2, <2>1, FilesKeep, OutsideKeeps, ListOneKeeps, LoadOneKeeps, StartKeeps, ReadDirKeeps,
       ListedKeeps, AnswerKeeps DEF Files!Next
<1> QED
  BY <1>1, <1>2

-------------------------------------------------------------------------------

\* Every deletion that was not forced was shown what the scan could find, for any
\* number of skills.
THEOREM GuardSound == Files!Spec => Files!NoOrphanUnseen
<1>1. GuardInv /\ [Files!Next]_Files!vars =>
        [target /\ ~target' /\ scan.by # "forced" =>
           \A s \in Skill \ scan.touched :
             /\ s \notin scan.missed /\ file[s] = "names" => s \in scan.shown
             /\ s \in scan.shown => file[s] = "names" /\ scan.by = "page"]_Files!vars
  <2> SUFFICES ASSUME GuardInv, Files!Next, target, ~target', scan.by # "forced", NEW s \in Skill \ scan.touched
               PROVE  /\ s \notin scan.missed /\ file[s] = "names" => s \in scan.shown
                      /\ s \in scan.shown => file[s] = "names" /\ scan.by = "page"
    BY DEF Files!vars
  <2>1. Files!Delete
    BY DEF Files!Next, Files!Truncate, Files!Finish, Files!Unlink, Files!Outage, Files!ListOne,
       Files!LoadOne, Files!Start, Files!Restore, Files!ReadDir, Files!Listed,
       Files!Answer, Files!Confirm, Files!Ended, Files!Steps
  <2>2. scan.pc = "unlink" /\ Scanning
    BY <2>1 DEF Files!Delete, Scanning
  <2>3. scan.by \in {"nobody", "cli", "page", "forced"}
    BY DEF GuardInv, Files!TypeOK
  <2> QED
    BY <2>2, <2>3 DEF GuardInv, ScanSound, OnTheWay
<1>2. Files!Spec => []GuardInv
  BY GuardInit, GuardNext, PTL DEF Files!Spec
<1> QED
  BY <1>1, <1>2, PTL DEF Files!Spec, Files!NoOrphanUnseen

-------------------------------------------------------------------------------
(* The host. *)

\* The database side of a host is the database, or idle.
LEMMA DatabaseSide == StoreSpec => Spec
<1>1. StoreInit => Init
  BY DEF StoreInit
<1>2. [StoreNext]_allVars => [Next]_vars
  BY DEF StoreNext, allVars
<1> QED
  BY <1>1, <1>2, PTL DEF StoreSpec, Spec

\* However the requests interleave, the row of the host's database tells the truth.
THEOREM HostRowTruthful == StoreSpec => []RowTruthful
BY DatabaseSide, SqliteRowTruthful, PTL

\* What a host deletes after a scan leaves no dependent that was not shown.
THEOREM HostGuardSound == StoreSpec => NoOrphanUnseen
<1>1. StoreInit => Files!Init
  BY DEF StoreInit
<1>2. [StoreNext]_allVars => [Files!Next]_Files!vars
  BY DEF StoreNext, allVars, fileVars, Files!vars
<1>3. StoreSpec => Files!Spec
  BY <1>1, <1>2, PTL DEF StoreSpec, Files!Spec
<1> QED
  BY <1>3, GuardSound, PTL DEF NoOrphanUnseen
=============================================================================
