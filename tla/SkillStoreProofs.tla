--------------------------- MODULE SkillStoreProofs ---------------------------
(***************************************************************************)
(* For every set of texts, authors, sources and requests in flight: the    *)
(* type invariant of SkillStoreFs; that in secured mode the store writes   *)
(* no Approved header but over the text its token signs; and the story     *)
(* the body and the log tell together: that they agree, that a rewrite     *)
(* approves nothing, and that the author of the log is locked.             *)
(***************************************************************************)
EXTENDS SkillStoreFs, TLAPS

(* The operators on bodies and logs. *)

\* A rewritten header makes a body of a body.
LEMMA HeaderType ==
  ASSUME NEW b \in Body, NEW s \in Status \cup {None}
  PROVE  Header(b, s) \in Body
BY DEF Header, Body, BodyOf

\* So does a stamp.
LEMMA StampedType ==
  ASSUME NEW b \in Body
  PROVE  Stamped(b) \in Body
BY DEF Stamped, Body, BodyOf, Status

\* What agents hand in is a body.
LEMMA SourceType == Source \subseteq Body
<1>1. SUFFICES ASSUME NEW b \in Source PROVE b \in Body
  OBVIOUS
<1>2. b \in BodyOf(Text)
  BY StoreAssumption
<1> QED
  BY <1>2 DEF BodyOf, Body

\* A log that a line is appended to, or that a cut append leaves behind, is a log.
LEMMA AppendedType ==
  ASSUME NEW l \in Log, NEW a \in Author \cup {Owner, None}, NEW s \in Status \cup {None}
  PROVE  Appended(l, a, s) \in Log
BY DEF Appended, Log, NoLog

LEMMA TornType ==
  ASSUME NEW l \in Log
  PROVE  Torn(l) \in Log
BY DEF Torn, Log, NoLog

\* store() resolves a body and a status, whatever the log ends with.
LEMMA ResolvedType ==
  ASSUME NEW src \in Body, NEW want \in Status \cup {None}, NEW keyed \in BOOLEAN,
         NEW last \in Status \cup {None}
  PROVE  /\ Resolved(src, want, keyed, last).out \in Body
         /\ Resolved(src, want, keyed, last).status \in Status
<1> DEFINE status == StatusOf(src, want, last)
           out == IF last # None /\ src.status \notin {None, status} THEN Header(src, status) ELSE src
<1>1. status \in Status
  BY DEF StatusOf, Body, BodyOf, Status
<1>2. out \in Body
  BY <1>1, HeaderType
<1>3. Header(out, status) \in Body /\ Header(out, "Draft") \in Body
  BY <1>1, <1>2, HeaderType DEF Status
<1> HIDE DEF out, status
<1>4. Resolved(src, want, keyed, last) \in
        [status : {status, "Draft"}, out : {out, Header(out, status), Header(out, "Draft")}]
  BY DEF Resolved, out, status
<1> QED
  BY <1>1, <1>2, <1>3, <1>4 DEF Status

-------------------------------------------------------------------------------
(* Type correctness. *)

\* A request that starts leaves everything in its type.
LEMMA StartType ==
  ASSUME TypeOK, NEW o \in Op, NEW r \in Request, Start(o, r)
  PROVE  TypeOK'
<1>1. Alone(o) \in BOOLEAN
  BY DEF Alone
<1>2. op' \in [Op -> Request]
  <2>1. ASSUME NEW q \in Op
        PROVE  [op[q] EXCEPT !.alone = FALSE] \in Request /\ [r EXCEPT !.alone = Alone(o)] \in Request
    BY <1>1 DEF TypeOK, Request
  <2> QED
    BY <2>1 DEF Start
<1>3. told' \in Told
  BY <1>1 DEF Start, TypeOK, Told
<1> QED
  BY <1>2, <1>3 DEF Start, TypeOK

\* So does one that goes on or is refused.
LEMMA GoesType ==
  ASSUME TypeOK, NEW o \in Op, NEW r \in Request, Goes(o, r)
  PROVE  TypeOK'
BY DEF TypeOK, Goes

LEMMA IdleType == Idle \in Request /\ Empty \in Body
BY DEF Idle, Empty, Request, Body, BodyOf

LEMMA RefusedType ==
  ASSUME TypeOK, NEW o \in Op, Refused(o)
  PROVE  TypeOK'
BY IdleType DEF TypeOK, Refused

\* Every step keeps the type invariant.
LEMMA TypeStep ==
  ASSUME TypeOK, [Next]_vars
  PROVE  TypeOK'
<1> USE SourceType
<1>0. mode.secured \in BOOLEAN /\ mode.draft \in BOOLEAN
  BY StoreAssumption DEF TypeOK
<1>1. ASSUME NEW o \in Op, NEW src \in Source, NEW author \in Author, NEW overwrite \in BOOLEAN,
             SkillWrite(o, src, author, overwrite)
      PROVE  TypeOK'
  <2> DEFINE forced == mode.draft \/ (mode.secured /\ ~Gate(src, TRUE))
             r == [Idle EXCEPT !.kind = "write", !.pc = IF overwrite THEN "author" ELSE "exists",
                               !.src = IF forced THEN Header(src, "Draft") ELSE src,
                               !.author = author, !.keyed = mode.secured]
  <2>1. (IF forced THEN Header(src, "Draft") ELSE src) \in Body
    BY HeaderType DEF Status
  <2>2. "write" \in Requests
    BY <1>1 DEF SkillWrite, Start, Idle
  <2>3. r \in Request
    BY <2>1, <2>2, <1>0 DEF Idle, Request
  <2> QED
    BY <1>1, <2>3, StartType DEF SkillWrite
<1>2. ASSUME NEW o \in Op, NEW src \in Source, NEW overwrite \in BOOLEAN, BridgeWrite(o, src, overwrite)
      PROVE  TypeOK'
  <2> DEFINE r == [Idle EXCEPT !.kind = "bridge", !.pc = IF overwrite THEN "author" ELSE "exists",
                               !.src = Header(src, "Draft"), !.keyed = mode.secured]
  <2>1. Header(src, "Draft") \in Body
    BY HeaderType DEF Status
  <2>2. "bridge" \in Requests
    BY <1>2 DEF BridgeWrite, Start, Idle
  <2>3. r \in Request
    BY <2>1, <2>2, <1>0 DEF Idle, Request
  <2> QED
    BY <1>2, <2>3, StartType DEF BridgeWrite
<1>3. ASSUME NEW o \in Op, NEW keyed \in {mode.secured, TRUE}, Approve(o, keyed)
      PROVE  TypeOK'
  <2> DEFINE r == [Idle EXCEPT !.kind = "approve", !.pc = "load", !.want = "Approved", !.keyed = keyed]
  <2>1. "approve" \in Requests
    BY <1>3 DEF Approve, Start, Idle
  <2>2. r \in Request
    BY <2>1, <1>0, IdleType DEF Idle, Request, Status
  <2> QED
    BY <1>3, <2>2, StartType DEF Approve
<1>4. ASSUME NEW o \in Op, NEW status \in Status, SkillStatus(o, status)
      PROVE  TypeOK'
  <2> DEFINE r == [Idle EXCEPT !.kind = "status", !.want = status, !.keyed = mode.secured,
                               !.pc = IF status = "Approved" /\ mode.secured THEN "check" ELSE "read"]
  <2>1. "status" \in Requests
    BY <1>4 DEF SkillStatus, Start, Idle
  <2>2. r \in Request
    BY <2>1, <1>0, IdleType DEF Idle, Request
  <2> QED
    BY <1>4, <2>2, StartType DEF SkillStatus
<1>5. ASSUME NEW o \in Op, Delete(o)
      PROVE  TypeOK'
  <2>1. "delete" \in Requests
    BY <1>5 DEF Delete, Start, Idle
  <2>2. [Idle EXCEPT !.kind = "delete", !.pc = "load"] \in Request
    BY <2>1, IdleType DEF Idle, Request
  <2> QED
    BY <1>5, <2>2, StartType DEF Delete
<1>6. ASSUME NEW o \in Op, Exists(o) \/ Check(o)
      PROVE  TypeOK'
  <2>1. op[o] \in Request
    BY DEF TypeOK
  <2>2. [op[o] EXCEPT !.pc = "author"] \in Request /\ [op[o] EXCEPT !.pc = "read"] \in Request
    BY <2>1 DEF Request
  <2> QED
    BY <1>6, <2>2, GoesType, RefusedType DEF Exists, Check
<1>7. ASSUME NEW o \in Op, Load(o)
      PROVE  TypeOK'
  <2>1. op[o] \in Request
    BY DEF TypeOK
  <2>2. [op[o] EXCEPT !.pc = "unlink"] \in Request
    BY <2>1 DEF Request
  <2>3. ASSUME body # NoFile PROVE [op[o] EXCEPT !.pc = "author", !.src = Stamped(body)] \in Request
    <3>1. Stamped(body) \in Body
      BY <2>3, StampedType DEF TypeOK
    <3> QED
      BY <2>1, <3>1 DEF Request
  <2> QED
    BY <1>7, <2>2, <2>3, GoesType, RefusedType DEF Load
<1>8. ASSUME NEW o \in Op, ReadAuthor(o)
      PROVE  TypeOK'
  <2>1. op[o] \in Request /\ op[o].author \in Author \cup {Owner, None}
    BY DEF TypeOK, Request
  <2>2. log.author \in Author \cup {Owner, None}
    BY DEF TypeOK, Log
  <2>3. ASSUME NEW a \in Author \cup {Owner, None}
        PROVE  [op[o] EXCEPT !.pc = "status", !.author = a] \in Request
    BY <2>1 DEF Request
  <2>4. [op[o] EXCEPT !.pc = "status", !.author = log.author] \in Request
    BY <2>2, <2>3
  <2>5. [op[o] EXCEPT !.pc = "status",
                      !.author = IF op[o].author = None THEN Owner ELSE op[o].author] \in Request
    BY <2>1, <2>3
  <2> QED
    BY <1>8, <2>4, <2>5, GoesType, RefusedType DEF ReadAuthor
<1>9. ASSUME NEW o \in Op, NEW b \in Body, NEW s \in Status \cup {None}, Writes(o, b, s)
      PROVE  TypeOK'
  <2>1. op[o] \in Request
    BY DEF TypeOK
  <2>2. [op[o] EXCEPT !.pc = "open", !.src = b, !.status = s, !.want = None, !.keyed = FALSE] \in Request
    BY <2>1 DEF Request
  <2> QED
    BY <1>9, <2>2, GoesType DEF Writes
<1>10. ASSUME NEW o \in Op, ReadStatus(o)
       PROVE  TypeOK'
  <2>1. /\ op[o].src \in Body /\ op[o].want \in Status \cup {None}
        /\ op[o].keyed \in BOOLEAN /\ log.last \in Status \cup {None}
    BY DEF TypeOK, Request, Log
  <2> QED
    BY <1>9, <1>10, <2>1, ResolvedType DEF ReadStatus
<1>11. ASSUME NEW o \in Op, ReadBody(o)
       PROVE  TypeOK'
  <2>1. op[o].want \in Status \cup {None}
    BY DEF TypeOK, Request
  <2>2. CASE body = NoFile
    BY <1>11, <2>2, RefusedType DEF ReadBody
  <2>3. CASE body # NoFile
    <3>1. body \in Body /\ Header(body, op[o].want) \in Body
      BY <2>1, <2>3, HeaderType DEF TypeOK
    <3> QED
      BY <1>9, <1>11, <2>1, <2>3, <3>1, RefusedType DEF ReadBody
  <2> QED
    BY <2>2, <2>3
<1>12. ASSUME NEW o \in Op, OpenBody(o)
       PROVE  TypeOK'
  <2>1. op' \in [Op -> Request]
    BY <1>12 DEF OpenBody, TypeOK, Request
  <2> QED
    BY <1>12, <2>1, IdleType DEF OpenBody, TypeOK, Told
<1>13. ASSUME NEW o \in Op, WriteBody(o)
       PROVE  TypeOK'
  <2>1. op[o].src \in Body /\ [op[o].src EXCEPT !.text = Damaged] \in Body
    BY DEF TypeOK, Request, Body, BodyOf
  <2>2. op[o].fd \in {"own", "shared", "gone"}
    BY DEF TypeOK, Request
  <2>3. body' \in Body \cup {NoFile}
    BY <1>13, <2>1, <2>2 DEF WriteBody, TypeOK
  <2>4. ASSUME NEW q \in Op
        PROVE  [op[q] EXCEPT !.pc = "append", !.fd = "own"] \in Request /\ [op[q] EXCEPT !.fd = "shared"] \in Request
    BY DEF TypeOK, Request
  <2>5. op' \in [Op -> Request]
    BY <1>13, <2>4 DEF WriteBody, TypeOK
  <2> QED
    BY <1>13, <2>3, <2>5 DEF WriteBody, TypeOK
<1>14. ASSUME NEW o \in Op, AppendLine(o)
       PROVE  TypeOK'
  <2>1. op[o].author \in Author \cup {Owner, None} /\ op[o].status \in Status \cup {None} /\ op[o].alone \in BOOLEAN
    BY DEF TypeOK, Request
  <2>2. log' \in Log
    BY <1>14, <2>1, AppendedType DEF AppendLine, TypeOK
  <2>3. told' \in Told
    BY <1>14, <2>1 DEF AppendLine, TypeOK, Told
  <2> QED
    BY <1>14, <2>2, <2>3, IdleType DEF AppendLine, TypeOK
<1>15. ASSUME NEW o \in Op, Unlink(o)
       PROVE  TypeOK'
  <2>1. ASSUME NEW q \in Op
        PROVE  [op[q] EXCEPT !.pc = "purge"] \in Request /\ [op[q] EXCEPT !.fd = "gone"] \in Request
    BY DEF TypeOK, Request
  <2>2. op' \in [Op -> Request]
    BY <1>15, <2>1 DEF Unlink, TypeOK
  <2> QED
    BY <1>15, <2>2 DEF Unlink, TypeOK, Told
<1>16. ASSUME NEW o \in Op, Purge(o)
       PROVE  TypeOK'
  <2>1. op[o].alone \in BOOLEAN
    BY DEF TypeOK, Request
  <2>2. told' \in Told
    BY <1>16, <2>1 DEF Purge, TypeOK, Told
  <2>3. NoLog \in Log
    BY DEF NoLog, Log
  <2> QED
    BY <1>16, <2>2, <2>3, IdleType DEF Purge, TypeOK
<1>17. ASSUME NEW o \in Op, Fail(o)
       PROVE  TypeOK'
  <2>1. [op[o].src EXCEPT !.text = Damaged] \in Body
    BY DEF TypeOK, Request, Body, BodyOf
  <2>2. body' \in Body \cup {NoFile} /\ log' \in Log
    BY <1>17, <2>1, TornType DEF Fail, TypeOK
  <2>3. told' \in Told
    BY <1>17 DEF Fail, TypeOK, Told
  <2> QED
    BY <1>17, <2>2, <2>3, IdleType DEF Fail, TypeOK
<1>18. CASE UNCHANGED vars
  BY <1>18 DEF vars, TypeOK
<1> QED
  BY <1>1, <1>2, <1>3, <1>4, <1>5, <1>6, <1>7, <1>8, <1>10, <1>11, <1>12, <1>13, <1>14, <1>15,
     <1>16, <1>17, <1>18 DEF Next

\* The initial states are of their types.
LEMMA InitType == Init => TypeOK
<1>1. ASSUME Init PROVE body \in Body \cup {NoFile} /\ log \in Log
  BY <1>1, SourceType DEF Init, NoLog, Log
<1>2. ASSUME Init PROVE told \in Told
  BY <1>2 DEF Init, Told
<1> QED
  BY <1>1, <1>2, IdleType DEF Init, TypeOK

\* The type invariant holds of every history: the two files stay a body and a
\* log whatever overlaps, fails or is cut short (skill-store.ts:266-281).
THEOREM StoreTypeCorrect == Spec => []TypeOK
<1> QED
  BY InitType, TypeStep, PTL DEF Spec

-------------------------------------------------------------------------------
(* What is headed Approved is signed. *)

\* The invariant of one request in secured mode: until its body is resolved it
\* asks for the key, and but for update_status it has the authority for no status
\* or for Approved only; the body it then writes is Approved only if signed.
Signed(b) == b.status = "Approved" => b.sig = b.text
Secure(r) ==
  LET approving == r.pc = "load" /\ r.kind = "approve"
  IN  /\ approving \/ r.pc \in {"exists", "check", "author", "status", "read"} => r.keyed
      /\ approving \/ r.pc \in {"exists", "author", "status"} => r.want \in {None, "Approved"}
      /\ r.pc \in {"open", "write"} => Signed(r.src)
SInv == mode.secured => \A o \in Op : Secure(op[o])

\* A body whose header is set to anything but Approved needs no signature.
LEMMA HeaderSigned ==
  ASSUME NEW b, NEW s, s # "Approved"
  PROVE  Signed(Header(b, s))
BY DEF Signed, Header

\* With the key asked for, store() resolves no unsigned Approved body.
LEMMA ResolvedSigned ==
  ASSUME NEW src \in Body, NEW want \in {None, "Approved"}, NEW last \in Status \cup {None}
  PROVE  Signed(Resolved(src, want, TRUE, last).out)
<1> DEFINE status == StatusOf(src, want, last)
           out == IF last # None /\ src.status \notin {None, status} THEN Header(src, status) ELSE src
           minting == status = "Approved" /\ out.status \in {None, "Approved"}
<1>1. CASE ~minting
  <2>1. out.status # "Approved"
    BY <1>1 DEF StatusOf, Header, Body, BodyOf, Status, None
  <2>2. Resolved(src, want, TRUE, last).out = out
    BY <1>1 DEF Resolved
  <2> QED
    BY <2>1, <2>2 DEF Signed
<1>2. CASE minting /\ Gate(out, TRUE)
  <2>1. Resolved(src, want, TRUE, last).out = out
    BY <1>2 DEF Resolved
  <2> QED
    BY <1>2, <2>1 DEF Signed, Gate
<1>3. CASE minting /\ ~Gate(out, TRUE)
  <2>1. Resolved(src, want, TRUE, last).out = Header(out, "Draft")
    BY <1>3 DEF Resolved
  <2> QED
    BY <2>1, HeaderSigned
<1> QED
  BY <1>1, <1>2, <1>3

\* The request of a step may change so that Secure holds of it; those of the
\* others change no field that Secure reads.
LEMMA SecureStep ==
  ASSUME SInv, NEW o \in Op, mode' = mode, mode.secured => Secure(op'[o]),
         \A q \in Op \ {o} : /\ op'[q].pc = op[q].pc /\ op'[q].kind = op[q].kind
                              /\ op'[q].keyed = op[q].keyed /\ op'[q].want = op[q].want
                              /\ op'[q].src = op[q].src
  PROVE  SInv'
BY DEF SInv, Secure, Signed

\* Steps that set only the request's own record.
LEMMA SecureGoes ==
  ASSUME TypeOK, SInv, NEW o \in Op, NEW r, Goes(o, r), mode.secured => Secure(r)
  PROVE  SInv'
<1>1. op'[o] = r /\ \A q \in Op \ {o} : op'[q] = op[q]
  BY DEF Goes, TypeOK
<1>2. mode' = mode
  BY DEF Goes
<1> QED
  BY <1>1, <1>2, SecureStep

LEMMA SecureIdle ==
  ASSUME TypeOK, SInv, NEW o \in Op, mode' = mode, op' = [op EXCEPT ![o] = Idle]
  PROVE  SInv'
<1>1. op'[o] = Idle /\ \A q \in Op \ {o} : op'[q] = op[q]
  BY DEF TypeOK
<1>2. Secure(Idle)
  BY DEF Secure, Idle
<1> QED
  BY <1>1, <1>2, SecureStep

LEMMA SecureStart ==
  ASSUME TypeOK, SInv, NEW o \in Op, NEW r \in Request, Start(o, r), mode.secured => Secure(r)
  PROVE  SInv'
<1>1. op'[o] = [r EXCEPT !.alone = Alone(o)] /\ mode' = mode
  BY DEF Start
<1>2. /\ op'[o].pc = r.pc /\ op'[o].kind = r.kind /\ op'[o].keyed = r.keyed
      /\ op'[o].want = r.want /\ op'[o].src = r.src
  BY <1>1 DEF Request
<1>3. mode.secured => Secure(op'[o])
  BY <1>2 DEF Secure
<1>4. \A q \in Op \ {o} : op'[q] = [op[q] EXCEPT !.alone = FALSE]
  BY DEF Start
<1>5. \A q \in Op \ {o} : /\ op'[q].pc = op[q].pc /\ op'[q].kind = op[q].kind
                           /\ op'[q].keyed = op[q].keyed /\ op'[q].want = op[q].want
                           /\ op'[q].src = op[q].src
  <2> TAKE q \in Op \ {o}
  <2>1. op'[q] = [op[q] EXCEPT !.alone = FALSE] /\ op[q] \in Request
    BY <1>4 DEF TypeOK
  <2> QED
    BY <2>1 DEF Request
<1> QED
  BY <1>1, <1>3, <1>5, SecureStep

\* Every step keeps the invariant.
LEMMA SecureNext ==
  ASSUME TypeOK, SInv, [Next]_vars
  PROVE  SInv'
<1> USE SourceType
<1>0. mode.secured \in BOOLEAN /\ mode.draft \in BOOLEAN
  BY StoreAssumption DEF TypeOK
<1>1. ASSUME NEW o \in Op, NEW src \in Source, NEW author \in Author, NEW overwrite \in BOOLEAN,
             SkillWrite(o, src, author, overwrite)
      PROVE  SInv'
  <2> DEFINE forced == mode.draft \/ (mode.secured /\ ~Gate(src, TRUE))
             r == [Idle EXCEPT !.kind = "write", !.pc = IF overwrite THEN "author" ELSE "exists",
                               !.src = IF forced THEN Header(src, "Draft") ELSE src,
                               !.author = author, !.keyed = mode.secured]
  <2>1. (IF forced THEN Header(src, "Draft") ELSE src) \in Body
    BY HeaderType DEF Status
  <2>2. "write" \in Requests
    BY <1>1 DEF SkillWrite, Start, Idle
  <2>3. r \in Request
    BY <2>1, <2>2, <1>0 DEF Idle, Request
  <2>4. mode.secured => Secure(r)
    BY DEF Secure, Idle
  <2> QED
    BY <1>1, <2>3, <2>4, SecureStart DEF SkillWrite
<1>2. ASSUME NEW o \in Op, NEW src \in Source, NEW overwrite \in BOOLEAN, BridgeWrite(o, src, overwrite)
      PROVE  SInv'
  <2> DEFINE r == [Idle EXCEPT !.kind = "bridge", !.pc = IF overwrite THEN "author" ELSE "exists",
                               !.src = Header(src, "Draft"), !.keyed = mode.secured]
  <2>1. Header(src, "Draft") \in Body /\ "bridge" \in Requests
    BY <1>2, HeaderType DEF Status, BridgeWrite, Start, Idle
  <2>2. r \in Request
    BY <2>1, <1>0 DEF Idle, Request
  <2>3. mode.secured => Secure(r)
    BY DEF Secure, Idle
  <2> QED
    BY <1>2, <2>2, <2>3, SecureStart DEF BridgeWrite
<1>3. ASSUME NEW o \in Op, NEW keyed \in {mode.secured, TRUE}, Approve(o, keyed)
      PROVE  SInv'
  <2> DEFINE r == [Idle EXCEPT !.kind = "approve", !.pc = "load", !.want = "Approved", !.keyed = keyed]
  <2>1. "approve" \in Requests
    BY <1>3 DEF Approve, Start, Idle
  <2>2. r \in Request
    BY <2>1, <1>0, IdleType DEF Idle, Request, Status
  <2>3. mode.secured => Secure(r)
    BY DEF Secure, Idle
  <2> QED
    BY <1>3, <2>2, <2>3, SecureStart DEF Approve
<1>4. ASSUME NEW o \in Op, NEW status \in Status, SkillStatus(o, status)
      PROVE  SInv'
  <2> DEFINE r == [Idle EXCEPT !.kind = "status", !.want = status, !.keyed = mode.secured,
                               !.pc = IF status = "Approved" /\ mode.secured THEN "check" ELSE "read"]
  <2>1. "status" \in Requests
    BY <1>4 DEF SkillStatus, Start, Idle
  <2>2. r \in Request
    BY <2>1, <1>0, IdleType DEF Idle, Request
  <2>3. mode.secured => Secure(r)
    BY DEF Secure, Idle
  <2> QED
    BY <1>4, <2>2, <2>3, SecureStart DEF SkillStatus
<1>5. ASSUME NEW o \in Op, Delete(o)
      PROVE  SInv'
  <2> DEFINE r == [Idle EXCEPT !.kind = "delete", !.pc = "load"]
  <2>1. "delete" \in Requests
    BY <1>5 DEF Delete, Start, Idle
  <2>2. r \in Request
    BY <2>1, IdleType DEF Idle, Request
  <2>3. Secure(r)
    BY DEF Secure, Idle
  <2> QED
    BY <1>5, <2>2, <2>3, SecureStart DEF Delete
<1>6. ASSUME NEW o \in Op, Refused(o)
      PROVE  SInv'
  BY <1>6, SecureIdle DEF Refused
<1>7. ASSUME NEW o \in Op, Exists(o) \/ Check(o)
      PROVE  SInv'
  <2> DEFINE a == [op[o] EXCEPT !.pc = "author"]
             c == [op[o] EXCEPT !.pc = "read"]
  <2>1. op[o] \in Request
    BY DEF TypeOK
  <2>2. mode.secured /\ op[o].pc = "exists" => Secure(a)
    BY <2>1 DEF SInv, Secure, Request
  <2>3. mode.secured /\ op[o].pc = "check" => Secure(c)
    BY <2>1 DEF SInv, Secure, Request
  <2> HIDE DEF a, c
  <2>4. CASE Exists(o)
    BY <1>6, <2>2, <2>4, SecureGoes DEF Exists, a
  <2>5. CASE Check(o)
    BY <1>6, <2>3, <2>5, SecureGoes DEF Check, c
  <2> QED
    BY <1>7, <2>4, <2>5
<1>8. ASSUME NEW o \in Op, Load(o)
      PROVE  SInv'
  <2> DEFINE a == [op[o] EXCEPT !.pc = "author", !.src = Stamped(body)]
             d == [op[o] EXCEPT !.pc = "unlink"]
  <2>1. op[o] \in Request /\ op[o].pc = "load"
    BY <1>8 DEF TypeOK, Load
  <2>2. mode.secured /\ op[o].kind = "approve" => Secure(a)
    BY <2>1 DEF SInv, Secure, Request
  <2>3. Secure(d)
    BY <2>1 DEF Secure, Request
  <2> HIDE DEF a, d
  <2> QED
    BY <1>6, <1>8, <2>2, <2>3, SecureGoes DEF Load, a, d
<1>9. ASSUME NEW o \in Op, ReadAuthor(o)
      PROVE  SInv'
  <2>1. op[o] \in Request /\ op[o].pc = "author"
    BY <1>9 DEF TypeOK, ReadAuthor
  <2>2. ASSUME NEW a, mode.secured
        PROVE  Secure([op[o] EXCEPT !.pc = "status", !.author = a])
    BY <2>1, <2>2 DEF SInv, Secure, Request
  <2> QED
    BY <1>6, <1>9, <2>2, SecureGoes DEF ReadAuthor
<1>10. ASSUME NEW o \in Op, NEW out, NEW status, Writes(o, out, status), mode.secured => Signed(out)
       PROVE  SInv'
  <2> DEFINE r == [op[o] EXCEPT !.pc = "open", !.src = out, !.status = status, !.want = None, !.keyed = FALSE]
  <2>1. op[o] \in Request
    BY DEF TypeOK
  <2>2. mode.secured => Secure(r)
    BY <1>10, <2>1 DEF Secure, Request
  <2> HIDE DEF r
  <2>3. Goes(o, r)
    BY <1>10 DEF Writes, r
  <2> QED
    BY <2>2, <2>3, SecureGoes
<1>11. ASSUME NEW o \in Op, ReadStatus(o)
       PROVE  SInv'
  <2>1. /\ op[o].pc = "status" /\ op[o].src \in Body /\ op[o].keyed \in BOOLEAN
        /\ log.last \in Status \cup {None}
    BY <1>11 DEF ReadStatus, TypeOK, Request, Log
  <2>2. mode.secured => op[o].keyed = TRUE /\ op[o].want \in {None, "Approved"}
    BY <2>1 DEF SInv, Secure
  <2>3. mode.secured => Signed(Resolved(op[o].src, op[o].want, op[o].keyed, log.last).out)
    BY <2>1, <2>2, ResolvedSigned
  <2> QED
    BY <1>10, <1>11, <2>3 DEF ReadStatus
<1>12. ASSUME NEW o \in Op, ReadBody(o)
       PROVE  SInv'
  <2>1. CASE Refused(o)
    BY <1>6, <2>1
  <2>2. CASE Gate(body, TRUE) /\ Writes(o, body, op[o].want)
    BY <1>10, <2>2 DEF Gate, Signed
  <2>3. CASE ~(op[o].want = "Approved" /\ op[o].keyed) /\ Writes(o, Header(body, op[o].want), op[o].want)
    <3>1. mode.secured => op[o].want # "Approved"
      BY <1>12, <2>3 DEF ReadBody, SInv, Secure
    <3> QED
      BY <1>10, <2>3, <3>1, HeaderSigned
  <2> QED
    BY <1>12, <2>1, <2>2, <2>3 DEF ReadBody, Gate
<1>13. ASSUME NEW o \in Op, OpenBody(o)
       PROVE  SInv'
  <2>1. op[o] \in Request /\ op'[o] = [op[o] EXCEPT !.pc = "write"] /\ op[o].pc = "open"
    BY <1>13 DEF OpenBody, TypeOK
  <2>2. mode.secured => Secure(op'[o])
    BY <2>1 DEF SInv, Secure, Signed, Request
  <2>3. mode' = mode /\ \A q \in Op \ {o} : op'[q] = op[q]
    BY <1>13 DEF OpenBody, TypeOK
  <2> QED
    BY <2>2, <2>3, SecureStep
<1>14. ASSUME NEW o \in Op, WriteBody(o)
       PROVE  SInv'
  <2>1. op'[o] = [op[o] EXCEPT !.pc = "append", !.fd = "own"] /\ op[o] \in Request /\ mode' = mode
    BY <1>14 DEF WriteBody, TypeOK
  <2>2. Secure(op'[o])
    BY <2>1 DEF Secure, Request
  <2>3. ASSUME NEW q \in Op \ {o}
        PROVE  op'[q] \in {op[q], [op[q] EXCEPT !.fd = "shared"]} /\ op[q] \in Request
    BY <1>14 DEF WriteBody, TypeOK
  <2>4. \A q \in Op \ {o} : /\ op'[q].pc = op[q].pc /\ op'[q].kind = op[q].kind
                             /\ op'[q].keyed = op[q].keyed /\ op'[q].want = op[q].want
                             /\ op'[q].src = op[q].src
    BY <2>3 DEF Request
  <2> QED
    BY <2>1, <2>2, <2>4, SecureStep
<1>15. ASSUME NEW o \in Op, Unlink(o)
       PROVE  SInv'
  <2>1. op'[o] = [op[o] EXCEPT !.pc = "purge"] /\ op[o] \in Request /\ mode' = mode
    BY <1>15 DEF Unlink, TypeOK
  <2>2. Secure(op'[o])
    BY <2>1 DEF Secure, Request
  <2>3. ASSUME NEW q \in Op \ {o}
        PROVE  op'[q] \in {op[q], [op[q] EXCEPT !.fd = "gone"]} /\ op[q] \in Request
    BY <1>15 DEF Unlink, TypeOK
  <2>4. \A q \in Op \ {o} : /\ op'[q].pc = op[q].pc /\ op'[q].kind = op[q].kind
                             /\ op'[q].keyed = op[q].keyed /\ op'[q].want = op[q].want
                             /\ op'[q].src = op[q].src
    BY <2>3 DEF Request
  <2> QED
    BY <2>1, <2>2, <2>4, SecureStep
<1>16. ASSUME NEW o \in Op, AppendLine(o) \/ Purge(o) \/ Fail(o)
       PROVE  SInv'
  <2>1. mode' = mode /\ op' = [op EXCEPT ![o] = Idle]
    BY <1>16 DEF AppendLine, Purge, Fail
  <2> QED
    BY <2>1, SecureIdle
<1>17. CASE UNCHANGED vars
  BY <1>17 DEF vars, SInv
<1> QED
  BY <1>1, <1>2, <1>3, <1>4, <1>5, <1>7, <1>8, <1>9, <1>11, <1>12, <1>13, <1>14, <1>15, <1>16, <1>17 DEF Next

\* A step of the store that leaves a whole body headed Approved in the file, in
\* secured mode, leaves the signature of that body in its header.
LEMMA SignedStep ==
  ASSUME TypeOK, SInv, [Next]_vars, mode.secured, body' # body,
         body'.status = "Approved", body'.text # Damaged
  PROVE  body'.sig = body'.text
<1>1. PICK o \in Op : OpenBody(o) \/ WriteBody(o) \/ Unlink(o) \/ Fail(o)
  <2>1. \A o \in Op, src \in Source, overwrite \in BOOLEAN :
          /\ \A author \in Author : ~SkillWrite(o, src, author, overwrite)
          /\ ~BridgeWrite(o, src, overwrite)
    BY DEF SkillWrite, BridgeWrite, Start
  <2>2. \A o \in Op : /\ \A keyed \in {mode.secured, TRUE} : ~Approve(o, keyed)
                      /\ \A status \in Status : ~SkillStatus(o, status)
                      /\ ~Delete(o)
    BY DEF Approve, SkillStatus, Delete, Start
  <2>3. \A o \in Op : ~Exists(o) /\ ~Load(o) /\ ~Check(o) /\ ~ReadAuthor(o)
    BY DEF Exists, Load, Check, ReadAuthor, Goes, Refused
  <2>4. \A o \in Op : ~ReadStatus(o) /\ ~ReadBody(o) /\ ~AppendLine(o) /\ ~Purge(o)
    BY DEF ReadStatus, ReadBody, AppendLine, Purge, Writes, Goes, Refused
  <2> QED
    BY <2>1, <2>2, <2>3, <2>4 DEF Next, vars
<1>2. op[o].src \in Body /\ op[o].fd \in {"own", "shared", "gone"}
  BY DEF TypeOK, Request
<1>3. [op[o].src EXCEPT !.text = Damaged].text = Damaged
  BY <1>2 DEF Body, BodyOf
<1>4. CASE OpenBody(o)
  BY <1>4 DEF OpenBody, Empty, None
<1>5. CASE WriteBody(o)
  <2>1. body' = op[o].src
    BY <1>2, <1>3, <1>5 DEF WriteBody
  <2>2. Signed(op[o].src)
    BY <1>5 DEF WriteBody, SInv, Secure
  <2> QED
    BY <2>1, <2>2 DEF Signed
<1>6. CASE Unlink(o)
  BY <1>6 DEF Unlink, NoFile, None
<1>7. CASE Fail(o)
  BY <1>3, <1>7 DEF Fail
<1> QED
  BY <1>1, <1>4, <1>5, <1>6, <1>7

\* In secured mode the store heads no whole body Approved without its signature,
\* whichever requests overlap, fail or are cut short (skill-store.ts:251, :407).
THEOREM StoreSigns == Spec => ApprovedIsSigned
<1>1. Init => SInv
  BY DEF Init, SInv, Secure, Idle
<1>2. TypeOK /\ SInv /\ [Next]_vars => SInv'
  BY SecureNext
<1>3. TypeOK /\ SInv /\ [Next]_vars =>
        [mode.secured /\ body' # body /\ body'.status = "Approved" /\ body'.text # Damaged
           => body'.sig = body'.text]_vars
  BY SignedStep
<1> QED
  BY <1>1, <1>2, <1>3, StoreTypeCorrect, PTL DEF Spec, ApprovedIsSigned

-------------------------------------------------------------------------------
(* The two files tell one story. *)

\* What a request asks for before its body is resolved, and, once it is: the
\* status it will log is Approved exactly if the gate lets its body run.
Asks(r) ==
  /\ r.pc = "load" /\ r.kind = "approve" => r.want = "Approved" /\ (mode.secured => r.keyed)
  /\ r.pc \in {"exists", "author", "status"} =>
       /\ mode.secured => r.keyed
       /\ r.kind = "approve" => r.want = "Approved" /\ r.src.status = "Approved"
       /\ r.kind # "approve" => r.want = None /\ r.kind \in {"write", "bridge"}
  /\ r.pc \in {"check", "read"} => r.kind = "status" /\ r.want # None /\ (mode.secured => r.keyed)
  /\ r.pc \in {"open", "write", "append"} =>
       /\ r.kind \in {"write", "bridge", "approve", "status"} /\ r.status # None
       /\ r.status = "Approved" <=> Gate(r.src, mode.secured)
AllAsk == \A o \in Op : Asks(op[o])

\* A request that has been alone is alone, and finds the file as it left it.
Lonely ==
  \A o \in Op : op[o].alone =>
    /\ op[o].fd = "own"
    /\ \A q \in Op \ {o} : op[q] = Idle
    /\ op[o].pc = "append" => body = op[o].src
    /\ op[o].pc = "purge" => body = NoFile

\* While the last change is settled no request has touched the body.
Settled == told.settled => FilesAgree /\ \A o \in Op : op[o].pc \notin {"write", "append", "purge"}

\* At most one request is under way, and it has been alone.
Peace == \A o \in Op : op[o] = Idle \/ op[o].alone

\* In peace and with whole lines in the log, a log that ends Approved was
\* granted, and so is an Approved rewrite of a skill that has a log.
Rewrites(r) == r.kind \in {"write", "bridge"} /\ r.pc \in {"open", "write", "append"}
Trust ==
  told.trusted =>
    /\ Peace
    /\ told.born <=> log.tail # "none"
    /\ log.tail # "none" => log.last # None
    /\ log.last = "Approved" => told.granted
    /\ told.born => \A o \in Op : Rewrites(op[o]) /\ op[o].status = "Approved" => told.granted

\* In peace a store() that has read the author of the log has taken it.
Named(r) == r.kind = "write" /\ r.pc \in {"status", "open", "write", "append"}
Locked ==
  told.spotless =>
    Peace /\ (log.author # None => \A o \in Op : Named(op[o]) => op[o].author = log.author)

Story == AllAsk /\ Lonely /\ Settled /\ Trust /\ Locked

\* A request that goes on without touching a file.
LEMMA StoryGoes ==
  ASSUME TypeOK, Story, NEW o \in Op, NEW r \in Request, op[o] # Idle, Goes(o, r), Asks(r),
         r.alone = op[o].alone, r.fd = op[o].fd, r.pc \notin {"write", "append", "purge"},
         told.trusted /\ told.born /\ Rewrites(r) /\ r.status = "Approved" => told.granted,
         told.spotless /\ log.author # None /\ Named(r) => r.author = log.author
  PROVE  Story'
<1>1. op'[o] = r /\ \A q \in Op \ {o} : op'[q] = op[q]
  BY DEF Goes, TypeOK
<1>2. mode' = mode /\ body' = body /\ log' = log /\ told' = told
  BY DEF Goes
<1>3. AllAsk'
  BY <1>1, <1>2 DEF Story, AllAsk, Asks
<1>4. Idle.alone = FALSE
  BY DEF Idle
<1>5. Lonely'
  BY <1>1, <1>2, <1>4 DEF Story, Lonely
<1>6. Settled'
  BY <1>1, <1>2 DEF Story, Settled, FilesAgree
<1>7. Peace => Peace'
  BY <1>1 DEF Peace
<1>8. Trust'
  BY <1>1, <1>2, <1>7 DEF Story, Trust
<1>9. Locked'
  BY <1>1, <1>2, <1>7 DEF Story, Locked
<1> QED
  BY <1>3, <1>5, <1>6, <1>8, <1>9 DEF Story

\* A request that is refused.
LEMMA StoryRefused ==
  ASSUME TypeOK, Story, NEW o \in Op, Refused(o)
  PROVE  Story'
<1>1. op'[o] = Idle /\ \A q \in Op \ {o} : op'[q] = op[q]
  BY DEF Refused, TypeOK
<1>2. mode' = mode /\ body' = body /\ log' = log /\ told' = told
  BY DEF Refused
<1>3. AllAsk'
  BY <1>1, <1>2 DEF Story, AllAsk, Asks, Idle
<1>4. /\ Idle.alone = FALSE /\ Idle.pc = "idle" /\ ~Rewrites(Idle) /\ ~Named(Idle)
  BY DEF Idle, Rewrites, Named
<1>5. Lonely'
  BY <1>1, <1>2, <1>4 DEF Story, Lonely
<1>6. Settled'
  BY <1>1, <1>2, <1>4 DEF Story, Settled, FilesAgree
<1>7. Peace => Peace'
  BY <1>1 DEF Peace
<1>8. Trust'
  BY <1>1, <1>2, <1>4, <1>7 DEF Story, Trust
<1>9. Locked'
  BY <1>1, <1>2, <1>4, <1>7 DEF Story, Locked
<1> QED
  BY <1>3, <1>5, <1>6, <1>8, <1>9 DEF Story

\* A request that starts: those under way are no longer alone.
LEMMA StoryStart ==
  ASSUME TypeOK, Story, NEW o \in Op, NEW r \in Request, Start(o, r), Asks(r),
         r.fd = "own", r.pc \in {"exists", "load", "check", "author", "read"}
  PROVE  Story'
<1>1. /\ op'[o] = [r EXCEPT !.alone = Alone(o)]
      /\ \A q \in Op \ {o} : op'[q] = [op[q] EXCEPT !.alone = FALSE]
  BY DEF Start
<1>2. mode' = mode /\ body' = body /\ log' = log
  BY DEF Start
<1>3. /\ told'.trusted = (told.trusted /\ Alone(o)) /\ told'.spotless = (told.spotless /\ Alone(o))
      /\ told'.born = told.born /\ told'.granted = told.granted /\ told'.settled = told.settled
  BY DEF Start, TypeOK, Told
<1>4. /\ op'[o].pc = r.pc /\ op'[o].kind = r.kind /\ op'[o].keyed = r.keyed /\ op'[o].want = r.want
      /\ op'[o].src = r.src /\ op'[o].status = r.status /\ op'[o].fd = "own" /\ op'[o].alone = Alone(o)
  BY <1>1 DEF Request
<1>5. \A q \in Op \ {o} :
        /\ op'[q].pc = op[q].pc /\ op'[q].kind = op[q].kind /\ op'[q].keyed = op[q].keyed
        /\ op'[q].want = op[q].want /\ op'[q].src = op[q].src /\ op'[q].status = op[q].status
        /\ op'[q].alone = FALSE
  <2>1. SUFFICES ASSUME NEW q \in Op \ {o}
                 PROVE  /\ op'[q].pc = op[q].pc /\ op'[q].kind = op[q].kind /\ op'[q].keyed = op[q].keyed
                        /\ op'[q].want = op[q].want /\ op'[q].src = op[q].src /\ op'[q].status = op[q].status
                        /\ op'[q].alone = FALSE
    OBVIOUS
  <2>2. op[q] \in Request /\ op'[q] = [op[q] EXCEPT !.alone = FALSE]
    BY <1>1 DEF TypeOK
  <2> QED
    BY <2>2 DEF Request
<1>6. AllAsk'
  BY <1>2, <1>4, <1>5 DEF Story, AllAsk, Asks
<1>7. [Idle EXCEPT !.alone = FALSE] = Idle
  <2>1. Idle \in [{"kind", "pc", "src", "author", "want", "keyed", "status", "fd", "alone"} ->
                    {Idle[f] : f \in {"kind", "pc", "src", "author", "want", "keyed", "status", "fd", "alone"}}]
        /\ Idle["alone"] = FALSE
    BY DEF Idle
  <2> QED
    BY <2>1
<1>8. Alone(o) => \A q \in Op \ {o} : op'[q] = Idle
  BY <1>1, <1>7 DEF Alone
<1>9. Lonely'
  BY <1>4, <1>5, <1>8 DEF Lonely
<1>10. Settled'
  BY <1>2, <1>3, <1>4, <1>5 DEF Story, Settled, FilesAgree
<1>11. Alone(o) => Peace'
  BY <1>4, <1>8 DEF Peace
<1>12. /\ ~Rewrites(op'[o]) /\ ~Named(op'[o])
  BY <1>4 DEF Rewrites, Named
<1>13. ~Rewrites(Idle) /\ ~Named(Idle)
  BY DEF Idle, Rewrites, Named
<1>14. Trust'
  BY <1>2, <1>3, <1>8, <1>11, <1>12, <1>13 DEF Story, Trust
<1>15. Locked'
  BY <1>2, <1>3, <1>8, <1>11, <1>12, <1>13 DEF Story, Locked
<1> QED
  BY <1>6, <1>9, <1>10, <1>14, <1>15 DEF Story

\* What store() resolves is Approved exactly if the gate lets it run, and a
\* rewrite that finds a status in the log keeps it or falls to Draft.
LEMMA ResolvedAgrees ==
  ASSUME NEW src \in Body, NEW want \in {None, "Approved"}, NEW keyed \in BOOLEAN,
         NEW secured \in BOOLEAN, NEW last \in Status \cup {None},
         secured => keyed, want = "Approved" => src.status = "Approved"
  PROVE  LET to == Resolved(src, want, keyed, last)
         IN  /\ to.status = "Approved" <=> Gate(to.out, secured)
             /\ want = None /\ last # None => to.status \in {last, "Draft"}
<1> DEFINE status == StatusOf(src, want, last)
           out == IF last # None /\ src.status \notin {None, status} THEN Header(src, status) ELSE src
           minting == status = "Approved" /\ out.status \in {None, "Approved"}
           to == Resolved(src, want, keyed, last)
<1>1. want = None /\ last # None => status = last
  BY DEF StatusOf
<1>2. ~minting => status # "Approved" /\ out.status # "Approved"
  BY DEF StatusOf, Header, None
<1>3. CASE ~minting
  <2>1. to.status = status /\ to.out = out
    BY <1>3 DEF Resolved
  <2> QED
    BY <1>1, <1>2, <1>3, <2>1 DEF Gate
<1>4. CASE minting /\ ~keyed
  <2>1. to.status = status /\ to.out = Header(out, status)
    BY <1>4 DEF Resolved
  <2> QED
    BY <1>1, <1>4, <2>1 DEF Gate, Header
<1>5. CASE minting /\ keyed /\ Gate(out, keyed)
  <2>1. to.status = status /\ to.out = out
    BY <1>5 DEF Resolved
  <2> QED
    BY <1>1, <1>5, <2>1 DEF Gate
<1>6. CASE minting /\ keyed /\ ~Gate(out, keyed)
  <2>1. to.status = "Draft" /\ to.out = Header(out, "Draft")
    BY <1>6 DEF Resolved
  <2> QED
    BY <2>1 DEF Gate, Header
<1> QED
  BY <1>3, <1>4, <1>5, <1>6

\* The steps that start a request.
LEMMA StoryStarts ==
  ASSUME TypeOK, Story, NEW o \in Op,
         \/ \E src \in Source, overwrite \in BOOLEAN :
              \/ \E author \in Author : SkillWrite(o, src, author, overwrite)
              \/ BridgeWrite(o, src, overwrite)
         \/ \E keyed \in {mode.secured, TRUE} : Approve(o, keyed)
         \/ \E status \in Status : SkillStatus(o, status)
         \/ Delete(o)
  PROVE  Story'
<1> USE SourceType
<1>0. mode.secured \in BOOLEAN /\ mode.draft \in BOOLEAN
  BY StoreAssumption DEF TypeOK
<1>1. ASSUME NEW src \in Source, NEW author \in Author, NEW overwrite \in BOOLEAN,
             SkillWrite(o, src, author, overwrite)
      PROVE  Story'
  <2> DEFINE forced == mode.draft \/ (mode.secured /\ ~Gate(src, TRUE))
             r == [Idle EXCEPT !.kind = "write", !.pc = IF overwrite THEN "author" ELSE "exists",
                               !.src = IF forced THEN Header(src, "Draft") ELSE src,
                               !.author = author, !.keyed = mode.secured]
  <2>1. (IF forced THEN Header(src, "Draft") ELSE src) \in Body
    BY HeaderType DEF Status
  <2>2. "write" \in Requests
    BY <1>1 DEF SkillWrite, Start, Idle
  <2>3. r \in Request
    BY <2>1, <2>2, <1>0 DEF Idle, Request
  <2>4. Asks(r) /\ r.fd = "own" /\ r.pc \in {"exists", "author"}
    BY DEF Asks, Idle
  <2> QED
    BY <1>1, <2>3, <2>4, StoryStart DEF SkillWrite
<1>2. ASSUME NEW src \in Source, NEW overwrite \in BOOLEAN, BridgeWrite(o, src, overwrite)
      PROVE  Story'
  <2> DEFINE r == [Idle EXCEPT !.kind = "bridge", !.pc = IF overwrite THEN "author" ELSE "exists",
                               !.src = Header(src, "Draft"), !.keyed = mode.secured]
  <2>1. Header(src, "Draft") \in Body /\ "bridge" \in Requests
    BY <1>2, HeaderType DEF Status, BridgeWrite, Start, Idle
  <2>2. r \in Request
    BY <2>1, <1>0 DEF Idle, Request
  <2>3. Asks(r) /\ r.fd = "own" /\ r.pc \in {"exists", "author"}
    BY DEF Asks, Idle
  <2> QED
    BY <1>2, <2>2, <2>3, StoryStart DEF BridgeWrite
<1>3. ASSUME NEW keyed \in {mode.secured, TRUE}, Approve(o, keyed)
      PROVE  Story'
  <2> DEFINE r == [Idle EXCEPT !.kind = "approve", !.pc = "load", !.want = "Approved", !.keyed = keyed]
  <2>1. "approve" \in Requests
    BY <1>3 DEF Approve, Start, Idle
  <2>2. r \in Request
    BY <2>1, <1>0, IdleType DEF Idle, Request, Status
  <2>3. Asks(r) /\ r.fd = "own" /\ r.pc = "load"
    BY DEF Asks, Idle
  <2> QED
    BY <1>3, <2>2, <2>3, StoryStart DEF Approve
<1>4. ASSUME NEW status \in Status, SkillStatus(o, status)
      PROVE  Story'
  <2> DEFINE r == [Idle EXCEPT !.kind = "status", !.want = status, !.keyed = mode.secured,
                               !.pc = IF status = "Approved" /\ mode.secured THEN "check" ELSE "read"]
  <2>1. "status" \in Requests
    BY <1>4 DEF SkillStatus, Start, Idle
  <2>2. r \in Request
    BY <2>1, <1>0, IdleType DEF Idle, Request
  <2>3. Asks(r) /\ r.fd = "own" /\ r.pc \in {"check", "read"}
    BY DEF Asks, Idle, Status, None
  <2> QED
    BY <1>4, <2>2, <2>3, StoryStart DEF SkillStatus
<1>5. ASSUME Delete(o)
      PROVE  Story'
  <2> DEFINE r == [Idle EXCEPT !.kind = "delete", !.pc = "load"]
  <2>1. "delete" \in Requests
    BY <1>5 DEF Delete, Start, Idle
  <2>2. r \in Request
    BY <2>1, IdleType DEF Idle, Request
  <2>3. Asks(r) /\ r.fd = "own" /\ r.pc = "load"
    BY DEF Asks, Idle
  <2> QED
    BY <1>5, <2>2, <2>3, StoryStart DEF Delete
<1> QED
  BY <1>1, <1>2, <1>3, <1>4, <1>5

\* The steps that read.
LEMMA StoryReads ==
  ASSUME TypeOK, Story, NEW o \in Op,
         Exists(o) \/ Load(o) \/ Check(o) \/ ReadAuthor(o) \/ ReadStatus(o) \/ ReadBody(o)
  PROVE  Story'
<1>1. mode.secured \in BOOLEAN
  BY StoreAssumption DEF TypeOK
<1>2. op[o] \in Request /\ Asks(op[o]) /\ (op[o].pc # "idle" => op[o] # Idle)
  BY DEF TypeOK, Story, AllAsk, Idle
<1>3. ASSUME NEW pc \in {"author", "read"}, op[o].pc \in {"exists", "check"},
             pc = "author" => op[o].pc = "exists", pc = "read" => op[o].pc = "check",
             Goes(o, [op[o] EXCEPT !.pc = pc])
      PROVE  Story'
  <2> DEFINE r == [op[o] EXCEPT !.pc = pc]
  <2>1. /\ r \in Request /\ r.pc = pc /\ r.alone = op[o].alone /\ r.fd = op[o].fd /\ r.kind = op[o].kind
        /\ r.want = op[o].want /\ r.keyed = op[o].keyed /\ r.src = op[o].src
    BY <1>2 DEF Request
  <2> HIDE DEF r
  <2>2. Asks(r) /\ ~Rewrites(r) /\ ~Named(r)
    BY <1>2, <1>3, <2>1 DEF Asks, Rewrites, Named
  <2>3. Goes(o, r)
    BY <1>3 DEF r
  <2> QED
    BY <1>2, <1>3, <2>1, <2>2, <2>3, StoryGoes
<1>4. CASE Exists(o) \/ Check(o)
  BY <1>3, <1>4, StoryRefused DEF Exists, Check
<1>5. CASE Load(o)
  <2> DEFINE r == [op[o] EXCEPT !.pc = "author", !.src = Stamped(body)]
             d == [op[o] EXCEPT !.pc = "unlink"]
  <2>1. ASSUME body # NoFile, op[o].kind = "approve", Goes(o, r)
        PROVE  Story'
    <3>1. Stamped(body) \in Body /\ Stamped(body).status = "Approved"
      BY <2>1, StampedType DEF TypeOK, Stamped
    <3>2. /\ r \in Request /\ r.pc = "author" /\ r.alone = op[o].alone /\ r.fd = op[o].fd /\ r.kind = op[o].kind
          /\ r.want = op[o].want /\ r.keyed = op[o].keyed /\ r.src = Stamped(body)
      BY <1>2, <3>1 DEF Request
    <3> HIDE DEF r
    <3>3. Asks(r) /\ ~Rewrites(r) /\ ~Named(r)
      BY <1>2, <1>5, <2>1, <3>1, <3>2 DEF Load, Asks, Rewrites, Named
    <3> QED
      BY <1>2, <1>5, <2>1, <3>2, <3>3, StoryGoes DEF Load
  <2>2. ASSUME Goes(o, d)
        PROVE  Story'
    <3>1. d \in Request /\ d.pc = "unlink" /\ d.alone = op[o].alone /\ d.fd = op[o].fd
      BY <1>2 DEF Request
    <3> HIDE DEF d
    <3>2. Asks(d) /\ ~Rewrites(d) /\ ~Named(d)
      BY <3>1 DEF Asks, Rewrites, Named
    <3> QED
      BY <1>2, <1>5, <2>2, <3>1, <3>2, StoryGoes DEF Load
  <2> HIDE DEF r, d
  <2> QED
    BY <1>5, <2>1, <2>2, StoryRefused DEF Load, r, d
<1>6. CASE ReadAuthor(o)
  <2>1. ASSUME NEW a \in Author \cup {Owner, None}, log.author # None => a = log.author,
               Goes(o, [op[o] EXCEPT !.pc = "status", !.author = a])
        PROVE  Story'
    <3> DEFINE r == [op[o] EXCEPT !.pc = "status", !.author = a]
    <3>1. /\ r \in Request /\ r.pc = "status" /\ r.alone = op[o].alone /\ r.fd = op[o].fd /\ r.kind = op[o].kind
          /\ r.want = op[o].want /\ r.keyed = op[o].keyed /\ r.src = op[o].src /\ r.author = a
      BY <1>2 DEF Request
    <3> HIDE DEF r
    <3>2. Asks(r) /\ ~Rewrites(r)
      BY <1>2, <1>6, <3>1 DEF ReadAuthor, Asks, Rewrites
    <3>3. Goes(o, r)
      BY <2>1 DEF r
    <3> QED
      BY <1>2, <1>6, <2>1, <3>1, <3>2, <3>3, StoryGoes DEF ReadAuthor
  <2>2. op[o].author \in Author \cup {Owner, None} /\ log.author \in Author \cup {Owner, None}
    BY <1>2 DEF TypeOK, Request, Log
  <2>3. CASE log.author # None
    BY <1>6, <2>1, <2>2, <2>3, StoryRefused DEF ReadAuthor
  <2>4. CASE log.author = None
    BY <1>6, <2>1, <2>2, <2>4 DEF ReadAuthor
  <2> QED
    BY <2>3, <2>4
<1>7. ASSUME NEW out \in Body, NEW status \in Status, Writes(o, out, status), op[o].pc \in {"status", "read"},
             status = "Approved" <=> Gate(out, mode.secured),
             told.trusted /\ told.born /\ op[o].kind \in {"write", "bridge"} /\ status = "Approved" => told.granted,
             op[o].pc = "read" => op[o].kind = "status"
      PROVE  Story'
  <2> DEFINE r == [op[o] EXCEPT !.pc = "open", !.src = out, !.status = status, !.want = None, !.keyed = FALSE]
  <2>1. /\ r \in Request /\ r.pc = "open" /\ r.alone = op[o].alone /\ r.fd = op[o].fd /\ r.kind = op[o].kind
        /\ r.src = out /\ r.status = status /\ r.author = op[o].author
    BY <1>2 DEF Request
  <2> HIDE DEF r
  <2>2. Asks(r)
    <3>1. op[o].kind \in {"write", "bridge", "approve", "status"} /\ status # None
      BY <1>2, <1>7 DEF Asks, Status, None
    <3> QED
      BY <1>7, <2>1, <3>1 DEF Asks
  <2>3. Goes(o, r)
    BY <1>7 DEF Writes, r
  <2>4. told.trusted /\ told.born /\ Rewrites(r) /\ r.status = "Approved" => told.granted
    BY <1>7, <2>1 DEF Rewrites
  <2>5. told.spotless /\ log.author # None /\ Named(r) => r.author = log.author
    BY <1>7, <2>1 DEF Story, Locked, Named
  <2> QED
    BY <1>2, <1>7, <2>1, <2>2, <2>3, <2>4, <2>5, StoryGoes
<1>8. CASE ReadStatus(o)
  <2> DEFINE to == Resolved(op[o].src, op[o].want, op[o].keyed, log.last)
  <2>1. /\ op[o].pc = "status" /\ op[o].src \in Body /\ op[o].keyed \in BOOLEAN
        /\ op[o].want \in {None, "Approved"} /\ (op[o].want = "Approved" => op[o].src.status = "Approved")
        /\ (mode.secured => op[o].keyed) /\ (op[o].kind \in {"write", "bridge"} => op[o].want = None)
        /\ log.last \in Status \cup {None}
    BY <1>2, <1>8 DEF ReadStatus, Asks, TypeOK, Request, Log, None
  <2>2. /\ to.out \in Body /\ to.status \in Status
        /\ to.status = "Approved" <=> Gate(to.out, mode.secured)
        /\ op[o].want = None /\ log.last # None => to.status \in {log.last, "Draft"}
    <3>1. to.out \in Body /\ to.status \in Status
      <4>1. op[o].want \in Status \cup {None}
        BY <2>1 DEF Status
      <4> QED
        BY <2>1, <4>1, ResolvedType
    <3> QED
      BY <1>1, <2>1, <3>1, ResolvedAgrees
  <2>3. Writes(o, to.out, to.status)
    BY <1>8 DEF ReadStatus
  <2> HIDE DEF to
  <2>4. told.trusted /\ told.born /\ op[o].kind \in {"write", "bridge"} /\ to.status = "Approved" => told.granted
    BY <2>1, <2>2 DEF Story, Trust
  <2> QED
    BY <1>7, <2>1, <2>2, <2>3, <2>4
<1>9. CASE ReadBody(o)
  <2>1. op[o].pc = "read" /\ op[o].want \in Status /\ (mode.secured => op[o].keyed)
    BY <1>2, <1>9 DEF ReadBody, Asks, Request
  <2>2. op[o].kind = "status"
    BY <1>2, <2>1 DEF Asks
  <2>3. CASE body # NoFile /\ op[o].want = "Approved" /\ op[o].keyed /\ Gate(body, TRUE) /\ Writes(o, body, op[o].want)
    <3>1. body \in Body /\ Gate(body, mode.secured)
      BY <1>1, <2>3 DEF TypeOK, Gate
    <3> QED
      BY <1>7, <2>1, <2>2, <2>3, <3>1
  <2>4. CASE body # NoFile /\ ~(op[o].want = "Approved" /\ op[o].keyed)
             /\ Writes(o, Header(body, op[o].want), op[o].want)
    <3>1. Header(body, op[o].want) \in Body
      BY <2>1, <2>4, HeaderType DEF TypeOK
    <3>2. op[o].want = "Approved" <=> Gate(Header(body, op[o].want), mode.secured)
      BY <1>1, <2>1, <2>4 DEF Gate, Header
    <3> QED
      BY <1>7, <2>1, <2>2, <2>4, <3>1, <3>2
  <2> QED
    BY <1>9, <2>3, <2>4, StoryRefused DEF ReadBody
<1> QED
  BY <1>4, <1>5, <1>6, <1>8, <1>9

\* The steps that change a file: the opening of the body and the write of it,
LEMMA StoryOpens ==
  ASSUME TypeOK, Story, NEW o \in Op, OpenBody(o)
  PROVE  Story'
<1>1. /\ op'[o] = [op[o] EXCEPT !.pc = "write"] /\ op[o] \in Request
      /\ \A q \in Op \ {o} : op'[q] = op[q]
  BY DEF OpenBody, TypeOK
<1>2. /\ op[o].pc = "open" /\ mode' = mode /\ log' = log
      /\ told'.trusted = told.trusted /\ told'.spotless = told.spotless /\ told'.born = told.born
      /\ told'.granted = told.granted /\ told'.settled = FALSE
  BY DEF OpenBody, TypeOK, Told
<1>3. /\ op'[o].pc = "write" /\ op'[o].kind = op[o].kind /\ op'[o].src = op[o].src /\ op'[o].fd = op[o].fd
      /\ op'[o].status = op[o].status /\ op'[o].alone = op[o].alone /\ op'[o].author = op[o].author
  BY <1>1 DEF Request
<1>4. op[o] # Idle
  BY <1>2 DEF Idle
<1>5. AllAsk'
  <2>1. Asks(op[o]) /\ \A q \in Op \ {o} : Asks(op[q])
    BY DEF Story, AllAsk
  <2>2. Asks(op[o])'
    BY <1>2, <1>3, <2>1 DEF Asks
  <2>3. \A q \in Op \ {o} : Asks(op[q])'
    BY <1>1, <1>2, <2>1 DEF Asks
  <2> QED
    BY <2>2, <2>3 DEF AllAsk
<1>6. Lonely'
  BY <1>1, <1>3, <1>4 DEF Story, Lonely
<1>7. Settled'
  BY <1>2 DEF Settled
<1>8. Peace => Peace'
  BY <1>1, <1>3, <1>4 DEF Peace
<1>9. Trust'
  <2>1. Rewrites(op'[o]) => Rewrites(op[o])
    BY <1>2, <1>3 DEF Rewrites
  <2>2. \A q \in Op : Rewrites(op'[q]) /\ op'[q].status = "Approved" =>
                       Rewrites(op[q]) /\ op[q].status = "Approved"
    BY <1>1, <1>3, <2>1
  <2> QED
    BY <1>2, <1>8, <2>2 DEF Story, Trust
<1>10. Locked'
  <2>1. Named(op'[o]) => Named(op[o])
    BY <1>2, <1>3 DEF Named
  <2>2. \A q \in Op : Named(op'[q]) => Named(op[q]) /\ op'[q].author = op[q].author
    BY <1>1, <1>3, <2>1
  <2> QED
    BY <1>2, <1>8, <2>2 DEF Story, Locked
<1> QED
  BY <1>5, <1>6, <1>7, <1>9, <1>10 DEF Story

LEMMA StoryWrites ==
  ASSUME TypeOK, Story, NEW o \in Op, WriteBody(o)
  PROVE  Story'
<1>1. /\ op'[o] = [op[o] EXCEPT !.pc = "append", !.fd = "own"] /\ op[o] \in Request
      /\ \A q \in Op \ {o} : op'[q] \in {op[q], [op[q] EXCEPT !.fd = "shared"]} /\ op[q] \in Request
      /\ \A q \in Op \ {o} : op[q].pc # "write" => op'[q] = op[q]
  BY DEF WriteBody, TypeOK
<1>2. op[o].pc = "write" /\ mode' = mode /\ log' = log /\ told' = told
  BY DEF WriteBody
<1>3. /\ op'[o].pc = "append" /\ op'[o].kind = op[o].kind /\ op'[o].src = op[o].src /\ op'[o].fd = "own"
      /\ op'[o].status = op[o].status /\ op'[o].alone = op[o].alone /\ op'[o].author = op[o].author
  BY <1>1 DEF Request
<1>4. \A q \in Op \ {o} :
        /\ op'[q].pc = op[q].pc /\ op'[q].kind = op[q].kind /\ op'[q].keyed = op[q].keyed
        /\ op'[q].want = op[q].want /\ op'[q].src = op[q].src /\ op'[q].status = op[q].status
        /\ op'[q].author = op[q].author /\ op'[q].alone = op[q].alone
  BY <1>1 DEF Request
<1>5. op[o] # Idle
  BY <1>2 DEF Idle
<1>6. AllAsk'
  BY <1>2, <1>3, <1>4 DEF Story, AllAsk, Asks
<1>7. op[o].alone => body' = op[o].src
  BY DEF Story, Lonely, WriteBody
<1>8. \A q \in Op \ {o} : ~op[q].alone
  BY <1>5 DEF Story, Lonely
<1>9. \A q \in Op \ {o} : op[q] = Idle => op'[q] = Idle
  BY <1>1, Idle.pc # "write" DEF Idle
<1>10. Lonely'
  BY <1>3, <1>4, <1>7, <1>8, <1>9 DEF Story, Lonely
<1>11. Settled'
  BY <1>2 DEF Story, Settled
<1>12. Peace => Peace'
  BY <1>3, <1>5, <1>8, <1>9 DEF Peace
<1>13. Trust'
  <2>1. \A q \in Op : Rewrites(op'[q]) => Rewrites(op[q]) /\ op'[q].status = op[q].status
    BY <1>2, <1>3, <1>4 DEF Rewrites
  <2> QED
    BY <1>2, <1>12, <2>1 DEF Story, Trust
<1>14. Locked'
  <2>1. \A q \in Op : Named(op'[q]) => Named(op[q]) /\ op'[q].author = op[q].author
    BY <1>2, <1>3, <1>4 DEF Named
  <2> QED
    BY <1>2, <1>12, <2>1 DEF Story, Locked
<1> QED
  BY <1>6, <1>10, <1>11, <1>13, <1>14 DEF Story

\* the line of the log and the answer,
LEMMA StoryAppends ==
  ASSUME TypeOK, Story, NEW o \in Op, AppendLine(o)
  PROVE  Story'
<1> DEFINE r == op[o]
           authority == r.kind \in {"approve", "status"}
<1>1. op'[o] = Idle /\ (\A q \in Op \ {o} : op'[q] = op[q]) /\ r.pc = "append" /\ r # Idle
  BY DEF AppendLine, TypeOK, Idle
<1>2. mode' = mode /\ body' = body /\ body \in Body \cup {NoFile} /\ log \in Log
      /\ r.status \in Status \cup {None} /\ r.alone \in BOOLEAN /\ r.kind \in Requests \cup {None}
  BY DEF AppendLine, TypeOK, Request
<1>3. /\ told'.born = TRUE /\ told'.settled = r.alone /\ told'.spotless = told.spotless
      /\ told'.granted = (IF authority \/ ~told.born THEN r.status = "Approved" ELSE told.granted)
      /\ told'.trusted = (told.trusted \/ (authority /\ r.alone /\ log'.last # None))
  BY DEF AppendLine, TypeOK, Told
<1>4. /\ log'.tail # "none"
      /\ log'.last \in {r.status, None}
      /\ log.tail # "none" => log'.author = log.author
      /\ log.tail # "torn" => log'.last = r.status
  BY <1>2 DEF AppendLine, Appended, Log
<1>5. /\ r.status = "Approved" <=> Gate(r.src, mode.secured)
      /\ r.kind \in {"write", "bridge", "approve", "status"} /\ r.status # None
  BY <1>1 DEF Story, AllAsk, Asks
<1>6. Idle.alone = FALSE /\ Idle.pc = "idle" /\ ~Rewrites(Idle) /\ ~Named(Idle)
  BY DEF Idle, Rewrites, Named
<1>7. r.alone => (\A q \in Op : op'[q] = Idle) /\ body = r.src
  BY <1>1 DEF Story, Lonely
<1>8. \A b \in Body : b # NoFile
  BY StoreAssumption DEF Body, BodyOf, NoFile, None, Damaged
<1>9. r.src \in Body
  BY DEF TypeOK, Request
<1>10. Peace => r.alone
  BY <1>1 DEF Peace
<1>11. AllAsk'
  BY <1>1, <1>2 DEF Story, AllAsk, Asks, Idle
<1>12. Lonely'
  BY <1>1, <1>2, <1>6 DEF Story, Lonely
<1>13. Settled'
  BY <1>2, <1>3, <1>4, <1>5, <1>6, <1>7, <1>8, <1>9 DEF Settled, FilesAgree
<1>14. Peace \/ r.alone => Peace'
  BY <1>1, <1>7 DEF Peace
<1>15. Trust'
  <2>1. CASE authority /\ r.alone /\ log'.last # None
    <3>1. log'.last = r.status /\ told'.granted = (r.status = "Approved")
      BY <1>3, <1>4, <2>1
    <3> QED
      BY <1>3, <1>4, <1>6, <1>7, <1>14, <2>1, <3>1 DEF Trust
  <2>2. CASE told.trusted /\ ~(authority /\ r.alone /\ log'.last # None)
    <3>1. Peace /\ r.alone /\ log.tail # "torn"
      BY <1>2, <1>10, <2>2 DEF Story, Trust, Log
    <3>2. r.status = "Approved" => told'.granted
      <4>1. CASE authority \/ ~told.born
        BY <1>3, <4>1
      <4>2. CASE ~authority /\ told.born
        <5>1. Rewrites(r)
          BY <1>1, <1>5, <4>2 DEF Rewrites
        <5> QED
          BY <1>3, <2>2, <4>2, <5>1 DEF Story, Trust
      <4> QED
        BY <4>1, <4>2
    <3>3. log'.last = r.status /\ log'.tail # "none" /\ log'.last # None
      BY <1>4, <1>5, <3>1
    <3> QED
      BY <1>3, <1>6, <1>7, <1>14, <3>1, <3>2, <3>3 DEF Trust
  <2>3. CASE ~told'.trusted
    BY <2>3 DEF Trust
  <2> QED
    BY <1>3, <2>1, <2>2, <2>3
<1>16. Locked'
  BY <1>3, <1>6, <1>7, <1>10, <1>14 DEF Story, Locked
<1> QED
  BY <1>11, <1>12, <1>13, <1>15, <1>16 DEF Story

\* the removal of the body and that of the log,
LEMMA StoryUnlinks ==
  ASSUME TypeOK, Story, NEW o \in Op, Unlink(o)
  PROVE  Story'
<1>1. /\ op'[o] = [op[o] EXCEPT !.pc = "purge"] /\ op[o] \in Request
      /\ \A q \in Op \ {o} : op'[q] \in {op[q], [op[q] EXCEPT !.fd = "gone"]} /\ op[q] \in Request
      /\ \A q \in Op \ {o} : op[q].pc # "write" => op'[q] = op[q]
  BY DEF Unlink, TypeOK
<1>2. /\ op[o].pc = "unlink" /\ mode' = mode /\ log' = log /\ body' = NoFile
      /\ told'.trusted = told.trusted /\ told'.spotless = told.spotless /\ told'.born = told.born
      /\ told'.granted = told.granted /\ told'.settled = FALSE
  BY DEF Unlink, TypeOK, Told
<1>3. op'[o].pc = "purge" /\ op'[o].alone = op[o].alone /\ op'[o].fd = op[o].fd
  BY <1>1 DEF Request
<1>4. \A q \in Op \ {o} :
        /\ op'[q].pc = op[q].pc /\ op'[q].kind = op[q].kind /\ op'[q].keyed = op[q].keyed
        /\ op'[q].want = op[q].want /\ op'[q].src = op[q].src /\ op'[q].status = op[q].status
        /\ op'[q].author = op[q].author /\ op'[q].alone = op[q].alone
  BY <1>1 DEF Request
<1>5. op[o] # Idle
  BY <1>2 DEF Idle
<1>6. AllAsk'
  BY <1>2, <1>3, <1>4 DEF Story, AllAsk, Asks
<1>7. \A q \in Op \ {o} : ~op[q].alone
  BY <1>5 DEF Story, Lonely
<1>8. \A q \in Op \ {o} : op[q] = Idle => op'[q] = Idle
  BY <1>1, Idle.pc # "write" DEF Idle
<1>9. Lonely'
  BY <1>2, <1>3, <1>4, <1>7, <1>8 DEF Story, Lonely
<1>10. Settled'
  BY <1>2 DEF Settled
<1>11. Peace => Peace'
  BY <1>3, <1>5, <1>7, <1>8 DEF Peace
<1>12. Trust'
  <2>1. \A q \in Op : Rewrites(op'[q]) => Rewrites(op[q]) /\ op'[q].status = op[q].status
    BY <1>3, <1>4 DEF Rewrites
  <2> QED
    BY <1>2, <1>11, <2>1 DEF Story, Trust
<1>13. Locked'
  <2>1. \A q \in Op : Named(op'[q]) => Named(op[q]) /\ op'[q].author = op[q].author
    BY <1>3, <1>4 DEF Named
  <2> QED
    BY <1>2, <1>11, <2>1 DEF Story, Locked
<1> QED
  BY <1>6, <1>9, <1>10, <1>12, <1>13 DEF Story

LEMMA StoryPurges ==
  ASSUME TypeOK, Story, NEW o \in Op, Purge(o)
  PROVE  Story'
<1>1. op'[o] = Idle /\ (\A q \in Op \ {o} : op'[q] = op[q]) /\ op[o].pc = "purge" /\ op[o] # Idle
  BY DEF Purge, TypeOK, Idle
<1>2. /\ mode' = mode /\ body' = body /\ log' = NoLog
      /\ told'.born = FALSE /\ told'.granted = FALSE /\ told'.settled = op[o].alone
      /\ told'.trusted = (told.trusted \/ op[o].alone) /\ told'.spotless = (told.spotless \/ op[o].alone)
  BY DEF Purge
<1>3. Idle.alone = FALSE /\ Idle.pc = "idle"
  BY DEF Idle
<1>4. op[o].alone => (\A q \in Op : op'[q] = Idle) /\ body = NoFile
  BY <1>1 DEF Story, Lonely
<1>5. NoLog.author = None /\ NoLog.last = None /\ NoLog.tail = "none" /\ None # "Approved"
  BY DEF NoLog, None
<1>6. Peace => op[o].alone
  BY <1>1 DEF Peace
<1>7. AllAsk'
  BY <1>1, <1>2 DEF Story, AllAsk, Asks, Idle
<1>8. Lonely'
  BY <1>1, <1>2, <1>3 DEF Story, Lonely
<1>9. Settled'
  BY <1>2, <1>3, <1>4, <1>5 DEF Settled, FilesAgree
<1>10. op[o].alone => Peace'
  BY <1>4 DEF Peace
<1>11. Trust'
  BY <1>2, <1>5, <1>6, <1>10 DEF Story, Trust
<1>12. Locked'
  BY <1>2, <1>5, <1>6, <1>10 DEF Story, Locked
<1> QED
  BY <1>7, <1>8, <1>9, <1>11, <1>12 DEF Story

\* and a request that ends before its time.
LEMMA StoryFails ==
  ASSUME TypeOK, Story, NEW o \in Op, Fail(o)
  PROVE  Story'
<1>1. op'[o] = Idle /\ (\A q \in Op \ {o} : op'[q] = op[q]) /\ op[o] # Idle
  BY DEF Fail, TypeOK
<1>2. /\ mode' = mode /\ told'.born = told.born /\ told'.granted = told.granted
      /\ told'.settled = told.settled /\ told'.trusted = (told.trusted /\ log' = log)
      /\ told'.spotless = (told.spotless /\ op[o].pc \notin {"write", "append", "purge"})
  BY DEF Fail, TypeOK, Told
<1>3. /\ op[o].pc \notin {"write", "append"} => body' = body /\ log' = log
      /\ log'.author = log.author
  BY DEF Fail, Torn, TypeOK, Log
<1>4. /\ Idle.alone = FALSE /\ Idle.pc = "idle" /\ ~Rewrites(Idle) /\ ~Named(Idle)
  BY DEF Idle, Rewrites, Named
<1>5. AllAsk'
  BY <1>1, <1>2 DEF Story, AllAsk, Asks, Idle
<1>6. \A q \in Op \ {o} : ~op[q].alone
  BY <1>1 DEF Story, Lonely
<1>7. Lonely'
  BY <1>1, <1>4, <1>6 DEF Lonely
<1>8. Settled'
  BY <1>1, <1>2, <1>3, <1>4 DEF Story, Settled, FilesAgree
<1>9. Peace => Peace'
  BY <1>1 DEF Peace
<1>10. Trust'
  BY <1>1, <1>2, <1>4, <1>9 DEF Story, Trust
<1>11. Locked'
  BY <1>1, <1>2, <1>3, <1>4, <1>9 DEF Story, Locked
<1> QED
  BY <1>5, <1>7, <1>8, <1>10, <1>11 DEF Story

LEMMA StoryNext ==
  ASSUME TypeOK, Story, [Next]_vars
  PROVE  Story'
<1>1. CASE UNCHANGED vars
  BY <1>1 DEF vars, Story, AllAsk, Asks, Lonely, Settled, FilesAgree, Trust, Peace, Locked
<1>2. CASE Next
  <2>1. PICK o \in Op :
          \/ \/ \E src \in Source, overwrite \in BOOLEAN :
                  \/ \E author \in Author : SkillWrite(o, src, author, overwrite)
                  \/ BridgeWrite(o, src, overwrite)
             \/ \E keyed \in {mode.secured, TRUE} : Approve(o, keyed)
             \/ \E status \in Status : SkillStatus(o, status)
             \/ Delete(o)
          \/ Exists(o) \/ Load(o) \/ Check(o) \/ ReadAuthor(o) \/ ReadStatus(o) \/ ReadBody(o)
          \/ OpenBody(o) \/ WriteBody(o) \/ AppendLine(o) \/ Unlink(o) \/ Purge(o) \/ Fail(o)
    BY <1>2 DEF Next
  <2> QED
    BY <2>1, StoryStarts, StoryReads, StoryOpens, StoryWrites, StoryAppends, StoryUnlinks, StoryPurges, StoryFails
<1> QED
  BY <1>1, <1>2

\* The inductive invariant: what each request asks for and what it carries to its
\* write, who has been alone, and what the log of a skill in peace says.
THEOREM StoryHolds == Spec => [](Story /\ TypeOK)
<1>1. Init => Story
  <2> SUFFICES ASSUME Init PROVE Story
    OBVIOUS
  <2>1. /\ \A o \in Op : op[o] = Idle
        /\ log = NoLog /\ told.settled = FALSE /\ told.born = FALSE
    BY DEF Init
  <2>2. AllAsk /\ Lonely
    BY <2>1 DEF AllAsk, Asks, Lonely, Idle
  <2>3. Settled /\ Peace
    BY <2>1 DEF Settled, Peace
  <2>4. Trust /\ Locked
    BY <2>1, <2>3 DEF Trust, Locked, NoLog, None
  <2> QED
    BY <2>2, <2>3, <2>4 DEF Story
<1>2. TypeOK /\ Story /\ [Next]_vars => Story'
  BY StoryNext
<1> QED
  BY <1>1, <1>2, StoreTypeCorrect, PTL DEF Spec

\* When the last change is that of a request that ran alone, the body and the log
\* agree, whatever failed or overlapped before it (skill-store.ts:270, :279).
THEOREM StoreFilesAgree == Spec => []FilesAgree
<1>1. Story => FilesAgree
  BY DEF Story, Settled, FilesAgree
<1> QED
  BY <1>1, StoryHolds, PTL

\* A rewrite approves nothing: what runs was approved by the last status change or
\* approval, or by the request that made the skill (skill-store.ts:199).
THEOREM StoreOnlyAuthority == Spec => []OnlyAuthorityApproves
<1>1. Story /\ TypeOK => OnlyAuthorityApproves
  <2> SUFFICES ASSUME Story, TypeOK, told.trusted, told.settled, Gate(body, mode.secured)
               PROVE  told.granted
    BY DEF OnlyAuthorityApproves
  <2>1. body # NoFile
    BY DEF Gate, NoFile, None
  <2>2. log.last = "Approved"
    BY <2>1 DEF Story, Settled, FilesAgree, Trust
  <2> QED
    BY <2>2 DEF Story, Trust
<1> QED
  BY <1>1, StoryHolds, PTL

\* While no requests overlapped and no write failed, the store acknowledges no
\* store() in another name than the one its log begins with (skill-store.ts:182).
THEOREM StoreAuthorLocked == Spec => AuthorLocked
<1>1. Story /\ TypeOK /\ [Next]_vars =>
        [\A o \in Op : told.spotless /\ op[o].kind = "write" /\ AppendLine(o) /\ log'.author # None
                         => op[o].author = log'.author]_vars
  <2> SUFFICES ASSUME Story, TypeOK, NEW o \in Op, told.spotless, op[o].kind = "write",
                      AppendLine(o), log'.author # None
               PROVE  op[o].author = log'.author
    OBVIOUS
  <2>1. Named(op[o]) /\ log \in Log
    BY DEF AppendLine, Named, TypeOK
  <2>2. CASE log.tail = "none"
    BY <2>2 DEF AppendLine, Appended
  <2>3. CASE log.tail # "none"
    <3>1. log'.author = log.author
      BY <2>1, <2>3 DEF AppendLine, Appended, Log
    <3> QED
      BY <2>1, <3>1 DEF Story, Locked
  <2> QED
    BY <2>2, <2>3
<1> QED
  BY <1>1, StoryHolds, PTL DEF Spec, AuthorLocked
=============================================================================
