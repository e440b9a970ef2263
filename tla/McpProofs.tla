------------------------------ MODULE McpProofs ------------------------------
(***************************************************************************)
(* The two MCP connectors.  RemoteMcp, for every set of callers, children  *)
(* and request ids: its invariants.  HttpMcp, for every set of calls and   *)
(* identities, any size of the pool and any number of faults: its types,   *)
(* the bound of the pool, and that a call takes effect once at most and in *)
(* a session of its own identity.                                          *)
(***************************************************************************)
EXTENDS RemoteMcp, HttpMcp, FiniteSetTheorems, SequenceTheorems, WellFoundedInduction, TLAPS

(***************************************************************************)
(* RemoteMcp: the invariant.                                               *)
(***************************************************************************)

Handshake == {"initialize", "tools/list"}

Asks == {[kind |-> "tools/call", by |-> c] : c \in Call}
          \cup [kind : Handshake \cup {"shutdown"}, by : Child]

Someone == Child \cup {None}

TypeOK ==
  /\ child \in Someone /\ init \in Someone /\ closing \in Someone
  /\ error \in BOOLEAN /\ disposed \in BOOLEAN
  /\ proc \in [Child -> {"none", "alive", "dead", "gone"}]
  /\ start \in [Child -> Handshake \cup {"none", "done", "failed"}]
  /\ DOMAIN pending \subseteq ReqId
  /\ pending \in [DOMAIN pending -> Asks]
  /\ wire \subseteq [id : ReqId, req : Asks, to : Someone, answered : BOOLEAN]
  /\ calls \in [Call -> [at : Idle \cup {"waiting", "cut", "sent"}, on : Someone]]

\* A request belongs to a call that was sent or to a handshake that is that far,
\* and to no other request's.
Belongs ==
  /\ \A i \in DOMAIN pending :
       /\ pending[i].kind = "tools/call" => calls[pending[i].by].at = "sent"
       /\ pending[i].kind \in Handshake => start[pending[i].by] = pending[i].kind
  /\ \A i, j \in DOMAIN pending :
       pending[i] = pending[j] /\ pending[i].kind # "shutdown" => i = j

\* A call that was sent, and a handshake under way, have asked.
HasAsked ==
  /\ \A c \in Call : calls[c].at = "sent" =>
       \E i \in DOMAIN pending : pending[i] = [kind |-> "tools/call", by |-> c]
  /\ \A k \in Child : start[k] \in Handshake =>
       \E i \in DOMAIN pending : pending[i] = [kind |-> start[k], by |-> k]

\* A call waits for a handshake that goes on or is done.
Waits ==
  \A c \in Call :
    /\ calls[c].on # None <=> calls[c].at \in {"waiting", "cut"}
    /\ calls[c].on # None => start[calls[c].on] \notin {"none", "failed"}

\* The session's handshake is that of its child; there is none once it failed.
SessionOk ==
  /\ init # None => init = child /\ start[init] \notin {"none", "failed"}
  /\ init = None /\ child # None => start[child] = "failed"

IInv ==
  TypeOK /\ AnswersMatch /\ Belongs /\ HasAsked /\ Waits /\ SessionOk /\ OnlyFailedLinger

Req(kind, by) == [kind |-> kind, by |-> by]

CallRec == [at : Idle \cup {"waiting", "cut", "sent"}, on : Someone]
WireRec == [id : ReqId, req : Asks, to : Someone, answered : BOOLEAN]

-------------------------------------------------------------------------------
(* The table of pending requests and the pipes.                            *)

\* A request is a call's or a child's.
AskOk(r) ==
  /\ r = Req(r.kind, r.by)
  /\ \/ r.kind = "tools/call" /\ r.by \in Call
     \/ r.kind \in Handshake \cup {"shutdown"} /\ r.by \in Child

LEMMA AskTypes ==
  /\ \A c \in Call : Req("tools/call", c) \in Asks
  /\ \A k \in Child, kind \in Handshake \cup {"shutdown"} : Req(kind, k) \in Asks
  /\ \A r \in Asks : AskOk(r)
<1>1. ASSUME NEW c \in Call PROVE Req("tools/call", c) \in Asks
  BY DEF Asks, Req
<1>2. ASSUME NEW k \in Child, NEW kind \in Handshake \cup {"shutdown"}
      PROVE  Req(kind, k) \in Asks
  BY <1>2 DEF Asks, Req
<1>3. ASSUME NEW r \in Asks PROVE AskOk(r)
  <2>1. CASE \E c \in Call : r = [kind |-> "tools/call", by |-> c]
    BY <2>1 DEF AskOk, Req
  <2>2. CASE r \in [kind : Handshake \cup {"shutdown"}, by : Child]
    BY <2>2 DEF AskOk, Req
  <2> QED
    BY <1>3, <2>1, <2>2 DEF Asks
<1> QED
  BY <1>1, <1>2, <1>3

LEMMA PendingTypes ==
  ASSUME TypeOK, NEW i \in DOMAIN pending
  PROVE  i \in ReqId /\ pending[i] \in Asks /\ AskOk(pending[i])
<1>1. i \in ReqId /\ pending[i] \in Asks
  BY DEF TypeOK
<1> QED
  BY <1>1, AskTypes

\* The table with one more request, and without some.
LEMMA Table ==
  ASSUME NEW P, P \in [DOMAIN P -> Asks], DOMAIN P \subseteq ReqId
  PROVE  /\ \A id \in ReqId, req \in Asks :
              /\ DOMAIN With(P, id, req) = DOMAIN P \cup {id} /\ With(P, id, req)[id] = req
              /\ \A i \in DOMAIN P \ {id} : With(P, id, req)[i] = P[i]
              /\ With(P, id, req) \in [DOMAIN With(P, id, req) -> Asks]
         /\ \A ids : /\ DOMAIN Without(P, ids) = DOMAIN P \ ids
                     /\ \A i \in DOMAIN P \ ids : Without(P, ids)[i] = P[i]
                     /\ Without(P, ids) \in [DOMAIN Without(P, ids) -> Asks]
BY DEF With, Without

\* Trimming adds no packet, and a packet put into the pipe is for its request.
LEMMA Pipes ==
  /\ \A W, P : \A V \in Trimmed(W, P) : V \subseteq W
  /\ \A id, req, k : \A w \in Packed(id, req, k) :
       w = [id |-> id, req |-> req, to |-> k, answered |-> FALSE]
BY DEF Trimmed, Packed

\* What a step does to the pipes and the table: packets stay, or are those of the
\* request it makes, whose id is fresh.
LEMMA Matches ==
  ASSUME AnswersMatch, NEW id,
         \A w \in wire' : \/ \E v \in wire : w.id = v.id /\ w.req = v.req
                          \/ w.id = id /\ w.id \in DOMAIN pending' /\ pending'[id] = w.req,
         \A i \in DOMAIN pending' : \/ i \in DOMAIN pending /\ pending'[i] = pending[i]
                                    \/ i = id /\ \A w \in wire : w.id # id
  PROVE  AnswersMatch'
BY DEF AnswersMatch

\* Init.
LEMMA InitHolds == Init => IInv
<1> SUFFICES ASSUME Init PROVE IInv
  OBVIOUS
<1>1. DOMAIN pending = {}
  BY DEF Init
<1> QED
  BY <1>1, NoneAssumption
     DEF Init, IInv, TypeOK, AnswersMatch, Belongs, HasAsked, Waits, SessionOk, OnlyFailedLinger,
         Someone, Asks, Handshake, Idle

LEMMA KillTypes ==
  ASSUME TypeOK, NEW k
  PROVE  /\ Killed(k) \in [Child -> {"none", "alive", "dead", "gone"}]
         /\ \A h \in Child : Killed(k)[h] = "alive" => proc[h] = "alive" /\ h # k
BY NoneAssumption DEF TypeOK, Killed, Someone

-------------------------------------------------------------------------------
(* Steps that touch neither the table nor a handshake.                     *)

\* Packets go, or are answered.
LEMMA PipesHold ==
  ASSUME IInv, wire' \in SUBSET WireRec,
         \A w \in wire' : \E v \in wire : w.id = v.id /\ w.req = v.req,
         closing' \in Someone, disposed' \in BOOLEAN,
         proc' \in [Child -> {"none", "alive", "dead", "gone"}],
         \A h \in Child : proc'[h] = "alive" => proc[h] = "alive",
         UNCHANGED <<session, start, pending, calls>>
  PROVE  IInv'
<1>1. TypeOK'
  BY DEF IInv, TypeOK, session, WireRec, Idle, Handshake, Someone, Asks
<1>2. AnswersMatch'
  BY Matches DEF IInv
<1>3. Belongs' /\ HasAsked' /\ Waits' /\ SessionOk' /\ OnlyFailedLinger'
  BY DEF IInv, Belongs, HasAsked, Waits, SessionOk, OnlyFailedLinger, session
<1> QED
  BY <1>1, <1>2, <1>3 DEF IInv

LEMMA ChildAnswersHolds ==
  ASSUME IInv, NEW w \in wire, ChildAnswers(w)
  PROVE  IInv'
<1> DEFINE a == [w EXCEPT !.answered = TRUE]
<1>1. w \in WireRec /\ wire \subseteq WireRec
  BY DEF IInv, TypeOK, WireRec
<1>2. a \in WireRec /\ a.id = w.id /\ a.req = w.req
  BY <1>1 DEF WireRec
<1>3. wire' = (wire \ {w}) \cup {a} /\ UNCHANGED <<session, disposed, closing, proc, start, pending, calls>>
  BY DEF ChildAnswers
<1> HIDE DEF a
<1> QED
  BY <1>1, <1>2, <1>3, PipesHold DEF IInv, TypeOK

LEMMA PacketsGo ==
  ASSUME IInv, wire' \subseteq wire, closing' \in Someone, disposed' \in BOOLEAN, NEW k,
         proc' \in {proc, Killed(k)}, UNCHANGED <<session, start, pending, calls>>
  PROVE  IInv'
BY KillTypes, PipesHold DEF IInv, TypeOK, WireRec

-------------------------------------------------------------------------------
(* Steps of a call.                                                        *)

\* A call that has not asked moves, and asks nothing.
LEMMA CallMoves ==
  ASSUME IInv, NEW c \in Call, NEW rec \in CallRec, calls[c].at # "sent", rec.at # "sent",
         rec.on # None <=> rec.at \in {"waiting", "cut"},
         rec.on # None => start[rec.on] \notin {"none", "failed"},
         calls' = [calls EXCEPT ![c] = rec],
         UNCHANGED <<session, disposed, closing, proc, start, pending, wire>>
  PROVE  IInv'
<1>1. calls \in [Call -> CallRec]
  BY DEF IInv, TypeOK, CallRec
<1>2. calls' \in [Call -> CallRec] /\ \A d \in Call : calls'[d] = IF d = c THEN rec ELSE calls[d]
  BY <1>1
<1>3. TypeOK'
  BY <1>2 DEF IInv, TypeOK, session, CallRec, Idle, Handshake, Someone, Asks
<1>4. Belongs'
  <2>1. \A i \in DOMAIN pending : pending[i].kind = "tools/call" => pending[i].by \in Call
    BY PendingTypes DEF IInv, AskOk, Handshake
  <2> QED
    BY <1>2, <2>1 DEF IInv, Belongs
<1>5. HasAsked' /\ Waits'
  BY <1>2 DEF IInv, HasAsked, Waits
<1>6. AnswersMatch' /\ SessionOk' /\ OnlyFailedLinger'
  BY DEF IInv, AnswersMatch, SessionOk, OnlyFailedLinger, session
<1> QED
  BY <1>3, <1>4, <1>5, <1>6 DEF IInv

\* A call asks.
LEMMA SendCallHolds ==
  ASSUME IInv, NEW c \in Call, calls[c].at # "sent", SendCall(c),
         UNCHANGED <<session, disposed, closing, proc, start>>
  PROVE  IInv'
<1> DEFINE req == Req("tools/call", c)
<1>1. PICK id \in FreshIds :
        /\ pending' = With(pending, id, req)
        /\ wire' \in Trimmed(wire \cup Packed(id, pending'[id], child), pending')
        /\ calls' = [calls EXCEPT ![c] = [at |-> "sent", on |-> None]]
  BY DEF SendCall, Req
<1>2. id \in ReqId /\ id \notin DOMAIN pending /\ \A w \in wire : w.id # id
  BY DEF FreshIds
<1>3. req \in Asks /\ req.kind = "tools/call" /\ req.by = c
  BY AskTypes DEF Req
<1>4. /\ DOMAIN pending' = DOMAIN pending \cup {id} /\ pending'[id] = req
      /\ \A i \in DOMAIN pending : pending'[i] = pending[i]
      /\ pending' \in [DOMAIN pending' -> Asks]
  <2>1. pending \in [DOMAIN pending -> Asks] /\ DOMAIN pending \subseteq ReqId
    BY DEF IInv, TypeOK
  <2> HIDE DEF req
  <2>2. /\ DOMAIN With(pending, id, req) = DOMAIN pending \cup {id} /\ With(pending, id, req)[id] = req
        /\ \A i \in DOMAIN pending \ {id} : With(pending, id, req)[i] = pending[i]
        /\ With(pending, id, req) \in [DOMAIN With(pending, id, req) -> Asks]
    BY <1>2, <1>3, <2>1, Table, Zenon
  <2> QED
    BY <1>1, <1>2, <2>2, Zenon
<1> HIDE DEF req
<1>5. \A w \in wire' : w \in wire \/ w = [id |-> id, req |-> req, to |-> child, answered |-> FALSE]
  BY <1>1, <1>4, Pipes
<1>6. AnswersMatch'
  <2>1. \A w \in wire' : (w \in wire) \/ (w.id = id /\ w.req = req)
    BY <1>5
  <2> QED
    BY <1>2, <1>4, <2>1, Matches DEF IInv
<1>7. /\ calls \in [Call -> CallRec] /\ [at |-> "sent", on |-> None] \in CallRec
      /\ calls' = [calls EXCEPT ![c] = [at |-> "sent", on |-> None]]
  BY <1>1 DEF IInv, TypeOK, CallRec, Someone
<1>8. /\ calls' \in [Call -> CallRec] /\ calls'[c].at = "sent" /\ calls'[c].on = None
      /\ \A d \in Call : d # c => calls'[d] = calls[d]
  BY <1>7
<1>9. TypeOK'
  <2>1. wire' \subseteq WireRec
    <3>1. wire \subseteq WireRec /\ child \in Someone
      BY DEF IInv, TypeOK, WireRec
    <3>2. [id |-> id, req |-> req, to |-> child, answered |-> FALSE] \in WireRec
      BY <1>2, <1>3, <3>1 DEF WireRec
    <3> QED
      BY <1>5, <3>1, <3>2
  <2> QED
    BY <1>2, <1>4, <1>8, <2>1 DEF IInv, TypeOK, session, CallRec, Idle, Handshake, Someone, Asks, WireRec
<1>10. Belongs'
  <2>1. \A i \in DOMAIN pending : /\ pending[i].kind = "tools/call" => pending[i].by \in Call /\ pending[i].by # c
                                  /\ pending[i] # req
    BY <1>3, PendingTypes DEF IInv, AskOk, Handshake, Belongs
  <2> QED
    BY <1>3, <1>4, <1>8, <2>1 DEF IInv, Belongs, Handshake
<1>11. HasAsked'
  BY <1>4, <1>8 DEF IInv, HasAsked, req, Req
<1>12. Waits' /\ SessionOk' /\ OnlyFailedLinger'
  BY <1>8 DEF IInv, Waits, SessionOk, OnlyFailedLinger, session
<1> QED
  BY <1>6, <1>9, <1>10, <1>11, <1>12 DEF IInv

\* Steps that only take from the pipes and the table keep AnswersMatch.
LEMMA FewerMatch ==
  ASSUME IInv, wire' \subseteq wire, NEW ids, pending' = Without(pending, ids)
  PROVE  /\ AnswersMatch' /\ wire' \subseteq WireRec
         /\ DOMAIN pending' = DOMAIN pending \ ids
         /\ \A i \in DOMAIN pending' : pending'[i] = pending[i]
         /\ DOMAIN pending' \subseteq ReqId /\ pending' \in [DOMAIN pending' -> Asks]
<1>1. pending \in [DOMAIN pending -> Asks] /\ DOMAIN pending \subseteq ReqId
  BY DEF IInv, TypeOK
<1>2. /\ DOMAIN pending' = DOMAIN pending \ ids
      /\ \A i \in DOMAIN pending \ ids : pending'[i] = pending[i]
      /\ pending' \in [DOMAIN pending' -> Asks]
  <2>1. /\ DOMAIN Without(pending, ids) = DOMAIN pending \ ids
        /\ \A i \in DOMAIN pending \ ids : Without(pending, ids)[i] = pending[i]
        /\ Without(pending, ids) \in [DOMAIN Without(pending, ids) -> Asks]
    BY <1>1, Table
  <2> QED
    BY <2>1
<1>3. AnswersMatch'
  BY <1>2 DEF IInv, AnswersMatch
<1> QED
  BY <1>1, <1>2, <1>3 DEF IInv, TypeOK, WireRec

\* The abort of a call that was sent takes its request along.
LEMMA AbortHolds ==
  ASSUME IInv, NEW c \in Call, Abort(c)
  PROVE  IInv'
<1>1. calls \in [Call -> CallRec] /\ calls[c] \in CallRec
  BY DEF IInv, TypeOK, CallRec
<1>2. UNCHANGED <<session, disposed, closing, proc, start>>
  BY DEF Abort
<1>3. CASE calls[c].at = "waiting" /\ calls' = [calls EXCEPT ![c].at = "cut"] /\ UNCHANGED <<pending, wire>>
  <2> DEFINE rec == [calls[c] EXCEPT !.at = "cut"]
  <2>1. rec \in CallRec /\ rec.at = "cut" /\ rec.on = calls[c].on /\ calls' = [calls EXCEPT ![c] = rec]
    BY <1>1, <1>3 DEF CallRec
  <2>2. calls[c].on # None /\ start[calls[c].on] \notin {"none", "failed"}
    BY <1>3 DEF IInv, Waits
  <2> HIDE DEF rec
  <2> QED
    BY <1>2, <1>3, <2>1, <2>2, CallMoves
<1>4. CASE /\ calls[c].at = "sent" /\ calls' = Settled(c, "failed")
           /\ pending' = Without(pending, Dropped(c)) /\ wire' \in Trimmed(wire, pending')
  <2>1. wire' \subseteq wire
    BY <1>4, Pipes
  <2>2. /\ AnswersMatch' /\ wire' \subseteq WireRec
        /\ DOMAIN pending' = DOMAIN pending \ Dropped(c)
        /\ \A i \in DOMAIN pending' : pending'[i] = pending[i]
        /\ DOMAIN pending' \subseteq ReqId /\ pending' \in [DOMAIN pending' -> Asks]
    BY <1>4, <2>1, FewerMatch
  <2>3. /\ calls' \in [Call -> CallRec] /\ calls'[c].at = "failed" /\ calls'[c].on = None
        /\ \A d \in Call : d # c => calls'[d] = calls[d]
    BY <1>1, <1>4 DEF Settled, CallRec, Idle, Someone
  <2>4. TypeOK'
    BY <1>2, <2>2, <2>3 DEF IInv, TypeOK, session, CallRec, Idle, Handshake, Someone, Asks, WireRec
  <2>5. \A i \in DOMAIN pending' : pending[i] # Req("tools/call", c) /\ AskOk(pending[i])
    BY <2>2, PendingTypes DEF IInv, Dropped, Req
  <2>6. Belongs'
    BY <1>2, <2>2, <2>3, <2>5 DEF IInv, Belongs, AskOk, Handshake, Req
  <2>7. HasAsked'
    <3>1. ASSUME NEW i \in DOMAIN pending, pending[i] # Req("tools/call", c)
          PROVE  i \in DOMAIN pending' /\ pending'[i] = pending[i]
      BY <2>2, <3>1 DEF Dropped, Req
    <3>2. ASSUME NEW d \in Call, calls'[d].at = "sent"
          PROVE  \E i \in DOMAIN pending' : pending'[i] = [kind |-> "tools/call", by |-> d]
      <4>1. d # c /\ calls[d].at = "sent"
        BY <2>3, <3>2
      <4> QED
        BY <3>1, <4>1 DEF IInv, HasAsked, Req
    <3>3. ASSUME NEW k \in Child, start[k] \in Handshake
          PROVE  \E i \in DOMAIN pending' : pending'[i] = [kind |-> start[k], by |-> k]
      BY <3>1, <3>3 DEF IInv, HasAsked, Req, Handshake
    <3> QED
      BY <1>2, <3>2, <3>3 DEF HasAsked
  <2>8. Waits' /\ SessionOk' /\ OnlyFailedLinger'
    BY <1>2, <2>3 DEF IInv, Waits, SessionOk, OnlyFailedLinger, session
  <2> QED
    BY <2>2, <2>4, <2>6, <2>7, <2>8 DEF IInv
<1> QED
  BY <1>3, <1>4 DEF Abort

\* The first call, and the first one after a failure, spawns a child of its own.
LEMMA CallSpawnsHolds ==
  ASSUME IInv, NEW c \in Call, CallSpawns(c)
  PROVE  IInv'
<1>1. PICK k \in Child, id \in FreshIds :
        /\ Free(k)
        /\ error' = FALSE
        /\ proc' = [Killed(Reset) EXCEPT ![k] = "alive"]
        /\ child' = k
        /\ init' = k
        /\ start' = [start EXCEPT ![k] = "initialize"]
        /\ pending' = With(pending, id, Req("initialize", k))
        /\ wire' \in Trimmed((wire \ Unanswered(Reset)) \cup Packed(id, pending'[id], k), pending')
        /\ calls' = [calls EXCEPT ![c] = [at |-> "waiting", on |-> k]]
  BY DEF CallSpawns, Req
<1>2. /\ calls[c].at \in Idle /\ (error \/ init = None) /\ UNCHANGED <<disposed, closing>>
  BY DEF CallSpawns
<1>3. id \in ReqId /\ id \notin DOMAIN pending /\ \A w \in wire : w.id # id
  BY DEF FreshIds
<1> DEFINE req == Req("initialize", k)
<1>4. req \in Asks /\ req.kind = "initialize" /\ req.by = k
  BY AskTypes DEF Req, Handshake
<1> HIDE DEF req
<1>5. /\ DOMAIN pending' = DOMAIN pending \cup {id} /\ pending'[id] = req
      /\ \A i \in DOMAIN pending : pending'[i] = pending[i]
      /\ pending' \in [DOMAIN pending' -> Asks]
  <2>1. pending \in [DOMAIN pending -> Asks] /\ DOMAIN pending \subseteq ReqId
    BY DEF IInv, TypeOK
  <2>2. /\ DOMAIN With(pending, id, req) = DOMAIN pending \cup {id} /\ With(pending, id, req)[id] = req
        /\ \A i \in DOMAIN pending \ {id} : With(pending, id, req)[i] = pending[i]
        /\ With(pending, id, req) \in [DOMAIN With(pending, id, req) -> Asks]
    BY <1>3, <1>4, <2>1, Table, Zenon
  <2> QED
    BY <1>1, <1>3, <2>2, Zenon DEF req
<1>6. \A w \in wire' : w \in wire \/ w = [id |-> id, req |-> req, to |-> k, answered |-> FALSE]
  <2>1. \A w \in wire' : w \in (wire \ Unanswered(Reset)) \cup Packed(id, req, k)
    BY <1>1, <1>5, Pipes
  <2> QED
    BY <2>1, Pipes
<1>7. AnswersMatch'
  <2>1. \A w \in wire' : (w \in wire) \/ (w.id = id /\ w.req = req)
    BY <1>6
  <2> QED
    BY <1>3, <1>5, <2>1, Matches DEF IInv
<1>8. /\ calls' \in [Call -> CallRec] /\ calls'[c] = [at |-> "waiting", on |-> k]
      /\ \A d \in Call : d # c => calls'[d] = calls[d]
  <2>1. calls \in [Call -> CallRec] /\ [at |-> "waiting", on |-> k] \in CallRec
    BY DEF IInv, TypeOK, CallRec, Someone
  <2> QED
    BY <1>1, <2>1
<1>9. /\ start' \in [Child -> Handshake \cup {"none", "done", "failed"}] /\ start'[k] = "initialize"
      /\ \A h \in Child : h # k => start'[h] = start[h]
  BY <1>1 DEF IInv, TypeOK, Handshake
<1>10. /\ proc' \in [Child -> {"none", "alive", "dead", "gone"}]
       /\ \A h \in Child : h # k /\ proc'[h] = "alive" => proc[h] = "alive" /\ h # Reset
  BY <1>1, KillTypes DEF IInv
<1>11. /\ start[k] \notin Handshake /\ \A i \in DOMAIN pending : pending[i].by # k
       /\ \A d \in Call : calls[d].on # k
  <2>1. \A d \in Call : calls[d].on = k => d \in WaitingOn(k)
    BY NoneAssumption DEF IInv, Waits, WaitingOn
  <2> QED
    BY <1>1, <2>1 DEF Free, Handshake
<1>12. TypeOK'
  <2>1. wire' \subseteq WireRec
    <3>1. wire \subseteq WireRec
      BY DEF IInv, TypeOK, WireRec
    <3>2. [id |-> id, req |-> req, to |-> k, answered |-> FALSE] \in WireRec
      BY <1>3, <1>4 DEF WireRec, Someone
    <3> QED
      BY <1>6, <3>1, <3>2
  <2>2. child' \in Someone /\ init' \in Someone /\ closing' \in Someone
        /\ error' \in BOOLEAN /\ disposed' \in BOOLEAN
    BY <1>1, <1>2 DEF IInv, TypeOK, Someone
  <2>3. DOMAIN pending' \subseteq ReqId
    BY <1>3, <1>5 DEF IInv, TypeOK
  <2> QED
    BY <1>5, <1>8, <1>9, <1>10, <2>1, <2>2, <2>3 DEF TypeOK, CallRec, WireRec
<1>13. Belongs'
  <2>1. \A i \in DOMAIN pending : /\ pending[i].kind = "tools/call" => pending[i].by \in Call /\ pending[i].by # c
                                  /\ pending[i].kind \in Handshake => pending[i].by \in Child
    BY <1>2, PendingTypes DEF IInv, AskOk, Handshake, Belongs, Idle
  <2>2. ASSUME NEW i \in DOMAIN pending
        PROVE  /\ pending[i].kind = "tools/call" => calls'[pending[i].by].at = "sent"
               /\ pending[i].kind \in Handshake => start'[pending[i].by] = pending[i].kind
               /\ pending[i] # req
    <3>1. pending[i].kind = "tools/call" => calls'[pending[i].by].at = "sent"
      BY <1>8, <2>1 DEF IInv, Belongs
    <3>2. pending[i].kind \in Handshake => start'[pending[i].by] = pending[i].kind
      BY <1>9, <1>11, <2>1 DEF IInv, Belongs
    <3>3. pending[i] # req
      BY <1>4, <1>11
    <3> QED
      BY <3>1, <3>2, <3>3
  <2> QED
    BY <1>4, <1>5, <1>9, <2>2 DEF IInv, Belongs, Handshake
<1>14. HasAsked'
  BY <1>2, <1>5, <1>8, <1>9 DEF IInv, HasAsked, req, Req, Idle
<1>15. Waits'
  BY <1>8, <1>9, <1>11, NoneAssumption DEF IInv, Waits, TypeOK, Someone
<1>16. SessionOk'
  BY <1>1, <1>9, NoneAssumption DEF SessionOk
<1>17. OnlyFailedLinger'
  <2>1. ASSUME NEW h \in Child, h # k, proc[h] = "alive", h # Reset PROVE start[h] = "failed"
    BY <1>2, <2>1, NoneAssumption DEF IInv, OnlyFailedLinger, SessionOk, Reset, TypeOK
  <2> QED
    BY <1>1, <1>9, <1>10, <2>1 DEF OnlyFailedLinger
<1> QED
  BY <1>7, <1>12, <1>13, <1>14, <1>15, <1>16, <1>17 DEF IInv

-------------------------------------------------------------------------------
(* Requests that are through.                                              *)

LEMMA ThroughHolds ==
  ASSUME IInv, NEW id \in DOMAIN pending, NEW good \in BOOLEAN, Through(id, good),
         pending' = Without(pending, {id}), wire' \subseteq wire,
         UNCHANGED <<child, error, disposed, closing, proc>>
  PROVE  IInv'
<1> DEFINE req == pending[id]
           by  == req.by
<1>1. /\ AnswersMatch' /\ wire' \subseteq WireRec
      /\ DOMAIN pending' = DOMAIN pending \ {id}
      /\ \A i \in DOMAIN pending' : pending'[i] = pending[i]
      /\ DOMAIN pending' \subseteq ReqId /\ pending' \in [DOMAIN pending' -> Asks]
  BY FewerMatch
<1>2. AskOk(req) /\ \A i \in DOMAIN pending : AskOk(pending[i])
  BY PendingTypes DEF IInv
<1>3. calls \in [Call -> CallRec] /\ start \in [Child -> Handshake \cup {"none", "done", "failed"}]
  BY DEF IInv, TypeOK, CallRec
<1>4. \A i \in DOMAIN pending' : pending[i] = req => req.kind = "shutdown"
  BY <1>1 DEF IInv, Belongs
<1>4a. \A i, j \in DOMAIN pending' :
         pending'[i] = pending'[j] /\ pending'[i].kind # "shutdown" => i = j
  <2>1. \A i, j \in DOMAIN pending : pending[i] = pending[j] /\ pending[i].kind # "shutdown" => i = j
    BY DEF IInv, Belongs
  <2>2. \A i \in DOMAIN pending' : i \in DOMAIN pending /\ pending'[i] = pending[i]
    BY <1>1
  <2> QED
    BY <2>1, <2>2
<1>5. ASSUME NEW r, r # req, \E i \in DOMAIN pending : pending[i] = r
      PROVE  \E i \in DOMAIN pending' : pending'[i] = r
  BY <1>1, <1>5
<1>6. ASSUME start' \in [Child -> Handshake \cup {"none", "done", "failed"}],
             calls' \in [Call -> CallRec], init' \in Someone
      PROVE  TypeOK'
  BY <1>1, <1>6 DEF IInv, TypeOK, CallRec, Idle, Handshake, Someone, Asks, WireRec
<1>7. CASE req.kind = "tools/call"
  <2>1. by \in Call /\ UNCHANGED <<start, init>>
        /\ \E at \in {"ok", "failed"} : calls' = [calls EXCEPT ![by] = [at |-> at, on |-> None]]
    BY <1>2, <1>7 DEF AskOk, Handshake, Through, Settled
  <2>2. /\ calls' \in [Call -> CallRec] /\ calls'[by].at \in {"ok", "failed"} /\ calls'[by].on = None
        /\ \A d \in Call : d # by => calls'[d] = calls[d]
    BY <1>3, <2>1 DEF CallRec, Idle, Someone
  <2> HIDE DEF by
  <2>3. \A i \in DOMAIN pending' : pending[i].kind = "tools/call" => pending[i].by # by
    BY <1>1, <1>2, <1>4, <1>7 DEF AskOk, by
  <2>4. Belongs'
    <3>1. \A i \in DOMAIN pending' : pending[i].kind = "tools/call" => pending[i].by \in Call
      BY <1>1, <1>2 DEF AskOk, Handshake
    <3>2. \A i \in DOMAIN pending' :
            /\ pending[i].kind = "tools/call" => calls'[pending[i].by].at = "sent"
            /\ pending[i].kind \in Handshake => start'[pending[i].by] = pending[i].kind
      BY <1>1, <2>1, <2>2, <2>3, <3>1 DEF IInv, Belongs
    <3> QED
      BY <1>1, <1>4a, <3>2 DEF Belongs
  <2>5. HasAsked'
    <3>1. ASSUME NEW d \in Call, calls'[d].at = "sent"
          PROVE  \E i \in DOMAIN pending' : pending'[i] = [kind |-> "tools/call", by |-> d]
      <4>1. d # by /\ calls[d].at = "sent"
        BY <2>2, <3>1
      <4>2. [kind |-> "tools/call", by |-> d] # req
        BY <4>1 DEF by
      <4> QED
        BY <1>5, <4>1, <4>2 DEF IInv, HasAsked
    <3>2. ASSUME NEW k \in Child, start[k] \in Handshake
          PROVE  \E i \in DOMAIN pending' : pending'[i] = [kind |-> start[k], by |-> k]
      <4>1. [kind |-> start[k], by |-> k] # req
        BY <1>7, <3>2 DEF Handshake
      <4> QED
        BY <1>5, <3>2, <4>1 DEF IInv, HasAsked
    <3> QED
      BY <2>1, <3>1, <3>2 DEF HasAsked
  <2>6. Waits' /\ SessionOk' /\ OnlyFailedLinger'
    BY <2>1, <2>2 DEF IInv, Waits, SessionOk, OnlyFailedLinger
  <2>7. TypeOK'
    BY <1>3, <1>6, <2>1, <2>2 DEF IInv, TypeOK
  <2> QED
    BY <1>1, <2>4, <2>5, <2>6, <2>7 DEF IInv
<1>8. CASE req.kind = "shutdown"
  <2>1. UNCHANGED <<start, init, calls>>
    BY <1>8 DEF Through
  <2>2. Belongs'
    <3>1. \A i \in DOMAIN pending :
            /\ pending[i].kind = "tools/call" => calls'[pending[i].by].at = "sent"
            /\ pending[i].kind \in Handshake => start'[pending[i].by] = pending[i].kind
      BY <2>1 DEF IInv, Belongs
    <3> QED
      BY <1>1, <1>4a, <3>1 DEF Belongs
  <2>3. HasAsked'
    <3>1. ASSUME NEW d \in Call, calls[d].at = "sent"
          PROVE  \E i \in DOMAIN pending' : pending'[i] = [kind |-> "tools/call", by |-> d]
      <4>1. [kind |-> "tools/call", by |-> d] # req
        BY <1>8
      <4> QED
        BY <1>5, <3>1, <4>1 DEF IInv, HasAsked
    <3>2. ASSUME NEW k \in Child, start[k] \in Handshake
          PROVE  \E i \in DOMAIN pending' : pending'[i] = [kind |-> start[k], by |-> k]
      <4>1. [kind |-> start[k], by |-> k] # req
        BY <1>8, <3>2 DEF Handshake
      <4> QED
        BY <1>5, <3>2, <4>1 DEF IInv, HasAsked
    <3> QED
      BY <2>1, <3>1, <3>2 DEF HasAsked
  <2>4. Waits' /\ SessionOk' /\ OnlyFailedLinger'
    BY <2>1 DEF IInv, Waits, SessionOk, OnlyFailedLinger
  <2>5. TypeOK'
    BY <1>3, <1>6, <2>1 DEF IInv, TypeOK
  <2> QED
    BY <1>1, <2>2, <2>3, <2>4, <2>5 DEF IInv
<1>9. CASE req.kind \in Handshake
  <2>1. by \in Child /\ start[by] = req.kind
    BY <1>2, <1>9 DEF AskOk, Handshake, IInv, Belongs
  <2>2. /\ start' = [start EXCEPT ![by] = IF req.kind = "initialize" THEN "failed" ELSE "done"]
        /\ init' = IF req.kind = "initialize" /\ init = by THEN None ELSE init
        /\ calls' = IF req.kind = "initialize" THEN Failing(WaitingOn(by)) ELSE calls
    BY <1>9 DEF Handshake, Through, HandshakeFails, HandshakeDone
  <2> HIDE DEF by
  <2>3. /\ start' \in [Child -> Handshake \cup {"none", "done", "failed"}]
        /\ start'[by] = IF req.kind = "initialize" THEN "failed" ELSE "done"
        /\ \A k \in Child : k # by => start'[k] = start[k]
    BY <1>3, <2>1, <2>2
  <2>4. /\ calls' \in [Call -> CallRec]
        /\ \A c \in Call : (calls'[c] = calls[c]) \/ (calls'[c] = [at |-> "failed", on |-> None])
        /\ \A c \in Call : calls[c].at = "sent" => calls'[c] = calls[c]
        /\ \A c \in Call : req.kind = "initialize" /\ calls[c].on = by => calls'[c].on = None
    <3>1. CASE req.kind = "initialize"
      <4>1. calls' = Failing(WaitingOn(by))
        BY <2>2, <3>1
      <4>2. calls' \in [Call -> CallRec]
        BY <1>3, <4>1 DEF Failing, CallRec, Someone, Idle
      <4>3. \A c \in Call : calls'[c] = IF c \in WaitingOn(by) THEN [at |-> "failed", on |-> None] ELSE calls[c]
        BY <4>1 DEF Failing
      <4>4. \A c \in Call : calls[c].on = by => c \in WaitingOn(by)
        BY <2>1, NoneAssumption DEF WaitingOn, IInv, Waits
      <4> QED
        BY <4>2, <4>3, <4>4 DEF WaitingOn
    <3>2. CASE req.kind # "initialize"
      BY <1>3, <2>2, <3>2
    <3> QED
      BY <3>1, <3>2
  <2>5. Belongs'
    <3>1. ASSUME NEW i \in DOMAIN pending'
          PROVE  /\ pending[i].kind = "tools/call" => calls'[pending[i].by].at = "sent"
                 /\ pending[i].kind \in Handshake => start'[pending[i].by] = pending[i].kind
      <4>1. i \in DOMAIN pending /\ AskOk(pending[i])
        BY <1>1, <1>2
      <4>2. pending[i].kind = "tools/call" => calls'[pending[i].by].at = "sent"
        BY <2>4, <4>1 DEF IInv, Belongs, AskOk, Handshake
      <4>3. ASSUME pending[i].kind \in Handshake PROVE pending[i].by # by
        <5>1. ASSUME pending[i].by = by PROVE FALSE
          <6>1. pending[i].kind = req.kind
            BY <2>1, <4>1, <4>3, <5>1 DEF IInv, Belongs
          <6>2. pending[i] = req
            BY <1>2, <4>1, <5>1, <6>1 DEF AskOk, by
          <6> QED
            BY <1>4, <1>9, <6>2 DEF Handshake
        <5> QED
          BY <5>1
      <4>4. ASSUME pending[i].kind \in Handshake
            PROVE  start'[pending[i].by] = pending[i].kind
        <5>1. pending[i].by \in Child /\ pending[i].by # by
          BY <4>1, <4>3, <4>4 DEF AskOk, Handshake
        <5> QED
          BY <2>3, <4>1, <4>4, <5>1 DEF IInv, Belongs
      <4> QED
        BY <4>2, <4>4
    <3> QED
      BY <1>1, <1>4a, <3>1 DEF Belongs
  <2>6. HasAsked'
    <3>1. ASSUME NEW d \in Call, calls'[d].at = "sent"
          PROVE  \E i \in DOMAIN pending' : pending'[i] = [kind |-> "tools/call", by |-> d]
      <4>1. calls[d].at = "sent"
        BY <2>4, <3>1
      <4>2. [kind |-> "tools/call", by |-> d] # req
        BY <1>9 DEF Handshake
      <4> QED
        BY <1>5, <4>1, <4>2 DEF IInv, HasAsked
    <3>2. ASSUME NEW k \in Child, start'[k] \in Handshake
          PROVE  \E i \in DOMAIN pending' : pending'[i] = [kind |-> start'[k], by |-> k]
      <4>1. k # by
        BY <2>3, <3>2 DEF Handshake
      <4>2. start'[k] = start[k]
        BY <2>3, <4>1
      <4>3. [kind |-> start'[k], by |-> k] # req
        BY <4>1 DEF by
      <4> QED
        BY <1>5, <3>2, <4>2, <4>3 DEF IInv, HasAsked
    <3> QED
      BY <3>1, <3>2 DEF HasAsked
  <2>7. Waits'
    <3>1. ASSUME NEW c \in Call, calls'[c].on # None PROVE start'[calls'[c].on] \notin {"none", "failed"}
      <4>1. calls'[c] = calls[c] /\ (req.kind = "initialize" => calls[c].on # by) /\ calls[c].on \in Child
        BY <1>3, <2>4, <3>1 DEF CallRec, Someone
      <4> QED
        BY <2>3, <3>1, <4>1 DEF IInv, Waits
    <3> QED
      BY <2>4, <3>1 DEF IInv, Waits
  <2>8. SessionOk'
    <3>1. init \in Someone /\ child \in Someone /\ by # None /\ SessionOk
      BY <2>1, NoneAssumption DEF IInv, TypeOK
    <3>2. CASE init = by
      BY <1>9, <2>2, <2>3, <3>1, <3>2 DEF SessionOk, Handshake
    <3>3. CASE init # by /\ init # None
      BY <2>2, <2>3, <3>1, <3>3 DEF SessionOk, Someone
    <3>4. CASE init = None
      <4>1. child # by
        BY <1>9, <2>1, <3>1, <3>4 DEF SessionOk, Handshake
      <4> QED
        BY <2>2, <2>3, <3>1, <3>4, <4>1 DEF SessionOk, Someone
    <3> QED
      BY <3>2, <3>3, <3>4
  <2>9. OnlyFailedLinger'
    BY <2>1, <2>3, <1>9 DEF IInv, OnlyFailedLinger, Handshake
  <2>10. TypeOK'
    BY <1>6, <2>2, <2>3, <2>4 DEF IInv, TypeOK, Someone
  <2> QED
    BY <1>1, <2>5, <2>6, <2>7, <2>8, <2>9, <2>10 DEF IInv
<1> QED
  BY <1>2, <1>7, <1>8, <1>9 DEF AskOk

LEMMA TimeoutHolds ==
  ASSUME IInv, NEW id, Timeout(id)
  PROVE  IInv'
BY ThroughHolds, Pipes DEF Timeout

LEMMA AnsweredHolds ==
  ASSUME IInv, NEW w \in wire, NEW good \in BOOLEAN, Answered(w, good)
  PROVE  IInv'
BY ThroughHolds DEF Answered

\* The handshake goes on: its first request is replaced by its second one.
LEMMA InitializedHolds ==
  ASSUME IInv, NEW w \in wire, Initialized(w)
  PROVE  IInv'
<1> DEFINE old == w.id
           k   == pending[old].by
           req == Req("tools/list", k)
           P   == Without(pending, {old})
<1>1. PICK id \in FreshIds :
        /\ start' = [start EXCEPT ![k] = "tools/list"]
        /\ pending' = With(P, id, req)
        /\ wire' \in Trimmed((wire \ {w}) \cup Packed(id, req, child), pending')
  BY DEF Initialized, Req
<1>2. /\ old \in DOMAIN pending /\ pending[old].kind = "initialize"
      /\ UNCHANGED <<session, disposed, closing, proc, calls>>
  BY DEF Initialized
<1>3. id \in ReqId /\ id \notin DOMAIN pending /\ \A v \in wire : v.id # id
  BY DEF FreshIds
<1>4. k \in Child /\ start[k] = "initialize" /\ pending[old] = Req("initialize", k)
  BY <1>2, PendingTypes DEF IInv, Belongs, AskOk, Handshake
<1>5. req \in Asks /\ req.kind = "tools/list" /\ req.by = k
  BY <1>4, AskTypes DEF Req, Handshake
<1> HIDE DEF req
<1>6. /\ DOMAIN pending' = (DOMAIN pending \ {old}) \cup {id} /\ pending'[id] = req
      /\ \A i \in DOMAIN pending \ {old} : pending'[i] = pending[i]
      /\ pending' \in [DOMAIN pending' -> Asks]
  <2>1. pending \in [DOMAIN pending -> Asks] /\ DOMAIN pending \subseteq ReqId
    BY DEF IInv, TypeOK
  <2>2. /\ DOMAIN P = DOMAIN pending \ {old}
        /\ \A i \in DOMAIN pending \ {old} : P[i] = pending[i]
        /\ P \in [DOMAIN P -> Asks]
    BY <2>1, Table
  <2> HIDE DEF P
  <2>3. DOMAIN P \subseteq ReqId
    BY <2>1, <2>2
  <2>4. /\ DOMAIN With(P, id, req) = DOMAIN P \cup {id} /\ With(P, id, req)[id] = req
        /\ \A i \in DOMAIN P \ {id} : With(P, id, req)[i] = P[i]
        /\ With(P, id, req) \in [DOMAIN With(P, id, req) -> Asks]
    BY <1>3, <1>5, <2>2, <2>3, Table, Zenon
  <2> QED
    BY <1>1, <1>3, <2>2, <2>4
<1>7. \A v \in wire' : v \in wire \/ v = [id |-> id, req |-> req, to |-> child, answered |-> FALSE]
  <2>1. \A v \in wire' : v \in (wire \ {w}) \cup Packed(id, req, child)
    BY <1>1, Pipes
  <2> QED
    BY <2>1, Pipes
<1>8. AnswersMatch'
  <2>1. \A v \in wire' : (v \in wire) \/ (v.id = id /\ v.req = req)
    BY <1>7
  <2> QED
    BY <1>3, <1>6, <2>1, Matches DEF IInv
<1>9. /\ start' \in [Child -> Handshake \cup {"none", "done", "failed"}] /\ start'[k] = "tools/list"
      /\ \A h \in Child : h # k => start'[h] = start[h]
  BY <1>1, <1>4 DEF IInv, TypeOK, Handshake
<1>10. TypeOK'
  <2>1. wire' \subseteq WireRec
    <3>1. wire \subseteq WireRec /\ child \in Someone
      BY DEF IInv, TypeOK, WireRec
    <3>2. [id |-> id, req |-> req, to |-> child, answered |-> FALSE] \in WireRec
      BY <1>3, <1>5, <3>1 DEF WireRec
    <3> QED
      BY <1>7, <3>1, <3>2
  <2> QED
    BY <1>2, <1>3, <1>6, <1>9, <2>1
       DEF IInv, TypeOK, session, CallRec, Idle, Handshake, Someone, Asks, WireRec
<1>11. ASSUME NEW i \in DOMAIN pending, i # old
       PROVE  /\ pending[i].kind = "tools/call" => calls[pending[i].by].at = "sent"
              /\ pending[i].kind \in Handshake => pending[i].by \in Child \ {k}
                                                   /\ start[pending[i].by] = pending[i].kind
  <2>1. AskOk(pending[i])
    BY PendingTypes DEF IInv
  <2>2. pending[i].kind = "tools/call" => calls[pending[i].by].at = "sent"
    BY DEF IInv, Belongs
  <2>3. ASSUME pending[i].kind \in Handshake
        PROVE  pending[i].by \in Child \ {k} /\ start[pending[i].by] = pending[i].kind
    <3>1. pending[i].by \in Child /\ start[pending[i].by] = pending[i].kind
      BY <2>1, <2>3 DEF AskOk, Handshake, IInv, Belongs
    <3>2. ASSUME pending[i].by = k PROVE FALSE
      <4>1. pending[i] = pending[old] /\ pending[i].kind # "shutdown"
        BY <1>4, <2>1, <2>3, <3>1, <3>2 DEF AskOk, Handshake
      <4> QED
        BY <1>2, <1>11, <4>1 DEF IInv, Belongs
    <3> QED
      BY <3>1, <3>2
  <2> QED
    BY <2>2, <2>3
<1>12. Belongs'
  <2>1. ASSUME NEW i \in DOMAIN pending, i # old
        PROVE  /\ pending[i].kind = "tools/call" => calls[pending[i].by].at = "sent"
               /\ pending[i].kind \in Handshake => start'[pending[i].by] = pending[i].kind
               /\ pending[i] # req
    <3>1. pending[i] # req
      BY <1>5, <1>11, <2>1 DEF Handshake
    <3> QED
      BY <1>9, <1>11, <2>1, <3>1
  <2>2. \A i, j \in DOMAIN pending : pending[i] = pending[j] /\ pending[i].kind # "shutdown" => i = j
    BY DEF IInv, Belongs
  <2> QED
    BY <1>2, <1>3, <1>5, <1>6, <1>9, <2>1, <2>2 DEF Belongs, Handshake
<1>13. HasAsked'
  <2>1. ASSUME NEW d \in Call, calls[d].at = "sent"
        PROVE  \E i \in DOMAIN pending' : pending'[i] = [kind |-> "tools/call", by |-> d]
    <3>1. PICK i \in DOMAIN pending : pending[i] = [kind |-> "tools/call", by |-> d]
      BY <2>1 DEF IInv, HasAsked
    <3>2. i # old
      BY <1>2, <3>1
    <3> QED
      BY <1>6, <3>1, <3>2
  <2>2. ASSUME NEW h \in Child, h # k, start[h] \in Handshake
        PROVE  \E i \in DOMAIN pending' : pending'[i] = [kind |-> start[h], by |-> h]
    <3>1. PICK i \in DOMAIN pending : pending[i] = [kind |-> start[h], by |-> h]
      BY <2>2 DEF IInv, HasAsked
    <3>2. i # old
      BY <2>2, <3>1
    <3> QED
      BY <1>6, <3>1, <3>2
  <2>3. \E i \in DOMAIN pending' : pending'[i] = [kind |-> start'[k], by |-> k]
    BY <1>6, <1>9 DEF req, Req
  <2>4. \A h \in Child : start'[h] \in Handshake =>
          \E i \in DOMAIN pending' : pending'[i] = [kind |-> start'[h], by |-> h]
    BY <1>9, <2>2, <2>3
  <2> QED
    BY <1>2, <2>1, <2>4 DEF HasAsked
<1>14. Waits' /\ SessionOk'
  <2>1. \A h \in Child : start[h] \notin {"none", "failed"} => start'[h] \notin {"none", "failed"}
    BY <1>9
  <2>2. (\A c \in Call : calls[c].on \in Someone) /\ init \in Someone /\ child \in Someone
    BY DEF IInv, TypeOK
  <2>3. Waits'
    BY <1>2, <2>1, <2>2 DEF IInv, Waits, Someone
  <2>4. SessionOk'
    BY <1>2, <1>4, <1>9, <2>1, <2>2 DEF IInv, SessionOk, Someone, session
  <2> QED
    BY <2>3, <2>4
<1>15. OnlyFailedLinger'
  BY <1>2, <1>4, <1>9 DEF IInv, OnlyFailedLinger, session
<1> QED
  BY <1>8, <1>10, <1>12, <1>13, <1>14, <1>15 DEF IInv

-------------------------------------------------------------------------------
(* The child's exit, and dispose.                                          *)

\* The exit of a child ends everything that is pending.
LEMMA ExitedHolds ==
  ASSUME IInv, NEW k \in Child, Exited(k)
  PROVE  IInv'
<1> DEFINE of(kind) == {pending[i].by : i \in {j \in DOMAIN pending : pending[j].kind = kind}}
           failed == of("initialize")
           listed == of("tools/list")
           ended  == of("tools/call") \cup UNION {WaitingOn(h) : h \in failed}
<1>1. /\ proc' = [proc EXCEPT ![k] = "gone"] /\ error' = TRUE
      /\ start' = [h \in Child |-> CASE h \in failed -> "failed"
                                     [] h \in listed -> "done"
                                     [] OTHER        -> start[h]]
      /\ init' = IF init \in failed THEN None ELSE init
      /\ calls' = Failing(ended)
      /\ pending' = Without(pending, DOMAIN pending)
      /\ wire' \in Trimmed(wire, pending')
      /\ UNCHANGED <<child, disposed, closing>>
  BY DEF Exited
<1>2. wire' \subseteq wire
  BY <1>1, Pipes
<1>3. AnswersMatch' /\ wire' \subseteq WireRec /\ DOMAIN pending' = {}
      /\ pending' \in [DOMAIN pending' -> Asks]
  BY <1>1, <1>2, FewerMatch
<1>4. \A h \in Child : (h \in failed <=> start[h] = "initialize") /\ (h \in listed <=> start[h] = "tools/list")
  <2>1. ASSUME NEW h \in Child, NEW kind \in Handshake PROVE h \in of(kind) <=> start[h] = kind
    <3>1. ASSUME h \in of(kind) PROVE start[h] = kind
      BY <3>1 DEF IInv, Belongs
    <3>2. ASSUME start[h] = kind PROVE h \in of(kind)
      <4>1. PICK i \in DOMAIN pending : pending[i] = [kind |-> kind, by |-> h]
        BY <3>2 DEF IInv, HasAsked
      <4>2. pending[i].kind = kind /\ pending[i].by = h
        BY <4>1
      <4> QED
        BY <4>2
    <3> QED
      BY <3>1, <3>2
  <2> QED
    BY <2>1 DEF Handshake
<1>5. failed \subseteq Child /\ None \notin failed
  <2>1. ASSUME NEW i \in DOMAIN pending, pending[i].kind = "initialize" PROVE pending[i].by \in Child
    BY <2>1, PendingTypes DEF IInv, AskOk, Handshake
  <2> QED
    BY <2>1, NoneAssumption
<1>6. ASSUME NEW c \in Call, calls[c].at = "sent" PROVE c \in ended
  <2>1. PICK i \in DOMAIN pending : pending[i] = [kind |-> "tools/call", by |-> c]
    BY <1>6 DEF IInv, HasAsked
  <2>2. pending[i].kind = "tools/call" /\ pending[i].by = c
    BY <2>1
  <2>3. c \in of("tools/call")
    BY <2>2
  <2> QED
    BY <2>3
<1>7. ASSUME NEW c \in Call, calls[c].on \in failed PROVE c \in ended
  <2>1. c \in WaitingOn(calls[c].on)
    BY <1>5, <1>7 DEF WaitingOn, IInv, Waits
  <2> QED
    BY <1>7, <2>1
<1> HIDE DEF failed, listed, ended
<1>8. /\ calls' \in [Call -> CallRec]
      /\ \A c \in Call : calls'[c] = IF c \in ended THEN [at |-> "failed", on |-> None] ELSE calls[c]
  BY <1>1 DEF IInv, TypeOK, Failing, CallRec, Someone, Idle
<1>9. start' \in [Child -> {"none", "done", "failed"}] /\
      \A h \in Child : start'[h] = IF h \in failed THEN "failed"
                                   ELSE IF h \in listed THEN "done" ELSE start[h]
  <2>1. ASSUME NEW h \in Child
        PROVE start'[h] = IF h \in failed THEN "failed" ELSE IF h \in listed THEN "done" ELSE start[h]
    <3>1. ~(h \in failed /\ h \in listed)
      BY <1>4
    <3> QED
      BY <1>1, <3>1
  <2>2. \A h \in Child : start'[h] \in {"none", "done", "failed"}
    BY <1>4, <2>1 DEF IInv, TypeOK, Handshake
  <2> QED
    BY <1>1, <2>1, <2>2
<1>10. proc' \in [Child -> {"none", "alive", "dead", "gone"}]
       /\ \A h \in Child : proc'[h] = "alive" => proc[h] = "alive"
  BY <1>1 DEF IInv, TypeOK
<1>11. TypeOK'
  BY <1>1, <1>3, <1>8, <1>9, <1>10
     DEF IInv, TypeOK, CallRec, Idle, Handshake, Someone, Asks, WireRec
<1>12. Belongs'
  BY <1>3 DEF Belongs
<1>13. HasAsked'
  BY <1>6, <1>8, <1>9 DEF HasAsked, Handshake
<1>14. Waits'
  <2>1. ASSUME NEW c \in Call, c \notin ended, calls[c].on # None
        PROVE  start'[calls[c].on] \notin {"none", "failed"}
    <3>1. calls[c].on \in Child /\ start[calls[c].on] \notin {"none", "failed"}
      BY <2>1 DEF IInv, TypeOK, Waits, Someone
    <3> QED
      BY <1>7, <1>9, <2>1, <3>1
  <2> QED
    BY <1>8, <2>1 DEF IInv, Waits
<1>15. SessionOk'
  <2>1. init \in Someone /\ child \in Someone /\ SessionOk
    BY DEF IInv, TypeOK
  <2>2. CASE init \in failed
    BY <1>1, <1>5, <1>9, <2>1, <2>2 DEF SessionOk, Someone
  <2>3. CASE init \notin failed /\ init # None
    BY <1>1, <1>9, <2>1, <2>3 DEF SessionOk, Someone
  <2>4. CASE init = None
    BY <1>1, <1>4, <1>5, <1>9, <2>1, <2>4 DEF SessionOk, Someone
  <2> QED
    BY <2>2, <2>3, <2>4
<1>16. OnlyFailedLinger'
  BY <1>1, <1>4, <1>9, <1>10 DEF IInv, OnlyFailedLinger
<1> QED
  BY <1>3, <1>11, <1>12, <1>13, <1>14, <1>15, <1>16 DEF IInv

\* The shutdown request is nobody's.
LEMMA DisposeHolds ==
  ASSUME IInv, Dispose
  PROVE  IInv'
<1>1. CASE UNCHANGED <<closing, pending, wire>>
  BY <1>1, PacketsGo DEF Dispose, IInv, TypeOK, session
<1>2. CASE /\ child \in Unreported /\ closing' = child
           /\ \E id \in FreshIds :
                /\ pending' = With(pending, id, [kind |-> "shutdown", by |-> child])
                /\ wire' \in Trimmed(wire \cup Packed(id, pending'[id], child), pending')
  <2> DEFINE req == Req("shutdown", child)
  <2>1. PICK id \in FreshIds :
          /\ pending' = With(pending, id, req)
          /\ wire' \in Trimmed(wire \cup Packed(id, pending'[id], child), pending')
    BY <1>2 DEF Req
  <2>2. id \in ReqId /\ id \notin DOMAIN pending /\ \A w \in wire : w.id # id
    BY DEF FreshIds
  <2>3. req \in Asks /\ req.kind = "shutdown" /\ child \in Child
    BY <1>2, AskTypes DEF Req, Unreported
  <2> HIDE DEF req
  <2>4. /\ DOMAIN pending' = DOMAIN pending \cup {id} /\ pending'[id] = req
        /\ \A i \in DOMAIN pending : pending'[i] = pending[i]
        /\ pending' \in [DOMAIN pending' -> Asks]
    <3>1. pending \in [DOMAIN pending -> Asks] /\ DOMAIN pending \subseteq ReqId
      BY DEF IInv, TypeOK
    <3>2. /\ DOMAIN With(pending, id, req) = DOMAIN pending \cup {id} /\ With(pending, id, req)[id] = req
          /\ \A i \in DOMAIN pending \ {id} : With(pending, id, req)[i] = pending[i]
          /\ With(pending, id, req) \in [DOMAIN With(pending, id, req) -> Asks]
      BY <2>2, <2>3, <3>1, Table, Zenon
    <3> QED
      BY <2>1, <2>2, <3>2, Zenon
  <2>5. \A w \in wire' : w \in wire \/ w = [id |-> id, req |-> req, to |-> child, answered |-> FALSE]
    BY <2>1, <2>4, Pipes
  <2>6. AnswersMatch'
    <3>1. \A w \in wire' : (w \in wire) \/ (w.id = id /\ w.req = req)
      BY <2>5
    <3> QED
      BY <2>2, <2>4, <3>1, Matches DEF IInv
  <2>7. disposed' \in BOOLEAN /\ UNCHANGED <<session, proc, start, calls>>
    BY DEF Dispose
  <2>8. TypeOK'
    <3>1. wire' \subseteq WireRec
      <4>1. wire \subseteq WireRec /\ child \in Someone
        BY DEF IInv, TypeOK, WireRec
      <4>2. [id |-> id, req |-> req, to |-> child, answered |-> FALSE] \in WireRec
        BY <2>2, <2>3, <4>1 DEF WireRec
      <4> QED
        BY <2>5, <4>1, <4>2
    <3> QED
      BY <1>2, <2>2, <2>4, <2>7, <3>1
         DEF IInv, TypeOK, session, CallRec, Idle, Handshake, Someone, Asks, WireRec
  <2>9. Belongs'
    BY <2>3, <2>4, <2>7 DEF IInv, Belongs, Handshake
  <2>10. HasAsked'
    BY <2>4, <2>7 DEF IInv, HasAsked
  <2>11. Waits' /\ SessionOk' /\ OnlyFailedLinger'
    BY <2>7 DEF IInv, Waits, SessionOk, OnlyFailedLinger, session
  <2> QED
    BY <2>6, <2>8, <2>9, <2>10, <2>11 DEF IInv
<1> QED
  BY <1>1, <1>2 DEF Dispose

-------------------------------------------------------------------------------
(* Every step.                                                             *)

LEMMA CallHolds ==
  ASSUME IInv, NEW c \in Call,
         CallRefused(c) \/ CallWaits(c) \/ CallSends(c) \/ CallContinues(c)
  PROVE  IInv'
<1>1. calls[c].at \in Idle => calls[c].at # "sent"
  BY DEF Idle
<1>2. CASE calls' = Settled(c, "failed") /\ calls[c].at # "sent"
           /\ UNCHANGED <<session, disposed, closing, proc, start, pending, wire>>
  <2> DEFINE rec == [at |-> "failed", on |-> None]
  <2>1. rec \in CallRec /\ rec.at = "failed" /\ rec.on = None /\ calls' = [calls EXCEPT ![c] = rec]
    BY <1>2 DEF CallRec, Idle, Someone, Settled
  <2> HIDE DEF rec
  <2> QED
    BY <1>2, <2>1, CallMoves
<1>3. CASE CallRefused(c)
  BY <1>1, <1>2, <1>3 DEF CallRefused
<1>4. CASE CallWaits(c)
  <2> DEFINE rec == [at |-> "waiting", on |-> init]
  <2>1. rec \in CallRec /\ rec.at = "waiting" /\ rec.on = init /\ calls' = [calls EXCEPT ![c] = rec]
    BY <1>4 DEF CallWaits, CallRec, IInv, TypeOK
  <2>2. init # None /\ start[init] \notin {"none", "failed"}
    BY <1>4 DEF CallWaits, IInv, SessionOk
  <2> HIDE DEF rec
  <2> QED
    BY <1>1, <1>4, <2>1, <2>2, CallMoves DEF CallWaits
<1>5. CASE CallSends(c)
  BY <1>1, <1>5, SendCallHolds DEF CallSends
<1>6. CASE CallContinues(c)
  <2>1. calls[c].at # "sent"
    BY <1>6 DEF CallContinues, IInv, Waits
  <2> QED
    BY <1>2, <1>6, <2>1, SendCallHolds DEF CallContinues
<1> QED
  BY <1>3, <1>4, <1>5, <1>6

LEMMA NextHolds == IInv /\ [Next]_vars => IInv'
<1> SUFFICES ASSUME IInv, [Next]_vars PROVE IInv'
  OBVIOUS
<1>1. closing \in Someone /\ disposed \in BOOLEAN /\ None \in Someone
  BY DEF IInv, TypeOK, Someone
<1>2. CASE \E c \in Call : CallRefused(c) \/ CallWaits(c) \/ CallSends(c) \/ CallContinues(c)
  BY <1>2, CallHolds
<1>3. CASE \E c \in Call : CallSpawns(c) \/ Abort(c)
  BY <1>3, CallSpawnsHolds, AbortHolds
<1>4. CASE \E w \in wire : ChildAnswers(w) \/ Initialized(w) \/ \E good \in BOOLEAN : Answered(w, good)
  BY <1>4, ChildAnswersHolds, InitializedHolds, AnsweredHolds
<1>5. CASE \E w \in wire : Ignored(w)
  BY <1>1, <1>5, PacketsGo DEF Ignored
<1>6. CASE \E id \in ReqId : Timeout(id)
  BY <1>6, TimeoutHolds
<1>7. CASE \E k \in Child : Dies(k)
  BY <1>1, <1>7, PacketsGo DEF Dies
<1>8. CASE \E k \in Child : Exited(k)
  BY <1>8, ExitedHolds
<1>9. CASE Dispose
  BY <1>9, DisposeHolds
<1>10. CASE DisposeKills
  BY <1>1, <1>10, PacketsGo DEF DisposeKills
<1>11. CASE UNCHANGED vars
  BY <1>1, <1>11, PacketsGo DEF vars
<1> QED
  BY <1>2, <1>3, <1>4, <1>5, <1>6, <1>7, <1>8, <1>9, <1>10, <1>11 DEF Next

LEMMA Always == Spec => []IInv
BY InitHolds, NextHolds, PTL DEF Spec

\* What the invariant says of how many requests there are.
LEMMA Counts ==
  ASSUME IInv
  PROVE  NobodyForgotten
<1> DEFINE asked(kind, by) == {i \in DOMAIN pending : pending[i] = [kind |-> kind, by |-> by]}
<1>1. ASSUME NEW kind \in Handshake \cup {"tools/call"}, NEW by,
             \E i \in DOMAIN pending : pending[i] = [kind |-> kind, by |-> by]
      PROVE  Cardinality(asked(kind, by)) = 1
  <2>1. PICK i \in DOMAIN pending : pending[i] = [kind |-> kind, by |-> by]
    BY <1>1
  <2>2. pending[i].kind # "shutdown"
    BY <2>1 DEF Handshake
  <2>3. asked(kind, by) = {i}
    BY <2>1, <2>2 DEF IInv, Belongs
  <2> HIDE DEF asked
  <2> QED
    BY <2>3, FS_Singleton
<1>2. ASSUME NEW kind, NEW by, ~\E i \in DOMAIN pending : pending[i] = [kind |-> kind, by |-> by]
      PROVE  Cardinality(asked(kind, by)) = 0
  <2>1. asked(kind, by) = {}
    BY <1>2
  <2> HIDE DEF asked
  <2> QED
    BY <2>1, FS_EmptySet
<1> HIDE DEF asked
<1>3. ASSUME NEW c \in Call
      PROVE  Cardinality(asked("tools/call", c)) = IF calls[c].at = "sent" THEN 1 ELSE 0
  <2>1. calls[c].at = "sent" <=> \E i \in DOMAIN pending : pending[i] = [kind |-> "tools/call", by |-> c]
    <3>1. ASSUME NEW i \in DOMAIN pending, pending[i] = [kind |-> "tools/call", by |-> c]
          PROVE  calls[c].at = "sent"
      <4>1. pending[i].kind = "tools/call" /\ pending[i].by = c
        BY <3>1
      <4> QED
        BY <4>1 DEF IInv, Belongs
    <3> QED
      BY <3>1 DEF IInv, HasAsked
  <2> QED
    BY <1>1, <1>2, <2>1
<1>4. ASSUME NEW k \in Child, NEW kind \in Handshake
      PROVE  Cardinality(asked(kind, k)) = IF start[k] = kind THEN 1 ELSE 0
  <2>1. start[k] = kind <=> \E i \in DOMAIN pending : pending[i] = [kind |-> kind, by |-> k]
    <3>1. ASSUME NEW i \in DOMAIN pending, pending[i] = [kind |-> kind, by |-> k]
          PROVE  start[k] = kind
      <4>1. pending[i].kind = kind /\ pending[i].by = k
        BY <3>1
      <4> QED
        BY <4>1 DEF IInv, Belongs
    <3> QED
      BY <3>1 DEF IInv, HasAsked
  <2> QED
    BY <1>1, <1>2, <2>1
<1>5. \A c \in Call : calls[c].on # None => start[calls[c].on] \notin {"none", "failed"}
  BY DEF IInv, Waits
<1> QED
  BY <1>3, <1>4, <1>5, Zenon DEF NobodyForgotten, asked, Handshake

-------------------------------------------------------------------------------
(* The theorems.                                                           *)

\* The session, the table of pending requests and the pipes keep their types
\* (mcp-remote.ts: the fields of RemoteMcpConnector).
THEOREM RemoteTypeCorrect == Spec => []TypeOK
<1>1. IInv => TypeOK
  BY DEF IInv
<1> QED
  BY <1>1, Always, PTL

\* An answer settles its own request, though sessions come and go and share one
\* table of pending requests (mcp-remote.ts: nextRequestId, handleInboundMessage).
THEOREM RemoteAnswersMatch == Spec => []AnswersMatch
<1>1. IInv => AnswersMatch
  BY DEF IInv
<1> QED
  BY <1>1, Always, PTL

\* Every call that was sent and every handshake under way has one pending request,
\* and there is no other, through time-outs, aborts, exits and dispose
\* (mcp-remote.ts: sendRequest, latchError, start, doStart).
THEOREM RemoteNobodyForgotten == Spec => []NobodyForgotten
BY Counts, Always, PTL

\* Only a child whose handshake failed outlives its session
\* (mcp-remote.ts: resetSession, doStart).
THEOREM RemoteOnlyFailedLinger == Spec => []OnlyFailedLinger
<1>1. IInv => OnlyFailedLinger
  BY DEF IInv
<1> QED
  BY <1>1, Always, PTL
-------------------------------------------------------------------------------
(***************************************************************************)
(* HttpMcp: the invariant.  Every session id is that of a session pinned   *)
(* to the identity of what holds it.                                       *)
(***************************************************************************)

Pins(sid, key) == sid # none => sid \in DOMAIN server /\ server[sid].key = key

EntryOk == \A e \in DOMAIN entry : Pins(entry[e].sid, entry[e].key)

CallOk == \A c \in HttpCall : call[c].at = "waiting" =>
            call[c].entry \in DOMAIN entry /\ entry[call[c].entry].key = KeyOf(c)

\* A request of a handshake carries the key of the entry it is for, and it and its
\* answer a session of that key; a request of a call carries a session of the call's key.
RequestOk(r) ==
  IF r.what \in {"initialize", "initialized"}
  THEN /\ r.who \in DOMAIN handshake /\ r.key = entry[handshake[r.who].entry].key
       /\ Pins(r.sid, r.key) /\ Pins(r.given, r.key)
  ELSE r.who \in HttpCall /\ r.what = Method(r.who) /\ Pins(r.sid, KeyOf(r.who))

NetOk == \A r \in net : RequestOk(r)

\* The pool and the handshakes name entries that were made.
Made ==
  /\ \A i \in DOMAIN pool : pool[i] \in DOMAIN entry
  /\ \A i \in DOMAIN handshake : handshake[i].entry \in DOMAIN entry

HttpInv ==
  HttpTypeOK /\ Made /\ EntryOk /\ CallOk /\ NetOk /\ PinnedIdentity /\ PoolBounded

EntryRec == [key : Key, sid : Sid, init : Nat, tools : BOOLEAN]
InitRec == [entry : Nat, state : {"pending", "resolved", "rejected"}]
HttpCallRec == [at : {"idle", "waiting", "posted", "ok", "failed"},
            entry : Nat, attempt : {1, 2}, init : Nat]
RequestRec == [who : HttpCall \cup Nat, key : Key, sid : Sid, given : Sid,
               what : {"initialize", "initialized", "tools/call", "tools/list"},
               status : {Thrown, 0, 200, 404, 500}]
ServerRec == [key : Key, ready : BOOLEAN, alive : BOOLEAN]

\* A pool p within its bounds, of some of the entries ent.
GoodPool(p, ent) ==
  /\ p \in Seq(Nat) /\ Len(p) <= maxPoolSize
  /\ \A i \in DOMAIN p : p[i] \in DOMAIN ent
  /\ \A i, j \in DOMAIN p : ent[p[i]].key = ent[p[j]].key => i = j

-------------------------------------------------------------------------------
(* The pool.                                                               *)

Before == {ss \in Nat \X Nat : ss[1] < ss[2]}

\* A set of indices that is not empty has a least one.
LEMMA Least ==
  ASSUME NEW I \in SUBSET Nat, I # {}
  PROVE  Min(I) \in I
<1>1. IsWellFoundedOn(Before, Nat)
  BY Zenon, NatLessThanWellFounded DEF OpToRel, Before
<1>2. \E x \in I : \A y \in I : <<y, x>> \notin Before
  BY <1>1, WFMin, Zenon
<1>3. ASSUME NEW x \in I, NEW y \in I, <<y, x>> \notin Before
      PROVE  x <= y
  <2>1. <<y, x>> \in Nat \X Nat /\ <<y, x>>[1] = y /\ <<y, x>>[2] = x
    OBVIOUS
  <2>2. ~(y < x)
    BY <1>3, <2>1 DEF Before
  <2> QED
    BY <2>2
<1>4. \E x \in I : \A y \in I : x <= y
  BY <1>2, <1>3
<1> QED
  BY <1>4 DEF Min

\* Holding finds an entry of the key exactly when the pool has one.
LEMMA HoldingFinds ==
  ASSUME NEW p \in Seq(Nat), NEW key
  PROVE  \/ Holding(p, key) \in 1..Len(p) /\ entry[p[Holding(p, key)]].key = key
         \/ Holding(p, key) = 0 /\ \A i \in 1..Len(p) : entry[p[i]].key # key
<1> DEFINE I == {i \in 1..Len(p) : entry[p[i]].key = key}
<1>1. Holding(p, key) = IF I # {} THEN Min(I) ELSE 0
  BY DEF Holding, SelectInSeq
<1>2. I \in SUBSET Nat
  OBVIOUS
<1>3. CASE I # {}
  <2>1. Min(I) \in I
    BY <1>2, <1>3, Least
  <2> QED
    BY <1>1, <1>3, <2>1
<1>4. CASE I = {}
  BY <1>1, <1>4
<1> QED
  BY <1>3, <1>4

\* A pool without the element at i has the other ones, in their order.
LEMMA Removed ==
  ASSUME NEW S, NEW p \in Seq(S), NEW i \in 1..Len(p)
  PROVE  /\ RemoveAt(p, i) \in Seq(S) /\ Len(RemoveAt(p, i)) = Len(p) - 1
         /\ \A j \in 1..(Len(p) - 1) : RemoveAt(p, i)[j] = p[IF j < i THEN j ELSE j + 1]
<1>1. Len(p) \in Nat /\ \A j \in 1..Len(p) : p[j] \in S
  BY ElementOfSeq, LenProperties
<1>2. /\ SubSeq(p, 1, i-1) \in Seq(S) /\ Len(SubSeq(p, 1, i-1)) = i-1
      /\ \A j \in 1..(i-1) : SubSeq(p, 1, i-1)[j] = p[j]
  <2>1. /\ SubSeq(p, 1, i-1) \in Seq(S)
        /\ Len(SubSeq(p, 1, i-1)) = IF 1 <= i-1 THEN (i-1)-1+1 ELSE 0
        /\ \A j \in 1..((i-1)-1+1) : SubSeq(p, 1, i-1)[j] = p[1+j-1]
    BY <1>1, SubSeqProperties, i - 1 \in Int, \A j \in 1..(i-1) : p[j] \in S
  <2> QED
    BY <1>1, <2>1
<1>3. /\ SubSeq(p, i+1, Len(p)) \in Seq(S) /\ Len(SubSeq(p, i+1, Len(p))) = Len(p)-i
      /\ \A j \in 1..(Len(p)-i) : SubSeq(p, i+1, Len(p))[j] = p[i+j]
  <2>1. /\ SubSeq(p, i+1, Len(p)) \in Seq(S)
        /\ Len(SubSeq(p, i+1, Len(p))) = IF i+1 <= Len(p) THEN Len(p)-(i+1)+1 ELSE 0
        /\ \A j \in 1..(Len(p)-(i+1)+1) : SubSeq(p, i+1, Len(p))[j] = p[(i+1)+j-1]
    BY <1>1, SubSeqProperties, i + 1 \in Int, Len(p) \in Int, \A j \in (i+1)..Len(p) : p[j] \in S
  <2> QED
    BY <1>1, <2>1
<1>4. /\ RemoveAt(p, i) \in Seq(S)
      /\ Len(RemoveAt(p, i)) = (i-1) + (Len(p)-i)
      /\ \A j \in 1..((i-1) + (Len(p)-i)) : RemoveAt(p, i)[j] =
           IF j <= i-1 THEN SubSeq(p, 1, i-1)[j] ELSE SubSeq(p, i+1, Len(p))[j-(i-1)]
  <2> DEFINE s == SubSeq(p, 1, i-1)
             t == SubSeq(p, i+1, Len(p))
  <2>1. RemoveAt(p, i) = s \o t
    BY DEF RemoveAt
  <2>2. s \in Seq(S) /\ t \in Seq(S) /\ Len(s) = i-1 /\ Len(t) = Len(p)-i
    BY <1>2, <1>3
  <2> HIDE DEF s, t
  <2>3. /\ s \o t \in Seq(S) /\ Len(s \o t) = (i-1) + (Len(p)-i)
        /\ \A j \in 1..((i-1) + (Len(p)-i)) :
             (s \o t)[j] = IF j <= i-1 THEN s[j] ELSE t[j-(i-1)]
    <3>1. /\ s \o t \in Seq(S) /\ Len(s \o t) = Len(s) + Len(t)
          /\ \A j \in 1..(Len(s) + Len(t)) :
               (s \o t)[j] = IF j <= Len(s) THEN s[j] ELSE t[j-Len(s)]
      BY Zenon, <2>2, ConcatProperties
    <3> QED
      BY Zenon, <2>2, <3>1
  <2> QED
    BY <2>1, <2>3 DEF s, t
<1>5. ASSUME NEW j \in 1..(Len(p) - 1)
      PROVE  RemoveAt(p, i)[j] = p[IF j < i THEN j ELSE j + 1]
  <2>1. CASE j < i
    BY <1>1, <1>2, <1>4, <2>1
  <2>2. CASE j >= i
    <3>1. j - (i-1) \in 1..(Len(p)-i) /\ i + (j - (i-1)) = j + 1
      BY <1>1, <2>2
    <3> QED
      BY <1>1, <1>3, <1>4, <2>2, <3>1
  <2> QED
    BY <2>1, <2>2
<1> QED
  BY <1>1, <1>4, <1>5

\* A good pool stays good without the entry of a key.
LEMMA WithoutGood ==
  ASSUME NEW p, GoodPool(p, entry), NEW key
  PROVE  /\ GoodPool(Evicted(p, key), entry)
         /\ \A j \in DOMAIN Evicted(p, key) : entry[Evicted(p, key)[j]].key # key
<1> DEFINE i == Holding(p, key)
<1>1. CASE i = 0
  <2>1. p \in Seq(Nat) /\ DOMAIN p = 1..Len(p) /\ Evicted(p, key) = p
    BY <1>1, LenProperties DEF GoodPool, Evicted
  <2> QED
    BY <1>1, <2>1, HoldingFinds
<1>2. CASE i # 0
  <2>1. i \in 1..Len(p) /\ Evicted(p, key) = RemoveAt(p, i) /\ entry[p[i]].key = key
    BY <1>2, HoldingFinds DEF GoodPool, Evicted
  <2> DEFINE q == RemoveAt(p, i)
  <2>2. /\ q \in Seq(Nat) /\ Len(q) = Len(p) - 1
        /\ \A j \in 1..(Len(p) - 1) : q[j] = p[IF j < i THEN j ELSE j + 1]
    BY <2>1, Removed DEF GoodPool
  <2> HIDE DEF q, i
  <2>3. p \in Seq(Nat) /\ Len(p) \in Nat /\ DOMAIN p = 1..Len(p)
    BY LenProperties DEF GoodPool
  <2>4. Len(q) <= maxPoolSize
    BY <2>2, <2>3, PoolAssumption DEF GoodPool
  <2> DEFINE back(n) == IF n < i THEN n ELSE n + 1
  <2>5. ASSUME NEW j \in DOMAIN q
        PROVE  q[j] = p[back(j)] /\ back(j) \in DOMAIN p \ {i} /\ j \in Nat
    <3>1. j \in 1..(Len(p)-1)
      BY <2>2, LenProperties
    <3>2. q[j] = p[back(j)]
      BY <2>2, <3>1
    <3>3. i \in 1..Len(p) /\ Len(p) \in Nat
      BY <2>1, <2>3
    <3>4. back(j) \in (1..Len(p)) \ {i} /\ j \in Nat
      BY <3>1, <3>3
    <3> QED
      BY <2>3, <3>2, <3>4
  <2>6. ASSUME NEW j \in DOMAIN q, NEW k \in DOMAIN q, back(j) = back(k)
        PROVE  j = k
    <3>1. j \in Nat /\ k \in Nat /\ i \in Nat
      BY <2>1, <2>3, <2>5
    <3> QED
      BY <2>6, <3>1
  <2> HIDE DEF back
  <2>7. \A j \in DOMAIN q : q[j] \in DOMAIN entry
    BY <2>5 DEF GoodPool
  <2>8. \A j, k \in DOMAIN q : entry[q[j]].key = entry[q[k]].key => j = k
    BY <2>5, <2>6 DEF GoodPool
  <2>9. \A j \in DOMAIN q : entry[q[j]].key # key
    BY <2>1, <2>3, <2>5 DEF GoodPool
  <2> QED
    BY <2>1, <2>2, <2>4, <2>7, <2>8, <2>9 DEF GoodPool, q
<1> QED
  BY <1>1, <1>2


\* A good pool stays good with one more element, of a key it does not have.
LEMMA AppendedGood ==
  ASSUME NEW ent, NEW p, GoodPool(p, ent), Len(p) < maxPoolSize, NEW e \in DOMAIN ent, e \in Nat,
         \A i \in DOMAIN p : ent[p[i]].key # ent[e].key
  PROVE  GoodPool(Append(p, e), ent)
<1> DEFINE q == Append(p, e)
<1>1. p \in Seq(Nat) /\ Len(p) \in Nat /\ DOMAIN p = 1..Len(p) /\ maxPoolSize \in Nat
  BY LenProperties, PoolAssumption DEF GoodPool
<1>2. /\ q \in Seq(Nat) /\ Len(q) = Len(p) + 1 /\ q[Len(p) + 1] = e
      /\ \A i \in 1..Len(p) : q[i] = p[i]
  BY <1>1, AppendProperties
<1> HIDE DEF q
<1>3. DOMAIN q = 1..(Len(p) + 1) /\ Len(q) <= maxPoolSize
  BY <1>1, <1>2, LenProperties
<1>4. ASSUME NEW i \in DOMAIN q
      PROVE  (i = Len(p) + 1 /\ q[i] = e) \/ (i \in DOMAIN p /\ q[i] = p[i])
  <2>1. i \in 1..(Len(p) + 1)
    BY <1>3
  <2>2. i = Len(p) + 1 \/ i \in 1..Len(p)
    BY <1>1, <2>1
  <2> QED
    BY Zenon, <1>1, <1>2, <2>2
<1>5. \A i \in DOMAIN q : q[i] \in DOMAIN ent
  BY <1>4 DEF GoodPool
<1>6. \A i, j \in DOMAIN q : ent[q[i]].key = ent[q[j]].key => i = j
  BY <1>4 DEF GoodPool
<1> QED
  BY <1>2, <1>3, <1>5, <1>6 DEF GoodPool, q

\* A good pool stays good without its first entry.
LEMMA EvictedGood ==
  ASSUME NEW p, GoodPool(p, entry), Full(p)
  PROVE  GoodPool(Tail(p), entry) /\ Len(Tail(p)) < maxPoolSize
         /\ \A i \in DOMAIN Tail(p) : \E j \in DOMAIN p : Tail(p)[i] = p[j]
<1>1. /\ p \in Seq(Nat) /\ Len(p) \in Nat /\ DOMAIN p = 1..Len(p) /\ p # <<>>
      /\ maxPoolSize \in Nat \ {0} /\ Len(p) = maxPoolSize
  BY LenProperties, PoolAssumption DEF GoodPool, Full
<1> DEFINE q == Tail(p)
<1>2. /\ q \in Seq(Nat) /\ Len(q) = Len(p) - 1
      /\ \A i \in 1..Len(q) : q[i] = p[i + 1]
  BY <1>1, HeadTailProperties
<1> HIDE DEF q
<1>3. \A i \in DOMAIN q : i + 1 \in DOMAIN p /\ q[i] = p[i + 1] /\ i \in Nat
  BY <1>1, <1>2, LenProperties
<1>4. \A i, j \in DOMAIN q : entry[q[i]].key = entry[q[j]].key => i = j
  BY <1>3 DEF GoodPool
<1> QED
  BY <1>1, <1>2, <1>3, <1>4 DEF GoodPool, q

\* The pool p is a good one without the key, and the entry e after it.
RoomFor(p, e, key) ==
  \E q : /\ GoodPool(q, entry) /\ Len(q) < maxPoolSize /\ p = Append(q, e)
         /\ \A i \in DOMAIN q : entry[q[i]].key # key

\* What getOrCreateEntry takes from a good pool: an entry of the key, or a new one
\* that the pool has room for.
LEMMA Gets ==
  ASSUME NEW p, GoodPool(p, entry), NEW key, NEW g, g = GetOrCreate(p, key)
  PROVE  \/ /\ g.entry \in DOMAIN entry /\ g.entry \in Nat /\ entry[g.entry].key = key
            /\ GoodPool(g.pool, entry)
         \/ g.entry = Fresh /\ RoomFor(g.pool, g.entry, key)
<1> DEFINE i == Holding(p, key)
<1>1. /\ p \in Seq(Nat) /\ Len(p) \in Nat /\ DOMAIN p = 1..Len(p)
      /\ maxPoolSize \in Nat /\ Len(p) <= maxPoolSize
  BY LenProperties, PoolAssumption DEF GoodPool
<1>2. CASE i # 0
  <2>1. i \in 1..Len(p) /\ entry[p[i]].key = key
    BY <1>1, <1>2, HoldingFinds
  <2>2. g.entry = p[i] /\ g.pool = Append(RemoveAt(p, i), p[i])
    BY <1>2 DEF GetOrCreate
  <2>3. Evicted(p, key) = RemoveAt(p, i)
    BY <1>2 DEF Evicted
  <2>4. /\ GoodPool(RemoveAt(p, i), entry)
        /\ \A j \in DOMAIN RemoveAt(p, i) : entry[RemoveAt(p, i)[j]].key # key
    BY <2>3, WithoutGood
  <2>5. Len(RemoveAt(p, i)) < maxPoolSize
    BY <1>1, <2>1, Removed
  <2>6. p[i] \in DOMAIN entry /\ p[i] \in Nat
    BY <1>1, <2>1, ElementOfSeq DEF GoodPool
  <2> HIDE DEF i
  <2>7. GoodPool(Append(RemoveAt(p, i), p[i]), entry)
    BY <2>1, <2>4, <2>5, <2>6, AppendedGood
  <2> QED
    BY <2>1, <2>2, <2>6, <2>7
<1>3. CASE i = 0
  <2> DEFINE q == IF Full(p) THEN Tail(p) ELSE p
  <2>1. g.entry = Fresh /\ g.pool = Append(q, Fresh)
    BY <1>3 DEF GetOrCreate
  <2>2. \A j \in DOMAIN p : entry[p[j]].key # key
    BY <1>1, <1>3, HoldingFinds
  <2> DEFINE Room == /\ GoodPool(q, entry) /\ Len(q) < maxPoolSize
                     /\ \A j \in DOMAIN q : entry[q[j]].key # key
  <2>3. ASSUME Full(p) PROVE Room
    <3>1. /\ GoodPool(Tail(p), entry) /\ Len(Tail(p)) < maxPoolSize
          /\ \A j \in DOMAIN Tail(p) : \E k \in DOMAIN p : Tail(p)[j] = p[k]
      BY <2>3, EvictedGood
    <3>2. q = Tail(p)
      BY <2>3
    <3> HIDE DEF q
    <3>3. GoodPool(q, entry) /\ Len(q) < maxPoolSize
      BY Zenon, <3>1, <3>2
    <3>4. \A j \in DOMAIN q : entry[q[j]].key # key
      BY Zenon, <2>2, <3>1, <3>2
    <3> QED
      BY Zenon, <3>3, <3>4
  <2>4. ASSUME ~Full(p) PROVE Room
    <3>1. q = p
      BY <2>4
    <3>2. Len(p) < maxPoolSize
      BY <1>1, <2>4 DEF Full
    <3> HIDE DEF q
    <3> QED
      BY Zenon, <2>2, <3>1, <3>2
  <2>5. Room
    BY Zenon, <2>3, <2>4
  <2> HIDE DEF q
  <2> QED
    BY Zenon, <2>1, <2>5 DEF RoomFor
<1> QED
  BY <1>2, <1>3

-------------------------------------------------------------------------------
(* Steps.  Entries, handshakes and sessions are added, and keep their key. *)

EntriesKeep ==
  \A e \in DOMAIN entry : e \in DOMAIN entry' /\ entry'[e].key = entry[e].key
InitsKeep ==
  \A i \in DOMAIN handshake : i \in DOMAIN handshake' /\ handshake'[i].entry = handshake[i].entry
SessionsKeep ==
  \A s \in DOMAIN server : s \in DOMAIN server' /\ server'[s].key = server[s].key

\* A good pool is good for the entries of the next state.
LEMMA GoodPoolKeeps ==
  ASSUME NEW p, GoodPool(p, entry), EntriesKeep
  PROVE  GoodPool(p, entry')
BY DEF GoodPool, EntriesKeep

\* A pinned session stays pinned.
LEMMA PinsKeep ==
  ASSUME NEW sid, NEW key, Pins(sid, key), SessionsKeep
  PROVE  Pins(sid, key)'
BY DEF Pins, SessionsKeep

\* So what the requests of this state say holds in the next one.
LEMMA RequestsKeep ==
  ASSUME HttpInv, EntriesKeep, InitsKeep, SessionsKeep, NEW r \in net
  PROVE  RequestOk(r)'
<1>1. RequestOk(r) /\ Made
  BY DEF HttpInv, NetOk
<1>2. CASE r.what \in {"initialize", "initialized"}
  BY <1>1, <1>2 DEF RequestOk, Made, EntriesKeep, InitsKeep, SessionsKeep, Pins
<1>3. CASE r.what \notin {"initialize", "initialized"}
  BY <1>1, <1>3 DEF RequestOk, SessionsKeep, Pins, KeyOf, Method
<1> QED
  BY <1>2, <1>3

\* Nothing has happened.
LEMMA HttpInitHolds == HttpInit => HttpInv
<1> SUFFICES ASSUME HttpInit PROVE HttpInv
  OBVIOUS
<1>1. HttpTypeOK
  BY EmptySeq DEF HttpInit, HttpTypeOK, NotMade
<1> QED
  BY <1>1, PoolAssumption
     DEF HttpInv, HttpInit, NotMade, Made, EntryOk, CallOk, NetOk, PinnedIdentity, PoolBounded


\* Types in their short names, and what a sequence type says of its elements.
LEMMA Types ==
  ASSUME HttpTypeOK
  PROVE  /\ entry \in Seq(EntryRec) /\ DOMAIN entry = 1..Len(entry) /\ Len(entry) \in Nat
         /\ \A e \in DOMAIN entry : entry[e] \in EntryRec
         /\ handshake \in Seq(InitRec) /\ DOMAIN handshake = 1..Len(handshake) /\ Len(handshake) \in Nat
         /\ \A i \in DOMAIN handshake : handshake[i] \in InitRec
         /\ server \in Seq(ServerRec) /\ DOMAIN server = 1..Len(server) /\ Len(server) \in Nat
         /\ \A s \in DOMAIN server : server[s] \in ServerRec
         /\ call \in [HttpCall -> HttpCallRec] /\ net \subseteq RequestRec
<1>1. /\ entry \in Seq(EntryRec) /\ handshake \in Seq(InitRec) /\ server \in Seq(ServerRec)
      /\ call \in [HttpCall -> HttpCallRec] /\ net \subseteq RequestRec
  BY DEF HttpTypeOK, EntryRec, InitRec, HttpCallRec, RequestRec, ServerRec
<1>2. ASSUME NEW S, NEW q \in Seq(S)
      PROVE  DOMAIN q = 1..Len(q) /\ Len(q) \in Nat /\ \A i \in DOMAIN q : q[i] \in S
  BY LenProperties, ElementOfSeq
<1> QED
  BY <1>1, <1>2

\* A sequence with one more element: its type, its domain and its elements.
LEMMA Longer ==
  ASSUME NEW S, NEW q \in Seq(S), NEW x \in S
  PROVE  /\ Append(q, x) \in Seq(S) /\ DOMAIN Append(q, x) = DOMAIN q \cup {Len(q) + 1}
         /\ Append(q, x)[Len(q) + 1] = x
         /\ \A i \in DOMAIN q : Append(q, x)[i] = q[i]
<1>1. Len(q) \in Nat /\ DOMAIN q = 1..Len(q)
  BY LenProperties
<1>2. /\ Append(q, x) \in Seq(S) /\ Len(Append(q, x)) = Len(q) + 1
      /\ \A i \in 1..Len(q) : Append(q, x)[i] = q[i]
      /\ Append(q, x)[Len(q) + 1] = x
  BY AppendProperties
<1>3. DOMAIN Append(q, x) = 1..(Len(q) + 1)
  BY <1>2, LenProperties
<1> QED
  BY <1>1, <1>2, <1>3

\* What a step has to show beyond what it keeps.
LEMMA Assembles ==
  ASSUME HttpInv, HttpTypeOK', EntriesKeep, InitsKeep, SessionsKeep,
         GoodPool(pool', entry'), EntryOk', PinnedIdentity',
         \A i \in DOMAIN handshake' : handshake'[i].entry \in DOMAIN entry',
         \A c \in HttpCall : call'[c].at = "waiting" =>
           \/ call'[c] = call[c]
           \/ call'[c].entry \in DOMAIN entry' /\ entry'[call'[c].entry].key = KeyOf(c),
         \A r \in net' : r \notin net => RequestOk(r)'
  PROVE  HttpInv'
<1>1. Made' /\ PoolBounded'
  BY DEF Made, PoolBounded, GoodPool
<1>2. CallOk'
  BY DEF CallOk, HttpInv, EntriesKeep, KeyOf
<1>3. NetOk'
  BY RequestsKeep DEF NetOk
<1> QED
  BY <1>1, <1>2, <1>3 DEF HttpInv

\* Proceed and getOrCreateEntry, over a good pool, keep the invariant.
LEMMA ProceedHolds ==
  ASSUME HttpInv, NEW c \in HttpCall, NEW p, GoodPool(p, entry), NEW attempt \in {1, 2},
         NEW left \in SUBSET net, NEW g, g = GetOrCreate(p, KeyOf(c)),
         pool' = g.pool, Proceed(c, g.entry, attempt, left), UNCHANGED <<server, faults, done>>
  PROVE  HttpInv'
<1> DEFINE e == g.entry
           old == e \in DOMAIN entry
           ini == IF old THEN entry[e].init ELSE 0
           i   == IF ini = 0 THEN Len(handshake) + 1 ELSE ini
           sid == IF old THEN entry[e].sid ELSE none
           new == [key |-> KeyOf(c), sid |-> none, init |-> i, tools |-> FALSE]
           open == Request(i, "initialize", KeyOf(c), none)
<1>1. HttpTypeOK /\ Made /\ EntryOk /\ CallOk /\ NetOk /\ PinnedIdentity
  BY DEF HttpInv
<1>2. KeyOf(c) \in Key /\ Method(c) \in {"tools/call", "tools/list"} /\ none \in Sid
  BY DEF KeyOf, Key, Method, Sid
<1>3. e \in Nat /\ (old => entry[e].key = KeyOf(c)) /\ (~old => e = Len(entry) + 1)
  BY <1>1, Types, Gets DEF Fresh
<1>4. /\ i \in Nat /\ ini \in Nat /\ sid \in Sid /\ (old => entry[e] \in EntryRec)
      /\ new \in EntryRec /\ Pins(sid, KeyOf(c))
  BY <1>1, <1>2, <1>3, Types DEF EntryRec, EntryOk, Pins
<1>5. /\ sid # none => old
      /\ old => GoodPool(g.pool, entry)
      /\ ~old => RoomFor(g.pool, e, KeyOf(c))
  <2>1. Fresh \notin DOMAIN entry /\ (sid # none => old)
    BY <1>1, Types DEF Fresh
  <2>2. CASE old
    <3>1. g.entry # Fresh
      BY <2>1, <2>2
    <3>2. GoodPool(g.pool, entry)
      BY <3>1, Gets
    <3> QED
      BY <2>2, <3>2
  <2>3. CASE ~old
    <3>1. RoomFor(g.pool, e, KeyOf(c))
      BY <2>3, Gets
    <3> QED
      BY <2>1, <2>3, <3>1
  <2> QED
    BY <2>2, <2>3
<1>6. CASE sid # none
  <2> DEFINE cache == c \in Describe /\ entry[e].tools
  <2>1. /\ call' = [call EXCEPT ![c] = [at |-> IF cache THEN "ok" ELSE "posted",
                        entry |-> e, attempt |-> attempt, init |-> 0]]
        /\ net' = IF call'[c].at = "ok" THEN left ELSE left \cup {Dispatch(c, sid)}
        /\ UNCHANGED <<entry, handshake>>
    BY <1>6 DEF Proceed
  <2>2. Dispatch(c, sid) \in RequestRec /\ RequestOk(Dispatch(c, sid))
    BY <1>2, <1>4 DEF Dispatch, Request, RequestRec, RequestOk, Method
  <2>3. call' \in [HttpCall -> HttpCallRec] /\ \A d \in HttpCall : d # c => call'[d] = call[d]
    BY <1>1, <1>3, <2>1, Types DEF HttpCallRec
  <2>4. net' \subseteq RequestRec
    BY <1>1, <2>1, <2>2, Types
  <2>9. GoodPool(pool', entry')
    BY <1>5, <1>6, <2>1
  <2>10. HttpTypeOK'
    BY <1>1, <2>1, <2>3, <2>4, <2>9 DEF HttpTypeOK, GoodPool, HttpCallRec, RequestRec
  <2>11. EntryOk' /\ PinnedIdentity'
    BY <1>1, <2>1 DEF EntryOk, Pins, PinnedIdentity
  <2>6. EntriesKeep /\ InitsKeep /\ SessionsKeep
    BY <2>1 DEF EntriesKeep, InitsKeep, SessionsKeep
  <2>7. \A r \in net' : r \notin net => RequestOk(r)'
    BY <2>1, <2>2, ZenonT(30) DEF RequestOk, Pins, KeyOf, Method
  <2>8. call'[c].at # "waiting"
    BY <1>1, <2>1, Types
  <2> QED
    BY <1>1, <2>1, <2>3, <2>6, <2>7, <2>8, <2>9, <2>10, <2>11, Assembles DEF Made
<1>7. CASE sid = none
  <2>1. /\ call' = [call EXCEPT ![c] =
              [at |-> "waiting", entry |-> e, attempt |-> attempt, init |-> i]]
        /\ entry' = IF old THEN [entry EXCEPT ![e].init = i] ELSE Append(entry, new)
        /\ IF ini # 0 THEN net' = left /\ UNCHANGED handshake
           ELSE /\ handshake' = Append(handshake, [entry |-> e, state |-> "pending"])
                /\ net' = left \cup {open}
    BY <1>7 DEF Proceed
  <2>2. /\ entry' \in Seq(EntryRec) /\ DOMAIN entry' = DOMAIN entry \cup {e}
        /\ entry'[e].key = KeyOf(c) /\ entry'[e].sid = none
        /\ \A d \in DOMAIN entry : d # e => entry'[d] = entry[d]
    <3>1. CASE old
      <4>1. entry' = [entry EXCEPT ![e] = [entry[e] EXCEPT !.init = i]]
        BY <2>1, <3>1
      <4>2. [entry[e] EXCEPT !.init = i] \in EntryRec
        BY <1>4, <3>1 DEF EntryRec
      <4>3. [entry[e] EXCEPT !.init = i].key = KeyOf(c) /\ [entry[e] EXCEPT !.init = i].sid = none
        BY <1>3, <1>4, <1>7, <3>1 DEF EntryRec
      <4>4. entry' \in Seq(EntryRec) /\ DOMAIN entry' = DOMAIN entry
        BY <1>1, <3>1, <4>1, <4>2, ExceptSeq, Types
      <4> QED
        BY <3>1, <4>1, <4>3, <4>4
    <3>2. CASE ~old
      BY <1>1, <1>3, <1>4, <2>1, <3>2, Longer, Types
    <3> QED
      BY <3>1, <3>2
  <2>3. /\ handshake' \in Seq(InitRec) /\ DOMAIN handshake \subseteq DOMAIN handshake'
        /\ \A j \in DOMAIN handshake : handshake'[j] = handshake[j]
        /\ \A j \in DOMAIN handshake' : j \notin DOMAIN handshake => handshake'[j].entry = e
        /\ ini = 0 => i \in DOMAIN handshake' /\ handshake'[i].entry = e
    <3>1. CASE ini # 0
      BY <1>1, <2>1, <3>1, Types
    <3>2. CASE ini = 0
      <4>1. [entry |-> e, state |-> "pending"] \in InitRec
        BY <1>3 DEF InitRec
      <4> QED
        <5>1. i = Len(handshake) + 1 /\ handshake' = Append(handshake, [entry |-> e, state |-> "pending"])
          BY <2>1, <3>2
        <5>2. /\ handshake' \in Seq(InitRec) /\ DOMAIN handshake' = DOMAIN handshake \cup {i}
              /\ handshake'[i] = [entry |-> e, state |-> "pending"]
              /\ \A j \in DOMAIN handshake : handshake'[j] = handshake[j]
          BY <1>1, <4>1, <5>1, Longer, Types
        <5> QED
          BY <5>2
    <3> QED
      BY <3>1, <3>2
  <2>4. EntriesKeep /\ InitsKeep /\ SessionsKeep
    BY <1>3, <2>2, <2>3 DEF EntriesKeep, InitsKeep, SessionsKeep
  <2>5. GoodPool(pool', entry')
    <3>1. CASE old
      BY <1>5, <2>4, <3>1, GoodPoolKeeps
    <3>2. CASE ~old
      <4>1. PICK q : /\ GoodPool(q, entry) /\ Len(q) < maxPoolSize /\ g.pool = Append(q, e)
                     /\ \A j \in DOMAIN q : entry[q[j]].key # KeyOf(c)
        BY <1>5, <3>2 DEF RoomFor
      <4>2. GoodPool(q, entry') /\ \A j \in DOMAIN q : entry'[q[j]].key # entry'[e].key
        BY <2>2, <2>4, <4>1, GoodPoolKeeps DEF EntriesKeep, GoodPool
      <4> QED
        BY <1>3, <2>2, <4>1, <4>2, AppendedGood
    <3> QED
      BY <3>1, <3>2
  <2>6. open \in RequestRec /\ \A r : ini = 0 /\ r = open => RequestOk(r)'
    <3>1. open = [who |-> i, what |-> "initialize", key |-> KeyOf(c), sid |-> none,
                  status |-> 0, given |-> none]
      BY DEF Request
    <3>2. open \in RequestRec
      BY <1>2, <1>4, <3>1 DEF RequestRec
    <3>3. ASSUME NEW r, r = open, ini = 0 PROVE RequestOk(r)'
      <4>1. /\ r.who = i /\ r.what = "initialize" /\ r.key = KeyOf(c)
            /\ r.sid = none /\ r.given = none
        BY <3>1, <3>3
      <4>2. i \in DOMAIN handshake' /\ entry'[handshake'[i].entry].key = KeyOf(c)
        BY <2>2, <2>3, <3>3
      <4> QED
        BY <4>1, <4>2 DEF RequestOk, Pins
    <3> QED
      BY <3>2, <3>3
  <2>7. /\ call' \in [HttpCall -> HttpCallRec] /\ call'[c].entry = e
        /\ \A d \in HttpCall : d # c => call'[d] = call[d]
    BY <1>1, <1>3, <1>4, <2>1, Types DEF HttpCallRec
  <2>8. net' \subseteq RequestRec
    BY <1>1, <2>1, <2>6, Types
  <2>9. HttpTypeOK' /\ PinnedIdentity'
    BY <1>1, <2>2, <2>3, <2>5, <2>7, <2>8, Zenon
       DEF HttpTypeOK, GoodPool, PinnedIdentity, HttpCallRec, RequestRec, EntryRec, InitRec
  <2>10. EntryOk'
    BY <1>1, <2>2 DEF EntryOk, Pins
  <2>11. \A r \in net' : r \notin net => RequestOk(r)'
    <3>1. CASE ini # 0
      BY <2>1, <3>1
    <3>2. CASE ini = 0
      BY <2>1, <2>6, <3>2
    <3> QED
      BY <3>1, <3>2
  <2>12. \A j \in DOMAIN handshake' : handshake'[j].entry \in DOMAIN entry'
    BY <1>1, <2>2, <2>3 DEF Made
  <2> QED
    BY <2>2, <2>4, <2>5, <2>7, <2>9, <2>10, <2>11, <2>12, Assembles
<1> QED
  BY <1>6, <1>7

\* The pool of a state that has the invariant is good.
LEMMA PoolIsGood ==
  ASSUME HttpInv
  PROVE  GoodPool(pool, entry)
BY DEF HttpInv, HttpTypeOK, Made, PoolBounded, GoodPool

\* A handshake settles.
LEMMA SettleKeeps ==
  ASSUME HttpInv, NEW i \in DOMAIN handshake, NEW how \in {"resolved", "rejected"}, Settle(i, how)
  PROVE  /\ handshake' \in Seq(InitRec) /\ DOMAIN handshake' = DOMAIN handshake /\ InitsKeep
         /\ \A j \in DOMAIN handshake' : handshake'[j].entry = handshake[j].entry
<1>1. HttpTypeOK
  BY DEF HttpInv
<1> DEFINE new == [handshake[i] EXCEPT !.state = how]
<1>2. handshake[i] \in InitRec /\ new \in InitRec /\ new.entry = handshake[i].entry
  BY <1>1, Types DEF InitRec
<1>3. handshake' = [handshake EXCEPT ![i] = new]
  BY DEF Settle
<1> HIDE DEF new
<1>4. handshake' \in Seq(InitRec) /\ DOMAIN handshake' = DOMAIN handshake
  BY <1>1, <1>2, <1>3, ExceptSeq, Types
<1>5. \A j \in DOMAIN handshake' : handshake'[j].entry = handshake[j].entry
  BY <1>2, <1>3, <1>4
<1> QED
  BY <1>4, <1>5 DEF InitsKeep

\* An entry changes, and not in its key.
LEMMA EntryChanges ==
  ASSUME HttpInv, NEW e \in DOMAIN entry, NEW new \in EntryRec, new.key = entry[e].key,
         Pins(new.sid, new.key), entry' = [entry EXCEPT ![e] = new], UNCHANGED server
  PROVE  entry' \in Seq(EntryRec) /\ DOMAIN entry' = DOMAIN entry /\ EntriesKeep /\ EntryOk'
<1>1. HttpTypeOK /\ EntryOk
  BY DEF HttpInv
<1>2. entry' \in Seq(EntryRec) /\ DOMAIN entry' = DOMAIN entry
  BY <1>1, ExceptSeq, Types
<1>3. \A d \in DOMAIN entry : entry'[d] = IF d = e THEN new ELSE entry[d]
  BY <1>2
<1> QED
  BY <1>1, <1>2, <1>3 DEF EntriesKeep, EntryOk, Pins

\* What a request does at the server, if anything, and its answer.
LEMMA ServedHolds ==
  ASSUME HttpInv, NEW r \in net, NEW status \in {Thrown, 200, 404, 500}, NEW given,
         \/ Takes(r) /\ Effect(r) /\ given \in {none, Given(r)}
         \/ UNCHANGED <<server, done>> /\ given = none,
         AnsweredWith(r, status, given), faults' \in Nat, UNCHANGED <<pool, entry, handshake, call>>
  PROVE  HttpInv'
<1>1. HttpTypeOK /\ Made /\ EntryOk /\ NetOk /\ PinnedIdentity /\ RequestOk(r) /\ r \in RequestRec
  BY Types DEF HttpInv, NetOk
<1>2. /\ server' \in Seq(ServerRec) /\ SessionsKeep
      /\ done' \in Seq([call : HttpCall, key : Key]) /\ PinnedIdentity'
      /\ given \in Sid /\ (r.what \in {"initialize", "initialized"} => Pins(given, r.key)')
  <2>1. CASE UNCHANGED <<server, done>> /\ given = none
    <3>1. server' \in Seq(ServerRec) /\ done' \in Seq([call : HttpCall, key : Key]) /\ given \in Sid
      BY <1>1, <2>1, Types DEF HttpTypeOK, Sid
    <3> QED
      BY <1>1, <2>1, <3>1 DEF SessionsKeep, PinnedIdentity, Pins
  <2>2. CASE r.what = "initialize" /\ Effect(r) /\ given \in {none, Given(r)}
    <3> DEFINE new == [key |-> r.key, ready |-> FALSE, alive |-> TRUE]
    <3>1. server' = Append(server, new) /\ done' = done /\ given \in {none, Len(server) + 1}
      BY <2>2 DEF Effect, Given
    <3>2. new \in ServerRec
      BY <1>1 DEF RequestRec, ServerRec
    <3>6. server \in Seq(ServerRec) /\ Len(server) + 1 \in Nat
      BY <1>1, Types
    <3> HIDE DEF new
    <3>3. /\ server' \in Seq(ServerRec) /\ DOMAIN server' = DOMAIN server \cup {Len(server) + 1}
          /\ server'[Len(server) + 1] = new
          /\ \A s \in DOMAIN server : server'[s] = server[s]
      BY <3>1, <3>2, <3>6, Longer
    <3>4. SessionsKeep
      BY <3>3 DEF SessionsKeep
    <3>5. given \in Sid /\ Pins(given, r.key)'
      BY <3>1, <3>3, <3>6 DEF Sid, Pins, new
    <3> QED
      BY <1>1, <3>1, <3>3, <3>4, <3>5 DEF HttpTypeOK, PinnedIdentity
  <2>3. CASE r.what = "initialized" /\ Takes(r) /\ Effect(r) /\ given \in {none, Given(r)}
    <3>1. /\ server' = [server EXCEPT ![r.sid].ready = TRUE] /\ done' = done /\ given = none
      BY <2>3 DEF Effect, Given
    <3>2. r.sid \in DOMAIN server
      BY <1>1, <2>3 DEF Takes, Valid, RequestOk, Pins
    <3> DEFINE new == [server[r.sid] EXCEPT !.ready = TRUE]
    <3>3. new \in ServerRec /\ new.key = server[r.sid].key /\ server' = [server EXCEPT ![r.sid] = new]
      <4>1. server[r.sid] \in ServerRec
        BY <1>1, <3>2, Types
      <4>2. new \in ServerRec /\ new.key = server[r.sid].key
        BY <4>1 DEF ServerRec
      <4> QED
        BY <3>1, <4>2
    <3> HIDE DEF new
    <3>4. server' \in Seq(ServerRec) /\ DOMAIN server' = DOMAIN server
      BY <1>1, <3>2, <3>3, ExceptSeq, Types
    <3>5. SessionsKeep
      BY <3>3, <3>4 DEF SessionsKeep
    <3> QED
      BY <1>1, <3>1, <3>4, <3>5 DEF HttpTypeOK, PinnedIdentity, Pins, Sid
  <2>4. CASE r.what = "tools/call" /\ Takes(r) /\ Effect(r) /\ given \in {none, Given(r)}
    <3>1. /\ done' = Append(done, [call |-> r.who, key |-> server[r.sid].key])
          /\ server' = server /\ given = none
      BY <2>4 DEF Effect, Given
    <3>2. r.who \in HttpCall /\ server[r.sid].key = Caller[r.who]
      BY <1>1, <2>4 DEF Takes, Valid, RequestOk, Pins, Method, KeyOf
    <3>3. [call |-> r.who, key |-> server[r.sid].key] \in [call : HttpCall, key : Key]
      BY <3>2 DEF Key
    <3>4. done \in Seq([call : HttpCall, key : Key])
      BY <1>1 DEF HttpTypeOK
    <3>5. /\ done' \in Seq([call : HttpCall, key : Key])
          /\ DOMAIN done' = DOMAIN done \cup {Len(done) + 1}
          /\ done'[Len(done) + 1] = [call |-> r.who, key |-> server[r.sid].key]
          /\ \A i \in DOMAIN done : done'[i] = done[i]
      BY <3>1, <3>3, <3>4, Longer
    <3>6. PinnedIdentity'
      BY <1>1, <3>2, <3>5 DEF PinnedIdentity
    <3> QED
      BY <1>1, <2>4, <3>1, <3>5, <3>6, Types DEF SessionsKeep, Sid
  <2>5. CASE r.what = "tools/list" /\ Effect(r) /\ given \in {none, Given(r)}
    <3>1. server' = server /\ done' = done /\ given = none
      BY <2>5 DEF Effect, Given
    <3> QED
      BY <1>1, <2>5, <3>1, Types DEF HttpTypeOK, SessionsKeep, PinnedIdentity, Sid
  <2>6. r.what \in {"initialize", "initialized", "tools/call", "tools/list"}
    BY <1>1 DEF RequestRec
  <2> QED
    BY <2>1, <2>2, <2>3, <2>4, <2>5, <2>6
<1> DEFINE answer == AnswerTo(r, status, given)
<1>3. answer \in RequestRec /\ \A a : a = answer => RequestOk(a)'
  <2>1. /\ answer \in RequestRec /\ answer.given = given
        /\ answer.who = r.who /\ answer.what = r.what /\ answer.key = r.key /\ answer.sid = r.sid
    <3>1. r \in RequestRec /\ given \in Sid /\ status \in {Thrown, 0, 200, 404, 500}
      BY <1>1, <1>2
    <3>2. r.who \in HttpCall \cup Nat /\ r.key \in Key /\ r.sid \in Sid
          /\ r.what \in {"initialize", "initialized", "tools/call", "tools/list"}
      BY <3>1 DEF RequestRec
    <3> QED
      BY <3>1, <3>2 DEF AnswerTo, RequestRec
  <2> HIDE DEF answer
  <2>2. ASSUME NEW a, a = answer PROVE RequestOk(a)'
    <3>1. CASE r.what \in {"initialize", "initialized"}
      BY <1>1, <1>2, <2>1, <2>2, <3>1 DEF RequestOk, Pins, SessionsKeep
    <3>2. CASE r.what \notin {"initialize", "initialized"}
      BY <1>1, <1>2, <2>1, <2>2, <3>2 DEF RequestOk, Pins, SessionsKeep, Method, KeyOf
    <3> QED
      BY <3>1, <3>2
  <2> QED
    BY <2>1, <2>2
<1>4. EntriesKeep /\ InitsKeep /\ EntryOk'
  BY <1>1, <1>2 DEF EntriesKeep, InitsKeep, EntryOk, SessionsKeep, Pins
<1>5. net' = (net \ {r}) \cup {answer}
  BY DEF AnsweredWith
<1>6. HttpTypeOK'
  <2>1. net' \subseteq RequestRec
    BY <1>1, <1>3, <1>5, Types
  <2> HIDE DEF answer
  <2> QED
    BY <1>1, <1>2, <2>1 DEF HttpTypeOK, RequestRec, ServerRec
<1>7. \A a \in net' : a \notin net => RequestOk(a)'
  BY <1>3, <1>5
<1> QED
  BY <1>1, <1>2, <1>4, <1>6, <1>7, PoolIsGood, Assembles DEF Made

\* Every action of the server and of the network.
LEMMA ServerHolds ==
  ASSUME HttpInv, NEW r \in net, Serve(r) \/ RefuseSession(r) \/ Lose(r) \/ Fail(r)
  PROVE  HttpInv'
<1>1. faults \in Nat
  BY DEF HttpInv, HttpTypeOK
<1>2. CASE Serve(r)
  BY <1>1, <1>2, ServedHolds DEF Serve
<1>3. CASE RefuseSession(r)
  BY <1>1, <1>3, ServedHolds DEF RefuseSession
<1>4. CASE Lose(r)
  BY <1>1, <1>4, ServedHolds DEF Lose, Faulty
<1>5. CASE Fail(r)
  BY <1>1, <1>5, ServedHolds DEF Fail, Faulty
<1> QED
  BY <1>2, <1>3, <1>4, <1>5

\* A restart leaves the sessions their identities.
LEMMA RestartHolds ==
  ASSUME HttpInv, Restart
  PROVE  HttpInv'
<1>1. HttpTypeOK /\ Made /\ EntryOk /\ NetOk /\ PinnedIdentity
  BY DEF HttpInv
<1>2. /\ UNCHANGED <<pool, entry, handshake, call, net, done>> /\ faults' \in Nat
      /\ server' = [s \in 1..Len(server) |-> [server[s] EXCEPT !.alive = FALSE]]
  BY <1>1, Types DEF Restart, Faulty, HttpTypeOK
<1>3. \A s \in 1..Len(server) : /\ [server[s] EXCEPT !.alive = FALSE] \in ServerRec
                               /\ [server[s] EXCEPT !.alive = FALSE].key = server[s].key
  BY <1>1, Types DEF ServerRec
<1>4. server' \in [1..Len(server) -> ServerRec] /\ Len(server) \in Nat
  BY <1>1, <1>2, <1>3, Types
<1>5. server' \in Seq(ServerRec)
  BY <1>4, SeqDef
<1>6. EntriesKeep /\ InitsKeep /\ SessionsKeep
  BY <1>1, <1>2, <1>3, Types DEF EntriesKeep, InitsKeep, SessionsKeep
<1>7. HttpTypeOK' /\ EntryOk' /\ PinnedIdentity'
  <2>1. HttpTypeOK'
    BY <1>1, <1>2, <1>5 DEF HttpTypeOK, ServerRec
  <2>2. EntryOk'
    BY <1>1, <1>2, <1>6 DEF EntryOk, Pins, SessionsKeep
  <2>3. PinnedIdentity'
    BY <1>1, <1>2 DEF PinnedIdentity
  <2> QED
    BY <2>1, <2>2, <2>3
<1> QED
  BY <1>1, <1>2, <1>6, <1>7, PoolIsGood, Assembles DEF Made

\* A call that begins.
LEMMA StartHolds ==
  ASSUME HttpInv, NEW c \in HttpCall, Start(c)
  PROVE  HttpInv'
BY PoolIsGood, ProceedHolds DEF Start

\* A call whose handshake is over.
LEMMA WakeHolds ==
  ASSUME HttpInv, NEW c \in HttpCall, Wake(c)
  PROVE  HttpInv'
<1> DEFINE e == call[c].entry
           how == IF handshake[call[c].init].state = "rejected" THEN "failed" ELSE "ok"
<1>1. HttpTypeOK /\ Made /\ EntryOk /\ CallOk /\ NetOk /\ PinnedIdentity
  BY DEF HttpInv
<1>2. e \in DOMAIN entry /\ entry[e].key = KeyOf(c) /\ Pins(entry[e].sid, KeyOf(c))
  BY <1>1 DEF Wake, CallOk, EntryOk
<1>3. /\ \/ call' = [call EXCEPT ![c].at = how] /\ net' = net
         \/ call' = [call EXCEPT ![c].at = "posted"] /\ net' = net \cup {Dispatch(c, entry[e].sid)}
      /\ UNCHANGED <<pool, entry, handshake, server, faults, done>>
  BY DEF Wake
<1>4. /\ Dispatch(c, entry[e].sid) \in RequestRec
      /\ \A r : r = Dispatch(c, entry[e].sid) => RequestOk(r)
  <2>1. entry[e].sid \in Sid /\ none \in Sid /\ KeyOf(c) \in Key
        /\ Method(c) \in {"tools/call", "tools/list"}
    BY <1>1, <1>2, Types DEF EntryRec, Sid, KeyOf, Key, Method
  <2>2. Dispatch(c, entry[e].sid) \in RequestRec
    BY <2>1 DEF Dispatch, Request, RequestRec
  <2>3. RequestOk(Dispatch(c, entry[e].sid))
    BY <1>2, <2>1 DEF Dispatch, Request, RequestOk
  <2> QED
    BY <2>2, <2>3
<1>5. /\ call' \in [HttpCall -> HttpCallRec] /\ call'[c].at # "waiting"
      /\ \A d \in HttpCall : d # c => call'[d] = call[d]
  <2>1. call \in [HttpCall -> HttpCallRec] /\ \E at \in {"posted", "failed", "ok"} :
          call' = [call EXCEPT ![c] = [call[c] EXCEPT !.at = at]]
    BY <1>1, <1>3, Types
  <2>2. \A at \in {"posted", "failed", "ok"} :
          [call[c] EXCEPT !.at = at] \in HttpCallRec /\ [call[c] EXCEPT !.at = at].at = at
    BY <2>1 DEF HttpCallRec
  <2> QED
    BY <2>1, <2>2
<1>6. net' \subseteq RequestRec
  BY <1>1, <1>3, <1>4, Types
<1>7. HttpTypeOK' /\ EntryOk' /\ PinnedIdentity'
  BY <1>1, <1>3, <1>5, <1>6
     DEF HttpTypeOK, HttpCallRec, RequestRec, EntryOk, Pins, PinnedIdentity
<1>8. EntriesKeep /\ InitsKeep /\ SessionsKeep
  BY <1>3 DEF EntriesKeep, InitsKeep, SessionsKeep
<1>9. \A r \in net' : r \notin net => RequestOk(r)'
  BY <1>3, <1>4 DEF RequestOk, Pins, KeyOf, Method
<1> QED
  BY <1>1, <1>3, <1>5, <1>7, <1>8, <1>9, PoolIsGood, Assembles DEF Made

\* An answer to initialize.
LEMMA InitReplyHolds ==
  ASSUME HttpInv, NEW r \in net, InitReply(r)
  PROVE  HttpInv'
<1> DEFINE i == r.who
           e == handshake[i].entry
           ack == Request(i, "initialized", r.key, r.given)
           sid == IF r.given # none THEN r.given ELSE entry[e].sid
           ini == IF entry[e].init = i THEN 0 ELSE entry[e].init
           new == [key |-> r.key, sid |-> sid, init |-> ini, tools |-> entry[e].tools]
<1>1. HttpTypeOK /\ Made /\ EntryOk /\ NetOk /\ PinnedIdentity /\ r \in RequestRec
  BY Types DEF HttpInv
<1>2. /\ i \in DOMAIN handshake /\ e \in DOMAIN entry /\ entry[e].key = r.key
      /\ Pins(r.given, r.key) /\ Pins(entry[e].sid, r.key) /\ entry[e] \in EntryRec
      /\ r.given \in Sid /\ r.key \in Key /\ i \in Nat
  BY <1>1, Types DEF InitReply, NetOk, RequestOk, Made, EntryOk, RequestRec
<1>3. UNCHANGED <<pool, call, server, faults, done>> /\ SessionsKeep
  BY DEF InitReply, SessionsKeep
<1>4. CASE r.status = 200
  <2> DEFINE opened == [entry[e] EXCEPT !.sid = r.given]
  <2>1. /\ entry' = [entry EXCEPT ![e] = opened] /\ handshake' = handshake
        /\ net' = (net \ {r}) \cup {ack}
    BY <1>4 DEF InitReply
  <2>2. opened \in EntryRec /\ opened.key = entry[e].key /\ Pins(opened.sid, opened.key)
    BY <1>2 DEF EntryRec, Pins
  <2> HIDE DEF opened
  <2>3. entry' \in Seq(EntryRec) /\ DOMAIN entry' = DOMAIN entry /\ EntriesKeep /\ EntryOk'
    BY <1>2, <1>3, <2>1, <2>2, EntryChanges
  <2>4. ack \in RequestRec /\ \A a : a = ack => RequestOk(a)'
    <3>1. ack \in RequestRec
      BY <1>2 DEF Request, RequestRec, Sid
    <3>2. ASSUME NEW a, a = ack PROVE RequestOk(a)'
      <4>1. /\ a.who = i /\ a.what = "initialized" /\ a.key = r.key
            /\ a.sid = r.given /\ a.given = none
        BY <3>2 DEF Request
      <4>2. i \in DOMAIN handshake' /\ entry'[handshake'[i].entry].key = r.key
        BY <1>2, <2>1, <2>3 DEF EntriesKeep
      <4> QED
        BY <1>2, <1>3, <4>1, <4>2 DEF RequestOk, Pins
    <3> QED
      BY <3>1, <3>2
  <2>5. net' \subseteq RequestRec
    BY <1>1, <2>1, <2>4, Types
  <2>6. HttpTypeOK' /\ PinnedIdentity'
    <3>1. HttpTypeOK'
      BY <1>1, <1>3, <2>1, <2>3, <2>5 DEF HttpTypeOK, RequestRec, EntryRec
    <3>2. PinnedIdentity'
      BY <1>1, <1>3 DEF PinnedIdentity
    <3> QED
      BY <3>1, <3>2
  <2>7. InitsKeep /\ \A a \in net' : a \notin net => RequestOk(a)'
    BY <2>1, <2>4 DEF InitsKeep
  <2> QED
    BY <1>1, <1>3, <2>1, <2>3, <2>6, <2>7, PoolIsGood, GoodPoolKeeps, Assembles DEF Made
<1>5. CASE r.status # 200
  <2>1. /\ entry' = [entry EXCEPT ![e] = new]
        /\ net' = net \ {r} /\ Settle(i, "rejected")
    <3>1. entry' = [entry EXCEPT ![e] = [Cleared(e, i) EXCEPT
                      !.sid = IF r.given # none THEN r.given ELSE @]]
      BY <1>5 DEF InitReply
    <3>2. Cleared(e, i) = [key |-> r.key, sid |-> entry[e].sid, init |-> ini, tools |-> entry[e].tools]
      BY <1>2 DEF Cleared, EntryRec
    <3>3. [Cleared(e, i) EXCEPT !.sid = IF r.given # none THEN r.given ELSE @] = new
      BY <3>2
    <3> QED
      BY <1>5, <3>1, <3>3 DEF InitReply
  <2>2. new \in EntryRec /\ new.key = entry[e].key /\ Pins(new.sid, new.key)
    BY <1>2 DEF EntryRec, Pins, Sid
  <2> HIDE DEF new
  <2>3. entry' \in Seq(EntryRec) /\ DOMAIN entry' = DOMAIN entry /\ EntriesKeep /\ EntryOk'
    BY <1>2, <1>3, <2>1, <2>2, EntryChanges
  <2>4. /\ handshake' \in Seq(InitRec) /\ DOMAIN handshake' = DOMAIN handshake /\ InitsKeep
        /\ \A j \in DOMAIN handshake' : handshake'[j].entry = handshake[j].entry
    BY <1>2, <2>1, SettleKeeps
  <2>5. HttpTypeOK' /\ PinnedIdentity'
    <3>1. HttpTypeOK'
      <4>1. net' \subseteq RequestRec
        BY <1>1, <2>1, Types
      <4> QED
        BY <1>1, <1>3, <2>3, <2>4, <4>1 DEF HttpTypeOK, InitRec, EntryRec, RequestRec
    <3>2. PinnedIdentity'
      BY <1>1, <1>3 DEF PinnedIdentity
    <3> QED
      BY <3>1, <3>2
  <2> QED
    BY <1>1, <1>3, <2>1, <2>3, <2>4, <2>5, PoolIsGood, GoodPoolKeeps, Assembles DEF Made
<1> QED
  BY <1>4, <1>5

\* An answer to notifications/initialized.
LEMMA NotifReplyHolds ==
  ASSUME HttpInv, NEW r \in net, NotifReply(r)
  PROVE  HttpInv'
<1> DEFINE i == r.who
           e == handshake[i].entry
           ini == IF entry[e].init = i THEN 0 ELSE entry[e].init
           new == [key |-> r.key, sid |-> entry[e].sid, init |-> ini, tools |-> entry[e].tools]
<1>1. HttpTypeOK /\ Made /\ EntryOk /\ NetOk /\ PinnedIdentity
  BY DEF HttpInv
<1>2. /\ i \in DOMAIN handshake /\ e \in DOMAIN entry /\ entry[e].key = r.key
      /\ Pins(entry[e].sid, r.key) /\ entry[e] \in EntryRec /\ i \in Nat
  BY <1>1, Types DEF NotifReply, NetOk, RequestOk, Made, EntryOk
<1>3. UNCHANGED <<pool, call, server, faults, done>> /\ SessionsKeep /\ net' = net \ {r}
  BY DEF NotifReply, SessionsKeep
<1>4. \/ Settle(i, "rejected") /\ entry' = [entry EXCEPT ![e] = new]
      \/ Settle(i, "resolved") /\ entry' = entry
  <2>1. Cleared(e, i) = new
    BY <1>2 DEF Cleared, EntryRec
  <2> QED
    BY <2>1 DEF NotifReply
<1>5. new \in EntryRec /\ new.key = entry[e].key /\ Pins(new.sid, new.key)
  BY <1>2 DEF EntryRec
<1> HIDE DEF new
<1>6. entry' \in Seq(EntryRec) /\ DOMAIN entry' = DOMAIN entry /\ EntriesKeep /\ EntryOk'
  <2>1. CASE entry' = [entry EXCEPT ![e] = new]
    BY <1>2, <1>3, <1>5, <2>1, EntryChanges
  <2>2. CASE entry' = entry
    BY <1>1, <1>3, <2>2, Types DEF EntriesKeep, EntryOk, Pins
  <2> QED
    BY <1>4, <2>1, <2>2
<1>7. /\ handshake' \in Seq(InitRec) /\ DOMAIN handshake' = DOMAIN handshake /\ InitsKeep
      /\ \A j \in DOMAIN handshake' : handshake'[j].entry = handshake[j].entry
  BY <1>2, <1>4, SettleKeeps
<1>8. HttpTypeOK' /\ PinnedIdentity'
  BY <1>1, <1>3, <1>6, <1>7 DEF HttpTypeOK, InitRec, EntryRec, PinnedIdentity
<1> QED
  BY <1>1, <1>3, <1>6, <1>7, <1>8, PoolIsGood, GoodPoolKeeps, Assembles DEF Made

\* An answer to a call or a description.
LEMMA ReplyHolds ==
  ASSUME HttpInv, NEW r \in net, Reply(r)
  PROVE  HttpInv'
<1> DEFINE c == r.who
           e == call[c].entry
           again == Stale(r) /\ call[c].attempt = 1 /\ c \notin Describe
           how == IF r.status = 200 THEN "ok" ELSE "failed"
<1>1. HttpTypeOK /\ Made /\ EntryOk /\ NetOk /\ PinnedIdentity /\ c \in HttpCall
  BY DEF HttpInv, Reply, NetOk, RequestOk
<1>2. CASE again
  <2>1. GoodPool(Evicted(pool, KeyOf(c)), entry)
    BY PoolIsGood, WithoutGood
  <2> QED
    BY <1>1, <1>2, <2>1, ProceedHolds DEF Reply
<1>3. CASE ~again
  <2>1. /\ call' = [call EXCEPT ![c].at = how] /\ net' = net \ {r}
        /\ \/ entry' = [entry EXCEPT ![e].tools = TRUE]
           \/ entry' = entry
        /\ UNCHANGED <<pool, handshake, server, faults, done>>
    BY <1>3 DEF Reply
  <2>2. /\ call' \in [HttpCall -> HttpCallRec] /\ call'[c].at # "waiting"
        /\ \A d \in HttpCall : d # c => call'[d] = call[d]
    <3>1. call \in [HttpCall -> HttpCallRec]
          /\ call' = [call EXCEPT ![c] = [call[c] EXCEPT !.at = how]]
      BY <1>1, <2>1, Types
    <3>2. [call[c] EXCEPT !.at = how] \in HttpCallRec /\ [call[c] EXCEPT !.at = how].at = how
      BY <1>1, <3>1 DEF HttpCallRec
    <3> QED
      BY <1>1, <3>1, <3>2
  <2>3. entry' \in Seq(EntryRec) /\ DOMAIN entry' = DOMAIN entry /\ EntriesKeep /\ EntryOk'
    <3>1. CASE entry' = entry
      BY <1>1, <2>1, <3>1, Types DEF EntriesKeep, EntryOk, Pins
    <3>2. CASE e \in DOMAIN entry /\ entry' = [entry EXCEPT ![e].tools = TRUE]
      <4> DEFINE new == [entry[e] EXCEPT !.tools = TRUE]
      <4>1. new \in EntryRec /\ new.key = entry[e].key /\ Pins(new.sid, new.key)
        BY <1>1, <3>2, Types DEF EntryRec, EntryOk, Pins
      <4>2. entry' = [entry EXCEPT ![e] = new]
        BY <3>2
      <4> HIDE DEF new
      <4> QED
        BY <2>1, <3>2, <4>1, <4>2, EntryChanges
    <3>3. CASE e \notin DOMAIN entry /\ entry' = [entry EXCEPT ![e].tools = TRUE]
      <4>1. entry' = entry
        BY <1>1, <3>3, Types
      <4> QED
        BY <3>1, <4>1
    <3> QED
      BY <2>1, <3>1, <3>2, <3>3
  <2>4. HttpTypeOK' /\ PinnedIdentity'
    BY <1>1, <2>1, <2>2, <2>3 DEF HttpTypeOK, HttpCallRec, EntryRec, PinnedIdentity
  <2>5. InitsKeep /\ SessionsKeep
    BY <2>1 DEF InitsKeep, SessionsKeep
  <2> QED
    BY <1>1, <2>1, <2>2, <2>3, <2>4, <2>5, PoolIsGood, GoodPoolKeeps, Assembles DEF Made
<1> QED
  BY <1>2, <1>3

\* Every step keeps the invariant.
LEMMA HttpNextHolds == HttpInv /\ [HttpNext]_httpVars => HttpInv'
<1> SUFFICES ASSUME HttpInv, [HttpNext]_httpVars PROVE HttpInv'
  OBVIOUS
<1>1. CASE \E c \in HttpCall : Start(c) \/ Wake(c)
  BY <1>1, StartHolds, WakeHolds
<1>2. CASE Serving \/ \E r \in net : Lose(r) \/ Fail(r)
  BY <1>2, ServerHolds DEF Serving
<1>3. CASE Answering
  BY <1>3, InitReplyHolds, NotifReplyHolds, ReplyHolds DEF Answering
<1>4. CASE Restart
  BY <1>4, RestartHolds
<1>5. CASE UNCHANGED httpVars
  BY <1>5 DEF httpVars, HttpInv, HttpTypeOK, Made, EntryOk, CallOk, NetOk, RequestOk, Pins, KeyOf, Method,
              PinnedIdentity, PoolBounded
<1> QED
  BY <1>1, <1>2, <1>3, <1>4, <1>5 DEF HttpNext

-------------------------------------------------------------------------------
(* At most one effect.  A call has one request or answer under way, and     *)
(* only while it is posted; what the server did not report done, and what   *)
(* waits for its session, was not done.                                     *)

\* A request of a call, or its answer.
Asking(r) == r.what \in {"tools/call", "tools/list"}

Undone(c) == \A i \in DOMAIN done : done[i].call # c

OneUnderWay ==
  /\ \A r, s \in net : Asking(r) /\ Asking(s) /\ r.who = s.who => r = s
  /\ \A r \in net : Asking(r) => call[r.who].at = "posted"

RefusedUndone ==
  /\ \A r \in net : Asking(r) /\ r.status \notin {200, Thrown} => Undone(r.who)
  /\ \A c \in HttpCall : call[c].at \in {"idle", "waiting"} => Undone(c)

\* NoDoubleEffect without the function.
DoneOnce == \A i, j \in DOMAIN done : done[i].call = done[j].call => i = j

Once == OneUnderWay /\ RefusedUndone /\ DoneOnce

LEMMA OnceSays == DoneOnce => NoDoubleEffect
BY DEF DoneOnce, NoDoubleEffect, IsInjective

\* A step of the call c alone: its former request is gone, and what it sends, if
\* anything, is a request of a call that was not done.
LEMMA CallStepOnce ==
  ASSUME HttpInv, Once, NEW c \in HttpCall, NEW q, UNCHANGED done,
         \A d \in HttpCall : d # c => call'[d] = call[d],
         call'[c].at \in {"idle", "waiting", "posted"} => Undone(c),
         \A r \in net' : Asking(r) =>
           \/ r \in net /\ r.who # c
           \/ r = q /\ r.who = c /\ call'[c].at = "posted"
  PROVE  Once'
<1>1. ASSUME NEW r \in net, Asking(r) PROVE r.who \in HttpCall
  BY <1>1 DEF HttpInv, NetOk, RequestOk, Asking
<1>2. ASSUME NEW r \in net', Asking(r)
      PROVE  /\ call'[r.who].at = "posted"
             /\ r.status \notin {200, Thrown} => Undone(r.who)
             /\ \A s \in net' : Asking(s) /\ r.who = s.who => r = s
  <2>1. CASE r \in net /\ r.who # c
    BY <1>1, <1>2, <2>1 DEF Once, OneUnderWay, RefusedUndone
  <2>2. CASE r = q /\ r.who = c /\ call'[c].at = "posted"
    BY <2>2
  <2> QED
    BY <1>2, <2>1, <2>2
<1>3. OneUnderWay'
  BY <1>2 DEF OneUnderWay, Asking
<1>4. RefusedUndone'
  BY <1>2 DEF RefusedUndone, Once, Undone, Asking
<1>5. DoneOnce'
  BY DEF Once, DoneOnce
<1> QED
  BY <1>3, <1>4, <1>5 DEF Once

\* A step that touches no call, its request or its effects.
LEMMA OtherStepOnce ==
  ASSUME Once, UNCHANGED <<call, done>>, \A r \in net' : Asking(r) => r \in net
  PROVE  Once'
BY DEF Once, OneUnderWay, RefusedUndone, DoneOnce, Undone, Asking

\* The request of c is answered, after its effect or without: the answers that
\* leave the effect open are not sent again.
LEMMA AnsweredOnce ==
  ASSUME HttpInv, Once, NEW r \in net, r.status = 0, NEW status, NEW given, status # 0,
         AnsweredWith(r, status, given), UNCHANGED call,
         \/ UNCHANGED done
         \/ Effect(r) /\ status \in {200, Thrown}
  PROVE  Once'
<1> DEFINE answer == AnswerTo(r, status, given)
<1>1. /\ answer.who = r.who /\ answer.what = r.what /\ answer.status = status
      /\ net' = (net \ {r}) \cup {answer}
  BY DEF AnswerTo, AnsweredWith
<1> HIDE DEF answer
<1>2. OneUnderWay'
  BY <1>1 DEF Once, OneUnderWay, Asking
<1>3. CASE UNCHANGED done
  BY <1>1, <1>3 DEF Once, RefusedUndone, DoneOnce, Undone, Asking, Thrown, OneUnderWay
<1>4. CASE r.what = "tools/call" /\ Effect(r) /\ status \in {200, Thrown}
  <2> DEFINE new == [call |-> r.who, key |-> server[r.sid].key]
  <2>1. done' = Append(done, new) /\ new.call = r.who
    BY <1>4 DEF Effect
  <2> HIDE DEF new
  <2>2. /\ DOMAIN done' = DOMAIN done \cup {Len(done) + 1}
        /\ done'[Len(done) + 1] = new
        /\ \A i \in DOMAIN done : done'[i] = done[i]
    <3>1. done \in Seq([call : HttpCall, key : Key])
      BY DEF HttpInv, HttpTypeOK
    <3>2. done \in Seq({done[i] : i \in DOMAIN done} \cup {new})
      <4>1. DOMAIN done = 1..Len(done) /\ Len(done) \in Nat /\ done = [i \in 1..Len(done) |-> done[i]]
        BY <3>1, LenProperties
      <4> QED
        BY <4>1, SeqDef
    <3> QED
      BY <2>1, <3>2, Longer
  <2>3. Asking(r) /\ r.status \notin {200, Thrown}
    BY <1>4 DEF Asking, Thrown
  <2>4. Undone(r.who) /\ call[r.who].at = "posted" /\ r.who \in HttpCall
    BY <2>3 DEF Once, OneUnderWay, RefusedUndone, HttpInv, NetOk, RequestOk, Asking
  <2>5. DoneOnce'
    BY <2>1, <2>2, <2>4 DEF Once, DoneOnce, Undone
  <2>6. ASSUME NEW c, c # r.who, Undone(c) PROVE Undone(c)'
    BY <2>1, <2>2, <2>6 DEF Undone
  <2>7. RefusedUndone'
    <3>1. ASSUME NEW s \in net', Asking(s), s.status \notin {200, Thrown} PROVE Undone(s.who)'
      <4>1. s \in net \ {r}
        BY <1>1, <1>4, <3>1
      <4>2. s.who # r.who
        BY <2>3, <3>1, <4>1 DEF Once, OneUnderWay
      <4> QED
        BY <2>6, <3>1, <4>1, <4>2 DEF Once, RefusedUndone
    <3>2. ASSUME NEW c \in HttpCall, call'[c].at \in {"idle", "waiting"} PROVE Undone(c)'
      BY <2>4, <2>6, <3>2 DEF Once, RefusedUndone
    <3> QED
      BY <3>1, <3>2 DEF RefusedUndone, Asking
  <2> QED
    BY <1>2, <2>5, <2>7 DEF Once
<1>5. CASE r.what # "tools/call" /\ Effect(r)
  <2>1. UNCHANGED done
    BY <1>5 DEF Effect
  <2> QED
    BY <1>3, <2>1
<1> QED
  BY <1>3, <1>4, <1>5

\* What Proceed sends for c, it sends for an undone call.
LEMMA ProceedOnce ==
  ASSUME HttpInv, Once, NEW c \in HttpCall, NEW e, NEW attempt, NEW left \in SUBSET net,
         Undone(c), \A r \in left : Asking(r) => r.who # c,
         Proceed(c, e, attempt, left), UNCHANGED done
  PROVE  Once'
<1> DEFINE sid == IF e \in DOMAIN entry THEN entry[e].sid ELSE none
           ini == IF e \in DOMAIN entry THEN entry[e].init ELSE 0
           i   == IF ini = 0 THEN Len(handshake) + 1 ELSE ini
           q   == Dispatch(c, sid)
           open == Request(i, "initialize", KeyOf(c), none)
<1>1. call \in [HttpCall -> HttpCallRec]
  BY Types DEF HttpInv
<1>2. q.who = c /\ ~Asking(open)
  BY DEF Dispatch, Request, Asking
<1>3. CASE sid # none
  <2>1. /\ \E at \in {"ok", "posted"} :
             call' = [call EXCEPT ![c] = [at |-> at, entry |-> e, attempt |-> attempt, init |-> 0]]
        /\ net' = IF call'[c].at = "ok" THEN left ELSE left \cup {q}
    BY <1>3 DEF Proceed
  <2>2. call'[c].at \in {"ok", "posted"} /\ \A d \in HttpCall : d # c => call'[d] = call[d]
    BY <1>1, <2>1
  <2> HIDE DEF q
  <2>3. \A r \in net' : Asking(r) =>
          (r \in net /\ r.who # c) \/ (r = q /\ r.who = c /\ call'[c].at = "posted")
    BY <1>2, <2>1, <2>2
  <2> QED
    BY <2>2, <2>3, CallStepOnce
<1>4. CASE sid = none
  <2>1. /\ call' = [call EXCEPT ![c] =
                     [at |-> "waiting", entry |-> e, attempt |-> attempt, init |-> i]]
        /\ net' \subseteq left \cup {open}
    BY <1>4 DEF Proceed
  <2>2. \A d \in HttpCall : d # c => call'[d] = call[d]
    BY <1>1, <2>1
  <2> HIDE DEF open
  <2>3. \A r \in net' : Asking(r) => r \in net /\ r.who # c
    BY <1>2, <2>1
  <2> QED
    BY <2>2, <2>3, CallStepOnce
<1> QED
  BY <1>3, <1>4

LEMMA StartOnce ==
  ASSUME HttpInv, Once, NEW c \in HttpCall, Start(c)
  PROVE  Once'
<1>1. Undone(c) /\ \A r \in net : Asking(r) => r.who # c
  BY DEF Start, Once, OneUnderWay, RefusedUndone
<1> QED
  BY <1>1, ProceedOnce DEF Start

LEMMA WakeOnce ==
  ASSUME HttpInv, Once, NEW c \in HttpCall, Wake(c)
  PROVE  Once'
<1> DEFINE q == Dispatch(c, entry[call[c].entry].sid)
<1>1. Undone(c) /\ \A r \in net : Asking(r) => r.who # c
  BY DEF Wake, Once, OneUnderWay, RefusedUndone
<1>2. call \in [HttpCall -> HttpCallRec] /\ UNCHANGED done /\ q.who = c
  BY Types DEF HttpInv, Wake, Dispatch, Request
<1>3. \E at \in {"failed", "ok", "posted"} :
        call' = [call EXCEPT ![c].at = at] /\ net' = IF at = "posted" THEN net \cup {q} ELSE net
  BY DEF Wake
<1> HIDE DEF q
<1>4. PICK at \in {"failed", "ok", "posted"} :
        call' = [call EXCEPT ![c].at = at] /\ net' = IF at = "posted" THEN net \cup {q} ELSE net
  BY <1>3
<1>5. call'[c].at = at /\ \A d \in HttpCall : d # c => call'[d] = call[d]
  BY <1>2, <1>4 DEF HttpCallRec
<1>6. \A r \in net' : Asking(r) =>
        (r \in net /\ r.who # c) \/ (r = q /\ r.who = c /\ call'[c].at = "posted")
  BY <1>1, <1>2, <1>4, <1>5
<1> QED
  BY <1>1, <1>2, <1>5, <1>6, CallStepOnce

\* An answer of 400 or more says that nothing was done: the call may be sent again.
LEMMA ReplyOnce ==
  ASSUME HttpInv, Once, NEW r \in net, Reply(r)
  PROVE  Once'
<1> DEFINE c == r.who
           again == Stale(r) /\ call[c].attempt = 1 /\ c \notin Describe
<1>1. /\ Asking(r) /\ c \in HttpCall /\ call \in [HttpCall -> HttpCallRec] /\ UNCHANGED done
      /\ \A s \in net \ {r} : Asking(s) => s.who # c
  BY Types DEF Reply, Asking, Once, OneUnderWay, HttpInv, NetOk, RequestOk
<1>2. CASE again
  <2>1. r.status \notin {200, Thrown}
    BY <1>2 DEF Stale, Thrown
  <2>2. Undone(c)
    BY <1>1, <2>1 DEF Once, RefusedUndone
  <2>3. \E e : Proceed(c, e, 2, net \ {r})
    BY <1>2 DEF Reply
  <2> QED
    BY <1>1, <2>2, <2>3, ProceedOnce
<1>3. CASE ~again
  <2>1. \E at \in {"ok", "failed"} : call' = [call EXCEPT ![c].at = at] /\ net' = net \ {r}
    BY <1>3 DEF Reply
  <2>2. call'[c].at \in {"ok", "failed"} /\ \A d \in HttpCall : d # c => call'[d] = call[d]
    BY <1>1, <2>1 DEF HttpCallRec
  <2>3. \A s \in net' : Asking(s) => s \in net /\ s.who # c
    BY <1>1, <2>1
  <2> QED
    BY <1>1, <2>2, <2>3, CallStepOnce
<1> QED
  BY <1>2, <1>3

LEMMA NextOnce == ~LateErrors /\ HttpInv /\ Once /\ [HttpNext]_httpVars => Once'
<1> SUFFICES ASSUME ~LateErrors, HttpInv, Once, [HttpNext]_httpVars PROVE Once'
  OBVIOUS
<1>1. CASE \E c \in HttpCall : Start(c) \/ Wake(c)
  BY <1>1, StartOnce, WakeOnce
<1>2. CASE \E r \in net : Serve(r) \/ RefuseSession(r) \/ Lose(r) \/ Fail(r)
  <2> PICK r \in net : Serve(r) \/ RefuseSession(r) \/ Lose(r) \/ Fail(r)
    BY <1>2
  <2>1. CASE Serve(r)
    BY <2>1, AnsweredOnce DEF Serve
  <2>2. CASE RefuseSession(r)
    BY <2>2, AnsweredOnce DEF RefuseSession
  <2>3. CASE Lose(r)
    BY <2>3, AnsweredOnce DEF Lose, Faulty, Thrown
  <2>4. CASE Fail(r)
    BY <2>4, AnsweredOnce DEF Fail, Faulty
  <2> QED
    BY <2>1, <2>2, <2>3, <2>4
<1>3. CASE \E r \in net : InitReply(r) \/ NotifReply(r)
  <2>1. UNCHANGED <<call, done>> /\ \A s \in net' : Asking(s) => s \in net
    BY <1>3 DEF InitReply, NotifReply, Request, Asking
  <2> QED
    BY <2>1, OtherStepOnce
<1>4. CASE \E r \in net : Reply(r)
  BY <1>4, ReplyOnce
<1>5. CASE Restart \/ UNCHANGED httpVars
  BY <1>5, OtherStepOnce DEF Restart, Faulty, httpVars
<1> QED
  BY <1>1, <1>2, <1>3, <1>4, <1>5 DEF HttpNext, Serving, Answering

-------------------------------------------------------------------------------
(* The theorems.                                                           *)

\* HttpSpec keeps the invariant.
LEMMA HttpAlways == HttpSpec => []HttpInv
BY HttpInitHolds, HttpNextHolds, PTL DEF HttpSpec

\* The pool, the entries, the requests and the sessions keep their types
\* (http-mcp.ts: the fields of SessionEntry), through retries, evictions and faults.
THEOREM HttpTypeCorrect == HttpSpec => []HttpTypeOK
<1>1. HttpInv => HttpTypeOK
  BY DEF HttpInv
<1> QED
  BY <1>1, HttpAlways, PTL

\* A tool call has its effect in a session pinned to the identity it was made for
\* (http-mcp.ts: call, getOrCreateEntry, ensureSession), for every pool size and
\* however calls share, evict and replace entries while handshakes fail.
THEOREM HttpPinned == HttpSpec => []PinnedIdentity
<1>1. HttpInv => PinnedIdentity
  BY DEF HttpInv
<1> QED
  BY <1>1, HttpAlways, PTL

\* The pool has one entry per identity and at most maxPoolSize
\* (http-mcp.ts: getOrCreateEntry, recreateEntry).
THEOREM HttpPoolBounded == HttpSpec => []PoolBounded
<1>1. HttpInv => PoolBounded
  BY DEF HttpInv
<1> QED
  BY <1>1, HttpAlways, PTL

\* A tool call has its effect at most once, for any number of calls, faults and
\* sessions (http-mcp.ts: call, which dispatches again after an answer of 400 or
\* more and never after a request that was lost), if such an answer reports that
\* nothing was done.
THEOREM HttpOnce == ~LateErrors => (HttpSpec => []NoDoubleEffect)
<1> SUFFICES ASSUME ~LateErrors PROVE HttpSpec => []NoDoubleEffect
  OBVIOUS
<1>1. HttpInit => Once
  BY EmptySeq DEF HttpInit, NotMade, Once, OneUnderWay, RefusedUndone, DoneOnce, Undone
<1>2. HttpInv /\ Once /\ [HttpNext]_httpVars => Once'
  BY NextOnce
<1>3. Once => NoDoubleEffect
  BY OnceSays DEF Once
<1> QED
  BY <1>1, <1>2, <1>3, HttpAlways, PTL DEF HttpSpec
===============================================================================
