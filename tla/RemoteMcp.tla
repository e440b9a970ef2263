------------------------------ MODULE RemoteMcp ------------------------------
(***************************************************************************)
(* RemoteMcpConnector: skills call the tools of an MCP server that runs as *)
(* a child process.  The child is spawned by the first call and again by   *)
(* the first call after it died; start() shares one handshake between the  *)
(* calls that wait for it; every request has a timer.  The events of a     *)
(* child (its answers, its exit) reach the connector late, and those of a  *)
(* child that was replaced still reach it.                                 *)
(*                                                                         *)
(* A step is one turn of the event loop.  A call that waited for a         *)
(* handshake goes on in the turn that ended it, before any other event.    *)
(* Frames arrive whole.                                                    *)
(***************************************************************************)
EXTENDS FiniteSets, Naturals

CONSTANTS
  Call,        \* callers; each makes one call after the other
  Child,       \* names of child processes, used again when nothing is left of one
  ReqId,       \* request ids, used again likewise
  None,        \* no child
  MaxStale     \* bound: answers on their way that nobody waits for any more

ASSUME NoneAssumption == None \notin Child
ASSUME BoundAssumption == MaxStale \in Nat

VARIABLES
  child,       \* this.child
  error,       \* this.errorState is set
  init,        \* this.initializePromise: the child whose handshake it is
  disposed,    \* this.disposed
  closing,     \* the child that dispose() is about to kill
  proc,        \* [Child -> "none", "alive", "dead": not reported yet, "gone"]
  start,       \* [Child -> how far its doStart is]
  pending,     \* this.pending: request id -> the request
  wire,        \* requests and answers in the pipes
  calls        \* [Call -> how far it is, and the handshake it waits for]

session == <<child, error, init>>
vars    == <<session, disposed, closing, proc, start, pending, wire, calls>>

Idle    == {"none", "ok", "failed"}

-----------------------------------------------------------------------------
(* Helpers *)

\* Variant: ids start again with each session.
IdsNotPending == ReqId \ DOMAIN pending

\* nextRequestId: an id that is neither pending nor in the pipes.
FreshIds == ReqId \ (DOMAIN pending \cup {w.id : w \in wire})

With(P, id, req) == [i \in DOMAIN P \cup {id} |-> IF i = id THEN req ELSE P[i]]
Without(P, ids)  == [i \in DOMAIN P \ ids |-> P[i]]

\* What a request puts in the pipe of k: nothing if k is dead.
Packed(id, req, k) ==
  {w \in {[id |-> id, req |-> req, to |-> k, answered |-> FALSE]} : proc[k] # "dead"}

\* What is left of the pipes W when P is pending: of the packets nobody waits
\* for, no more than MaxStale.
Trimmed(W, P) ==
  {V \in SUBSET W : /\ \A w \in W : w.id \in DOMAIN P => w \in V
                    /\ Cardinality({w \in V : w.id \notin DOMAIN P}) <= MaxStale}

\* The children of which no exit was reported.
Unreported == {k \in Child : proc[k] \in {"alive", "dead"}}

\* The packets that a child which dies leaves unanswered.
Unanswered(k) == {w \in wire : w.to = k /\ ~w.answered}

Killed(k) == IF k # None /\ proc[k] = "alive" THEN [proc EXCEPT ![k] = "dead"] ELSE proc

\* Variant: the reset leaves the child of an unusable session alone.
NoneReset == None

\* resetSession: the child that is killed before a new one is spawned.
Reset == IF error THEN child ELSE None

WaitingOn(k) == {c \in Call : calls[c].at \in {"waiting", "cut"} /\ calls[c].on = k}

Settled(c, how) == [calls EXCEPT ![c] = [at |-> how, on |-> None]]

Failing(C) == [c \in Call |-> IF c \in C THEN [at |-> "failed", on |-> None] ELSE calls[c]]

\* The handshake of k is through.
Ready(k) == start[k] = "done"

\* No call is about to go on in this turn.
TurnOver == \A c \in Call : calls[c].on # None => ~Ready(calls[c].on)

\* Variant: an aborted request stays pending.
DroppedNone(c) == {}

\* The requests that go when c is aborted.
Dropped(c) == {i \in DOMAIN pending : pending[i] = [kind |-> "tools/call", by |-> c]}

\* Nothing refers to k any more.
Free(k) ==
  /\ proc[k] \in {"none", "gone"}
  /\ start[k] \notin {"initialize", "tools/list"}
  /\ k \notin {child, init, closing}
  /\ WaitingOn(k) = {}
  /\ \A w \in wire : w.to # k
  /\ \A i \in DOMAIN pending : pending[i].by # k

-----------------------------------------------------------------------------
Init ==
  /\ child = None
  /\ error = FALSE
  /\ init = None
  /\ disposed = FALSE
  /\ closing = None
  /\ proc = [k \in Child |-> "none"]
  /\ start = [k \in Child |-> "none"]
  /\ pending = [i \in {} |-> [kind |-> "shutdown", by |-> None]]
  /\ wire = {}
  /\ calls = [c \in Call |-> [at |-> "none", on |-> None]]

(***************************************************************************)
(* A call: start(), then the request                                       *)
(***************************************************************************)
\* start() after dispose() rejects.
CallRefused(c) ==
  /\ TurnOver /\ calls[c].at \in Idle
  /\ disposed
  /\ calls' = Settled(c, "failed")
  /\ UNCHANGED <<session, disposed, closing, proc, start, pending, wire>>

\* The handshake of the session is under way.
CallWaits(c) ==
  /\ TurnOver /\ calls[c].at \in Idle
  /\ ~disposed /\ ~error
  /\ init # None /\ ~Ready(init)
  /\ calls' = [calls EXCEPT ![c] = [at |-> "waiting", on |-> init]]
  /\ UNCHANGED <<session, disposed, closing, proc, start, pending, wire>>

SendCall(c) ==
  \E id \in FreshIds :
    /\ pending' = With(pending, id, [kind |-> "tools/call", by |-> c])
    /\ wire' \in Trimmed(wire \cup Packed(id, pending'[id], child), pending')
    /\ calls' = [calls EXCEPT ![c] = [at |-> "sent", on |-> None]]

CallSends(c) ==
  /\ TurnOver /\ calls[c].at \in Idle
  /\ ~disposed /\ ~error
  /\ init # None /\ Ready(init)
  /\ SendCall(c)
  /\ UNCHANGED <<session, disposed, closing, proc, start>>

\* An unusable session is reset, its child killed if it still lives, and a new
\* child is spawned and asked to initialize.
CallSpawns(c) ==
  /\ TurnOver /\ calls[c].at \in Idle
  /\ ~disposed
  /\ error \/ init = None
  /\ \E k \in Child, id \in FreshIds :
       /\ Free(k)
       /\ error' = FALSE
       /\ proc' = [Killed(Reset) EXCEPT ![k] = "alive"]
       /\ child' = k
       /\ init' = k
       /\ start' = [start EXCEPT ![k] = "initialize"]
       /\ pending' = With(pending, id, [kind |-> "initialize", by |-> k])
       /\ wire' \in Trimmed((wire \ Unanswered(Reset))
                              \cup Packed(id, pending'[id], k), pending')
       /\ calls' = [calls EXCEPT ![c] = [at |-> "waiting", on |-> k]]
  /\ UNCHANGED <<disposed, closing>>

\* The handshake a call waited for is through: the call is sent, or fails when
\* an error was latched or its signal was aborted meanwhile.
CallContinues(c) ==
  /\ calls[c].on # None
  /\ Ready(calls[c].on)
  /\ \/ /\ error \/ calls[c].at = "cut"
        /\ calls' = Settled(c, "failed")
        /\ UNCHANGED <<pending, wire>>
     \/ /\ ~error /\ calls[c].at = "waiting"
        /\ SendCall(c)
  /\ UNCHANGED <<session, disposed, closing, proc, start>>

\* The runtime aborts the call's signal.
Abort(c) ==
  /\ TurnOver
  /\ \/ /\ calls[c].at = "waiting"
        /\ calls' = [calls EXCEPT ![c].at = "cut"]
        /\ UNCHANGED <<pending, wire>>
     \/ /\ calls[c].at = "sent"
        /\ calls' = Settled(c, "failed")
        /\ pending' = Without(pending, Dropped(c))
        /\ wire' \in Trimmed(wire, pending')
  /\ UNCHANGED <<session, disposed, closing, proc, start>>

(***************************************************************************)
(* Answers and timers                                                      *)
(***************************************************************************)
\* Variant: the failed handshake stays the session's.
HandshakeLatched(k) ==
  /\ start' = [start EXCEPT ![k] = "failed"]
  /\ calls' = Failing(WaitingOn(k))
  /\ UNCHANGED init

\* Variant: the calls that wait for the handshake do not hear of it.
HandshakeLost(k) ==
  /\ start' = [start EXCEPT ![k] = "failed"]
  /\ init' = IF init = k THEN None ELSE init
  /\ UNCHANGED calls

HandshakeFails(k) ==
  /\ start' = [start EXCEPT ![k] = "failed"]
  /\ init' = IF init = k THEN None ELSE init
  /\ calls' = Failing(WaitingOn(k))

HandshakeDone(k) ==
  /\ start' = [start EXCEPT ![k] = "done"]
  /\ UNCHANGED <<init, calls>>

\* Request id is through, well or not; tools/list need not be supported.
Through(id, good) ==
  LET req == pending[id]
  IN CASE req.kind = "initialize" -> HandshakeFails(req.by)
       [] req.kind = "tools/list" -> HandshakeDone(req.by)
       [] req.kind = "tools/call" -> /\ calls' = Settled(req.by, IF good THEN "ok" ELSE "failed")
                                     /\ UNCHANGED <<start, init>>
       [] req.kind = "shutdown"   -> UNCHANGED <<start, init, calls>>

\* The child asks for nothing in return: it answers when it likes.
ChildAnswers(w) ==
  /\ TurnOver
  /\ w \in wire /\ ~w.answered /\ proc[w.to] = "alive"
  /\ wire' = (wire \ {w}) \cup {[w EXCEPT !.answered = TRUE]}
  /\ UNCHANGED <<session, disposed, closing, proc, start, pending, calls>>

\* handleInboundMessage: an answer to an id that is not pending is ignored.
Ignored(w) ==
  /\ TurnOver
  /\ w \in wire /\ w.answered /\ w.id \notin DOMAIN pending
  /\ wire' = wire \ {w}
  /\ UNCHANGED <<session, disposed, closing, proc, start, pending, calls>>

\* The server has initialized: it is asked for its tools.
Initialized(w) ==
  /\ TurnOver
  /\ w \in wire /\ w.answered /\ w.id \in DOMAIN pending
  /\ pending[w.id].kind = "initialize"
  /\ \E id \in FreshIds :
       LET k == pending[w.id].by
           req == [kind |-> "tools/list", by |-> k]
       IN /\ start' = [start EXCEPT ![k] = "tools/list"]
          /\ pending' = With(Without(pending, {w.id}), id, req)
          /\ wire' \in Trimmed((wire \ {w}) \cup Packed(id, req, child), pending')
  /\ UNCHANGED <<session, disposed, closing, proc, calls>>

Answered(w, good) ==
  /\ TurnOver
  /\ w \in wire /\ w.answered /\ w.id \in DOMAIN pending
  /\ good => pending[w.id].kind # "initialize"
  /\ Through(w.id, good)
  /\ pending' = Without(pending, {w.id})
  /\ wire' = wire \ {w}
  /\ UNCHANGED <<child, error, disposed, closing, proc>>

\* The timer of a request goes off, or its frame could not be written.
Timeout(id) ==
  /\ TurnOver
  /\ id \in DOMAIN pending
  /\ Through(id, FALSE)
  /\ pending' = Without(pending, {id})
  /\ wire' \in Trimmed(wire, pending')
  /\ UNCHANGED <<child, error, disposed, closing, proc>>

(***************************************************************************)
(* The child process                                                       *)
(***************************************************************************)
Dies(k) ==
  /\ TurnOver
  /\ proc[k] = "alive"
  /\ proc' = Killed(k)
  /\ wire' = wire \ Unanswered(k)
  /\ UNCHANGED <<session, disposed, closing, start, pending, calls>>

\* The exit (or the error) event of a child, whichever child: the error is
\* latched and everything pending is rejected.  A rejected tools/list ends a
\* handshake, and its calls find the error.
Exited(k) ==
  /\ TurnOver
  /\ proc[k] = "dead"
  /\ proc' = [proc EXCEPT ![k] = "gone"]
  /\ error' = TRUE
  /\ LET of(kind) == {pending[i].by : i \in {j \in DOMAIN pending : pending[j].kind = kind}}
         failed   == of("initialize")
     IN /\ start' = [h \in Child |-> CASE h \in failed           -> "failed"
                                       [] h \in of("tools/list") -> "done"
                                       [] OTHER                  -> start[h]]
        /\ init' = IF init \in failed THEN None ELSE init
        /\ calls' = Failing(of("tools/call") \cup UNION {WaitingOn(h) : h \in failed})
  /\ pending' = Without(pending, DOMAIN pending)
  /\ wire' \in Trimmed(wire, pending')
  /\ UNCHANGED <<child, disposed, closing>>

(***************************************************************************)
(* dispose(), once                                                         *)
(***************************************************************************)
Dispose ==
  /\ TurnOver
  /\ ~disposed
  /\ disposed' = TRUE
  /\ \/ /\ child \notin Unreported
        /\ UNCHANGED <<closing, pending, wire>>
     \/ /\ child \in Unreported
        /\ closing' = child
        /\ \E id \in FreshIds :
             /\ pending' = With(pending, id, [kind |-> "shutdown", by |-> child])
             /\ wire' \in Trimmed(wire \cup Packed(id, pending'[id], child), pending')
  /\ UNCHANGED <<session, proc, start, calls>>

\* After the shutdown request was answered or half a second went by: SIGTERM,
\* and SIGKILL when that does not help.
DisposeKills ==
  /\ TurnOver
  /\ closing # None
  /\ closing' = None
  /\ proc' = Killed(closing)
  /\ wire' = wire \ Unanswered(closing)
  /\ UNCHANGED <<session, disposed, start, pending, calls>>

Next ==
  \/ \E c \in Call : \/ CallRefused(c) \/ CallWaits(c) \/ CallSends(c)
                     \/ CallSpawns(c) \/ CallContinues(c) \/ Abort(c)
  \/ \E w \in wire : \/ ChildAnswers(w) \/ Ignored(w) \/ Initialized(w)
                     \/ \E good \in BOOLEAN : Answered(w, good)
  \/ \E id \in ReqId : Timeout(id)
  \/ \E k \in Child : Dies(k) \/ Exited(k)
  \/ Dispose
  \/ DisposeKills

Spec == Init /\ [][Next]_vars

(***************************************************************************)
(* Fairness: a request is not pending for ever, for it has a timer; a turn *)
(* that has begun ends; exit events are delivered; a living child answers, *)
(* and what it answers is read.                                            *)
(***************************************************************************)
FairSpec ==
  /\ Spec
  /\ \A id \in ReqId : []<>(id \notin DOMAIN pending)
  /\ \A c \in Call : WF_vars(CallContinues(c))

ServingSpec ==
  /\ FairSpec
  /\ \A k \in Child : WF_vars(Exited(k))
  /\ \A id \in ReqId :
       /\ WF_vars(\E w \in wire : w.id = id /\ ChildAnswers(w))
       /\ WF_vars(\E w \in wire : w.id = id /\ (Initialized(w) \/ Answered(w, TRUE)))

-----------------------------------------------------------------------------
(* Properties *)

\* An answer settles the request it answers and no other: not that of a later
\* session, though the sessions share one table of pending requests.
AnswersMatch ==
  \A w \in wire : w.id \in DOMAIN pending => pending[w.id] = w.req

\* Nobody waits for what will not come, and nothing is kept for nobody: a call
\* that was sent, and a handshake under way, have one pending request each, a
\* waiting call has a handshake under way, and there is no other request.
NobodyForgotten ==
  LET asked(kind, by) == {i \in DOMAIN pending : pending[i] = [kind |-> kind, by |-> by]}
  IN /\ \A c \in Call :
          /\ Cardinality(asked("tools/call", c)) = (IF calls[c].at = "sent" THEN 1 ELSE 0)
          /\ calls[c].on # None => start[calls[c].on] \notin {"none", "failed"}
     /\ \A k \in Child, kind \in {"initialize", "tools/list"} :
          Cardinality(asked(kind, k)) = (IF start[k] = kind THEN 1 ELSE 0)

\* A child that was replaced lives on only if its own handshake failed: every
\* other one is killed before its successor is spawned.
OnlyFailedLinger ==
  \A k \in Child : proc[k] = "alive" /\ k # child => start[k] = "failed"

\* Every call settles, whatever the children do.
EveryCallSettles ==
  \A c \in Call : calls[c].at \notin Idle ~> calls[c].at \in Idle

\* What the runtime and its children may suffer.
Fault ==
  \/ \E id \in ReqId : Timeout(id)
  \/ \E w \in wire : Answered(w, FALSE) /\ pending[w.id].kind # "tools/list"
  \/ \E k \in Child : Dies(k)
  \/ \E c \in Call : Abort(c)
  \/ Dispose

\* A caller that keeps calling is served again and again.
Served == \A c \in Call : []<>(calls[c].at \notin Idle) => []<>(calls[c].at = "ok")

\* The connector heals: once nothing fails any more, a caller that keeps
\* calling is served, whatever failed before, if a child never outlives its
\* session.
HealsAlone ==
  (<>[][~Fault]_vars /\ []~disposed /\ [](Unreported \subseteq {child})) => Served
=============================================================================
