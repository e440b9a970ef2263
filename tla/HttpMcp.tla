------------------------------ MODULE HttpMcp ------------------------------
(* HttpMcpConnector (connectors/http-mcp.ts) and the server it calls: a    *)
(* pool of sessions, one per identity, in the order of their last use; a   *)
(* handshake that the calls of one entry share; a call that an answer of   *)
(* 400 or more makes it dispatch once more over a fresh entry.  An entry   *)
(* that was evicted lives on in the calls that hold it.                    *)
EXTENDS Integers, SequencesExt

CONSTANTS
  HttpCall,    \* the dispatches of a behaviour
  Caller,      \* the agent each one is made for
  Describe,    \* those that are describeTools or manifest rather than call
  DEFAULT_IDENTITY_KEY,
  maxPoolSize,
  LateErrors,  \* the server may answer 500 to what it did
  MaxFaults,   \* bound: restarts, refusals and lost requests or answers
  none         \* null

ASSUME PoolAssumption == maxPoolSize \in Nat \ {0} /\ none \notin Nat

VARIABLES
  pool,     \* sessions: entries, the one used longest ago first
  entry,    \* every entry made: identity, sessionId, initializing, cachedTools
  handshake,\* every handshake: its entry, and pending, resolved or rejected
  call,     \* every dispatch: where it is, its entry, its attempt
  net,      \* requests on their way and answers on their way back
  server,   \* the server's sessions: the identity each is pinned to, and ready
  faults,   \* faults so far
  done      \* history: the call, the session's identity, its readiness, per effect

httpVars == <<pool, entry, handshake, call, net, server, faults, done>>

NotMade == [at |-> "idle", entry |-> 0, attempt |-> 1, init |-> 0]

HttpInit ==
  /\ pool = <<>> /\ entry = <<>> /\ handshake = <<>> /\ net = {} /\ server = <<>>
  /\ call = [c \in HttpCall |-> NotMade]
  /\ faults = 0 /\ done = <<>>

-----------------------------------------------------------------------------
(* The pool                                                                *)

\* Variant: every call uses the default session.
AnyKey(c) == DEFAULT_IDENTITY_KEY

KeyOf(c) == IF c \in Describe THEN DEFAULT_IDENTITY_KEY ELSE Caller[c]

\* Variant: the pool may exceed its limit by one.
FullOver(p) == Len(p) > maxPoolSize

Full(p) == Len(p) >= maxPoolSize

Holding(p, key) == SelectInSeq(p, LAMBDA e : entry[e].key = key)

Fresh == Len(entry) + 1

\* getOrCreateEntry on the pool p: the entry, and the pool with it last.
GetOrCreate(p, key) ==
  LET i == Holding(p, key) IN
  IF i # 0 THEN [entry |-> p[i], pool |-> Append(RemoveAt(p, i), p[i])]
  ELSE [entry |-> Fresh, pool |-> Append(IF Full(p) THEN Tail(p) ELSE p, Fresh)]

Evicted(p, key) ==
  LET i == Holding(p, key) IN IF i = 0 THEN p ELSE RemoveAt(p, i)

-----------------------------------------------------------------------------
(* Requests                                                                *)

Request(who, what, key, sid) ==
  [who |-> who, what |-> what, key |-> key, sid |-> sid, status |-> 0, given |-> none]

AnswerTo(r, status, given) ==
  [who |-> r.who, what |-> r.what, key |-> r.key, sid |-> r.sid, status |-> status, given |-> given]

Method(c) == IF c \in Describe THEN "tools/list" ELSE "tools/call"

Dispatch(c, sid) == Request(c, Method(c), KeyOf(c), sid)

\* What the call c does with the entry e it just took from the pool: ensureSession,
\* then the request or, for a description, the cache.  left: the rest of the net.
Proceed(c, e, attempt, left) ==
  LET old == e \in DOMAIN entry
      sid == IF old THEN entry[e].sid ELSE none
      ini == IF old THEN entry[e].init ELSE 0
      i   == IF ini = 0 THEN Len(handshake) + 1 ELSE ini
      new == [key |-> KeyOf(c), sid |-> none, init |-> i, tools |-> FALSE]
  IN  IF sid # none
      THEN /\ call' = [call EXCEPT ![c] =
                [at |-> IF c \in Describe /\ entry[e].tools THEN "ok" ELSE "posted",
                 entry |-> e, attempt |-> attempt, init |-> 0]]
           /\ net' = IF call'[c].at = "ok" THEN left ELSE left \cup {Dispatch(c, sid)}
           /\ UNCHANGED <<entry, handshake>>
      ELSE /\ call' = [call EXCEPT ![c] =
                [at |-> "waiting", entry |-> e, attempt |-> attempt, init |-> i]]
           /\ entry' = IF old THEN [entry EXCEPT ![e].init = i] ELSE Append(entry, new)
           /\ IF ini # 0 THEN net' = left /\ UNCHANGED handshake
              ELSE /\ handshake' = Append(handshake, [entry |-> e, state |-> "pending"])
                   /\ net' = left \cup {Request(i, "initialize", KeyOf(c), none)}

Start(c) ==
  /\ call[c].at = "idle"
  /\ LET g == GetOrCreate(pool, KeyOf(c)) IN
       pool' = g.pool /\ Proceed(c, g.entry, 1, net)
  /\ UNCHANGED <<server, faults, done>>

-----------------------------------------------------------------------------
(* The server, external: it pins a session to the identity of the request  *)
(* that opens it, forgets its sessions when it restarts, and may insist on *)
(* the end of the handshake before it serves a call.                       *)

Thrown == -1   \* no answer: fetch rejects

Valid(r) == r.sid # none /\ server[r.sid].alive

AnsweredWith(r, status, given) ==
  net' = (net \ {r}) \cup {AnswerTo(r, status, given)}

\* What the request does at the server.
Effect(r) ==
  CASE r.what = "initialize" ->
         server' = Append(server, [key |-> r.key, ready |-> FALSE, alive |-> TRUE])
         /\ UNCHANGED done
    [] r.what = "initialized" ->
         server' = [server EXCEPT ![r.sid].ready = TRUE] /\ UNCHANGED done
    [] r.what = "tools/call" ->
         done' = Append(done, [call |-> r.who, key |-> server[r.sid].key])
         /\ UNCHANGED server
    [] OTHER -> UNCHANGED <<server, done>>

Takes(r) == r.what = "initialize" \/ Valid(r)

Given(r) == IF r.what = "initialize" THEN Len(server) + 1 ELSE none

Serve(r) ==
  /\ r.status = 0 /\ Takes(r)
  /\ Effect(r) /\ AnsweredWith(r, 200, Given(r))
  /\ UNCHANGED <<pool, entry, handshake, call, faults>>

\* A forgotten session, or one whose handshake the server still waits for.
RefuseSession(r) ==
  /\ r.status = 0 /\ r.what # "initialize"
  /\ ~Valid(r) \/ (~server[r.sid].ready /\ r.what # "initialized")
  /\ AnsweredWith(r, 404, none)
  /\ UNCHANGED <<pool, entry, handshake, call, server, faults, done>>

Faulty == faults < MaxFaults /\ faults' = faults + 1 /\ UNCHANGED <<pool, entry, handshake, call>>

Restart ==
  /\ Faulty /\ \E s \in DOMAIN server : server[s].alive
  /\ server' = [s \in DOMAIN server |-> [server[s] EXCEPT !.alive = FALSE]]
  /\ UNCHANGED <<net, done>>

\* The request, or its answer, is lost; or the server fails, before or after the effect.
Lose(r) ==
  /\ Faulty /\ r.status = 0
  /\ \/ AnsweredWith(r, Thrown, none) /\ UNCHANGED <<server, done>>
     \/ Takes(r) /\ Effect(r) /\ AnsweredWith(r, Thrown, none)

Fail(r) ==
  /\ Faulty /\ r.status = 0
  /\ \/ AnsweredWith(r, 500, none) /\ UNCHANGED <<server, done>>
     \/ LateErrors /\ Takes(r) /\ Effect(r) /\ AnsweredWith(r, 500, Given(r))

-----------------------------------------------------------------------------
(* Answers.  The promise of a handshake settles with the last answer it    *)
(* needs; the calls that await it go on one by one.                        *)

\* Variant: a call that got no answer is sent again too.
StaleOrThrown(r) == r.status >= 400 \/ r.status = Thrown

Stale(r) == r.status >= 400

\* Variant: the promise of a failed handshake stays.
Kept(e, i) == entry[e]

\* The entry after a failed handshake: its promise is forgotten, unless another replaced it.
Cleared(e, i) == IF entry[e].init = i THEN [entry[e] EXCEPT !.init = 0] ELSE entry[e]

Settle(i, how) == handshake' = [handshake EXCEPT ![i].state = how]

InitReply(r) ==
  LET i == r.who
      e == handshake[i].entry
  IN
  /\ r.what = "initialize" /\ r.status # 0
  /\ IF r.status = 200
     THEN /\ entry' = [entry EXCEPT ![e].sid = r.given]
          /\ net' = (net \ {r}) \cup {Request(i, "initialized", r.key, r.given)}
          /\ UNCHANGED handshake
     ELSE /\ entry' = [entry EXCEPT ![e] = [Cleared(e, i) EXCEPT
               !.sid = IF r.given # none THEN r.given ELSE @]]
          /\ net' = net \ {r} /\ Settle(i, "rejected")
  /\ UNCHANGED <<pool, call, server, faults, done>>

\* Whatever status the notification is answered with, the handshake is over.
NotifReply(r) ==
  LET i == r.who
      e == handshake[i].entry
  IN
  /\ r.what = "initialized" /\ r.status # 0
  /\ net' = net \ {r}
  /\ IF r.status = Thrown
     THEN Settle(i, "rejected") /\ entry' = [entry EXCEPT ![e] = Cleared(e, i)]
     ELSE Settle(i, "resolved") /\ UNCHANGED entry
  /\ UNCHANGED <<pool, call, server, faults, done>>

Wake(c) ==
  LET e == call[c].entry IN
  /\ call[c].at = "waiting" /\ handshake[call[c].init].state # "pending"
  /\ IF handshake[call[c].init].state = "rejected" \/ (c \in Describe /\ entry[e].tools)
     THEN /\ call' = [call EXCEPT ![c].at =
               IF handshake[call[c].init].state = "rejected" THEN "failed" ELSE "ok"]
          /\ UNCHANGED net
     ELSE /\ call' = [call EXCEPT ![c].at = "posted"]
          /\ net' = net \cup {Dispatch(c, entry[e].sid)}
  /\ UNCHANGED <<pool, entry, handshake, server, faults, done>>

Reply(r) ==
  LET c == r.who
      again == Stale(r) /\ call[c].attempt = 1 /\ c \notin Describe
  IN
  /\ r.what \in {"tools/call", "tools/list"} /\ r.status # 0
  /\ IF again
     THEN LET g == GetOrCreate(Evicted(pool, KeyOf(c)), KeyOf(c)) IN
            pool' = g.pool /\ Proceed(c, g.entry, 2, net \ {r})
     ELSE /\ call' = [call EXCEPT ![c].at = IF r.status = 200 THEN "ok" ELSE "failed"]
          /\ entry' = IF c \in Describe /\ r.status = 200
                      THEN [entry EXCEPT ![call[c].entry].tools = TRUE] ELSE entry
          /\ net' = net \ {r} /\ UNCHANGED <<pool, handshake>>
  /\ UNCHANGED <<server, faults, done>>

Serving == \E r \in net : Serve(r) \/ RefuseSession(r)
Answering == \E r \in net : InitReply(r) \/ NotifReply(r) \/ Reply(r)

HttpNext ==
  \/ \E c \in HttpCall : Start(c) \/ Wake(c)
  \/ Serving \/ Answering
  \/ Restart \/ \E r \in net : Lose(r) \/ Fail(r)

\* The event loop and the network deliver, the server serves; nothing obliges a caller.
HttpFairness ==
  /\ WF_httpVars(Serving) /\ WF_httpVars(Answering)
  /\ \A c \in HttpCall : WF_httpVars(Start(c)) /\ WF_httpVars(Wake(c))

HttpSpec == HttpInit /\ [][HttpNext]_httpVars /\ HttpFairness

-----------------------------------------------------------------------------
(* Properties                                                              *)

Key == {DEFAULT_IDENTITY_KEY} \cup {Caller[c] : c \in HttpCall}
Sid == Nat \cup {none}

HttpTypeOK ==
  /\ entry \in Seq([key : Key, sid : Sid, init : Nat, tools : BOOLEAN])
  /\ pool \in Seq(Nat)
  /\ handshake \in Seq([entry : Nat, state : {"pending", "resolved", "rejected"}])
  /\ call \in [HttpCall -> [at : {"idle", "waiting", "posted", "ok", "failed"},
                       entry : Nat, attempt : {1, 2}, init : Nat]]
  /\ net \subseteq [who : HttpCall \cup Nat, key : Key, sid : Sid, given : Sid,
                    what : {"initialize", "initialized", "tools/call", "tools/list"},
                    status : {Thrown, 0, 200, 404, 500}]
  /\ server \in Seq([key : Key, ready : BOOLEAN, alive : BOOLEAN])
  /\ faults \in Nat
  /\ done \in Seq([call : HttpCall, key : Key])

\* Every effect of a tool call happens in a session the server pinned to the
\* identity the call was made for, whoever opened, shared or evicted the session.
PinnedIdentity == \A i \in DOMAIN done : done[i].key = Caller[done[i].call]

\* The pool keeps one entry per identity and never more than maxPoolSize,
\* through evictions and the entries that retries put in place of others.
PoolBounded ==
  /\ Len(pool) <= maxPoolSize
  /\ \A i, j \in DOMAIN pool : entry[pool[i]].key = entry[pool[j]].key => i = j

\* A call takes effect at most once, though its request may be lost, unanswered or
\* sent again after the server refused it (with ~LateErrors: an answer of 400 or
\* more reports that nothing was done).
NoDoubleEffect == IsInjective([i \in DOMAIN done |-> done[i].call])

\* Once the server stays up and no request or handshake is under way, every call
\* made from then on succeeds, whatever was lost or refused before: no entry is
\* wedged by a handshake that failed or by a session the server forgot.
Calm == faults = MaxFaults /\ net = {} /\ \A c \in HttpCall : call[c].at # "waiting"

Recovers ==
  \A c \in HttpCall \ Describe : Calm /\ call[c].at = "idle" ~> call[c].at = "ok"
=============================================================================
