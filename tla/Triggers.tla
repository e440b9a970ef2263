------------------------------- MODULE Triggers -------------------------------
(***************************************************************************)
(* The scheduler's trigger registry in its process: triggers.json, boot,   *)
(* the poll loop, and the request handlers of the MCP server and of the    *)
(* dashboard that change skills and triggers.                              *)
(*                                                                         *)
(* The process runs one turn of the event loop at a time.  A handler that  *)
(* awaits the SkillStore is split at its awaits: between two of its steps  *)
(* other handlers, polls and crashes can happen.  What a handler carries   *)
(* over an await in its local variables is its entry in `handler`.         *)
(***************************************************************************)
EXTENDS Registry, FiniteSets

CONSTANTS
  Handler,      \* requests that can be in flight at once
  Matches,      \* [Cron -> SUBSET Nat]: the minutes a cron expression matches
  Calls,        \* arguments of register_trigger the clients use
  Stores,       \* initial contents of the SkillStore
  Requests,     \* the kinds of request there are, a subset of Kind
  ClientIds,    \* bound: register_trigger stops at this id, below MaxId, so
                \* that wiring at boot never runs out of ids
  MaxTime,      \* bound: the clock, in ticks of half a minute
  MaxFaults,    \* bound: failing writes of triggers.json
  MaxCrashes    \* bound: crashes of the process

Status == {"Draft", "Approved", "Disabled"}

\* The requests that await the SkillStore; "bridge" is `$ skill_write` in a
\* running skill.
Kind == {"register", "status", "write", "approve", "delete", "bridge"}

NoBody == "no body"               \* load() found no skill

\* update_status and store write the file and its header together here; their
\* own crash points and races belong to the SkillStore's module.
SkillRecord == [status : {"Absent"}, body : {NoBody}] \cup [status : Status, body : Body]

Missing == [status |-> "Absent", body |-> NoBody]

Call == [skill : Skill, source : {"cron"}, name : Cron, expires : Nat \cup {Never}]
          \cup [skill : Skill, source : {"event"}, name : Event, expires : Nat \cup {Never}]

ASSUME TriggersAssumption ==
  /\ NoBody \notin Body
  /\ Matches \in [Cron -> SUBSET Nat]
  /\ Calls \subseteq Call
  /\ Stores \subseteq [Skill -> SkillRecord]
  /\ Requests \subseteq Kind
  /\ ClientIds \in 0 .. MaxId
  /\ MaxTime \in Nat /\ MaxFaults \in Nat /\ MaxCrashes \in Nat

-----------------------------------------------------------------------------
VARIABLES
  now,          \* the clock
  running,      \* the process is up (booting or serving)
  toWire,       \* boot: Approved skills wireDeclarativeTriggers has yet to wire
  triggers,     \* Scheduler.triggers
  nextId,       \* Scheduler.nextId
  cronState,    \* Scheduler.cronState: the last minute an id fired in, or -1
  file,         \* triggers.json: readable or not, and its rows
  skills,       \* the SkillStore
  handler,      \* the request in flight in each slot
  faults,       \* failed writes so far
  crashes,      \* crashes so far
  (* History, read by properties only. *)
  saved,        \* the last write of triggers.json succeeded
  overtaken,    \* imperative ids a declared trigger displaced since that write
  cut,          \* declared triggers taken out of service by a client or a rebind
  raced,        \* skills whose latest requests overlapped, or that a running
                \* skill rewrote, since the last request that had them alone
  fires,        \* cron fires of a schedule in this minute
  stints        \* registrations of it that have been in service in this minute, if it matches

registry == <<triggers, nextId, cronState>>
disk     == <<file, saved, overtaken, faults>>
tally    == <<fires, stints>>
vars     == <<now, running, toWire, registry, disk, skills, handler, crashes, cut, raced,
              tally>>

-----------------------------------------------------------------------------
(* Helpers *)

TicksPerMinute == 2               \* the default poll interval is 30 s
Minute == now \div TicksPerMinute

Idle == [at |-> "idle"]
Busy ==
  [at : {"registering"}, call : Call, body : Body \cup {NoBody}]
    \cup [at : {"stored"}, skill : Skill, status : Status]
    \cup [at : {"loaded"}, skill : Skill, status : Status, body : Body \cup {NoBody}]
    \cup [at : {"approving", "approved"}, skill : Skill, body : Body]
    \cup [at : {"deleted"}, skill : Skill]

Serving == running /\ toWire = {}

Unreadable == [ok |-> FALSE, rows |-> <<>>]
NoFile     == [ok |-> TRUE, rows |-> <<>>]

\* The declarations of T that no longer serve once only `kept` is left.
Key(t) == <<t.skill, t.source, t.name>>
Lost(T, kept) == {Key(T[i]) : i \in {j \in DOMAIN T \ kept : T[j].declarative}}

\* onTriggersChanged: writePersistedTriggers overwrites the file in place; a
\* failure leaves it as it was or unreadable and is only logged.
Save(T) ==
  \/ /\ file' = [ok |-> TRUE, rows |-> Rows(T)]
     /\ saved' = TRUE
     /\ overtaken' = {}
     /\ UNCHANGED faults
  \/ /\ faults < MaxFaults
     /\ faults' = faults + 1
     /\ file' \in {file, Unreadable}
     /\ saved' = FALSE
     /\ UNCHANGED overtaken

\* Variant: the write is left out.
SaveSkipped(changed, T) == UNCHANGED disk

SaveIf(changed, T) == IF changed THEN Save(T) ELSE UNCHANGED disk

\* A cron expression of a skill, and its registrations in T, whatever their ids,
\* when it matches minute m.
Schedule == Skill \X Cron
On(T, k, m) ==
  {i \in DOMAIN T : /\ T[i].source = "cron"
                    /\ <<T[i].skill, T[i].name>> = k
                    /\ m \in Matches[T[i].name]}

\* History: the registrations this step brings into service.
CountStints ==
  stints' = [k \in Schedule |->
              stints[k] + Cardinality(On(triggers', k, Minute) \ DOMAIN triggers)]

\* k registrations take the next k ids.
TakeIds(k) == nextId' = nextId + k

\* cronState entries go with their trigger.
ForgetCron(ids) == [i \in Id |-> IF i \in ids THEN -1 ELSE cronState[i]]

\* Registering declared triggers on top of `kept` does not call the hook.
RegisterDeclared(kept, qs) ==
  LET all == RegisterAll(kept, nextId, qs)
      gone == DOMAIN triggers \ DOMAIN all
  IN /\ nextId + Len(qs) <= MaxId + 1
     /\ triggers' = all
     /\ TakeIds(Len(qs))
     /\ cronState' = ForgetCron(gone)
     /\ overtaken' = overtaken \cup (gone \cap Imperative(triggers))
     /\ CountStints
     /\ UNCHANGED <<file, saved, faults>>

-----------------------------------------------------------------------------
Init ==
  /\ now = 0
  /\ running = FALSE
  /\ toWire = {}
  /\ triggers = <<>>
  /\ nextId = 1
  /\ cronState = [i \in Id |-> -1]
  /\ file = NoFile
  /\ skills \in Stores
  /\ handler = [h \in Handler |-> Idle]
  /\ faults = 0
  /\ crashes = 0
  /\ saved = TRUE
  /\ overtaken = {}
  /\ cut = {}
  /\ raced = {}
  /\ fires = [k \in Schedule |-> 0]
  /\ stints = [k \in Schedule |-> 0]

(***************************************************************************)
(* Boot and crash                                                          *)
(***************************************************************************)
Unexpired == {i \in DOMAIN file.rows : ~Expired(file.rows[i], now)}

\* Variant: seeded ids leave nextId alone.
RaisedNowhere(ids) == nextId' = 1

\* A seeded id raises nextId above itself.
RaisedAbove(ids) ==
  /\ nextId' \in 1 .. MaxId + 1
  /\ \A i \in ids : i < nextId'
  /\ nextId' = 1 \/ nextId' - 1 \in ids

\* Variant: the query finds nothing.
NoneApproved == {}

\* safeQueryApproved.
Approved == {s \in Skill : skills[s].status = "Approved"}

\* bootstrap -> hydratePersistedTriggers.  An unreadable file is ignored.
\* Expired rows are pruned and the file is rewritten when there are any.
Boot ==
  /\ ~running
  /\ running' = TRUE
  /\ triggers' = [i \in Unexpired |-> FromRow(file.rows[i])]
  /\ RaisedAbove(Unexpired)
  /\ file' = [file EXCEPT !.rows = Only(file.rows, Unexpired)]
  /\ saved' = TRUE
  /\ overtaken' = {}
  /\ toWire' = Approved
  /\ CountStints
  /\ UNCHANGED <<now, cronState, skills, handler, faults, crashes, cut, raced, fires>>

\* The rewrite is not guarded: when it throws, bootstrap throws.
BootFails ==
  /\ ~running
  /\ Unexpired # DOMAIN file.rows
  /\ faults < MaxFaults
  /\ faults' = faults + 1
  /\ file' \in {file, Unreadable}
  /\ UNCHANGED <<now, running, toWire, registry, saved, overtaken, skills, handler,
                 crashes, cut, raced, tally>>

\* One turn of wireDeclarativeTriggers' loop.  bootstrapFromEnv waits for the
\* loop before it serves requests or starts polling.
WireSkill(s) ==
  /\ running
  /\ s \in toWire
  /\ toWire' = toWire \ {s}
  /\ RegisterDeclared(triggers, DeclaredBy(s, skills[s].body))
  /\ cut' = cut \cup Lost(triggers, DOMAIN triggers')
  /\ UNCHANGED <<now, running, skills, handler, crashes, raced, fires>>

\* Nothing of the process is left: cronState is in memory only.
Crash ==
  /\ running
  /\ crashes < MaxCrashes
  /\ crashes' = crashes + 1
  /\ running' = FALSE
  /\ toWire' = {}
  /\ triggers' = <<>>
  /\ nextId' = 1
  /\ cronState' = [i \in Id |-> -1]
  /\ handler' = [h \in Handler |-> Idle]
  /\ cut' = {}
  /\ raced' = {}
  /\ UNCHANGED <<now, disk, skills, tally>>

(***************************************************************************)
(* The clock and the poll loop                                             *)
(***************************************************************************)
Advance ==
  /\ now < MaxTime
  /\ now' = now + 1
  /\ IF Minute' = Minute
     THEN UNCHANGED tally
     ELSE /\ fires' = [k \in Schedule |-> 0]
          /\ stints' = [k \in Schedule |-> Cardinality(On(triggers, k, Minute'))]
  /\ UNCHANGED <<running, toWire, registry, disk, skills, handler, crashes, cut, raced>>

DueAt(i) == /\ triggers[i].source = "cron"
            /\ triggers[i].enabled
            /\ cronState[i] # Minute
            /\ Minute \in Matches[triggers[i].name]

\* Variant: the evaluation does not look at cronState.
DueEveryPoll(left) ==
  {i \in left : /\ triggers[i].source = "cron"
                /\ triggers[i].enabled
                /\ Minute \in Matches[triggers[i].name]}

Due(left) == {i \in left : DueAt(i)}

\* tick(), up to the dispatch of the due triggers: the expiry sweep, then the
\* cron evaluation of what it leaves.
Tick ==
  LET left == {i \in DOMAIN triggers : ~Expired(triggers[i], now)}
      due  == Due(left)
  IN /\ Serving
     /\ triggers' = Only(triggers, left)
     /\ cronState' = [i \in Id |-> IF i \in due THEN Minute
                                   ELSE IF i \in DOMAIN triggers \ left THEN -1
                                   ELSE cronState[i]]
     /\ fires' = [k \in Schedule |-> fires[k] + Cardinality(due \cap On(triggers, k, Minute))]
     /\ SaveIf((DOMAIN triggers \ left) \cap Imperative(triggers) # {}, triggers')
     /\ UNCHANGED <<now, running, toWire, nextId, skills, handler, crashes, cut, raced, stints>>

(***************************************************************************)
(* Trigger tools: register_trigger, unregister_trigger, set_trigger_enabled *)
(***************************************************************************)
\* For an event the tool first loads the skill, to take its parameters.
RegisterLoad(h, c) ==
  /\ "register" \in Requests
  /\ Serving
  /\ handler[h] = Idle
  /\ c.source = "event"
  /\ handler' = [handler EXCEPT ![h] =
                  [at |-> "registering", call |-> c, body |-> skills[c.skill].body]]
  /\ UNCHANGED <<now, running, toWire, registry, disk, skills, crashes, cut, raced, tally>>

ParamsOf(b) == IF b = NoBody THEN {} ELSE Vars[b]

\* Variant: the event name is kept as the client spells it.
AsSpelled(c, params) ==
  [skill |-> c.skill, source |-> c.source, name |-> c.name, params |-> params,
   expires |-> c.expires, declarative |-> FALSE, enabled |-> TRUE]

CalledFor(c, params) ==
  [skill |-> c.skill, source |-> c.source, name |-> Normalized(c.source, c.name),
   params |-> params, expires |-> c.expires, declarative |-> FALSE, enabled |-> TRUE]

\* Scheduler.registerTrigger with declarative: false.
RegisterTrigger(c, params) ==
  LET all == RegisterAll(triggers, nextId, <<CalledFor(c, params)>>)
  IN /\ nextId <= ClientIds
     /\ triggers' = all
     /\ TakeIds(1)
     /\ cronState' = ForgetCron(DOMAIN triggers \ DOMAIN all)
     /\ cut' = cut \cup Lost(triggers, DOMAIN all)
     /\ CountStints
     /\ Save(all)

RegisterEvent(h) ==
  /\ Serving
  /\ handler[h].at = "registering"
  /\ RegisterTrigger(handler[h].call, ParamsOf(handler[h].body))
  /\ handler' = [handler EXCEPT ![h] = Idle]
  /\ UNCHANGED <<now, running, toWire, skills, crashes, raced, fires>>

RegisterCron(c) ==
  /\ Serving
  /\ c.source = "cron"
  /\ RegisterTrigger(c, {})
  /\ UNCHANGED <<now, running, toWire, skills, handler, crashes, raced, fires>>

UnregisterTrigger(i) ==
  /\ Serving
  /\ i \in DOMAIN triggers
  /\ triggers' = Without(triggers, {i})
  /\ cronState' = ForgetCron({i})
  /\ cut' = cut \cup Lost(triggers, DOMAIN triggers \ {i})
  /\ SaveIf(~triggers[i].declarative, triggers')
  /\ UNCHANGED <<now, running, toWire, nextId, skills, handler, crashes, raced, tally>>

SetTriggerEnabled(i, on) ==
  /\ Serving
  /\ i \in DOMAIN triggers
  /\ triggers[i].enabled # on
  /\ triggers' = [triggers EXCEPT ![i].enabled = on]
  /\ cut' = IF ~triggers[i].declarative THEN cut
            ELSE IF on THEN cut \ {Key(triggers[i])} ELSE cut \cup {Key(triggers[i])}
  /\ SaveIf(~triggers[i].declarative, triggers')
  /\ UNCHANGED <<now, running, toWire, nextId, cronState, skills, handler, crashes, raced, tally>>

(***************************************************************************)
(* Skill handlers: skill_status, skill_write, POST /approve, POST /delete  *)
(***************************************************************************)
\* History: a request on s begins.
Started(s) ==
  raced' = IF \E g \in Handler : handler[g].at \notin {"idle", "registering"} /\ handler[g].skill = s
           THEN raced \cup {s} ELSE raced \ {s}

\* skill_status: the store's update_status, the first await.
StatusStore(h, s, st) ==
  /\ "status" \in Requests
  /\ Serving
  /\ handler[h] = Idle
  /\ Started(s)
  /\ skills[s].status # "Absent"
  /\ skills' = [skills EXCEPT ![s].status = st]
  /\ handler' = [handler EXCEPT ![h] = [at |-> "stored", skill |-> s, status |-> st]]
  /\ UNCHANGED <<now, running, toWire, registry, disk, crashes, cut, tally>>

\* The status store() gives a body: a new skill has the one its body declares
\* (Draft when an Approved one has no signature in secured mode), an existing
\* skill keeps its own, but an Approved one falls to Draft when secured mode
\* finds the new body unsigned.
WrittenStatus(s) ==
  CASE skills[s].status = "Absent"   -> Status
    [] skills[s].status = "Approved" -> {"Approved", "Draft"}
    [] OTHER                         -> {skills[s].status}

WriteStore(h, s, b) ==
  /\ "write" \in Requests
  /\ Serving
  /\ handler[h] = Idle
  /\ Started(s)
  /\ \E st \in WrittenStatus(s) :
       /\ skills' = [skills EXCEPT ![s] = [status |-> st, body |-> b]]
       /\ handler' = [handler EXCEPT ![h] = [at |-> "stored", skill |-> s, status |-> st]]
  /\ UNCHANGED <<now, running, toWire, registry, disk, crashes, cut, tally>>

\* `$ skill_write` in a running skill: the bridge makes the body a Draft, stores
\* it, and does not sync.
DraftedStatus(s) == IF skills[s].status = "Absent" THEN {"Draft"} ELSE WrittenStatus(s)

BridgeWrite(s, b) ==
  /\ "bridge" \in Requests
  /\ Serving
  /\ \E st \in DraftedStatus(s) :
       skills' = [skills EXCEPT ![s] = [status |-> st, body |-> b]]
  /\ raced' = raced \cup {s}
  /\ UNCHANGED <<now, running, toWire, registry, disk, handler, crashes, cut, tally>>

\* syncTriggersForSkill, up to its load(): the status is the one the handler
\* stored, the body whatever the store holds now.
SyncLoad(h) ==
  /\ Serving
  /\ handler[h].at = "stored"
  /\ handler' = [handler EXCEPT ![h] =
                  [at |-> "loaded", skill |-> handler[h].skill,
                   status |-> handler[h].status, body |-> skills[handler[h].skill].body]]
  /\ UNCHANGED <<now, running, toWire, registry, disk, skills, crashes, cut, raced, tally>>

\* Variant: every skill's declared triggers go.
KeptImperative(s, st) == Only(triggers, Imperative(triggers))

KeptBySync(s, st) == Without(triggers, DeclarativeOf(triggers, s))

\* Scheduler.syncDeclarativeTriggersForSkill: the declared triggers of s are
\* dropped and, for an Approved skill, those of the body are registered.
SyncDeclarativeTriggers(s, b, st) ==
  LET kept == KeptBySync(s, st)
      qs   == IF st = "Approved" /\ b # NoBody THEN DeclaredBy(s, b) ELSE <<>>
      taken == Lost(kept, Untaken(kept, qs))
  IN /\ RegisterDeclared(kept, qs)
     /\ cut' = {k \in cut : k[1] # s} \cup taken

SyncApply(h) ==
  /\ Serving
  /\ handler[h].at = "loaded"
  /\ SyncDeclarativeTriggers(handler[h].skill, handler[h].body, handler[h].status)
  /\ handler' = [handler EXCEPT ![h] = Idle]
  /\ UNCHANGED <<now, running, toWire, skills, crashes, raced, fires>>

\* POST /approve loads the body, signs what it loaded, stores that as Approved
\* and syncs with it.
ApproveLoad(h, s) ==
  /\ "approve" \in Requests
  /\ Serving
  /\ handler[h] = Idle
  /\ Started(s)
  /\ skills[s].status # "Absent"
  /\ handler' = [handler EXCEPT ![h] =
                  [at |-> "approving", skill |-> s, body |-> skills[s].body]]
  /\ UNCHANGED <<now, running, toWire, registry, disk, skills, crashes, cut, tally>>

ApproveStore(h) ==
  /\ Serving
  /\ handler[h].at = "approving"
  /\ skills' = [skills EXCEPT ![handler[h].skill] =
                 [status |-> "Approved", body |-> handler[h].body]]
  /\ handler' = [handler EXCEPT ![h].at = "approved"]
  /\ UNCHANGED <<now, running, toWire, registry, disk, crashes, cut, raced, tally>>

ApproveApply(h) ==
  /\ Serving
  /\ handler[h].at = "approved"
  /\ SyncDeclarativeTriggers(handler[h].skill, handler[h].body, "Approved")
  /\ handler' = [handler EXCEPT ![h] = Idle]
  /\ UNCHANGED <<now, running, toWire, skills, crashes, raced, fires>>

\* POST /delete with force.
DeleteStore(h, s) ==
  /\ "delete" \in Requests
  /\ Serving
  /\ handler[h] = Idle
  /\ Started(s)
  /\ skills[s].status # "Absent"
  /\ skills' = [skills EXCEPT ![s] = Missing]
  /\ handler' = [handler EXCEPT ![h] = [at |-> "deleted", skill |-> s]]
  /\ UNCHANGED <<now, running, toWire, registry, disk, crashes, cut, tally>>

\* Scheduler.dropAllTriggersForSkill.
DropAllTriggers(h) ==
  LET s    == handler[h].skill
      gone == AllOf(triggers, s)
  IN /\ Serving
     /\ handler[h].at = "deleted"
     /\ triggers' = Without(triggers, gone)
     /\ cronState' = ForgetCron(gone)
     /\ SaveIf(gone \cap Imperative(triggers) # {}, triggers')
     /\ cut' = {k \in cut : k[1] # s}
     /\ handler' = [handler EXCEPT ![h] = Idle]
     /\ UNCHANGED <<now, running, toWire, nextId, skills, crashes, raced, tally>>

-----------------------------------------------------------------------------
Request(h) ==
  \/ \E c \in Calls : RegisterLoad(h, c)
  \/ \E s \in Skill :
       \/ \E st \in Status : StatusStore(h, s, st)
       \/ \E b \in Body : WriteStore(h, s, b)
       \/ ApproveLoad(h, s)
       \/ DeleteStore(h, s)

Continue(h) ==
  \/ RegisterEvent(h)
  \/ SyncLoad(h)
  \/ SyncApply(h)
  \/ ApproveStore(h)
  \/ ApproveApply(h)
  \/ DropAllTriggers(h)

Next ==
  \/ Boot
  \/ BootFails
  \/ \E s \in Skill : WireSkill(s)
  \/ Crash
  \/ Advance
  \/ Tick
  \/ \E c \in Calls : RegisterCron(c)
  \/ \E i \in Id : UnregisterTrigger(i)
  \/ \E i \in Id, on \in BOOLEAN : SetTriggerEnabled(i, on)
  \/ \E s \in Skill, b \in Body : BridgeWrite(s, b)
  \/ \E h \in Handler : Request(h) \/ Continue(h)

Spec == Init /\ [][Next]_vars
-----------------------------------------------------------------------------
(* Properties *)

ProcessType ==
  /\ now \in 0 .. MaxTime
  /\ running \in BOOLEAN
  /\ toWire \in SUBSET Skill
  /\ skills \in [Skill -> SkillRecord]
  /\ handler \in [Handler -> Busy \cup {Idle}]
  /\ crashes \in 0 .. MaxCrashes
  /\ raced \in SUBSET Skill

TallyType == fires \in [Schedule -> Nat] /\ stints \in [Schedule -> Nat]

RegistryType ==
  /\ nextId \in 1 .. MaxId + 1
  /\ DOMAIN triggers \subseteq 1 .. nextId - 1
  /\ triggers \in [DOMAIN triggers -> Registration]
  /\ cronState \in [Id -> Nat \cup {-1}]
  /\ TallyType
  /\ cut \in SUBSET (Skill \X Source \X (Cron \cup Event))

DiskType ==
  /\ file.ok \in BOOLEAN
  /\ file = [ok |-> file.ok, rows |-> file.rows]
  /\ DOMAIN file.rows \subseteq Id
  /\ file.rows \in [DOMAIN file.rows -> Row]
  /\ faults \in 0 .. MaxFaults
  /\ saved \in BOOLEAN
  /\ overtaken \in SUBSET Id

\* Every variable has its type; triggers is a map from ids the scheduler has
\* handed out, so a registration never lands on an id that is still to come.
TypeOK == ProcessType /\ RegistryType /\ DiskType

\* An event name belongs to at most one registration, in any spelling and
\* whoever registered it: fireEvent's "exactly one skill".
OneHolder(T) ==
  \A i, j \in DOMAIN T :
    T[i].source = "event" /\ T[j].source = "event" /\ Lower[T[i].name] = Lower[T[j].name]
      => i = j

EventNameUnique == OneHolder(triggers)

\* r is a row of t, written at some time.
IsRowOf(r, t) == ~t.declarative /\ \E on \in BOOLEAN : r = [RowOf(t) EXCEPT !.enabled = on]

\* What is on disk under an id is never another trigger than what is in memory
\* under that id: an id that a client was given, kept over a restart, and uses
\* in unregister_trigger cannot name somebody else's trigger while its own row
\* is still stored.
RowIdentity ==
  running => \A i \in DOMAIN file.rows \cap DOMAIN triggers :
               IsRowOf(file.rows[i], triggers[i])

\* Two stored rows never claim one event name: hydration, which registers the
\* rows in file order, brings every one of them back.
StoredNamesUnique == OneHolder(file.rows)

\* No imperative trigger that is live is missing from triggers.json, or stored
\* there with another state, unless the last write failed: a crash at any
\* moment loses none of the registrations acknowledged to clients.
ImperativeDurable ==
  running /\ saved =>
    \A i \in Imperative(triggers) : /\ i \in DOMAIN file.rows
                                    /\ file.rows[i] = RowOf(triggers[i])

\* A row that is on disk and not in memory, which the next boot resurrects,
\* is one a declared trigger displaced: unregistered, expired and rebound
\* triggers and those of a deleted skill stay dead over a restart.
OnlyOvertakenResurrect ==
  running /\ saved => DOMAIN file.rows \ Imperative(triggers) \subseteq overtaken

\* triggers.json says of the registry what a restart needs to know, no less and
\* no more (trigger-persistence.ts).
FileAgrees == ImperativeDurable /\ OnlyOvertakenResurrect

\* A registration fires at most once in a minute: a schedule fires no more often
\* than it has had registrations in service in that minute, however often the loop
\* polls and whatever is toggled, unregistered, expired or synced in between.  Only
\* a registration under a new id, by a sync, a client or a boot, can fire it again:
\* it has no cronState.
FiresOncePerStint == \A k \in Schedule : fires[k] <= stints[k]

Quiescent == Serving /\ \A h \in Handler : handler[h] = Idle

\* The declarative triggers of s are those the stored body declares, if s is
\* Approved, with the parameters of that body.
SoundFor(s) ==
  \A i \in DeclarativeOf(triggers, s) :
    /\ skills[s].status = "Approved"
    /\ \E k \in 1 .. Len(Decl[skills[s].body]) :
         [triggers[i] EXCEPT !.enabled = TRUE] = DeclaredBy(s, skills[s].body)[k]

\* Every trigger that s, if Approved, declares is in service: a cron trigger
\* is registered and enabled, and a POST of the event, in any spelling, with
\* the parameters of the stored body is handed to s and to no other skill;
\* unless a client or another registration took it out of service.
LiveFor(s) ==
  skills[s].status = "Approved" =>
    \A k \in 1 .. Len(Decl[skills[s].body]) :
      LET q == DeclaredBy(s, skills[s].body)[k]
      IN \/ Key(q) \in cut
         \/ q.source = "cron" /\ \E i \in DOMAIN triggers : triggers[i] = q
         \/ /\ q.source = "event"
            /\ \A e \in Event :
                 Lower[e] = q.name => FiredBy(triggers, e, Vars[skills[s].body]) = {s}

\* When no request is in flight, no skill has a declarative trigger left over
\* from a status or a body it no longer has, so nothing fires it; for skills
\* whose requests did not overlap.
DeclarativeSound == Quiescent => \A s \in Skill \ raced : SoundFor(s)

\* When no request is in flight, the triggers an Approved skill declares are
\* in service, after any approval, edit, deletion or restart; for skills whose
\* requests did not overlap.
DeclarativeLive == Quiescent => \A s \in Skill \ raced : LiveFor(s)

\* What fires for a skill is what its stored body and status say, no more and
\* no less.
DeclarativeServed == DeclarativeSound /\ DeclarativeLive

(* Liveness *)

\* Request handlers and boot run to their end: the SkillStore answers and the
\* event loop goes round.  Nothing makes requests, polls or restarts happen.
Fairness ==
  /\ \A h \in Handler : WF_vars(Continue(h))
  /\ \A s \in Skill : WF_vars(WireSkill(s))

FairSpec == Spec /\ Fairness

\* The bound on ids can stop a sync; the code has no such bound.
IdsSpent == \E b \in Body : nextId + Len(Decl[b]) > MaxId + 1

\* An Approved skill's triggers come into service, without a restart, as long
\* as the skill stays Approved and the process stays up.
ComesIntoService ==
  \A s \in Skill :
    running /\ skills[s].status = "Approved"
      ~> \/ Serving /\ LiveFor(s)
         \/ skills[s].status # "Approved"
         \/ ~running
         \/ s \in raced
         \/ IdsSpent

-----------------------------------------------------------------------------
(* What the repository says of the program and the program does not do.    *)

\* mcp-server.ts: "mid-session status changes are live immediately, no
\* restart": DeclarativeLive for every skill, whatever requests overlap.
StatusChangesLive == Quiescent => \A s \in Skill : LiveFor(s)
=============================================================================
