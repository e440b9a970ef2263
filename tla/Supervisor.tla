------------------------------ MODULE Supervisor ------------------------------
(***************************************************************************)
(* The failure supervisor: every poll tick ends with a sweep that reads    *)
(* the trace records completed since the last one, runs the handler skill  *)
(* about each failed run it has not yet notified, and saves its cursor and *)
(* its notified-set in a sidecar file.                                     *)
(*                                                                         *)
(* A tick does not wait for the previous one, so sweeps overlap when the   *)
(* handler skill, or a fire of the tick, takes longer than the poll        *)
(* interval.  A sweep is split at its awaits.                              *)
(***************************************************************************)
EXTENDS Integers, Sequences

CONSTANTS
  Run,         \* runs of skills that are traced
  Kind,        \* [Run -> {"fire", "handler", "child"}]: an autonomous fire, a
               \* run of the handler skill, a run composed by the handler
  Trace,       \* [Run -> trace ids]; a run composed by an event's run has its id
  Sweep,       \* sweeps that can be under way at once
  NoRun,       \* not a run
  Margin,      \* SWEEP_MARGIN_MS
  WriteDelay,  \* longest time between a run's end and its record on disk
  ScanTime,    \* longest time a query takes
  MaxTime,     \* bound: the clock
  MaxCrashes   \* bound: crashes of the process

ASSUME KindAssumption == Kind \in [Run -> {"fire", "handler", "child"}]
ASSUME TraceAssumption == DOMAIN Trace = Run
ASSUME NoRunAssumption == NoRun \notin Run
ASSUME DelayAssumption ==
  /\ Margin \in Nat /\ WriteDelay \in Nat /\ ScanTime \in Nat
  /\ WriteDelay + ScanTime <= Margin
ASSUME BoundAssumption == MaxTime \in Nat /\ MaxCrashes \in Nat

VARIABLES
  now,         \* the clock
  run,         \* [Run -> how far it is, whether it failed, when it ended]
  cursor,      \* SweeperState.cursorMs
  notified,    \* SweeperState.notified: trace id -> completion time
  loaded,      \* Scheduler.sweeperStateLoaded
  queue,       \* SweeperState.writeChain: snapshots to be written
  file,        \* the sidecar file
  sweep,       \* [Sweep -> how far it is]
  crashes,     \* crashes so far
  alerts       \* history, [Run -> Nat]: dispatches of the handler skill about a run

memory == <<cursor, notified, loaded, queue>>
vars   == <<now, run, memory, file, sweep, crashes, alerts>>

TraceId == {Trace[r] : r \in Run}
Empty   == [i \in {} |-> 0]
Idle       == [at |-> "idle"]
Persisting == [at |-> "persisting"]

-----------------------------------------------------------------------------
(* Helpers *)

\* markNotified for every run of S.
Marked(N, S) ==
  [i \in DOMAIN N \cup {Trace[r] : r \in S} |->
     IF \E r \in S : Trace[r] = i THEN run[CHOOSE r \in S : Trace[r] = i].done ELSE N[i]]

\* Variant: nothing goes.
PrunedNot(N, floor) == N

\* Variant: an entry at the floor goes too.
PrunedThrough(N, floor) == [i \in {j \in DOMAIN N : N[j] > floor} |-> N[i]]

\* prune: entries below the floor go.
Pruned(N, floor) == [i \in {j \in DOMAIN N : N[j] >= floor} |-> N[i]]

\* Variant: the query starts at the cursor.
SinceCursor(c) == c

Since(c) == IF c < Margin THEN 0 ELSE c - Margin

\* The records a query for runs completed at or after `since` finds on disk.
Stored(since) == {r \in Run : run[r].at = "stored" /\ run[r].done >= since}

\* The records of `todo` the loop passes over without an await: a notified
\* run, a clean one, or a run of the handler skill itself.
Skipped(todo, N) ==
  {r \in todo : Trace[r] \in DOMAIN N \/ ~run[r].bad \/ Kind[r] = "handler"}

\* Of those, the failed handler runs are marked as notified.
Floored(S, N) == {r \in S : Trace[r] \notin DOMAIN N /\ run[r].bad}

\* Handler runs that no dispatch has used.
Fresh == {h \in Run : /\ Kind[h] = "handler"
                      /\ run[h].at = "none"
                      /\ \A q \in Sweep : sweep[q].at = "routing" => sweep[q].by # h}

-----------------------------------------------------------------------------
Init ==
  /\ now = 0
  /\ run = [r \in Run |-> [at |-> "none", bad |-> FALSE, done |-> 0]]
  /\ cursor = 0
  /\ notified = Empty
  /\ loaded = FALSE
  /\ queue = <<>>
  /\ file = [cursor |-> 0, notified |-> Empty]
  /\ sweep = [p \in Sweep |-> Idle]
  /\ crashes = 0
  /\ alerts = [r \in Run |-> 0]

(***************************************************************************)
(* Runs and their trace records                                            *)
(***************************************************************************)
\* A handler run takes place in the sweep that dispatched it, a run composed
\* by the handler within a handler run.
CanEnd(r) ==
  CASE Kind[r] = "fire"    -> TRUE
    [] Kind[r] = "handler" -> \E p \in Sweep : sweep[p].at = "routing" /\ sweep[p].by = r
    [] Kind[r] = "child"   -> \E p \in Sweep : /\ sweep[p].at = "routing"
                                               /\ sweep[p].by # NoRun
                                               /\ run[sweep[p].by].at = "none"

\* TraceBuilder.finalize takes the completion time; the record is written, or
\* lost, later.
RunEnds(r, bad) ==
  /\ run[r].at = "none"
  /\ CanEnd(r)
  /\ run' = [run EXCEPT ![r] = [at |-> "writing", bad |-> bad, done |-> now]]
  /\ UNCHANGED <<now, memory, file, sweep, crashes, alerts>>

RecordWritten(r) ==
  /\ run[r].at = "writing"
  /\ \E to \in {"stored", "lost"} : run' = [run EXCEPT ![r].at = to]
  /\ UNCHANGED <<now, memory, file, sweep, crashes, alerts>>

\* Writes of records and queries do not take for ever.
Advance ==
  /\ now < MaxTime
  /\ \A r \in Run : run[r].at = "writing" => now < run[r].done + WriteDelay
  /\ \A p \in Sweep : sweep[p].at = "querying" => now < sweep[p].from + ScanTime
  /\ now' = now + 1
  /\ UNCHANGED <<run, memory, file, sweep, crashes, alerts>>

(***************************************************************************)
(* The sweep                                                               *)
(***************************************************************************)
Querying(c) ==
  [at |-> "querying", since |-> Since(c), from |-> now, seen |-> Stored(Since(c))]

StartSweep(p) ==
  /\ sweep[p] = Idle
  /\ sweep' = [sweep EXCEPT ![p] = IF loaded THEN Querying(cursor) ELSE [at |-> "loading"]]
  /\ UNCHANGED <<now, run, memory, file, crashes, alerts>>

\* SweeperState.load, in every sweep that starts before the first one is
\* through with it; entries of the file are added to the notified-set, and a file
\* that cannot be read is passed over.
Load(p) ==
  /\ sweep[p].at = "loading"
  /\ loaded' = TRUE
  /\ \/ /\ cursor' = file.cursor
        /\ notified' = [i \in DOMAIN notified \cup DOMAIN file.notified |->
                          IF i \in DOMAIN file.notified THEN file.notified[i] ELSE notified[i]]
     \/ UNCHANGED <<cursor, notified>>
  /\ sweep' = [sweep EXCEPT ![p] = Querying(cursor')]
  /\ UNCHANGED <<now, run, queue, file, crashes, alerts>>

\* advanceCursor never moves back.
Advanced(max) == IF max > cursor THEN max ELSE cursor

\* The loop over the records still to do, up to its next await: the dispatch
\* of the handler skill about r, or persist() when nothing is left to route.
\* The handler may be missing or unapproved; its run is then none.
Proceed(p, todo, max, N) ==
  \/ \E r \in todo \ Skipped(todo, N), D \in SUBSET Skipped(todo, N), h \in Fresh \cup {NoRun} :
       /\ notified' = Marked(N, Floored(D, N))
       /\ sweep' = [sweep EXCEPT ![p] =
                     [at |-> "routing", todo |-> todo \ (D \cup {r}), max |-> max,
                      rec |-> r, by |-> h]]
       /\ UNCHANGED <<cursor, queue>>
  \/ /\ todo \subseteq Skipped(todo, N)
     /\ cursor' = Advanced(max)
     /\ notified' = Pruned(Marked(N, Floored(todo, N)), max - Margin)
     /\ queue' = Append(queue, [by |-> p, data |-> [cursor |-> cursor', notified |-> notified']])
     /\ sweep' = [sweep EXCEPT ![p] = Persisting]

\* The query reads the directory for a while: it finds what was there when it
\* began and any of what was written meanwhile.
QueryReturns(p) ==
  /\ sweep[p].at = "querying"
  /\ \E more \in SUBSET (Stored(sweep[p].since) \ sweep[p].seen) :
       LET found == sweep[p].seen \cup more
           times == {cursor} \cup {run[r].done : r \in found}
       IN  \E max \in times : /\ \A t \in times : t <= max
                              /\ Proceed(p, found, max, notified)
  /\ UNCHANGED <<now, run, loaded, file, crashes, alerts>>

\* A query that throws ends the sweep.
QueryFails(p) ==
  /\ sweep[p].at = "querying"
  /\ sweep' = [sweep EXCEPT ![p] = Idle]
  /\ UNCHANGED <<now, run, memory, file, crashes, alerts>>

\* routeToSupervisor is back, whatever became of the handler, and the run is
\* marked as notified.
RouteReturns(p) ==
  /\ sweep[p].at = "routing"
  /\ sweep[p].by # NoRun => run[sweep[p].by].at \in {"stored", "lost"}
  /\ alerts' = [alerts EXCEPT ![sweep[p].rec] = @ + 1]
  /\ Proceed(p, sweep[p].todo, sweep[p].max, Marked(notified, {sweep[p].rec}))
  /\ UNCHANGED <<now, run, loaded, file, crashes>>

\* One link of the write chain: the temporary file is renamed over the sidecar
\* or the write failed, and the sweep that waited for it is over.
Persisted ==
  /\ queue # <<>>
  /\ file' \in {Head(queue).data, file}
  /\ queue' = Tail(queue)
  /\ sweep' = [sweep EXCEPT ![Head(queue).by] = Idle]
  /\ UNCHANGED <<now, run, cursor, notified, loaded, crashes, alerts>>

\* The process dies and is started again.
Crash ==
  /\ crashes < MaxCrashes
  /\ crashes' = crashes + 1
  /\ run' = [r \in Run |-> IF run[r].at = "writing" THEN [run[r] EXCEPT !.at = "lost"] ELSE run[r]]
  /\ cursor' = 0
  /\ notified' = Empty
  /\ loaded' = FALSE
  /\ queue' = <<>>
  /\ sweep' = [p \in Sweep |-> Idle]
  /\ UNCHANGED <<now, file, alerts>>

Next ==
  \/ \E r \in Run : RecordWritten(r) \/ \E bad \in BOOLEAN : RunEnds(r, bad)
  \/ Advance
  \/ \E p \in Sweep : \/ StartSweep(p) \/ Load(p) \/ QueryReturns(p)
                      \/ QueryFails(p) \/ RouteReturns(p)
  \/ Persisted
  \/ Crash

Spec == Init /\ [][Next]_vars
-----------------------------------------------------------------------------
(* Properties *)

Time     == 0 .. MaxTime
Entries  == UNION {[D -> Time] : D \in SUBSET TraceId}
Snapshot == [cursor : Time, notified : Entries]

Progress ==
  [at : {"idle", "loading", "persisting"}]
    \cup [at : {"querying"}, since : Time, from : Time, seen : SUBSET Run]
    \cup [at : {"routing"}, todo : SUBSET Run, max : Time, rec : Run, by : Run \cup {NoRun}]

\* Every variable has its type; the entries of the notified-set and of the
\* snapshots are those of traced runs.
TypeOK ==
  /\ now \in Time
  /\ run \in [Run -> [at : {"none", "writing", "stored", "lost"}, bad : BOOLEAN, done : Time]]
  /\ cursor \in Time
  /\ notified \in Entries
  /\ loaded \in BOOLEAN
  /\ queue \in Seq([by : Sweep, data : Snapshot])
  /\ file \in Snapshot
  /\ sweep \in [Sweep -> Progress]
  /\ crashes \in 0 .. MaxCrashes
  /\ alerts \in [Run -> Nat]

\* A failed run on record that is no run of the handler skill.
Failure(r) == run[r].at = "stored" /\ run[r].bad /\ Kind[r] # "handler"

\* A failed run that was never alerted is within reach of the next sweep: it is
\* not taken for notified, and the next query, before or after a restart, goes
\* back at least as far as its end.  So no failure slips past the cursor, even
\* when its record appears while a query is under way or after runs that ended
\* later are swept.
NothingSlips ==
  \A r \in Run : Failure(r) /\ alerts[r] = 0 =>
    /\ run[r].done >= Since(cursor) /\ Trace[r] \notin DOMAIN notified
    /\ run[r].done >= Since(file.cursor) /\ Trace[r] \notin DOMAIN file.notified

\* Between sweeps the notified-set holds nothing a query can no longer reach, so
\* it does not grow with the history of the deployment.
WindowOnly ==
  (\A p \in Sweep : sweep[p].at \in {"idle", "persisting"}) => \A i \in DOMAIN notified : notified[i] >= cursor - Margin

(* Liveness *)

\* The poll timer keeps ticking; loads, queries, file writes and handler runs
\* end, and a query that is tried again and again succeeds in the end.
Fairness ==
  \A p \in Sweep : /\ WF_vars(StartSweep(p))
                   /\ WF_vars(Load(p))
                   /\ SF_vars(QueryReturns(p))
                   /\ WF_vars(RouteReturns(p))

RunsEnd == \A r \in Run : /\ WF_vars(RecordWritten(r))
                          /\ Kind[r] = "handler" => WF_vars(\E bad \in BOOLEAN : RunEnds(r, bad))

FairSpec == Spec /\ Fairness /\ WF_vars(Persisted) /\ RunsEnd

\* Sweeps that do not overlap make a Notifier: each failure is alerted, once in
\* the life of a process.
Abstract == INSTANCE Notifier WITH failed <- {r \in Run : Failure(r)}, restarts <- crashes

IsNotifier == Abstract!Spec
=============================================================================
