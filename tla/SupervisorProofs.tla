--------------------------- MODULE SupervisorProofs ---------------------------
(***************************************************************************)
(* No failure slips past the sweeps' cursor, however many sweeps overlap   *)
(* and wherever the process stops, when every run has a trace id of its    *)
(* own and records and queries keep within the margin.                     *)
(***************************************************************************)
EXTENDS Supervisor, SequenceTheorems, TLAPS

OwnTraces == \A q, r \in Run : Trace[q] = Trace[r] => q = r

Runs == [Run -> [at : {"none", "writing", "stored", "lost"}, bad : BOOLEAN, done : Time]]

(* The parts of the invariant, over the clock n, the runs R and the alerts A. *)

\* A failure on record that no alert was about.
Missed(r, R, A) == R[r].at = "stored" /\ R[r].bad /\ Kind[r] # "handler" /\ A[r] = 0

\* Records are not of the future, and they do not linger.
Timely(n, R) ==
  \A r \in Run : /\ R[r].at # "none" => R[r].done <= n
                 /\ R[r].at = "writing" => n <= R[r].done + WriteDelay

\* A cursor has no missed failure behind its margin.
CursorOK(c, n, R, A) ==
  /\ c <= n
  /\ \A r \in Run : Missed(r, R, A) => c <= R[r].done + Margin

\* The trace ids of D are of runs on record that nobody has to be told about.
NotedOK(D, R, A) ==
  \A r \in Run : Trace[r] \in D => R[r].at = "stored" /\ ~Missed(r, R, A)

SnapshotOK(s, n, R, A) == CursorOK(s.cursor, n, R, A) /\ NotedOK(DOMAIN s.notified, R, A)

\* What a query has seen, and what its sweep has still to do, covers the missed
\* failures that ended long ago.
QueryOK(s, n, R, A) ==
  /\ s.from <= n /\ n <= s.from + ScanTime
  /\ \A r \in s.seen : R[r].at = "stored"
  /\ \A r \in Run : Missed(r, R, A) => r \in s.seen \/ s.from <= R[r].done + WriteDelay

CoveredBy(S, max, n, R, A) ==
  /\ max <= n
  /\ \A r \in S : R[r].at = "stored"
  /\ \A r \in Run : Missed(r, R, A) => r \in S \/ max <= R[r].done + Margin

SweepOK(s, n, R, A) ==
  /\ s.at = "querying" => QueryOK(s, n, R, A)
  /\ s.at = "routing" => CoveredBy(s.todo \cup {s.rec}, s.max, n, R, A)

IInv ==
  /\ TypeOK
  /\ Timely(now, run)
  /\ CursorOK(cursor, now, run, alerts)
  /\ NotedOK(DOMAIN notified, run, alerts)
  /\ SnapshotOK(file, now, run, alerts)
  /\ \A k \in 1 .. Len(queue) : SnapshotOK(queue[k].data, now, run, alerts)
  /\ \A p \in Sweep : SweepOK(sweep[p], now, run, alerts)

-----------------------------------------------------------------------------
(* What time, new records and new alerts leave intact *)

\* Time passes and runs go on, alerts are added, and a failure on record that
\* was not there before ended no longer than WriteDelay ago.
GoesOn(n, R, A, n2, R2, A2) ==
  /\ n <= n2
  /\ \A r \in Run : /\ R[r].at = "stored" => R2[r] = R[r]
                    /\ A[r] <= A2[r]
                    /\ Missed(r, R2, A2) => R[r].at = "stored" \/ n <= R2[r].done + WriteDelay

LEMMA MissedBefore ==
  ASSUME NEW n \in Time, NEW R \in Runs, NEW A \in [Run -> Nat],
         NEW n2 \in Time, NEW R2 \in Runs, NEW A2 \in [Run -> Nat],
         GoesOn(n, R, A, n2, R2, A2), NEW r \in Run, Missed(r, R2, A2)
  PROVE  \/ Missed(r, R, A) /\ R2[r] = R[r]
         \/ n <= R2[r].done + WriteDelay
BY DEF GoesOn, Missed

LEMMA CursorKept ==
  ASSUME NEW n \in Time, NEW R \in Runs, NEW A \in [Run -> Nat],
         NEW n2 \in Time, NEW R2 \in Runs, NEW A2 \in [Run -> Nat],
         GoesOn(n, R, A, n2, R2, A2), NEW c \in Time, CursorOK(c, n, R, A)
  PROVE  CursorOK(c, n2, R2, A2)
<1>1. c <= n2
  BY BoundAssumption DEF GoesOn, CursorOK, Time
<1>2. ASSUME NEW r \in Run, Missed(r, R2, A2)
      PROVE  c <= R2[r].done + Margin
  <2>1. R2[r].done \in Nat /\ WriteDelay <= Margin
    BY DelayAssumption, BoundAssumption DEF Runs, Time
  <2>2. CASE Missed(r, R, A) /\ R2[r] = R[r]
    BY <2>2 DEF CursorOK
  <2>3. CASE n <= R2[r].done + WriteDelay
    BY <2>1, <2>3, DelayAssumption, BoundAssumption DEF CursorOK, Time
  <2> QED
    BY <1>2, <2>2, <2>3, MissedBefore
<1> QED
  BY <1>1, <1>2 DEF CursorOK

LEMMA NotedKept ==
  ASSUME NEW n \in Time, NEW R \in Runs, NEW A \in [Run -> Nat],
         NEW n2 \in Time, NEW R2 \in Runs, NEW A2 \in [Run -> Nat],
         GoesOn(n, R, A, n2, R2, A2), NEW D, NotedOK(D, R, A)
  PROVE  NotedOK(D, R2, A2)
BY DEF GoesOn, NotedOK, Missed

LEMMA SnapshotKept ==
  ASSUME NEW n \in Time, NEW R \in Runs, NEW A \in [Run -> Nat],
         NEW n2 \in Time, NEW R2 \in Runs, NEW A2 \in [Run -> Nat],
         GoesOn(n, R, A, n2, R2, A2), NEW s \in Snapshot, SnapshotOK(s, n, R, A)
  PROVE  SnapshotOK(s, n2, R2, A2)
BY CursorKept, NotedKept DEF SnapshotOK, Snapshot

LEMMA SweepKept ==
  ASSUME NEW n \in Time, NEW R \in Runs, NEW A \in [Run -> Nat],
         NEW n2 \in Time, NEW R2 \in Runs, NEW A2 \in [Run -> Nat],
         GoesOn(n, R, A, n2, R2, A2), NEW s \in Progress, SweepOK(s, n, R, A),
         s.at = "querying" => n2 <= s.from + ScanTime
  PROVE  SweepOK(s, n2, R2, A2)
<1>1. CASE s.at = "querying"
  <2>1. s.from \in Nat /\ s.seen \subseteq Run
    BY <1>1, BoundAssumption DEF Progress, Time
  <2>2. s.from <= n2
    BY <1>1, <2>1, BoundAssumption DEF SweepOK, QueryOK, GoesOn, Time
  <2>3. \A r \in s.seen : R2[r].at = "stored"
    <3> SUFFICES ASSUME NEW r \in s.seen
                 PROVE  R2[r].at = "stored"
      OBVIOUS
    <3>1. R[r].at = "stored"
      BY <1>1 DEF SweepOK, QueryOK
    <3>2. R2[r] = R[r]
      BY <2>1, <3>1 DEF GoesOn
    <3> QED
      BY <3>1, <3>2
  <2>4. ASSUME NEW r \in Run, Missed(r, R2, A2)
        PROVE  r \in s.seen \/ s.from <= R2[r].done + WriteDelay
    <3>1. R2[r].done \in Nat
      BY BoundAssumption DEF Runs, Time
    <3>2. CASE Missed(r, R, A) /\ R2[r] = R[r]
      BY <1>1, <3>2 DEF SweepOK, QueryOK
    <3>3. CASE n <= R2[r].done + WriteDelay
      BY <1>1, <2>1, <3>1, <3>3, DelayAssumption, BoundAssumption DEF SweepOK, QueryOK, Time
    <3> QED
      BY <2>4, <3>2, <3>3, MissedBefore
  <2> QED
    BY <1>1, <2>2, <2>3, <2>4 DEF SweepOK, QueryOK
<1>2. CASE s.at = "routing"
  <2> DEFINE S == s.todo \cup {s.rec}
  <2>1. S \in SUBSET Run /\ s.max \in Time
    BY <1>2 DEF Progress
  <2>2. CoveredBy(S, s.max, n, R, A)
    BY <1>2 DEF SweepOK
  <2>3. s.max <= n2 /\ \A r \in S : R2[r].at = "stored"
    BY <2>1, <2>2, BoundAssumption DEF CoveredBy, GoesOn, Time
  <2>4. ASSUME NEW r \in Run, Missed(r, R2, A2)
        PROVE  r \in S \/ s.max <= R2[r].done + Margin
    <3>1. R2[r].done \in Nat /\ WriteDelay <= Margin
      BY DelayAssumption, BoundAssumption DEF Runs, Time
    <3>2. CASE Missed(r, R, A) /\ R2[r] = R[r]
      BY <2>2, <3>2 DEF CoveredBy
    <3>3. CASE n <= R2[r].done + WriteDelay
      BY <2>1, <2>2, <3>1, <3>3, DelayAssumption, BoundAssumption DEF CoveredBy, Time
    <3> QED
      BY <2>4, <3>2, <3>3, MissedBefore
  <2>5. CoveredBy(S, s.max, n2, R2, A2)
    BY <2>3, <2>4 DEF CoveredBy
  <2> QED
    BY <1>2, <2>5 DEF SweepOK
<1> QED
  BY <1>1, <1>2 DEF SweepOK

-----------------------------------------------------------------------------
(* The loop of a sweep *)

\* What the loop passes over is no missed failure.
LEMMA SkippedNotMissed ==
  ASSUME TypeOK, OwnTraces, NEW A \in [Run -> Nat], NEW N, NotedOK(DOMAIN N, run, A),
         NEW todo \in SUBSET Run, NEW r \in Skipped(todo, N)
  PROVE  r \in Run /\ ~Missed(r, run, A)
BY DEF Skipped, NotedOK, Missed

\* Failed runs of the handler may be marked.
LEMMA FlooredNoted ==
  ASSUME TypeOK, OwnTraces, NEW A \in [Run -> Nat], NEW N, NotedOK(DOMAIN N, run, A),
         NEW todo \in SUBSET Run, \A r \in todo : run[r].at = "stored",
         NEW D \in SUBSET Skipped(todo, N)
  PROVE  NotedOK(DOMAIN Marked(N, Floored(D, N)), run, A)
<1>1. DOMAIN Marked(N, Floored(D, N)) = DOMAIN N \cup {Trace[r] : r \in Floored(D, N)}
  BY DEF Marked
<1>2. ASSUME NEW r \in Run, Trace[r] \in {Trace[q] : q \in Floored(D, N)}
      PROVE  run[r].at = "stored" /\ ~Missed(r, run, A)
  <2>1. PICK q \in Floored(D, N) : Trace[r] = Trace[q]
    BY <1>2
  <2>2. q \in todo /\ Kind[q] = "handler"
    BY DEF Floored, Skipped
  <2>3. r = q
    BY <2>1, <2>2 DEF OwnTraces
  <2> QED
    BY <2>2, <2>3 DEF Missed
<1> QED
  BY <1>1, <1>2 DEF NotedOK

LEMMA MarkedEntries ==
  ASSUME TypeOK, NEW N \in Entries, NEW S \in SUBSET Run
  PROVE  Marked(N, S) \in Entries
<1> DEFINE D == DOMAIN N \cup {Trace[r] : r \in S}
<1>1. PICK D0 \in SUBSET TraceId : N \in [D0 -> Time]
  BY DEF Entries
<1>2. D \in SUBSET TraceId
  BY <1>1 DEF TraceId
<1>3. ASSUME NEW i \in D
      PROVE  (IF \E r \in S : Trace[r] = i
              THEN run[CHOOSE r \in S : Trace[r] = i].done ELSE N[i]) \in Time
  <2>1. CASE \E r \in S : Trace[r] = i
    <3>1. (CHOOSE r \in S : Trace[r] = i) \in S
      BY <2>1
    <3> QED
      BY <2>1, <3>1 DEF TypeOK
  <2>2. CASE ~\E r \in S : Trace[r] = i
    BY <1>1, <2>2
  <2> QED
    BY <2>1, <2>2
<1>4. Marked(N, S) \in [D -> Time]
  BY <1>3 DEF Marked
<1> QED
  BY <1>2, <1>4 DEF Entries

LEMMA PrunedEntries ==
  ASSUME NEW N \in Entries, NEW floor \in Int
  PROVE  /\ Pruned(N, floor) \in Entries
         /\ DOMAIN Pruned(N, floor) \subseteq DOMAIN N
<1> DEFINE D == {j \in DOMAIN N : N[j] >= floor}
<1>1. PICK D0 \in SUBSET TraceId : N \in [D0 -> Time]
  BY DEF Entries
<1>2. D \in SUBSET TraceId /\ Pruned(N, floor) \in [D -> Time]
  BY <1>1 DEF Pruned
<1>3. DOMAIN Pruned(N, floor) = D
  BY DEF Pruned
<1> QED
  BY <1>2, <1>3 DEF Entries

LEMMA ElementOf ==
  ASSUME NEW S, NEW q \in Seq(S), NEW k \in 1 .. Len(q)
  PROVE  q[k] \in S
OBVIOUS

\* Everything a step leaves alone stays as it should be.
LEMMA Rest ==
  ASSUME IInv, now' \in Time, run' \in Runs, alerts' \in [Run -> Nat],
         GoesOn(now, run, alerts, now', run', alerts')
  PROVE  /\ \A c \in Time : CursorOK(c, now, run, alerts) => CursorOK(c, now', run', alerts')
         /\ \A D : NotedOK(D, run, alerts) => NotedOK(D, run', alerts')
         /\ SnapshotOK(file, now', run', alerts')
         /\ \A k \in 1 .. Len(queue) : SnapshotOK(queue[k].data, now', run', alerts')
         /\ \A p \in Sweep :
              (sweep[p].at = "querying" => now' <= sweep[p].from + ScanTime)
                => SweepOK(sweep[p], now', run', alerts')
<1>1. now \in Time /\ run \in Runs /\ alerts \in [Run -> Nat]
  BY DEF IInv, TypeOK, Runs
<1>2. \A c \in Time : CursorOK(c, now, run, alerts) => CursorOK(c, now', run', alerts')
  BY <1>1, CursorKept
<1>3. \A D : NotedOK(D, run, alerts) => NotedOK(D, run', alerts')
  BY <1>1, NotedKept
<1>4. \A s \in Snapshot : SnapshotOK(s, now, run, alerts) => SnapshotOK(s, now', run', alerts')
  BY <1>1, SnapshotKept
<1>5. \A k \in 1 .. Len(queue) : queue[k].data \in Snapshot
  <2> SUFFICES ASSUME NEW k \in 1 .. Len(queue)
               PROVE  queue[k].data \in Snapshot
    OBVIOUS
  <2>1. queue[k] \in [by : Sweep, data : Snapshot]
    BY ElementOf DEF IInv, TypeOK
  <2> QED
    BY <2>1
<1>6. ASSUME NEW p \in Sweep, sweep[p].at = "querying" => now' <= sweep[p].from + ScanTime
      PROVE  SweepOK(sweep[p], now', run', alerts')
  <2>1. sweep[p] \in Progress /\ SweepOK(sweep[p], now, run, alerts)
    BY DEF IInv, TypeOK
  <2> QED
    BY <1>1, <1>6, <2>1, SweepKept
<1> QED
  BY <1>2, <1>3, <1>4, <1>5, <1>6 DEF IInv, TypeOK

LEMMA ProceedKeeps ==
  ASSUME IInv, OwnTraces, NEW p \in Sweep, NEW todo \in SUBSET Run, NEW max \in Time,
         NEW N \in Entries, alerts' \in [Run -> Nat],
         GoesOn(now, run, alerts, now, run, alerts'),
         NotedOK(DOMAIN N, run, alerts'), CoveredBy(todo, max, now, run, alerts'),
         Proceed(p, todo, max, N), UNCHANGED <<now, run, loaded, file, crashes>>
  PROVE  IInv'
<1> DEFINE A == alerts'
<1>1. /\ now' \in Time /\ run' \in Runs /\ Timely(now, run)'
      /\ loaded' \in BOOLEAN /\ file' \in Snapshot /\ crashes' \in 0 .. MaxCrashes
  BY DEF IInv, TypeOK, Runs, Timely
<1>2. /\ \A c \in Time : CursorOK(c, now, run, alerts) => CursorOK(c, now, run, A)
      /\ SnapshotOK(file, now, run, A)
      /\ \A k \in 1 .. Len(queue) : SnapshotOK(queue[k].data, now, run, A)
      /\ \A q \in Sweep : SweepOK(sweep[q], now, run, A)
  <2>1. \A q \in Sweep : sweep[q].at = "querying" => now <= sweep[q].from + ScanTime
    BY DEF IInv, SweepOK, QueryOK
  <2> QED
    BY <1>1, <2>1, Rest
<1>3. TypeOK
  BY DEF IInv
<1>4. CASE \E r \in todo \ Skipped(todo, N), D \in SUBSET Skipped(todo, N), h \in Fresh \cup {NoRun} :
             /\ notified' = Marked(N, Floored(D, N))
             /\ sweep' = [sweep EXCEPT ![p] =
                           [at |-> "routing", todo |-> todo \ (D \cup {r}), max |-> max,
                            rec |-> r, by |-> h]]
             /\ UNCHANGED <<cursor, queue>>
  <2> PICK r \in todo \ Skipped(todo, N), D \in SUBSET Skipped(todo, N), h \in Fresh \cup {NoRun} :
             /\ notified' = Marked(N, Floored(D, N))
             /\ sweep' = [sweep EXCEPT ![p] =
                           [at |-> "routing", todo |-> todo \ (D \cup {r}), max |-> max,
                            rec |-> r, by |-> h]]
             /\ UNCHANGED <<cursor, queue>>
    BY <1>4
  <2> DEFINE s == [at |-> "routing", todo |-> todo \ (D \cup {r}), max |-> max, rec |-> r, by |-> h]
             S == s.todo \cup {s.rec}
  <2>1. s \in Progress
    BY DEF Progress, Fresh
  <2>2. Floored(D, N) \in SUBSET Run
    BY DEF Floored, Skipped
  <2>3. notified' \in Entries
    BY <1>3, <2>2, MarkedEntries
  <2>4. TypeOK'
    BY <1>1, <1>3, <2>1, <2>3 DEF TypeOK, Runs
  <2>5. NotedOK(DOMAIN notified', run, A)
    BY <1>3, FlooredNoted DEF CoveredBy
  <2>6. \A q \in Run : Missed(q, run, A) /\ q \in todo => q \in S
    BY <1>3, SkippedNotMissed
  <2>7. CoveredBy(S, max, now, run, A)
    <3>1. S \subseteq todo
      OBVIOUS
    <3> HIDE DEF S
    <3> QED
      BY <2>6, <3>1 DEF CoveredBy
  <2>8. SweepOK(s, now, run, A)
    BY <2>7 DEF SweepOK
  <2>9. \A q \in Sweep : SweepOK(sweep'[q], now, run, A)
    <3>1. \A q \in Sweep : sweep'[q] = IF q = p THEN s ELSE sweep[q]
      BY <1>3 DEF TypeOK
    <3> HIDE DEF s
    <3> QED
      BY <1>2, <2>8, <3>1
  <2>10. CursorOK(cursor', now, run, A)
    BY <1>2, <1>3 DEF IInv, TypeOK
  <2> QED
    BY <1>1, <1>2, <2>4, <2>5, <2>9, <2>10 DEF IInv
<1>5. CASE /\ todo \subseteq Skipped(todo, N)
           /\ cursor' = Advanced(max)
           /\ notified' = Pruned(Marked(N, Floored(todo, N)), max - Margin)
           /\ queue' = Append(queue, [by |-> p, data |-> [cursor |-> cursor', notified |-> notified']])
           /\ sweep' = [sweep EXCEPT ![p] = Persisting]
  <2> DEFINE M == Marked(N, Floored(todo, N))
             d == [cursor |-> cursor', notified |-> notified']
  <2>1. Floored(todo, N) \in SUBSET Run
    BY DEF Floored
  <2>2. M \in Entries /\ max - Margin \in Int
    BY <1>3, <2>1, MarkedEntries, DelayAssumption, BoundAssumption DEF Time
  <2>3. notified' \in Entries /\ DOMAIN notified' \subseteq DOMAIN M
    BY <1>5, <2>2, PrunedEntries
  <2>4. cursor' \in Time
    BY <1>3, <1>5 DEF Advanced, TypeOK
  <2>5. d \in Snapshot
    BY <2>3, <2>4 DEF Snapshot
  <2>6. queue' \in Seq([by : Sweep, data : Snapshot])
    BY <1>3, <1>5, <2>5 DEF TypeOK
  <2>7. TypeOK'
    BY <1>1, <1>3, <1>5, <2>3, <2>4, <2>6 DEF TypeOK, Runs, Progress, Persisting
  <2>8. CursorOK(max, now, run, A)
    BY <1>3, <1>5, SkippedNotMissed DEF CoveredBy, CursorOK
  <2>9. CursorOK(cursor', now, run, A)
    BY <1>2, <1>3, <1>5, <2>8 DEF Advanced, IInv, TypeOK
  <2>10. NotedOK(DOMAIN notified', run, A)
    <3>1. NotedOK(DOMAIN M, run, A)
      BY <1>3, <1>5, FlooredNoted DEF CoveredBy
    <3> QED
      BY <2>3, <3>1 DEF NotedOK
  <2>11. SnapshotOK(d, now, run, A)
    BY <2>9, <2>10 DEF SnapshotOK
  <2>12. \A k \in 1 .. Len(queue') : SnapshotOK(queue'[k].data, now, run, A)
    <3>1. /\ Len(queue') = Len(queue) + 1
          /\ Len(queue) \in Nat
          /\ \A k \in 1 .. Len(queue) : queue'[k] = queue[k]
          /\ queue'[Len(queue) + 1] = [by |-> p, data |-> d]
      BY <1>3, <1>5 DEF TypeOK
    <3>2. queue'[Len(queue) + 1].data = d
      BY <3>1
    <3> HIDE DEF d
    <3> QED
      BY <1>2, <2>11, <3>1, <3>2
  <2>13. \A q \in Sweep : SweepOK(sweep'[q], now, run, A)
    BY <1>2, <1>3, <1>5 DEF SweepOK, Persisting, TypeOK
  <2> QED
    BY <1>1, <1>2, <2>7, <2>9, <2>10, <2>12, <2>13 DEF IInv
<1> QED
  BY <1>4, <1>5 DEF Proceed

-----------------------------------------------------------------------------
(* The steps *)

LEMMA InitInv == Init => IInv
<1> SUFFICES ASSUME Init
             PROVE  IInv
  OBVIOUS
<1>1. Empty \in Entries /\ DOMAIN Empty = {}
  <2>1. Empty \in [{} -> Time]
    BY DEF Empty
  <2> QED
    BY <2>1 DEF Entries, Empty
<1>2. 0 \in Time /\ 0 \in 0 .. MaxCrashes
  BY BoundAssumption DEF Time
<1>3. TypeOK
  <2>1. file \in Snapshot
    BY <1>1, <1>2 DEF Init, Snapshot
  <2>2. sweep \in [Sweep -> Progress]
    BY DEF Init, Progress, Idle
  <2>3. run \in [Run -> [at : {"none", "writing", "stored", "lost"}, bad : BOOLEAN, done : Time]]
    BY <1>2 DEF Init
  <2>4. queue \in Seq([by : Sweep, data : Snapshot])
    BY DEF Init
  <2>5. alerts \in [Run -> Nat]
    BY DEF Init
  <2> QED
    BY <1>1, <1>2, <2>1, <2>2, <2>3, <2>4, <2>5 DEF Init, TypeOK
<1>4. \A r \in Run : run[r].at = "none"
  BY DEF Init
<1> QED
  BY <1>1, <1>2, <1>3, <1>4 DEF Init, IInv, Timely, CursorOK, NotedOK, SnapshotOK, SweepOK, Missed, Idle

\* A step that leaves cursor, notified-set, queue, file and sweeps alone.
LEMMA RunsStep ==
  ASSUME IInv, TypeOK', Timely(now, run)', GoesOn(now, run, alerts, now', run', alerts'),
         \A p \in Sweep : sweep[p].at = "querying" => now' <= sweep[p].from + ScanTime,
         UNCHANGED <<cursor, notified, queue, file, sweep>>
  PROVE  IInv'
<1>1. now' \in Time /\ run' \in Runs /\ alerts' \in [Run -> Nat]
  BY DEF TypeOK, Runs
<1>2. TypeOK
  BY DEF IInv
<1> QED
  BY <1>1, <1>2, Rest DEF IInv, TypeOK

LEMMA RunEndsInv ==
  ASSUME IInv, NEW r \in Run, NEW bad \in BOOLEAN, RunEnds(r, bad)
  PROVE  IInv'
<1>1. TypeOK
  BY DEF IInv
<1>2. TypeOK'
  BY <1>1 DEF TypeOK, RunEnds, memory
<1>3. Timely(now, run)'
  BY <1>1, DelayAssumption, BoundAssumption DEF IInv, Timely, RunEnds, TypeOK, Time
<1>4. GoesOn(now, run, alerts, now', run', alerts')
  BY <1>1, BoundAssumption DEF GoesOn, Missed, RunEnds, TypeOK, Time
<1> QED
  BY <1>2, <1>3, <1>4, RunsStep DEF RunEnds, memory, IInv, SweepOK, QueryOK

LEMMA RecordWrittenInv ==
  ASSUME IInv, NEW r \in Run, RecordWritten(r)
  PROVE  IInv'
<1>1. TypeOK
  BY DEF IInv
<1>2. TypeOK'
  BY <1>1 DEF TypeOK, RecordWritten, memory
<1>3. Timely(now, run)'
  BY <1>1, DelayAssumption, BoundAssumption DEF IInv, Timely, RecordWritten, TypeOK, Time
<1>4. GoesOn(now, run, alerts, now', run', alerts')
  BY <1>1, BoundAssumption DEF IInv, Timely, GoesOn, Missed, RecordWritten, TypeOK, Time
<1> QED
  BY <1>2, <1>3, <1>4, RunsStep DEF RecordWritten, memory, IInv, SweepOK, QueryOK

LEMMA AdvanceInv ==
  ASSUME IInv, Advance
  PROVE  IInv'
<1>1. TypeOK
  BY DEF IInv
<1>2. TypeOK'
  BY <1>1, BoundAssumption DEF TypeOK, Advance, memory, Time
<1>3. Timely(now, run)'
  BY <1>1, DelayAssumption, BoundAssumption DEF IInv, Timely, Advance, TypeOK, Time
<1>4. GoesOn(now, run, alerts, now', run', alerts')
  BY <1>1, BoundAssumption DEF GoesOn, Missed, Advance, TypeOK, Time
<1>5. ASSUME NEW p \in Sweep, sweep[p].at = "querying"
      PROVE  now' <= sweep[p].from + ScanTime
  <2>1. sweep[p].from \in Time
    BY <1>1, <1>5 DEF TypeOK, Progress
  <2> QED
    BY <1>1, <1>5, <2>1, DelayAssumption, BoundAssumption DEF Advance, TypeOK, Time
<1> QED
  BY <1>2, <1>3, <1>4, <1>5, RunsStep DEF Advance, memory

\* A query that begins sees every missed failure.
LEMMA QueryingOK ==
  ASSUME IInv, NEW c \in Time, CursorOK(c, now, run, alerts)
  PROVE  Querying(c) \in Progress /\ SweepOK(Querying(c), now, run, alerts)
<1>1. TypeOK
  BY DEF IInv
<1>2. Since(c) \in Time
  BY DelayAssumption, BoundAssumption DEF Since, Time
<1>3. Stored(Since(c)) \in SUBSET Run /\ \A r \in Stored(Since(c)) : run[r].at = "stored"
  BY DEF Stored
<1>4. Querying(c) \in Progress
  BY <1>1, <1>2, <1>3 DEF Querying, Progress, TypeOK
<1>5. ASSUME NEW r \in Run, Missed(r, run, alerts)
      PROVE  r \in Stored(Since(c))
  <2>1. run[r].done \in Time /\ c <= run[r].done + Margin
    BY <1>1, <1>5 DEF CursorOK, TypeOK
  <2>2. run[r].done >= Since(c)
    BY <2>1, DelayAssumption, BoundAssumption DEF Since, Time
  <2> QED
    BY <1>5, <2>2 DEF Stored, Missed
<1>6. now <= now + ScanTime /\ now <= now
  BY <1>1, DelayAssumption, BoundAssumption DEF TypeOK, Time
<1>7. QueryOK(Querying(c), now, run, alerts)
  BY <1>3, <1>5, <1>6 DEF Querying, QueryOK
<1>8. Querying(c).at = "querying"
  BY DEF Querying
<1> QED
  BY <1>4, <1>7, <1>8 DEF SweepOK

LEMMA StartSweepInv ==
  ASSUME IInv, NEW p \in Sweep, StartSweep(p)
  PROVE  IInv'
<1> DEFINE s == IF loaded THEN Querying(cursor) ELSE [at |-> "loading"]
<1>1. TypeOK
  BY DEF IInv
<1>2. s \in Progress /\ SweepOK(s, now, run, alerts)
  <2>1. CASE loaded
    BY <1>1, <2>1, QueryingOK DEF IInv, TypeOK
  <2>2. CASE ~loaded
    BY <2>2 DEF Progress, SweepOK
  <2> QED
    BY <2>1, <2>2
<1>3. \A q \in Sweep : sweep'[q] = IF q = p THEN s ELSE sweep[q]
  BY <1>1 DEF StartSweep, TypeOK
<1>4. sweep' \in [Sweep -> Progress]
  BY <1>1, <1>2 DEF StartSweep, TypeOK
<1> HIDE DEF s
<1>5. TypeOK'
  BY <1>1, <1>4 DEF TypeOK, StartSweep, memory
<1> QED
  BY <1>2, <1>3, <1>5 DEF IInv, StartSweep, memory

LEMMA LoadInv ==
  ASSUME IInv, NEW p \in Sweep, Load(p)
  PROVE  IInv'
<1>1. TypeOK
  BY DEF IInv
<1>2. file.cursor \in Time /\ file.notified \in Entries
  BY <1>1 DEF TypeOK, Snapshot
<1>3. \/ /\ cursor' = file.cursor
         /\ notified' = [i \in DOMAIN notified \cup DOMAIN file.notified |->
                           IF i \in DOMAIN file.notified THEN file.notified[i] ELSE notified[i]]
      \/ cursor' = cursor /\ notified' = notified
  BY DEF Load
<1>4. notified' \in Entries /\ cursor' \in Time
  <2>1. PICK D1 \in SUBSET TraceId : notified \in [D1 -> Time]
    BY <1>1 DEF TypeOK, Entries
  <2>2. PICK D2 \in SUBSET TraceId : file.notified \in [D2 -> Time]
    BY <1>2 DEF Entries
  <2>3. notified' \in [D1 \cup D2 -> Time] \/ notified' \in [D1 -> Time]
    BY <1>3, <2>1, <2>2
  <2>4. cursor' \in Time
    BY <1>1, <1>2, <1>3 DEF TypeOK
  <2> QED
    BY <2>3, <2>4 DEF Entries
<1>5. CursorOK(cursor', now, run, alerts) /\ NotedOK(DOMAIN notified', run, alerts)
  BY <1>3 DEF IInv, SnapshotOK, NotedOK
<1>6. Querying(cursor') \in Progress /\ SweepOK(Querying(cursor'), now, run, alerts)
  BY <1>4, <1>5, QueryingOK DEF Load
<1>7. \A q \in Sweep : sweep'[q] = IF q = p THEN Querying(cursor') ELSE sweep[q]
  BY <1>1 DEF Load, TypeOK
<1>8. sweep' \in [Sweep -> Progress]
  BY <1>1, <1>6 DEF Load, TypeOK
<1>9. TypeOK'
  BY <1>1, <1>2, <1>4, <1>8 DEF TypeOK, Load
<1>10. \A q \in Sweep : SweepOK(sweep'[q], now, run, alerts)
  BY <1>6, <1>7 DEF IInv
<1> QED
  BY <1>5, <1>9, <1>10 DEF IInv, Load

\* An idle sweep, or one that is to load the file, covers nothing.
LEMMA QueryFailsInv ==
  ASSUME IInv, NEW p \in Sweep, QueryFails(p)
  PROVE  IInv'
<1>1. TypeOK
  BY DEF IInv
<1>2. \A q \in Sweep : sweep'[q] = IF q = p THEN Idle ELSE sweep[q]
  BY <1>1 DEF QueryFails, TypeOK
<1>3. Idle \in Progress /\ SweepOK(Idle, now, run, alerts)
  BY DEF Idle, Progress, SweepOK
<1>4. sweep' \in [Sweep -> Progress]
  BY <1>1, <1>3 DEF QueryFails, TypeOK
<1>5. TypeOK'
  BY <1>1, <1>4 DEF TypeOK, QueryFails, memory
<1> QED
  BY <1>2, <1>3, <1>5 DEF IInv, QueryFails, memory

\* A query finds every missed failure that ended before it began, but for those
\* whose record came late.
LEMMA QueryReturnsInv ==
  ASSUME IInv, OwnTraces, NEW p \in Sweep, QueryReturns(p)
  PROVE  IInv'
<1>1. TypeOK
  BY DEF IInv
<1> DEFINE s == sweep[p]
           times(found) == {cursor} \cup {run[r].done : r \in found}
<1>2. PICK more \in SUBSET (Stored(s.since) \ s.seen) :
        \E max \in times(s.seen \cup more) :
          /\ \A t \in times(s.seen \cup more) : t <= max
          /\ Proceed(p, s.seen \cup more, max, notified)
  BY DEF QueryReturns
<1> DEFINE found == s.seen \cup more
<1>3. PICK max \in times(found) : Proceed(p, found, max, notified)
  BY <1>2
<1>4. s.seen \in SUBSET Run /\ s.from \in Time
  BY <1>1 DEF QueryReturns, TypeOK, Progress
<1>5. found \in SUBSET Run /\ \A r \in found : run[r].at = "stored"
  BY <1>4 DEF IInv, SweepOK, QueryOK, QueryReturns, Stored
<1>6. max \in Time /\ max <= now
  <2>1. \A r \in found : run[r].done \in Time /\ run[r].done <= now
    <3> SUFFICES ASSUME NEW r \in found
                 PROVE  run[r].done \in Time /\ run[r].done <= now
      OBVIOUS
    <3>1. r \in Run /\ run[r].at # "none"
      BY <1>5
    <3> HIDE DEF found
    <3> QED
      BY <1>1, <3>1 DEF IInv, Timely, TypeOK
  <2>2. cursor \in Time /\ cursor <= now
    BY <1>1 DEF IInv, CursorOK, TypeOK
  <2> HIDE DEF found
  <2> QED
    BY <2>1, <2>2
<1>7. ASSUME NEW r \in Run, Missed(r, run, alerts)
      PROVE  r \in found \/ max <= run[r].done + Margin
  <2>1. r \in s.seen \/ s.from <= run[r].done + WriteDelay
    BY <1>7 DEF IInv, SweepOK, QueryOK, QueryReturns
  <2>2. now <= s.from + ScanTime
    BY DEF IInv, SweepOK, QueryOK, QueryReturns
  <2>3. run[r].done \in Time /\ now \in Time
    BY <1>1 DEF TypeOK
  <2> HIDE DEF s
  <2>4. CASE s.from <= run[r].done + WriteDelay
    BY <1>4, <1>6, <2>2, <2>3, <2>4, DelayAssumption, BoundAssumption DEF Time
  <2> QED
    BY <2>1, <2>4
<1>8. CoveredBy(found, max, now, run, alerts)
  <2> HIDE DEF found
  <2> QED
    BY <1>5, <1>6, <1>7 DEF CoveredBy
<1>9. alerts' = alerts /\ UNCHANGED <<now, run, loaded, file, crashes>>
  BY DEF QueryReturns
<1>10. GoesOn(now, run, alerts, now, run, alerts')
  BY <1>1, <1>9, BoundAssumption DEF GoesOn, TypeOK, Time, Missed
<1>11. NotedOK(DOMAIN notified, run, alerts') /\ notified \in Entries /\ alerts' \in [Run -> Nat]
  BY <1>1, <1>9 DEF IInv, TypeOK
<1> HIDE DEF found
<1> QED
  BY <1>3, <1>5, <1>6, <1>8, <1>9, <1>10, <1>11, ProceedKeeps

\* The run that was routed has its alert, so it may be marked.
LEMMA RouteReturnsInv ==
  ASSUME IInv, OwnTraces, NEW p \in Sweep, RouteReturns(p)
  PROVE  IInv'
<1>1. TypeOK
  BY DEF IInv
<1> DEFINE s == sweep[p]
           N == Marked(notified, {s.rec})
<1>2. /\ s.todo \in SUBSET Run /\ s.max \in Time /\ s.rec \in Run
      /\ CoveredBy(s.todo \cup {s.rec}, s.max, now, run, alerts)
  BY <1>1 DEF RouteReturns, TypeOK, Progress, IInv, SweepOK
<1>3. /\ alerts' = [alerts EXCEPT ![s.rec] = @ + 1]
      /\ Proceed(p, s.todo, s.max, N)
      /\ UNCHANGED <<now, run, loaded, file, crashes>>
  BY DEF RouteReturns
<1> HIDE DEF s
<1>4. alerts' \in [Run -> Nat] /\ alerts'[s.rec] > 0
  BY <1>1, <1>2, <1>3 DEF TypeOK
<1>5. GoesOn(now, run, alerts, now, run, alerts')
  BY <1>1, <1>2, <1>3, BoundAssumption DEF GoesOn, Missed, TypeOK, Time
<1>6. N \in Entries
  BY <1>1, <1>2, MarkedEntries DEF TypeOK
<1>7. \A r \in Run : Missed(r, run, alerts') => Missed(r, run, alerts) /\ r # s.rec
  BY <1>1, <1>2, <1>3, <1>4 DEF Missed, TypeOK
<1>8. CoveredBy(s.todo, s.max, now, run, alerts')
  BY <1>2, <1>7 DEF CoveredBy
<1>9. NotedOK(DOMAIN N, run, alerts')
  <2>1. DOMAIN N = DOMAIN notified \cup {Trace[s.rec]}
    BY DEF Marked
  <2>2. run[s.rec].at = "stored" /\ ~Missed(s.rec, run, alerts')
    BY <1>2, <1>7 DEF CoveredBy
  <2>3. NotedOK(DOMAIN notified, run, alerts')
    BY <1>7 DEF IInv, NotedOK
  <2>4. \A r \in Run : Trace[r] = Trace[s.rec] => r = s.rec
    BY <1>2 DEF OwnTraces
  <2> HIDE DEF N
  <2> QED
    BY <2>1, <2>2, <2>3, <2>4 DEF NotedOK
<1> HIDE DEF N
<1> QED
  BY <1>2, <1>3, <1>4, <1>5, <1>6, <1>8, <1>9, ProceedKeeps

LEMMA PersistedInv ==
  ASSUME IInv, Persisted
  PROVE  IInv'
<1>1. TypeOK
  BY DEF IInv
<1> DEFINE Link == [by : Sweep, data : Snapshot]
<1>2. queue \in Seq(Link) /\ queue # <<>>
  BY <1>1 DEF TypeOK, Persisted
<1>3. /\ Len(queue) \in Nat /\ 1 \in 1 .. Len(queue)
      /\ Head(queue) = queue[1] /\ Head(queue) \in Link
      /\ Tail(queue) \in Seq(Link) /\ Len(Tail(queue)) = Len(queue) - 1
      /\ \A k \in 1 .. Len(Tail(queue)) : Tail(queue)[k] = queue[k + 1] /\ k + 1 \in 1 .. Len(queue)
  <2> HIDE DEF Link
  <2> QED
    BY <1>2
<1>4. file' \in Snapshot /\ SnapshotOK(file', now, run, alerts)
  BY <1>1, <1>3 DEF IInv, TypeOK, Persisted
<1>5. \A k \in 1 .. Len(queue') : SnapshotOK(queue'[k].data, now, run, alerts)
  BY <1>3 DEF IInv, Persisted
<1>6. \A q \in Sweep : sweep'[q] = IF q = Head(queue).by THEN Idle ELSE sweep[q]
  BY <1>1 DEF Persisted, TypeOK
<1>7. Idle \in Progress /\ SweepOK(Idle, now, run, alerts)
  BY DEF Idle, Progress, SweepOK
<1>8. sweep' \in [Sweep -> Progress]
  BY <1>1, <1>7 DEF Persisted, TypeOK
<1>9. TypeOK'
  BY <1>1, <1>3, <1>4, <1>8 DEF TypeOK, Persisted
<1> QED
  BY <1>4, <1>5, <1>6, <1>7, <1>9 DEF IInv, Persisted

LEMMA CrashInv ==
  ASSUME IInv, Crash
  PROVE  IInv'
<1>1. TypeOK
  BY DEF IInv
<1>2. run' \in Runs
  BY <1>1 DEF Crash, TypeOK, Runs
<1>3. Empty \in Entries /\ DOMAIN Empty = {}
  <2>1. Empty \in [{} -> Time]
    BY DEF Empty
  <2> QED
    BY <2>1 DEF Entries, Empty
<1>4. /\ sweep' \in [Sweep -> Progress]
      /\ \A q \in Sweep : sweep'[q] = Idle /\ SweepOK(Idle, now, run', alerts)
  BY DEF Crash, Idle, Progress, SweepOK
<1>5. crashes' \in 0 .. MaxCrashes /\ 0 \in Time
  BY <1>1, BoundAssumption DEF Crash, TypeOK, Time
<1>6. queue' = <<>> /\ queue' \in Seq([by : Sweep, data : Snapshot])
  BY DEF Crash
<1>7. TypeOK'
  BY <1>1, <1>2, <1>3, <1>4, <1>5, <1>6 DEF TypeOK, Crash, Runs
<1>8. \A r \in Run : /\ run'[r].done = run[r].done /\ run'[r].bad = run[r].bad
                     /\ run'[r].at = "stored" <=> run[r].at = "stored"
                     /\ run'[r].at # "writing"
                     /\ run'[r].at # "none" => run[r].at # "none"
                     /\ run[r].at = "stored" => run'[r] = run[r]
  BY <1>1 DEF Crash, TypeOK
<1>9. Timely(now, run)'
  BY <1>8 DEF IInv, Timely, Crash
<1>10. GoesOn(now, run, alerts, now', run', alerts')
  BY <1>1, <1>8, BoundAssumption DEF GoesOn, Missed, Crash, TypeOK, Time
<1>11. SnapshotOK(file, now', run', alerts')
  BY <1>1, <1>2, <1>10, Rest DEF Crash, TypeOK
<1>12. CursorOK(0, now, run', alerts) /\ NotedOK({}, run', alerts)
  <2>1. \A r \in Run : run'[r].done \in Time
    BY <1>2 DEF Runs
  <2> QED
    BY <1>1, <2>1, DelayAssumption, BoundAssumption DEF CursorOK, NotedOK, TypeOK, Time
<1> QED
  BY <1>3, <1>4, <1>6, <1>7, <1>9, <1>11, <1>12 DEF IInv, Crash

LEMMA NextInv == OwnTraces /\ IInv /\ [Next]_vars => IInv'
<1> SUFFICES ASSUME OwnTraces, IInv, [Next]_vars
             PROVE  IInv'
  OBVIOUS
<1>1. CASE UNCHANGED vars
  BY <1>1 DEF vars, memory, IInv, TypeOK, Timely, CursorOK, NotedOK, SnapshotOK, SweepOK
<1>2. CASE \E r \in Run : RecordWritten(r) \/ \E bad \in BOOLEAN : RunEnds(r, bad)
  BY <1>2, RecordWrittenInv, RunEndsInv
<1>3. CASE Advance
  BY <1>3, AdvanceInv
<1>4. CASE \E p \in Sweep : \/ StartSweep(p) \/ Load(p) \/ QueryReturns(p)
                           \/ QueryFails(p) \/ RouteReturns(p)
  BY <1>4, StartSweepInv, LoadInv, QueryReturnsInv, QueryFailsInv, RouteReturnsInv
<1>5. CASE Persisted
  BY <1>5, PersistedInv
<1>6. CASE Crash
  BY <1>6, CrashInv
<1> QED
  BY <1>1, <1>2, <1>3, <1>4, <1>5, <1>6 DEF Next

LEMMA InvSafe == IInv => NothingSlips
<1> SUFFICES ASSUME IInv, NEW r \in Run, Failure(r), alerts[r] = 0
             PROVE  /\ run[r].done >= Since(cursor) /\ Trace[r] \notin DOMAIN notified
                    /\ run[r].done >= Since(file.cursor) /\ Trace[r] \notin DOMAIN file.notified
  BY DEF NothingSlips
<1>1. Missed(r, run, alerts)
  BY DEF Failure, Missed
<1>2. /\ cursor <= run[r].done + Margin /\ file.cursor <= run[r].done + Margin
      /\ Trace[r] \notin DOMAIN notified /\ Trace[r] \notin DOMAIN file.notified
  BY <1>1 DEF IInv, SnapshotOK, CursorOK, NotedOK
<1>3. run[r].done \in Time /\ cursor \in Time /\ file.cursor \in Time
  BY DEF IInv, TypeOK, Snapshot
<1> QED
  BY <1>2, <1>3, DelayAssumption, BoundAssumption DEF Since, Time

-----------------------------------------------------------------------------
(* Theorems *)

\* In every behaviour the cursor and the notified-set, in memory, on their way
\* to the sidecar file and in it, leave every missed failure to the next sweep.
THEOREM SupervisorInvariance ==
  ASSUME OwnTraces
  PROVE  Spec => []IInv
<1>1. IInv /\ [Next]_vars => IInv'
  BY NextInv
<1> QED
  BY InitInv, <1>1, PTL DEF Spec

\* Every variable of the supervisor keeps its type.
THEOREM SupervisorTypeCorrect ==
  ASSUME OwnTraces
  PROVE  Spec => []TypeOK
<1>1. IInv => TypeOK
  BY DEF IInv
<1> QED
  BY SupervisorInvariance, <1>1, PTL

\* No failure slips past the sweeps: one that was never alerted is within reach
\* of the next query and not taken for notified, whatever sweeps overlap, which
\* queries and writes fail and where the process stops.
THEOREM NoFailureSlips ==
  ASSUME OwnTraces
  PROVE  Spec => []NothingSlips
BY SupervisorInvariance, InvSafe, PTL

-----------------------------------------------------------------------------
(* Sweeps that do not overlap *)

OneSweep == \A p, q \in Sweep : p = q

\* No entry of N is older than a query from cursor c can reach.
Window(N, c) == \A i \in DOMAIN N : N[i] >= c - Margin

\* An entry holds the completion time of its run.
Dated(N, R) == \A r \in Run : Trace[r] \in DOMAIN N => N[Trace[r]] = R[r].done

SnapshotFits(s) == Window(s.notified, s.cursor) /\ Dated(s.notified, run)

\* What the sweep under way has still to do was not alerted in this life of the
\* process, or is in the notified-set.
Stage(s) ==
  /\ s.at = "loading" => ~loaded
  /\ s.at \in {"querying", "routing", "persisting"} => loaded
  /\ s.at = "querying" => s.since = Since(cursor) /\ \A r \in s.seen : run[r].done >= s.since
  /\ s.at = "routing" =>
       /\ cursor <= s.max /\ Failure(s.rec) /\ alerts[s.rec] <= crashes
       /\ \A r \in s.todo : alerts[r] <= crashes \/ Trace[r] \in DOMAIN notified

\* Who was alerted in this life, under the notified-set N and the cursor c, is in
\* the notified-set, or too old for any query to come.
Told(A, N, c) ==
  \A r \in Run :
    /\ A[r] > 0 => run[r].at = "stored"
    /\ A[r] > crashes =>
         /\ A[r] = crashes + 1 /\ loaded
         /\ Trace[r] \in DOMAIN N \/ run[r].done < c - Margin

OInv ==
  /\ ~loaded => notified = Empty
  /\ (\A p \in Sweep : sweep[p].at # "routing") => Window(notified, cursor)
  /\ Dated(notified, run)
  /\ SnapshotFits(file)
  /\ \A k \in 1 .. Len(queue) : SnapshotFits(queue[k].data)
  /\ queue # <<>> => Len(queue) = 1 /\ \A p \in Sweep : sweep[p].at = "persisting"
  /\ \A p \in Sweep : Stage(sweep[p])
  /\ Told(alerts, notified, cursor)

\* A marked run is marked with its completion time.
LEMMA MarkedDated ==
  ASSUME OwnTraces, NEW N, Dated(N, run), NEW S \in SUBSET Run
  PROVE  /\ Dated(Marked(N, S), run)
         /\ DOMAIN Marked(N, S) = DOMAIN N \cup {Trace[r] : r \in S}
<1>1. DOMAIN Marked(N, S) = DOMAIN N \cup {Trace[r] : r \in S}
  BY DEF Marked
<1>2. ASSUME NEW r \in Run, Trace[r] \in DOMAIN Marked(N, S)
      PROVE  Marked(N, S)[Trace[r]] = run[r].done
  <2>1. CASE \E q \in S : Trace[q] = Trace[r]
    <3> DEFINE q == CHOOSE q \in S : Trace[q] = Trace[r]
    <3>1. q \in S /\ Trace[q] = Trace[r]
      BY <2>1
    <3>2. q = r
      BY <3>1 DEF OwnTraces
    <3>3. Marked(N, S)[Trace[r]] = run[q].done
      BY <1>1, <1>2, <2>1 DEF Marked
    <3> QED
      BY <3>2, <3>3
  <2>2. CASE ~\E q \in S : Trace[q] = Trace[r]
    <3>1. Trace[r] \in DOMAIN N
      BY <1>1, <1>2, <2>2
    <3>2. Marked(N, S)[Trace[r]] = N[Trace[r]]
      BY <1>1, <1>2, <2>2 DEF Marked
    <3> QED
      BY <3>1, <3>2 DEF Dated
  <2> QED
    BY <2>1, <2>2
<1> QED
  BY <1>1, <1>2 DEF Dated

\* A step of the runs and of the clock.
LEMMA RunsOnce ==
  ASSUME IInv, OInv, \A r \in Run : run[r].at = "stored" => run'[r] = run[r],
         UNCHANGED <<cursor, notified, loaded, queue, file, sweep, crashes, alerts>>
  PROVE  OInv'
<1>1. \A N : NotedOK(DOMAIN N, run, alerts) /\ Dated(N, run) => Dated(N, run')
  BY DEF NotedOK, Dated
<1>2. Dated(notified, run') /\ SnapshotFits(file)'
  BY <1>1 DEF IInv, OInv, SnapshotOK, SnapshotFits, Window
<1>3. \A k \in 1 .. Len(queue) : SnapshotFits(queue[k].data)'
  BY <1>1 DEF IInv, OInv, SnapshotOK, SnapshotFits, Window
<1>4. ASSUME NEW p \in Sweep
      PROVE  Stage(sweep[p])'
  <2>1. sweep[p] \in Progress /\ Stage(sweep[p]) /\ SweepOK(sweep[p], now, run, alerts)
    BY DEF IInv, OInv, TypeOK
  <2>2. sweep[p].at = "querying" => \A r \in sweep[p].seen : run'[r] = run[r]
    BY <2>1 DEF SweepOK, QueryOK, Progress
  <2>3. sweep[p].at = "routing" => run'[sweep[p].rec] = run[sweep[p].rec]
    BY <2>1 DEF Stage, Failure, Progress
  <2> QED
    BY <2>1, <2>2, <2>3 DEF Stage, Failure, Since
<1>5. Told(alerts, notified, cursor)'
  BY DEF IInv, OInv, Told, TypeOK
<1> QED
  BY <1>2, <1>3, <1>4, <1>5 DEF OInv, Window

\* The loop of a sweep that is the only one.
LEMMA ProceedOnce ==
  ASSUME IInv, OInv, OwnTraces, OneSweep, NEW p \in Sweep, NEW todo \in SUBSET Run,
         NEW max \in Time, NEW N \in Entries, alerts' \in [Run -> Nat], loaded, cursor <= max,
         sweep[p].at # "persisting", \A r \in todo : run[r].at = "stored",
         \A r \in todo : alerts'[r] <= crashes \/ Trace[r] \in DOMAIN N,
         Dated(N, run), Told(alerts', N, cursor),
         Proceed(p, todo, max, N), UNCHANGED <<now, run, loaded, file, crashes>>
  PROVE  OInv'
<1> DEFINE M(D) == Marked(N, Floored(D, N))
<1>1. \A D \in SUBSET Skipped(todo, N) :
        /\ Dated(M(D), run) /\ DOMAIN N \subseteq DOMAIN M(D) /\ M(D) \in Entries
        /\ Told(alerts', M(D), cursor)
  <2> SUFFICES ASSUME NEW D \in SUBSET Skipped(todo, N)
               PROVE  /\ Dated(M(D), run) /\ DOMAIN N \subseteq DOMAIN M(D) /\ M(D) \in Entries
                      /\ Told(alerts', M(D), cursor)
    OBVIOUS
  <2>1. Floored(D, N) \in SUBSET Run
    BY DEF Floored, Skipped
  <2>2. Dated(M(D), run) /\ DOMAIN N \subseteq DOMAIN M(D) /\ M(D) \in Entries
    BY <2>1, MarkedDated, MarkedEntries DEF IInv
  <2> HIDE DEF M
  <2> QED
    BY <2>2 DEF Told
<1>2. cursor \in Time /\ run \in Runs /\ sweep \in [Sweep -> Progress] /\ crashes \in Nat
  BY BoundAssumption DEF IInv, TypeOK, Runs
<1>3. \A s \in {file} \cup {queue[k].data : k \in 1 .. Len(queue)} : SnapshotFits(s)'
  BY DEF OInv, SnapshotFits
<1>4. queue = <<>>
  BY DEF OInv
<1>5. CASE \E r \in todo \ Skipped(todo, N), D \in SUBSET Skipped(todo, N), h \in Fresh \cup {NoRun} :
             /\ notified' = Marked(N, Floored(D, N))
             /\ sweep' = [sweep EXCEPT ![p] =
                           [at |-> "routing", todo |-> todo \ (D \cup {r}), max |-> max,
                            rec |-> r, by |-> h]]
             /\ UNCHANGED <<cursor, queue>>
  <2> PICK r \in todo \ Skipped(todo, N), D \in SUBSET Skipped(todo, N), h \in Fresh \cup {NoRun} :
             /\ notified' = M(D)
             /\ sweep' = [sweep EXCEPT ![p] =
                           [at |-> "routing", todo |-> todo \ (D \cup {r}), max |-> max,
                            rec |-> r, by |-> h]]
             /\ UNCHANGED <<cursor, queue>>
    BY <1>5
  <2>1. sweep'[p] = [at |-> "routing", todo |-> todo \ (D \cup {r}), max |-> max, rec |-> r, by |-> h]
    BY <1>2
  <2>2. sweep'[p].at = "routing" /\ sweep'[p].max = max /\ sweep'[p].rec = r /\ sweep'[p].todo \subseteq todo
    BY <2>1
  <2>3. Failure(r) /\ alerts'[r] <= crashes
    BY DEF Skipped, Failure
  <2> HIDE DEF M
  <2>4. Stage(sweep[p])'
    BY <1>1, <2>2, <2>3 DEF Stage, Failure
  <2>5. \A q \in Sweep : Stage(sweep[q])'
    BY <2>4 DEF OneSweep
  <2>6. Dated(notified', run') /\ Told(alerts, notified, cursor)'
    BY <1>1 DEF Told
  <2> QED
    BY <1>3, <1>4, <2>2, <2>5, <2>6 DEF OInv
<1>6. CASE /\ todo \subseteq Skipped(todo, N)
           /\ cursor' = Advanced(max)
           /\ notified' = Pruned(Marked(N, Floored(todo, N)), max - Margin)
           /\ queue' = Append(queue, [by |-> p, data |-> [cursor |-> cursor', notified |-> notified']])
           /\ sweep' = [sweep EXCEPT ![p] = Persisting]
  <2>1. cursor' = max
    BY <1>2, <1>6, BoundAssumption DEF Advanced, Time
  <2>2. /\ Dated(M(todo), run) /\ M(todo) \in Entries /\ Told(alerts', M(todo), cursor)
    BY <1>1, <1>6
  <2>3. /\ notified' = Pruned(M(todo), max - Margin)
        /\ DOMAIN notified' = {i \in DOMAIN M(todo) : M(todo)[i] >= max - Margin}
        /\ \A i \in DOMAIN notified' : notified'[i] = M(todo)[i]
    BY <1>6 DEF Pruned
  <2> HIDE DEF M
  <2>4. Dated(notified', run) /\ Window(notified', cursor')
    BY <2>1, <2>2, <2>3 DEF Dated, Window
  <2>5. Told(alerts, notified, cursor)'
    <3> SUFFICES ASSUME NEW r \in Run
                 PROVE  /\ alerts'[r] > 0 => run[r].at = "stored"
                        /\ alerts'[r] > crashes =>
                             /\ alerts'[r] = crashes + 1 /\ loaded
                             /\ Trace[r] \in DOMAIN notified' \/ run[r].done < max - Margin
      BY <2>1 DEF Told
    <3>1. run[r].done \in Nat /\ max \in Nat /\ cursor \in Nat /\ Margin \in Nat
      BY <1>2, BoundAssumption, DelayAssumption DEF Runs, Time
    <3>2. ASSUME Trace[r] \in DOMAIN M(todo)
          PROVE  Trace[r] \in DOMAIN notified' \/ run[r].done < max - Margin
      <4>1. M(todo)[Trace[r]] = run[r].done
        BY <2>2, <3>2 DEF Dated
      <4> QED
        BY <2>3, <3>1, <3>2, <4>1
    <3>3. run[r].done < cursor - Margin => run[r].done < max - Margin
      BY <3>1
    <3> QED
      BY <2>2, <3>2, <3>3 DEF Told
  <2>6. \A q \in Sweep : sweep'[q] = Persisting
    BY <1>2, <1>6 DEF OneSweep
  <2>7. \A q \in Sweep : Stage(sweep[q])'
    BY <2>6 DEF Stage, Persisting
  <2> DEFINE d == [cursor |-> cursor', notified |-> notified']
  <2>8. Len(queue') = 1 /\ queue'[1].data = [cursor |-> cursor', notified |-> notified']
    BY <1>6, <1>4
  <2>9. \A k \in 1 .. Len(queue') : SnapshotFits(queue[k].data)'
    BY <2>4, <2>8 DEF SnapshotFits
  <2> QED
    BY <1>3, <2>4, <2>5, <2>6, <2>7, <2>8, <2>9 DEF OInv, Persisting
<1> QED
  BY <1>5, <1>6 DEF Proceed

LEMMA InitOnce == Init => OInv
<1> SUFFICES ASSUME Init PROVE OInv
  OBVIOUS
<1>1. DOMAIN Empty = {}
  BY DEF Empty
<1>2. Told(alerts, notified, cursor)
  <2>1. crashes = 0 /\ \A r \in Run : alerts[r] = 0
    BY DEF Init
  <2>2. ~(0 > 0)
    OBVIOUS
  <2>3. \A r \in Run : ~(alerts[r] > 0) /\ ~(alerts[r] > crashes)
    BY <2>1, <2>2, Zenon
  <2> QED
    BY <2>3 DEF Told
<1>3. \A p \in Sweep : Stage(sweep[p])
  BY DEF Init, Idle, Stage
<1> QED
  BY <1>1, <1>2, <1>3 DEF Init, OInv, Window, Dated, SnapshotFits

LEMMA StartSweepOnce ==
  ASSUME IInv, OInv, OneSweep, NEW p \in Sweep, StartSweep(p)
  PROVE  OInv'
<1>1. sweep'[p] = IF loaded THEN Querying(cursor) ELSE [at |-> "loading"]
  BY DEF StartSweep, IInv, TypeOK
<1>2. UNCHANGED <<run, cursor, notified, loaded, queue, file, crashes, alerts>>
  BY DEF StartSweep, memory
<1>3. sweep[p].at # "routing"
  BY DEF StartSweep, Idle
<1>4. Stage(sweep[p])'
  <2>1. CASE loaded
    BY <1>1, <1>2, <2>1 DEF Stage, Querying, Stored, Since
  <2>2. CASE ~loaded
    BY <1>1, <1>2, <2>2 DEF Stage
  <2> QED
    BY <2>1, <2>2
<1>5. \A q \in Sweep : Stage(sweep[q])'
  BY <1>4 DEF OneSweep
<1>6. Window(notified, cursor) /\ queue = <<>>
  BY <1>3 DEF OInv, OneSweep, StartSweep, Idle
<1> QED
  BY <1>2, <1>5, <1>6 DEF OInv, Window, Dated, SnapshotFits, Told

LEMMA LoadOnce ==
  ASSUME IInv, OInv, OneSweep, NEW p \in Sweep, Load(p)
  PROVE  OInv'
<1>1. ~loaded /\ notified = Empty /\ queue = <<>>
  BY DEF OInv, Stage, Load
<1>2. cursor' \in Time /\ loaded' = TRUE /\ UNCHANGED <<now, run, queue, file, crashes, alerts>>
  BY DEF Load, IInv, TypeOK, Snapshot
<1>3. Window(notified', cursor') /\ Dated(notified', run)
  <2>1. DOMAIN Empty = {}
    BY DEF Empty
  <2>2. CASE /\ cursor' = file.cursor
             /\ notified' = [i \in DOMAIN notified \cup DOMAIN file.notified |->
                               IF i \in DOMAIN file.notified THEN file.notified[i] ELSE notified[i]]
    <3>1. /\ DOMAIN notified' = DOMAIN file.notified
          /\ \A i \in DOMAIN notified' : notified'[i] = file.notified[i]
      BY <1>1, <2>1, <2>2
    <3> QED
      BY <2>2, <3>1 DEF OInv, SnapshotFits, Window, Dated
  <2>3. CASE cursor' = cursor /\ notified' = notified
    BY <1>1, <2>1, <2>3 DEF Window, Dated
  <2> QED
    BY <2>2, <2>3 DEF Load
<1>4. sweep'[p] = Querying(cursor')
  BY DEF Load, IInv, TypeOK
<1>5. Stage(sweep[p])'
  BY <1>2, <1>4 DEF Stage, Querying, Stored, Since
<1>6. \A q \in Sweep : Stage(sweep[q])'
  BY <1>5 DEF OneSweep
<1>7. Told(alerts, notified, cursor)'
  BY <1>1, <1>2 DEF OInv, Told
<1> QED
  BY <1>1, <1>2, <1>3, <1>6, <1>7 DEF OInv, SnapshotFits, Window, Dated

LEMMA QueryReturnsOnce ==
  ASSUME IInv, OInv, OwnTraces, OneSweep, NEW p \in Sweep, QueryReturns(p)
  PROVE  OInv'
<1> DEFINE s == sweep[p]
           times(found) == {cursor} \cup {run[r].done : r \in found}
<1>1. /\ sweep[p].at = "querying" /\ loaded /\ s.since = Since(cursor) /\ s.seen \in SUBSET Run
      /\ \A r \in s.seen : run[r].at = "stored" /\ run[r].done >= s.since
  BY DEF QueryReturns, IInv, OInv, TypeOK, Progress, Stage, SweepOK, QueryOK
<1>2. PICK more \in SUBSET (Stored(s.since) \ s.seen) :
        \E max \in times(s.seen \cup more) :
          /\ \A t \in times(s.seen \cup more) : t <= max
          /\ Proceed(p, s.seen \cup more, max, notified)
  BY DEF QueryReturns
<1> DEFINE found == s.seen \cup more
<1>3. PICK max \in times(found) : cursor <= max /\ Proceed(p, found, max, notified)
  BY <1>2
<1>4. found \in SUBSET Run /\ \A r \in found : run[r].at = "stored" /\ run[r].done >= Since(cursor)
  BY <1>1 DEF Stored
<1>5. run \in Runs /\ cursor \in Time /\ notified \in Entries /\ alerts \in [Run -> Nat]
  BY DEF IInv, TypeOK, Runs
<1> HIDE DEF found
<1>6. max \in Time
  BY <1>4, <1>5 DEF Runs
<1>7. ASSUME NEW r \in found
      PROVE  alerts[r] <= crashes \/ Trace[r] \in DOMAIN notified
  <2>1. ~(run[r].done < cursor - Margin)
    <3>1. run[r].done \in Nat /\ cursor \in Nat /\ Margin \in Nat /\ run[r].done >= Since(cursor)
      BY <1>4, <1>5, BoundAssumption, DelayAssumption DEF Runs, Time
    <3> QED
      BY <3>1 DEF Since
  <2>2. alerts[r] \in Nat /\ crashes \in Nat
    BY <1>4, <1>5, BoundAssumption DEF IInv, TypeOK
  <2> QED
    BY <1>4, <2>1, <2>2 DEF OInv, Told
<1>8. UNCHANGED <<now, run, loaded, file, crashes, alerts>>
  BY DEF QueryReturns
<1>9. Dated(notified, run) /\ Told(alerts', notified, cursor)
  BY <1>8 DEF OInv
<1>10. \A r \in found : run[r].at = "stored"
  BY <1>4
<1>11. \A r \in found : alerts'[r] <= crashes \/ Trace[r] \in DOMAIN notified
  BY <1>7, <1>8
<1>12. alerts' \in [Run -> Nat]
  BY <1>5, <1>8
<1> HIDE DEF s, times
<1> QED
  BY <1>1, <1>3, <1>4, <1>5, <1>6, <1>8, <1>9, <1>10, <1>11, <1>12, ProceedOnce

LEMMA RouteReturnsOnce ==
  ASSUME IInv, OInv, OwnTraces, OneSweep, NEW p \in Sweep, RouteReturns(p)
  PROVE  OInv'
<1> DEFINE s == sweep[p]
           N == Marked(notified, {s.rec})
<1>1. /\ sweep[p].at = "routing" /\ s.todo \in SUBSET Run /\ s.max \in Time /\ s.rec \in Run
      /\ loaded /\ cursor <= s.max /\ Failure(s.rec) /\ alerts[s.rec] <= crashes
      /\ \A r \in s.todo : run[r].at = "stored" /\ (alerts[r] <= crashes \/ Trace[r] \in DOMAIN notified)
  BY DEF RouteReturns, IInv, OInv, TypeOK, Progress, Stage, SweepOK, CoveredBy
<1>2. /\ alerts' = [alerts EXCEPT ![s.rec] = @ + 1]
      /\ Proceed(p, s.todo, s.max, N)
      /\ UNCHANGED <<now, run, loaded, file, crashes>>
  BY DEF RouteReturns
<1> HIDE DEF s
<1>3. alerts \in [Run -> Nat] /\ crashes \in Nat /\ notified \in Entries
  BY BoundAssumption DEF IInv, TypeOK
<1>4. alerts' \in [Run -> Nat] /\ alerts'[s.rec] <= crashes + 1 /\ \A r \in Run \ {s.rec} : alerts'[r] = alerts[r]
  BY <1>1, <1>2, <1>3
<1>5. /\ Dated(N, run) /\ N \in Entries /\ DOMAIN notified \subseteq DOMAIN N /\ Trace[s.rec] \in DOMAIN N
  <2>1. {s.rec} \in SUBSET Run /\ Dated(notified, run) /\ TypeOK
    BY <1>1 DEF IInv, OInv
  <2>2. Dated(N, run) /\ DOMAIN N = DOMAIN notified \cup {Trace[r] : r \in {s.rec}}
    BY <2>1, MarkedDated
  <2>3. N \in Entries
    BY <1>3, <2>1, MarkedEntries
  <2> HIDE DEF N
  <2> QED
    BY <2>2, <2>3
<1> HIDE DEF N
<1>6. Told(alerts', N, cursor)
  <2> SUFFICES ASSUME NEW r \in Run
               PROVE  /\ alerts'[r] > 0 => run[r].at = "stored"
                      /\ alerts'[r] > crashes =>
                           /\ alerts'[r] = crashes + 1 /\ loaded
                           /\ Trace[r] \in DOMAIN N \/ run[r].done < cursor - Margin
    BY DEF Told
  <2>1. CASE r = s.rec
    BY <1>1, <1>3, <1>4, <1>5, <2>1 DEF Failure
  <2>2. CASE r # s.rec
    BY <1>4, <1>5, <2>2 DEF OInv, Told
  <2> QED
    BY <2>1, <2>2
<1>7. \A r \in s.todo : alerts'[r] <= crashes \/ Trace[r] \in DOMAIN N
  BY <1>1, <1>4, <1>5
<1>8. \A r \in s.todo : run[r].at = "stored"
  BY <1>1
<1> QED
  BY <1>1, <1>2, <1>4, <1>5, <1>6, <1>7, <1>8, ProceedOnce

LEMMA QueryFailsOnce ==
  ASSUME IInv, OInv, OneSweep, NEW p \in Sweep, QueryFails(p)
  PROVE  OInv'
<1>1. sweep'[p] = Idle /\ sweep[p].at # "routing"
  BY DEF QueryFails, IInv, TypeOK
<1>2. UNCHANGED <<run, cursor, notified, loaded, queue, file, crashes, alerts>>
  BY DEF QueryFails, memory
<1>3. \A q \in Sweep : Stage(sweep[q])'
  BY <1>1 DEF OneSweep, Stage, Idle
<1>4. Window(notified, cursor) /\ queue = <<>>
  BY <1>1 DEF OInv, OneSweep, QueryFails
<1> QED
  BY <1>2, <1>3, <1>4 DEF OInv, Window, Dated, SnapshotFits, Told

LEMMA PersistedOnce ==
  ASSUME IInv, OInv, OneSweep, Persisted
  PROVE  OInv'
<1>1. /\ Len(queue) = 1 /\ Head(queue) = queue[1] /\ Tail(queue) = <<>> /\ queue[1].by \in Sweep
      /\ \A p \in Sweep : sweep[p].at = "persisting"
  <2>1. Len(queue) = 1 /\ \A p \in Sweep : sweep[p].at = "persisting"
    BY DEF Persisted, OInv
  <2>2. queue \in Seq([by : Sweep, data : Snapshot])
    BY DEF IInv, TypeOK
  <2>3. queue[1] \in [by : Sweep, data : Snapshot]
    <3>1. 1 \in 1 .. Len(queue)
      BY <2>1
    <3> QED
      BY <2>2, <3>1, ElementOf
  <2>4. Head(queue) = queue[1] /\ Tail(queue) \in Seq([by : Sweep, data : Snapshot]) /\ Len(Tail(queue)) = 0
    BY <2>1, <2>2
  <2>5. Tail(queue) = <<>>
    BY <2>4, EmptySeq
  <2> QED
    BY <2>1, <2>3, <2>4, <2>5
<1>2. queue' = <<>> /\ UNCHANGED <<run, cursor, notified, loaded, crashes, alerts>>
  BY <1>1 DEF Persisted
<1>3. \A q \in Sweep : sweep'[q] = Idle
  BY <1>1 DEF Persisted, OneSweep, IInv, TypeOK
<1>4. \A q \in Sweep : Stage(sweep[q])'
  BY <1>3 DEF Stage, Idle
<1>5. Window(notified, cursor)
  BY <1>1 DEF OInv
<1>6. SnapshotFits(file)'
  BY <1>1, <1>2 DEF OInv, Persisted, SnapshotFits
<1> QED
  BY <1>2, <1>4, <1>5, <1>6 DEF OInv, Window, Dated, Told

LEMMA CrashOnce ==
  ASSUME IInv, OInv, Crash
  PROVE  OInv'
<1>1. \A r \in Run : run[r].at = "stored" => run'[r] = run[r]
  BY DEF Crash, IInv, TypeOK
<1>2. DOMAIN Empty = {}
  BY DEF Empty
<1>3. /\ notified' = Empty /\ loaded' = FALSE /\ queue' = <<>> /\ crashes' = crashes + 1
      /\ UNCHANGED <<file, alerts>> /\ \A p \in Sweep : sweep'[p] = Idle
  BY DEF Crash
<1>4. SnapshotFits(file)'
  BY <1>1, <1>3 DEF IInv, OInv, SnapshotOK, NotedOK, SnapshotFits, Window, Dated
<1>5. \A p \in Sweep : Stage(sweep[p])'
  BY <1>3 DEF Stage, Idle
<1>6. ASSUME NEW r \in Run
      PROVE  (alerts[r] > 0 => run'[r].at = "stored") /\ ~(alerts[r] > crashes + 1)
  <2>1. alerts[r] \in Nat /\ crashes \in Nat
    BY BoundAssumption DEF IInv, TypeOK
  <2> QED
    BY <1>1, <2>1 DEF OInv, Told
<1>7. Told(alerts, notified, cursor)'
  BY <1>3, <1>6 DEF Told
<1> QED
  BY <1>2, <1>3, <1>4, <1>5, <1>7 DEF OInv, Window, Dated

LEMMA NextOnce ==
  ASSUME OwnTraces, OneSweep, IInv, OInv, [Next]_vars
  PROVE  OInv'
<1>1. CASE UNCHANGED vars
  BY <1>1, RunsOnce DEF vars, memory
<1>2. ASSUME NEW r \in Run, RecordWritten(r) \/ \E bad \in BOOLEAN : RunEnds(r, bad)
      PROVE  OInv'
  BY <1>2, RunsOnce DEF RecordWritten, RunEnds, memory, IInv, TypeOK
<1>3. CASE Advance
  BY <1>3, RunsOnce DEF Advance, memory
<1>4. CASE \E p \in Sweep : \/ StartSweep(p) \/ Load(p) \/ QueryReturns(p)
                           \/ QueryFails(p) \/ RouteReturns(p)
  BY <1>4, StartSweepOnce, LoadOnce, QueryReturnsOnce, QueryFailsOnce, RouteReturnsOnce
<1>5. CASE Persisted
  BY <1>5, PersistedOnce
<1>6. CASE Crash
  BY <1>6, CrashOnce
<1> QED
  BY <1>1, <1>2, <1>3, <1>4, <1>5, <1>6 DEF Next

-----------------------------------------------------------------------------
(* One sweep at a time makes a Notifier *)

\* Each step alerts a failure on record that this life of the process has not
\* alerted, puts a failure on record, restarts the process, or does none of these.
LEMMA NotifierStep ==
  ASSUME OwnTraces, OneSweep, IInv, OInv, [Next]_vars
  PROVE  [Abstract!Next]_(Abstract!vars)
<1> DEFINE F == {r \in Run : Failure(r)}
<1>1. ASSUME \A r \in Run : Failure(r)' <=> Failure(r)
      PROVE  F' = F
  BY <1>1
<1>2. CASE UNCHANGED vars
  <2>1. F' = F
    BY <1>1, <1>2 DEF vars, Failure
  <2> QED
    BY <1>2, <2>1 DEF vars, Abstract!vars
<1>3. ASSUME NEW r \in Run, RecordWritten(r)
      PROVE  [Abstract!Next]_(Abstract!vars)
  <2>1. PICK to \in {"stored", "lost"} : run' = [run EXCEPT ![r].at = to]
    BY <1>3 DEF RecordWritten
  <2>2. /\ \A q \in Run \ {r} : run'[q] = run[q]
        /\ run'[r].at = to /\ run'[r].bad = run[r].bad /\ run[r].at = "writing"
    BY <1>3, <2>1 DEF RecordWritten, IInv, TypeOK
  <2>3. UNCHANGED <<crashes, alerts>>
    BY <1>3 DEF RecordWritten
  <2>4. CASE Failure(r)'
    <3>1. F' = F \cup {r} /\ r \notin F
      BY <2>2, <2>4 DEF Failure
    <3> QED
      BY <2>3, <3>1 DEF Abstract!Next, Abstract!Fail
  <2>5. CASE ~Failure(r)'
    <3>1. F' = F
      BY <2>2, <2>5 DEF Failure
    <3> QED
      BY <2>3, <3>1 DEF Abstract!vars
  <2> QED
    BY <2>4, <2>5
<1>4. ASSUME NEW r \in Run, NEW bad \in BOOLEAN, RunEnds(r, bad)
      PROVE  [Abstract!Next]_(Abstract!vars)
  <2>1. F' = F
    BY <1>4 DEF RunEnds, Failure, IInv, TypeOK
  <2> QED
    BY <1>4, <2>1 DEF RunEnds, Abstract!vars
<1>5. CASE \/ Advance \/ Persisted
           \/ \E p \in Sweep : StartSweep(p) \/ Load(p) \/ QueryReturns(p) \/ QueryFails(p)
  <2>1. UNCHANGED <<run, crashes, alerts>>
    BY <1>5 DEF Advance, Persisted, StartSweep, Load, QueryReturns, QueryFails
  <2>2. F' = F
    BY <1>1, <2>1 DEF Failure
  <2> QED
    BY <2>1, <2>2 DEF Abstract!vars
<1>6. ASSUME NEW p \in Sweep, RouteReturns(p)
      PROVE  [Abstract!Next]_(Abstract!vars)
  <2> DEFINE r == sweep[p].rec
  <2>1. r \in Run /\ Failure(r) /\ alerts[r] <= crashes
    BY <1>6 DEF RouteReturns, IInv, OInv, TypeOK, Progress, Stage
  <2>2. alerts' = [alerts EXCEPT ![r] = @ + 1] /\ UNCHANGED <<run, crashes>>
    BY <1>6 DEF RouteReturns
  <2> HIDE DEF r
  <2>3. F' = F
    BY <1>1, <2>2 DEF Failure
  <2>4. Abstract!Alert(r)
    BY <2>1, <2>2, <2>3 DEF Abstract!Alert
  <2> QED
    BY <2>1, <2>4 DEF Abstract!Next
<1>7. CASE Crash
  <2>1. \A r \in Run : Failure(r)' <=> Failure(r)
    BY <1>7 DEF Crash, Failure, IInv, TypeOK
  <2>2. F' = F
    BY <1>1, <2>1
  <2>3. crashes' = crashes + 1 /\ alerts' = alerts
    BY <1>7 DEF Crash
  <2> QED
    BY <2>2, <2>3 DEF Abstract!Next, Abstract!Restart
<1> QED
  BY <1>2, <1>3, <1>4, <1>5, <1>6, <1>7 DEF Next

-----------------------------------------------------------------------------
(* Theorems about one sweep at a time *)

\* The inductive invariant of sweeps that do not overlap: what each life of the
\* process has alerted is in the notified-set, or out of reach of every query.
THEOREM OneSweepInvariance ==
  ASSUME OwnTraces, OneSweep
  PROVE  Spec => []OInv
<1>1. IInv /\ OInv /\ [Next]_vars => OInv'
  BY NextOnce
<1> QED
  BY InitOnce, SupervisorInvariance, <1>1, PTL DEF Spec

\* Between sweeps that do not overlap the notified-set holds nothing a query can
\* no longer reach: it does not grow with the history of the deployment.
THEOREM NotifiedInWindow ==
  ASSUME OwnTraces, OneSweep
  PROVE  Spec => []WindowOnly
<1>1. OInv => WindowOnly
  BY DEF OInv, Window, WindowOnly
<1> QED
  BY OneSweepInvariance, <1>1, PTL

\* The steps of sweeps that do not overlap are steps of the Notifier: no alert but
\* about a failure on record, and at most one more of each run than restarts.
THEOREM ImplementsNotifier ==
  ASSUME OwnTraces, OneSweep
  PROVE  Spec => Abstract!Init /\ [][Abstract!Next]_(Abstract!vars)
<1>1. Init => Abstract!Init
  BY DEF Init, Abstract!Init, Failure
<1>2. IInv /\ OInv /\ [Next]_vars => [Abstract!Next]_(Abstract!vars)
  BY NotifierStep
<1> QED
  BY <1>1, <1>2, SupervisorInvariance, OneSweepInvariance, PTL DEF Spec
=============================================================================
