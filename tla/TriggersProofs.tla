---------------------------- MODULE TriggersProofs ----------------------------
(***************************************************************************)
(* The registry stays well formed: types, one holder per event name in     *)
(* memory and on disk, ids that mean the same trigger in both; and the     *)
(* registering loop of RegistryLoop computes the closed form.              *)
(***************************************************************************)
EXTENDS RegistryLoop, FiniteSetTheorems, SequenceTheorems, WellFoundedInduction, TLAPS

\* A name fits its source, and an event name is in lower case.
WellNamed(t) ==
  IF t.source = "event" THEN t.name \in Event /\ Lower[t.name] = t.name ELSE t.name \in Cron

\* A registry whose ids are below n.
GoodMap(T, n) ==
  /\ DOMAIN T \subseteq 1 .. n - 1
  /\ T \in [DOMAIN T -> Registration]
  /\ \A i \in DOMAIN T : WellNamed(T[i])
  /\ OneHolder(T)

GoodRegistrations(qs) ==
  /\ qs = [k \in 1 .. Len(qs) |-> qs[k]]
  /\ Len(qs) \in Nat
  /\ \A k \in 1 .. Len(qs) : qs[k] \in Registration /\ WellNamed(qs[k])

-----------------------------------------------------------------------------
(* The operators of Registry *)

\* Registrations taken out of a registry leave a registry.
LEMMA OnlyGood ==
  ASSUME NEW T, NEW n \in Nat, GoodMap(T, n), NEW ids, ids \subseteq DOMAIN T
  PROVE  GoodMap(Only(T, ids), n)
<1>1. DOMAIN Only(T, ids) = ids /\ \A i \in ids : Only(T, ids)[i] = T[i]
  BY DEF Only
<1>2. OneHolder(Only(T, ids))
  BY <1>1 DEF GoodMap, OneHolder
<1>3. Only(T, ids) \in [ids -> Registration]
  BY DEF Only, GoodMap
<1> QED
  BY <1>1, <1>2, <1>3 DEF GoodMap

\* Registering qs in turn keeps every event name with one holder.
LEMMA RegisterAllGood ==
  ASSUME NEW T, NEW n \in Nat \ {0}, GoodMap(T, n), NEW qs, GoodRegistrations(qs)
  PROVE  GoodMap(RegisterAll(T, n, qs), n + Len(qs))
<1> DEFINE new == {n + k - 1 : k \in Surviving(qs)}
           R   == RegisterAll(T, n, qs)
<1>1. /\ DOMAIN R = Untaken(T, qs) \cup new
      /\ \A i \in DOMAIN R : R[i] = IF i \in new THEN qs[i - n + 1] ELSE T[i]
      /\ R \in [DOMAIN R -> {R[i] : i \in DOMAIN R}]
  BY DEF RegisterAll
<1>2. /\ Untaken(T, qs) \subseteq DOMAIN T
      /\ \A i \in Untaken(T, qs) : i \in 1 .. n - 1 /\ i \notin new
  BY DEF Untaken, Surviving, GoodMap, GoodRegistrations
<1>3. \A i \in new : /\ i - n + 1 \in Surviving(qs)
                     /\ i - n + 1 \in 1 .. Len(qs)
                     /\ i \in n .. n + Len(qs) - 1
  BY DEF Surviving, GoodRegistrations
<1>4. \A i \in DOMAIN R : R[i] \in Registration /\ WellNamed(R[i])
  BY <1>1, <1>2, <1>3 DEF GoodMap, GoodRegistrations
<1>5. DOMAIN R \subseteq 1 .. (n + Len(qs)) - 1
  BY <1>1, <1>2, <1>3 DEF GoodRegistrations
<1>6. OneHolder(R)
  <2> SUFFICES ASSUME NEW i \in DOMAIN R, NEW j \in DOMAIN R,
                      R[i].source = "event", R[j].source = "event",
                      Lower[R[i].name] = Lower[R[j].name]
               PROVE  i = j
    BY DEF OneHolder
  <2>1. SameEvent(R[i], R[j]) /\ SameEvent(R[j], R[i])
    BY <1>4 DEF SameEvent, WellNamed
  <2>2. CASE i \in new /\ j \in new
    <3> DEFINE k == i - n + 1
               l == j - n + 1
    <3>1. k \in Surviving(qs) /\ l \in Surviving(qs) /\ R[i] = qs[k] /\ R[j] = qs[l]
      BY <2>2, <1>1, <1>3
    <3>2. k \in 1 .. Len(qs) /\ l \in 1 .. Len(qs) /\ Len(qs) \in Nat
      BY <3>1 DEF Surviving, GoodRegistrations
    <3>3. ~(k < l) /\ ~(l < k)
      BY <2>1, <3>1, <3>2 DEF Surviving
    <3>4. k = l
      BY <3>2, <3>3
    <3>5. i \in Int /\ j \in Int
      BY <2>2, <3>2, <1>3 DEF GoodRegistrations
    <3> QED
      BY <3>4, <3>5
  <2>3. CASE i \in new /\ j \notin new
    <3>1. j \in Untaken(T, qs) /\ R[j] = T[j] /\ R[i] = qs[i - n + 1]
      BY <2>3, <1>1
    <3> QED
      BY <3>1, <2>1, <2>3, <1>3 DEF Untaken
  <2>4. CASE i \notin new /\ j \in new
    <3>1. i \in Untaken(T, qs) /\ R[i] = T[i] /\ R[j] = qs[j - n + 1]
      BY <2>4, <1>1
    <3> QED
      BY <3>1, <2>1, <2>4, <1>3 DEF Untaken
  <2>5. CASE i \notin new /\ j \notin new
    BY <2>5, <1>1, <1>2 DEF GoodMap, OneHolder
  <2> QED
    BY <2>2, <2>3, <2>4, <2>5
<1>7. R \in [DOMAIN R -> Registration]
  BY <1>1, <1>4
<1> QED
  BY <1>4, <1>5, <1>6, <1>7 DEF GoodMap

\* What a body declares are registrations under normalized names.
LEMMA DeclaredByGood ==
  ASSUME NEW s \in Skill, NEW b \in Body
  PROVE  GoodRegistrations(DeclaredBy(s, b)) /\ Len(DeclaredBy(s, b)) = Len(Decl[b])
<1> DEFINE q == DeclaredBy(s, b)
<1>1. Decl[b] \in Seq(Declaration) /\ Len(Decl[b]) \in Nat /\ Vars[b] \in SUBSET Var
  BY BodyAssumption
<1>2. Len(q) = Len(Decl[b])
  BY <1>1 DEF DeclaredBy
<1>3. ASSUME NEW k \in 1 .. Len(Decl[b])
      PROVE  q[k] \in Registration /\ WellNamed(q[k])
  <2>1. Decl[b][k] \in Declaration
    BY <1>1
  <2>2. q[k] = [skill |-> s, source |-> Decl[b][k].source,
                name |-> Normalized(Decl[b][k].source, Decl[b][k].name),
                params |-> IF Decl[b][k].source = "event" THEN Vars[b] ELSE {},
                expires |-> Never, declarative |-> TRUE, enabled |-> TRUE]
    BY DEF DeclaredBy
  <2>3. CASE Decl[b][k].source = "event"
    <3>1. Decl[b][k].name \in Event
      BY <2>1, <2>3 DEF Declaration
    <3> QED
      BY <2>2, <2>3, <3>1, <1>1, LowerAssumption
      DEF Registration, Source, Never, Normalized, WellNamed
  <2>4. CASE Decl[b][k].source # "event"
    <3>1. Decl[b][k].source = "cron" /\ Decl[b][k].name \in Cron
      BY <2>1, <2>4 DEF Declaration
    <3> QED
      BY <2>2, <2>4, <3>1, <1>1 DEF Registration, Source, Never, Normalized, WellNamed
  <2> QED
    BY <2>3, <2>4
<1>4. q = [k \in 1 .. Len(q) |-> q[k]]
  BY <1>2 DEF DeclaredBy
<1> QED
  BY <1>1, <1>2, <1>3, <1>4 DEF GoodRegistrations

-----------------------------------------------------------------------------
(* The invariant *)

FileGood ==
  /\ \A i \in DOMAIN file.rows : WellNamed(file.rows[i])
  /\ OneHolder(file.rows)

\* Every stored id is one the scheduler has handed out or seeded.
RowsBelowNext == running => DOMAIN file.rows \subseteq 1 .. nextId - 1

\* Boot wires skills that are stored: no request runs meanwhile.
Wiring == \A s \in toWire : skills[s].status = "Approved"

Inv ==
  /\ TypeOK
  /\ Wiring
  /\ GoodMap(triggers, nextId)
  /\ FileGood
  /\ RowsBelowNext
  /\ RowIdentity

\* What is written of a good registry is a good file, of the same triggers.
LEMMA RowsGood ==
  ASSUME NEW T, NEW n \in Nat, GoodMap(T, n)
  PROVE  /\ DOMAIN Rows(T) \subseteq DOMAIN T
         /\ Rows(T) \in [DOMAIN Rows(T) -> Row]
         /\ \A i \in DOMAIN Rows(T) : WellNamed(Rows(T)[i]) /\ IsRowOf(Rows(T)[i], T[i])
         /\ OneHolder(Rows(T))
<1>1. /\ DOMAIN Rows(T) = Imperative(T)
      /\ \A i \in Imperative(T) : Rows(T)[i] = RowOf(T[i]) /\ i \in DOMAIN T /\ ~T[i].declarative
  BY DEF Rows, Imperative
<1>2. \A i \in DOMAIN T : /\ RowOf(T[i]) \in Row
                          /\ WellNamed(RowOf(T[i]))
                          /\ RowOf(T[i]).source = T[i].source
                          /\ RowOf(T[i]).name = T[i].name
                          /\ RowOf(T[i]) = [RowOf(T[i]) EXCEPT !.enabled = T[i].enabled]
                          /\ T[i].enabled \in BOOLEAN
  BY DEF GoodMap, RowOf, Row, WellNamed, Registration
<1>3. OneHolder(Rows(T))
  BY <1>1, <1>2 DEF GoodMap, OneHolder
<1>4. Rows(T) \in [DOMAIN Rows(T) -> Row]
  BY <1>1, <1>2 DEF Rows
<1> QED
  BY <1>1, <1>2, <1>3, <1>4 DEF IsRowOf

\* The disk after a step that leaves a good registry, in which a stored id
\* still stands for the trigger it stood for.
LEMMA DiskStep ==
  ASSUME Inv, running,
         nextId' \in 1 .. MaxId + 1, nextId <= nextId', GoodMap(triggers', nextId'),
         \A i \in DOMAIN file.rows \cap DOMAIN triggers' :
           i \in DOMAIN triggers /\ RowOf(triggers'[i]) = [RowOf(triggers[i]) EXCEPT !.enabled = triggers'[i].enabled]
             /\ triggers'[i].declarative = triggers[i].declarative,
         \/ Save(triggers')
         \/ UNCHANGED <<file, saved, faults>> /\ overtaken' \in SUBSET Id
  PROVE  DiskType' /\ FileGood' /\ RowsBelowNext' /\ RowIdentity'
<1> USE MaxIdAssumption, TriggersAssumption
<1>1. nextId \in Nat /\ nextId' \in Nat /\ DOMAIN triggers' \subseteq Id
  BY DEF Inv, TypeOK, RegistryType, GoodMap, Id
<1>2. \A i \in DOMAIN file.rows \cap DOMAIN triggers' : IsRowOf(file.rows[i], triggers'[i])
  <2> SUFFICES ASSUME NEW i \in DOMAIN file.rows \cap DOMAIN triggers'
               PROVE  IsRowOf(file.rows[i], triggers'[i])
    OBVIOUS
  <2>1. IsRowOf(file.rows[i], triggers[i])
    BY DEF Inv, RowIdentity
  <2> QED
    BY <2>1 DEF IsRowOf, RowOf
<1>3. CASE file' = file /\ saved' \in BOOLEAN /\ faults' \in 0 .. MaxFaults /\ overtaken' \in SUBSET Id
  <2>1. DiskType'
    BY <1>3 DEF Inv, TypeOK, DiskType
  <2>2. FileGood'
    BY <1>3 DEF Inv, FileGood, OneHolder, WellNamed
  <2>3. RowsBelowNext' /\ RowIdentity'
    BY <1>1, <1>2, <1>3 DEF Inv, RowsBelowNext, RowIdentity
  <2> QED
    BY <2>1, <2>2, <2>3
<1>4. CASE file' = Unreadable /\ saved' \in BOOLEAN /\ faults' \in 0 .. MaxFaults /\ overtaken' \in SUBSET Id
  <2>1. file'.rows = <<>> /\ DOMAIN file'.rows = {}
    BY <1>4 DEF Unreadable
  <2>2. DiskType'
    BY <1>4, <2>1 DEF DiskType, Unreadable
  <2> QED
    BY <2>1, <2>2 DEF FileGood, OneHolder, RowsBelowNext, RowIdentity
<1>5. CASE /\ file' = [ok |-> TRUE, rows |-> Rows(triggers')]
           /\ saved' \in BOOLEAN /\ faults' \in 0 .. MaxFaults /\ overtaken' \in SUBSET Id
  <2>1. file'.rows = Rows(triggers')
    BY <1>5
  <2>2. /\ DOMAIN file'.rows \subseteq DOMAIN triggers'
        /\ file'.rows \in [DOMAIN file'.rows -> Row]
        /\ \A i \in DOMAIN file'.rows : WellNamed(file'.rows[i]) /\ IsRowOf(file'.rows[i], triggers'[i])
        /\ OneHolder(file'.rows)
    BY <1>1, <2>1, RowsGood
  <2>3. DiskType'
    BY <1>1, <1>5, <2>2 DEF DiskType
  <2> QED
    BY <2>2, <2>3 DEF FileGood, RowsBelowNext, RowIdentity, GoodMap
<1>6. faults \in 0 .. MaxFaults /\ saved \in BOOLEAN /\ overtaken \in SUBSET Id
  BY DEF Inv, TypeOK, DiskType
<1>7. CASE Save(triggers')
  <2>1. saved' \in BOOLEAN /\ overtaken' \in SUBSET Id
    BY <1>6, <1>7 DEF Save
  <2>2. faults' \in 0 .. MaxFaults
    BY <1>6, <1>7 DEF Save
  <2> QED
    BY <1>3, <1>4, <1>5, <1>7, <2>1, <2>2 DEF Save
<1> QED
  BY <1>3, <1>6, <1>7

\* The part of Inv that is not about the process.
Core ==
  /\ RegistryType
  /\ GoodMap(triggers, nextId)
  /\ DiskType
  /\ FileGood
  /\ RowsBelowNext
  /\ RowIdentity

LEMMA InvParts == Inv <=> ProcessType /\ Wiring /\ Core
BY DEF Inv, Core, TypeOK

\* The keys of declared triggers that go are keys.
LEMMA LostType ==
  ASSUME NEW T, NEW n, GoodMap(T, n), NEW kept
  PROVE  Lost(T, kept) \in SUBSET (Skill \X Source \X (Cron \cup Event))
BY DEF GoodMap, Registration, Lost, Key

LEMMA ForgetCronType ==
  ASSUME RegistryType, NEW ids
  PROVE  ForgetCron(ids) \in [Id -> Nat \cup {-1}]
BY DEF RegistryType, ForgetCron

\* Taking registrations out, with or without a write.
LEMMA RemoveStep ==
  ASSUME Inv, running, NEW ids, ids \subseteq DOMAIN triggers,
         triggers' = Only(triggers, ids), nextId' = nextId,
         cronState' \in [Id -> Nat \cup {-1}], TallyType',
         cut' \in SUBSET (Skill \X Source \X (Cron \cup Event)),
         Save(triggers') \/ UNCHANGED disk
  PROVE  Core'
<1>1. nextId \in Nat /\ nextId \in 1 .. MaxId + 1
  BY MaxIdAssumption DEF Inv, TypeOK, RegistryType
<1>2. GoodMap(triggers', nextId')
  BY <1>1, OnlyGood DEF Inv
<1>3. DOMAIN triggers' \subseteq DOMAIN triggers /\ \A i \in DOMAIN triggers' : triggers'[i] = triggers[i]
  BY DEF Only
<1>4. \A i \in DOMAIN triggers' :
        RowOf(triggers'[i]) = [RowOf(triggers[i]) EXCEPT !.enabled = triggers'[i].enabled]
  BY <1>3 DEF RowOf
<1>5. overtaken \in SUBSET Id
  BY DEF Inv, TypeOK, DiskType
<1>6. DiskType' /\ FileGood' /\ RowsBelowNext' /\ RowIdentity'
  BY <1>1, <1>2, <1>3, <1>4, <1>5, DiskStep DEF disk
<1>7. RegistryType'
  BY <1>1, <1>2 DEF RegistryType, GoodMap
<1> QED
  BY <1>2, <1>6, <1>7 DEF Core

\* A schedule has finitely many registrations.
LEMMA OnFinite ==
  ASSUME NEW T, NEW n \in Nat, DOMAIN T \subseteq 1 .. n, NEW k, NEW m, NEW S, S \subseteq On(T, k, m)
  PROVE  IsFiniteSet(S) /\ Cardinality(S) \in Nat
<1>1. IsFiniteSet(1 .. n) /\ S \in SUBSET (1 .. n)
  BY FS_Interval DEF On
<1> QED
  BY <1>1, FS_Subset, FS_CardinalityType

\* Counting the registrations that come into service counts.
LEMMA CountType ==
  ASSUME TallyType, NEW n \in Nat, DOMAIN triggers' \subseteq 1 .. n, CountStints, fires' = fires
  PROVE  TallyType'
<1>1. ASSUME NEW k \in Schedule
      PROVE  Cardinality(On(triggers', k, Minute) \ DOMAIN triggers) \in Nat
  BY OnFinite
<1> QED
  BY <1>1 DEF TallyType, CountStints

\* Registering on top of what is kept: the file's ids keep their triggers,
\* since the new ids are above all of them.
LEMMA RegisterStep ==
  ASSUME Inv, running, NEW ids, ids \subseteq DOMAIN triggers, NEW qs, GoodRegistrations(qs),
         triggers' = RegisterAll(Only(triggers, ids), nextId, qs),
         nextId' = nextId + Len(qs), nextId' \in 1 .. MaxId + 1,
         cronState' \in [Id -> Nat \cup {-1}], CountStints, fires' = fires,
         cut' \in SUBSET (Skill \X Source \X (Cron \cup Event)),
         \/ Save(triggers')
         \/ UNCHANGED <<file, saved, faults>> /\ overtaken' \in SUBSET Id
  PROVE  Core'
<1>1. nextId \in Nat \ {0} /\ Len(qs) \in Nat
  BY MaxIdAssumption DEF Inv, TypeOK, RegistryType, GoodRegistrations
<1>2. GoodMap(Only(triggers, ids), nextId)
  BY <1>1, OnlyGood DEF Inv
<1>3. GoodMap(triggers', nextId')
  BY <1>1, <1>2, RegisterAllGood
<1>4. \A i \in DOMAIN triggers' : i < nextId => i \in DOMAIN triggers /\ triggers'[i] = triggers[i]
  BY <1>1 DEF RegisterAll, Untaken, Surviving, Only, GoodRegistrations
<1>5. \A i \in DOMAIN file.rows \cap DOMAIN triggers' :
        i \in DOMAIN triggers /\ triggers'[i] = triggers[i]
  BY <1>1, <1>4 DEF Inv, RowsBelowNext
<1>6. \A i \in DOMAIN file.rows \cap DOMAIN triggers' :
        RowOf(triggers'[i]) = [RowOf(triggers[i]) EXCEPT !.enabled = triggers'[i].enabled]
  BY <1>5 DEF RowOf
<1>7. nextId <= nextId'
  BY <1>1
<1>8. DiskType' /\ FileGood' /\ RowsBelowNext' /\ RowIdentity'
  BY <1>3, <1>5, <1>6, <1>7, DiskStep
<1>9. TallyType'
  <2>1. nextId' - 1 \in Nat /\ DOMAIN triggers' \subseteq 1 .. nextId' - 1
    BY <1>1, <1>3 DEF GoodMap
  <2> QED
    BY <2>1, CountType DEF Inv, TypeOK, RegistryType
<1>10. RegistryType'
  BY <1>3, <1>9 DEF RegistryType, GoodMap
<1> QED
  BY <1>3, <1>8, <1>10 DEF Core

\* A step that leaves registry and disk alone.
LEMMA StutterStep ==
  ASSUME Core, UNCHANGED <<registry, disk, running>>,
         TallyType', cut' = cut
  PROVE  Core'
<1>1. RegistryType'
  BY DEF Core, RegistryType, registry
<1>2. GoodMap(triggers', nextId')
  BY DEF Core, GoodMap, OneHolder, WellNamed, registry
<1>3. DiskType' /\ FileGood'
  BY DEF Core, DiskType, FileGood, OneHolder, WellNamed, disk
<1>4. RowsBelowNext' /\ RowIdentity'
  BY DEF Core, RowsBelowNext, RowIdentity, registry, disk
<1> QED
  BY <1>1, <1>2, <1>3, <1>4 DEF Core

-----------------------------------------------------------------------------
(* Steps *)

LEMMA InitCore == Init => Core
<1> SUFFICES ASSUME Init PROVE Core
  OBVIOUS
<1> USE MaxIdAssumption, TriggersAssumption
<1>1. DOMAIN triggers = {} /\ DOMAIN file.rows = {} /\ file = [ok |-> TRUE, rows |-> <<>>]
  BY DEF Init, NoFile
<1>2. RegistryType
  BY <1>1 DEF Init, RegistryType, TallyType, Id
<1>3. DiskType
  BY <1>1 DEF Init, DiskType
<1> QED
  BY <1>1, <1>2, <1>3
  DEF Init, Core, GoodMap, FileGood, OneHolder, RowsBelowNext, RowIdentity, RegistryType

\* Boot brings back the unexpired rows: a good file makes a good registry.
LEMMA BootCore == Inv /\ Boot => Core'
<1> SUFFICES ASSUME Inv, Boot PROVE Core'
  OBVIOUS
<1> USE MaxIdAssumption, TriggersAssumption
<1>1. /\ DOMAIN triggers' = Unexpired
      /\ \A i \in Unexpired : triggers'[i] = FromRow(file.rows[i])
      /\ Unexpired \subseteq DOMAIN file.rows
      /\ triggers' = [i \in Unexpired |-> FromRow(file.rows[i])]
      /\ file' = [file EXCEPT !.rows = Only(file.rows, Unexpired)]
  BY DEF Boot, Unexpired
<1>2. nextId' \in 1 .. MaxId + 1 /\ \A i \in Unexpired : i \in Id /\ i < nextId'
  BY <1>1 DEF Boot, RaisedAbove, Inv, TypeOK, DiskType
<1>3. \A i \in Unexpired : /\ FromRow(file.rows[i]) \in Registration
                           /\ WellNamed(FromRow(file.rows[i]))
                           /\ FromRow(file.rows[i]).source = file.rows[i].source
                           /\ FromRow(file.rows[i]).name = file.rows[i].name
  BY <1>1 DEF Inv, TypeOK, DiskType, Row, FromRow, Registration, FileGood, WellNamed
<1>4. OneHolder(triggers')
  BY <1>1, <1>3 DEF Inv, FileGood, OneHolder
<1>5. GoodMap(triggers', nextId')
  BY <1>1, <1>2, <1>3, <1>4 DEF GoodMap, Id
<1>6. file'.rows = Only(file.rows, Unexpired) /\ file'.ok = file.ok
  BY <1>1 DEF Inv, TypeOK, DiskType
<1>7. DOMAIN file'.rows = Unexpired /\ \A i \in Unexpired : file'.rows[i] = file.rows[i]
  BY <1>6 DEF Only
<1>8. DiskType'
  <2>1. file' = [ok |-> file'.ok, rows |-> file'.rows]
    BY <1>1 DEF Inv, TypeOK, DiskType
  <2>2. file'.rows \in [DOMAIN file'.rows -> Row]
    BY <1>1, <1>6, <1>7 DEF Only, Inv, TypeOK, DiskType
  <2> QED
    BY <2>1, <2>2, <1>1, <1>6, <1>7 DEF Boot, DiskType, Inv, TypeOK
<1>9. FileGood'
  BY <1>1, <1>7 DEF Inv, FileGood, OneHolder, WellNamed
<1>10. RowsBelowNext'
  BY <1>2, <1>7 DEF RowsBelowNext, Id
<1>11. RowIdentity'
  <2>1. \A i \in Unexpired : file.rows[i] \in Row
    BY <1>1 DEF Inv, TypeOK, DiskType
  <2>2. \A i \in Unexpired : IsRowOf(file.rows[i], FromRow(file.rows[i]))
    BY <2>1 DEF IsRowOf, RowOf, FromRow, Row
  <2> QED
    BY <1>1, <1>7, <2>2 DEF RowIdentity
<1>12. RegistryType'
  <2>1. nextId' - 1 \in Nat /\ DOMAIN triggers' \subseteq 1 .. nextId' - 1
    BY <1>2, <1>5 DEF GoodMap
  <2>2. TallyType'
    BY <2>1, CountType DEF Boot, Inv, TypeOK, RegistryType
  <2> QED
    BY <1>2, <1>5, <2>2 DEF RegistryType, GoodMap, Boot, Inv, TypeOK
<1> QED
  BY <1>5, <1>8, <1>9, <1>10, <1>11, <1>12 DEF Core

LEMMA BootFailsCore == Inv /\ BootFails => Core'
<1> SUFFICES ASSUME Inv, BootFails PROVE Core'
  OBVIOUS
<1>1. running' = FALSE /\ UNCHANGED <<triggers, nextId, cronState, saved, overtaken, cut, tally>>
  BY DEF BootFails, Inv, TypeOK, ProcessType, registry
<1>2. faults' \in 0 .. MaxFaults
  BY TriggersAssumption DEF BootFails, Inv, TypeOK, DiskType
<1>3. DiskType' /\ FileGood'
  <2>1. CASE file' = file
    BY <1>1, <1>2, <2>1 DEF Inv, TypeOK, DiskType, FileGood, OneHolder, WellNamed
  <2>2. CASE file' = Unreadable
    <3>1. file'.rows = <<>> /\ DOMAIN file'.rows = {}
      BY <2>2 DEF Unreadable
    <3> QED
      BY <1>1, <1>2, <2>2, <3>1
      DEF Inv, TypeOK, DiskType, FileGood, OneHolder, WellNamed, Unreadable
  <2> QED
    BY <2>1, <2>2 DEF BootFails
<1>4. GoodMap(triggers', nextId') /\ RegistryType'
  BY <1>1 DEF Inv, TypeOK, RegistryType, TallyType, tally, GoodMap, OneHolder, WellNamed
<1> QED
  BY <1>1, <1>3, <1>4 DEF Core, RowsBelowNext, RowIdentity

LEMMA CrashCore == Inv /\ Crash => Core'
<1> SUFFICES ASSUME Inv, Crash PROVE Core'
  OBVIOUS
<1> USE MaxIdAssumption
<1>1. DOMAIN triggers' = {} /\ triggers' = <<>> /\ running' = FALSE
  BY DEF Crash
<1>2. RegistryType'
  <2>1. TallyType'
    BY DEF Crash, Inv, TypeOK, RegistryType, TallyType, tally
  <2> QED
    BY <1>1, <2>1 DEF Crash, RegistryType, Id
<1>3. GoodMap(triggers', nextId')
  BY <1>1, <1>2 DEF GoodMap, OneHolder, RegistryType
<1>4. DiskType' /\ FileGood'
  BY DEF Crash, Inv, TypeOK, DiskType, FileGood, OneHolder, WellNamed, disk
<1> QED
  BY <1>1, <1>2, <1>3, <1>4 DEF Core, RowsBelowNext, RowIdentity

LEMMA OnlyAll == ASSUME NEW T, NEW n, GoodMap(T, n) PROVE T = Only(T, DOMAIN T)
BY DEF GoodMap, Only

\* Registering declared triggers on top of a part of the registry.
LEMMA DeclaredCore ==
  ASSUME Inv, running, NEW ids, ids \subseteq DOMAIN triggers, NEW qs, GoodRegistrations(qs),
         RegisterDeclared(Only(triggers, ids), qs), fires' = fires,
         cut' \in SUBSET (Skill \X Source \X (Cron \cup Event))
  PROVE  Core'
<1>1. /\ triggers' = RegisterAll(Only(triggers, ids), nextId, qs)
      /\ nextId' = nextId + Len(qs)
      /\ nextId + Len(qs) <= MaxId + 1
      /\ UNCHANGED <<file, saved, faults>>
  BY DEF RegisterDeclared, TakeIds
<1>2. nextId' \in 1 .. MaxId + 1
  BY <1>1, MaxIdAssumption DEF GoodRegistrations, Inv, TypeOK, RegistryType
<1>3. cronState' \in [Id -> Nat \cup {-1}]
  BY ForgetCronType DEF RegisterDeclared, Inv, TypeOK
<1>4. overtaken' \in SUBSET Id
  BY MaxIdAssumption DEF RegisterDeclared, Inv, TypeOK, DiskType, RegistryType, Id
<1>5. CountStints
  BY DEF RegisterDeclared
<1> QED
  BY <1>1, <1>2, <1>3, <1>4, <1>5, RegisterStep

LEMMA WireSkillCore == ASSUME NEW s \in Skill PROVE Inv /\ WireSkill(s) => Core'
<1> SUFFICES ASSUME Inv, WireSkill(s) PROVE Core'
  OBVIOUS
<1>1. GoodMap(triggers, nextId) /\ triggers = Only(triggers, DOMAIN triggers)
  BY OnlyAll DEF Inv
<1>2. skills[s].body \in Body
  BY DEF WireSkill, Inv, Wiring, TypeOK, ProcessType, SkillRecord
<1>3. GoodRegistrations(DeclaredBy(s, skills[s].body))
  BY <1>2, DeclaredByGood
<1>4. cut' \in SUBSET (Skill \X Source \X (Cron \cup Event))
  BY <1>1, LostType DEF WireSkill, Inv, TypeOK, RegistryType
<1> QED
  BY <1>1, <1>3, <1>4, DeclaredCore DEF WireSkill

LEMMA TickCore == Inv /\ Tick => Core'
<1> SUFFICES ASSUME Inv, Tick PROVE Core'
  OBVIOUS
<1> DEFINE left == {i \in DOMAIN triggers : ~Expired(triggers[i], now)}
<1>1. triggers' = Only(triggers, left) /\ left \subseteq DOMAIN triggers /\ running
  BY DEF Tick, Serving
<1>2. now \in Nat /\ Minute \in Nat
  BY TriggersAssumption DEF Inv, TypeOK, ProcessType, Minute, TicksPerMinute
<1>3. cronState' \in [Id -> Nat \cup {-1}]
  BY <1>2 DEF Tick, Inv, TypeOK, RegistryType
<1>4. TallyType'
  <2> DEFINE due  == Due(left)
             n(k) == Cardinality(due \cap On(triggers, k, Minute))
  <2>1. ASSUME NEW k \in Schedule PROVE n(k) \in Nat
    <3>1. nextId - 1 \in Nat /\ DOMAIN triggers \subseteq 1 .. nextId - 1
      BY MaxIdAssumption DEF Inv, TypeOK, RegistryType
    <3> QED
      BY <3>1, OnFinite
  <2>2. fires' = [k \in Schedule |-> fires[k] + n(k)] /\ stints' = stints
    BY DEF Tick
  <2> HIDE DEF due, n
  <2> QED
    BY <2>1, <2>2 DEF Inv, TypeOK, RegistryType, TallyType
<1>5. nextId' = nextId /\ cut' \in SUBSET (Skill \X Source \X (Cron \cup Event))
  BY DEF Tick, Inv, TypeOK, RegistryType
<1>6. Save(triggers') \/ UNCHANGED disk
  BY DEF Tick, SaveIf
<1> QED
  BY <1>1, <1>3, <1>4, <1>5, <1>6, RemoveStep

\* A client's registration, whatever its parameters are.
LEMMA RegisterTriggerCore ==
  ASSUME Inv, running, NEW c \in Call, NEW params \in SUBSET Var,
         RegisterTrigger(c, params), fires' = fires
  PROVE  Core'
<1> DEFINE qs == <<CalledFor(c, params)>>
<1>1. CalledFor(c, params) \in Registration /\ WellNamed(CalledFor(c, params))
  BY LowerAssumption DEF Call, CalledFor, Registration, Source, Normalized, WellNamed
<1>2. GoodRegistrations(qs) /\ Len(qs) = 1
  BY <1>1 DEF GoodRegistrations
<1>3. triggers' = RegisterAll(Only(triggers, DOMAIN triggers), nextId, qs)
  BY OnlyAll DEF Inv, RegisterTrigger
<1>4. nextId' = nextId + Len(qs) /\ nextId' \in 1 .. MaxId + 1
  BY <1>2, TriggersAssumption, MaxIdAssumption
  DEF RegisterTrigger, TakeIds, Inv, TypeOK, RegistryType
<1>5. cronState' \in [Id -> Nat \cup {-1}]
  BY ForgetCronType DEF RegisterTrigger, Inv, TypeOK
<1>6. cut' \in SUBSET (Skill \X Source \X (Cron \cup Event))
  BY LostType DEF RegisterTrigger, Inv, TypeOK, RegistryType
<1>7. Save(triggers') /\ CountStints
  BY DEF RegisterTrigger
<1> QED
  BY <1>2, <1>3, <1>4, <1>5, <1>6, <1>7, RegisterStep

LEMMA UnregisterCore == ASSUME NEW i \in Id PROVE Inv /\ UnregisterTrigger(i) => Core'
<1> SUFFICES ASSUME Inv, UnregisterTrigger(i) PROVE Core'
  OBVIOUS
<1>1. triggers' = Only(triggers, DOMAIN triggers \ {i}) /\ running
  BY DEF UnregisterTrigger, Without, Serving
<1>2. cronState' \in [Id -> Nat \cup {-1}]
  BY ForgetCronType DEF UnregisterTrigger, Inv, TypeOK
<1>3. cut' \in SUBSET (Skill \X Source \X (Cron \cup Event))
  BY LostType DEF UnregisterTrigger, Inv, TypeOK, RegistryType
<1>4. nextId' = nextId /\ TallyType' /\ (Save(triggers') \/ UNCHANGED disk)
  BY DEF UnregisterTrigger, SaveIf, Inv, TypeOK, RegistryType, TallyType, tally
<1> QED
  BY <1>1, <1>2, <1>3, <1>4, RemoveStep

LEMMA SetEnabledCore ==
  ASSUME NEW i \in Id, NEW on \in BOOLEAN
  PROVE  Inv /\ SetTriggerEnabled(i, on) => Core'
<1> SUFFICES ASSUME Inv, SetTriggerEnabled(i, on) PROVE Core'
  OBVIOUS
<1>1. /\ triggers' = [triggers EXCEPT ![i].enabled = on]
      /\ i \in DOMAIN triggers /\ running
      /\ UNCHANGED <<nextId, cronState, tally>>
  BY DEF SetTriggerEnabled, Serving
<1>2. triggers \in [DOMAIN triggers -> Registration]
  BY DEF Inv, GoodMap
<1>3. DOMAIN triggers' = DOMAIN triggers /\ triggers' \in [DOMAIN triggers -> Registration]
  BY <1>1, <1>2 DEF Registration
<1>4. \A j \in DOMAIN triggers :
        /\ RowOf(triggers'[j]) = [RowOf(triggers[j]) EXCEPT !.enabled = triggers'[j].enabled]
        /\ triggers'[j].declarative = triggers[j].declarative
        /\ triggers'[j].source = triggers[j].source
        /\ triggers'[j].name = triggers[j].name
  BY <1>1, <1>2 DEF Registration, RowOf
<1>5. GoodMap(triggers', nextId')
  BY <1>1, <1>3, <1>4 DEF Inv, GoodMap, OneHolder, WellNamed
<1>6. Key(triggers[i]) \in Skill \X Source \X (Cron \cup Event)
  BY <1>1, <1>2 DEF Key, Registration
<1>7. cut' \in SUBSET (Skill \X Source \X (Cron \cup Event))
  BY <1>6 DEF SetTriggerEnabled, Inv, TypeOK, RegistryType
<1>8. RegistryType'
  BY <1>1, <1>3, <1>7 DEF Inv, TypeOK, RegistryType, TallyType, tally
<1>9. Save(triggers') \/ UNCHANGED disk
  BY DEF SetTriggerEnabled, SaveIf
<1>10. nextId \in 1 .. MaxId + 1 /\ nextId <= nextId' /\ overtaken \in SUBSET Id
  BY <1>1, MaxIdAssumption DEF Inv, TypeOK, RegistryType, DiskType
<1>11. DiskType' /\ FileGood' /\ RowsBelowNext' /\ RowIdentity'
  BY <1>1, <1>3, <1>4, <1>5, <1>9, <1>10, DiskStep DEF disk
<1> QED
  BY <1>5, <1>8, <1>11 DEF Core

LEMMA SyncCore ==
  ASSUME NEW s \in Skill, NEW b \in Body \cup {NoBody}, NEW st,
         Inv, running, SyncDeclarativeTriggers(s, b, st), fires' = fires
  PROVE  Core'
<1> DEFINE kept == KeptBySync(s, st)
           qs   == IF st = "Approved" /\ b # NoBody THEN DeclaredBy(s, b) ELSE <<>>
           ids  == DOMAIN triggers \ DeclarativeOf(triggers, s)
<1>1. GoodRegistrations(qs)
  <2>1. CASE st = "Approved" /\ b # NoBody
    BY <2>1, DeclaredByGood
  <2>2. CASE ~(st = "Approved" /\ b # NoBody)
    BY <2>2 DEF GoodRegistrations
  <2> QED
    BY <2>1, <2>2
<1>2. kept = Only(triggers, ids) /\ ids \subseteq DOMAIN triggers
  BY DEF KeptBySync, Without
<1>3. GoodMap(kept, nextId)
  BY <1>2, OnlyGood, MaxIdAssumption DEF Inv, TypeOK, RegistryType
<1>4. Lost(kept, Untaken(kept, qs)) \in SUBSET (Skill \X Source \X (Cron \cup Event))
  BY <1>3, LostType
<1>5. cut' \in SUBSET (Skill \X Source \X (Cron \cup Event))
  BY <1>4 DEF SyncDeclarativeTriggers, Inv, TypeOK, RegistryType
<1>6. RegisterDeclared(Only(triggers, ids), qs)
  BY <1>2 DEF SyncDeclarativeTriggers
<1> QED
  BY <1>1, <1>2, <1>5, <1>6, DeclaredCore

LEMMA DropAllCore == ASSUME NEW h \in Handler PROVE Inv /\ DropAllTriggers(h) => Core'
<1> SUFFICES ASSUME Inv, DropAllTriggers(h) PROVE Core'
  OBVIOUS
<1> DEFINE gone == AllOf(triggers, handler[h].skill)
<1>1. triggers' = Only(triggers, DOMAIN triggers \ gone) /\ running
  BY DEF DropAllTriggers, Without, Serving
<1>2. cronState' \in [Id -> Nat \cup {-1}]
  BY ForgetCronType DEF DropAllTriggers, Inv, TypeOK
<1>3. cut' \in SUBSET (Skill \X Source \X (Cron \cup Event))
  BY DEF DropAllTriggers, Inv, TypeOK, RegistryType
<1>4. nextId' = nextId /\ TallyType' /\ (Save(triggers') \/ UNCHANGED disk)
  BY DEF DropAllTriggers, SaveIf, Inv, TypeOK, RegistryType, TallyType, tally
<1> QED
  BY <1>1, <1>2, <1>3, <1>4, RemoveStep

\* What a handler carries, by the point it has reached.
LEMMA HandlerFields ==
  ASSUME ProcessType, NEW h \in Handler
  PROVE  /\ handler[h].at = "registering" =>
              handler[h].call \in Call /\ handler[h].body \in Body \cup {NoBody}
         /\ handler[h].at = "stored" => handler[h].skill \in Skill /\ handler[h].status \in Status
         /\ handler[h].at = "loaded" => /\ handler[h].skill \in Skill
                                        /\ handler[h].status \in Status
                                        /\ handler[h].body \in Body \cup {NoBody}
         /\ handler[h].at \in {"approving", "approved"} =>
              handler[h].skill \in Skill /\ handler[h].body \in Body
         /\ handler[h].at = "deleted" => handler[h].skill \in Skill
<1>1. handler[h] \in Busy \cup {Idle}
  BY DEF ProcessType
<1> QED
  BY <1>1 DEF Busy, Idle

LEMMA ContinueCore == ASSUME NEW h \in Handler PROVE Inv /\ Continue(h) => Core'
<1> SUFFICES ASSUME Inv, Continue(h) PROVE Core'
  OBVIOUS
<1>1. ProcessType /\ Core
  BY InvParts
<1>2. CASE RegisterEvent(h)
  <2>1. handler[h].call \in Call /\ handler[h].body \in Body \cup {NoBody}
    BY <1>1, <1>2, HandlerFields DEF RegisterEvent
  <2>2. ParamsOf(handler[h].body) \in SUBSET Var
    BY <2>1, BodyAssumption DEF ParamsOf
  <2> QED
    BY <1>2, <2>1, <2>2, RegisterTriggerCore DEF RegisterEvent, Serving
<1>3. CASE SyncLoad(h)
  BY <1>1, <1>3, StutterStep DEF SyncLoad, Core, RegistryType, TallyType, tally
<1>4. CASE SyncApply(h)
  <2>1. handler[h].skill \in Skill /\ handler[h].body \in Body \cup {NoBody}
    BY <1>1, <1>4, HandlerFields DEF SyncApply
  <2> QED
    BY <1>4, <2>1, SyncCore DEF SyncApply, Serving
<1>5. CASE ApproveStore(h)
  BY <1>1, <1>5, StutterStep DEF ApproveStore, Core, RegistryType, TallyType, tally
<1>6. CASE ApproveApply(h)
  <2>1. handler[h].skill \in Skill /\ handler[h].body \in Body \cup {NoBody}
    BY <1>1, <1>6, HandlerFields DEF ApproveApply
  <2> QED
    BY <1>6, <2>1, SyncCore DEF ApproveApply, Serving
<1>7. CASE DropAllTriggers(h)
  BY <1>7, DropAllCore
<1> QED
  BY <1>2, <1>3, <1>4, <1>5, <1>6, <1>7 DEF Continue

LEMMA RequestCore == ASSUME NEW h \in Handler PROVE Inv /\ Request(h) => Core'
<1> SUFFICES ASSUME Inv, Request(h) PROVE Core'
  OBVIOUS
<1>1. Core
  BY InvParts
<1>2. UNCHANGED <<registry, disk, running, cut, tally>>
  BY DEF Request, RegisterLoad, StatusStore, WriteStore, ApproveLoad, DeleteStore
<1> QED
  BY <1>1, <1>2, StutterStep DEF Core, RegistryType, TallyType, tally

LEMMA NextCore == Inv /\ [Next]_vars => Core'
<1> SUFFICES ASSUME Inv, [Next]_vars PROVE Core'
  OBVIOUS
<1>1. Core
  BY InvParts
<1>2. CASE Boot
  BY <1>2, BootCore
<1>3. CASE BootFails
  BY <1>3, BootFailsCore
<1>4. CASE \E s \in Skill : WireSkill(s)
  BY <1>4, WireSkillCore
<1>5. CASE Crash
  BY <1>5, CrashCore
<1>6. CASE Advance
  <2>1. TallyType'
    <3>1. ASSUME NEW k \in Schedule PROVE Cardinality(On(triggers, k, Minute')) \in Nat
      <4>1. nextId - 1 \in Nat /\ DOMAIN triggers \subseteq 1 .. nextId - 1
        BY <1>1, MaxIdAssumption DEF Core, RegistryType
      <4> QED
        BY <4>1, OnFinite
    <3> QED
      BY <1>1, <1>6, <3>1 DEF Advance, Core, RegistryType, TallyType, tally
  <2> QED
    BY <1>1, <1>6, <2>1, StutterStep DEF Advance
<1>7. CASE Tick
  BY <1>7, TickCore
<1>8. CASE \E c \in Calls : RegisterCron(c)
  <2>1. PICK c \in Calls : RegisterCron(c)
    BY <1>8
  <2>2. c \in Call /\ running /\ fires' = fires /\ RegisterTrigger(c, {}) /\ {} \in SUBSET Var
    BY <2>1, TriggersAssumption DEF RegisterCron, Serving
  <2> QED
    BY <2>2, RegisterTriggerCore
<1>9. CASE \E i \in Id : UnregisterTrigger(i)
  BY <1>9, UnregisterCore
<1>10. CASE \E i \in Id, on \in BOOLEAN : SetTriggerEnabled(i, on)
  BY <1>10, SetEnabledCore
<1>11. CASE \E s \in Skill, b \in Body : BridgeWrite(s, b)
  BY <1>1, <1>11, StutterStep DEF BridgeWrite, Core, RegistryType, TallyType, tally
<1>12. CASE \E h \in Handler : Request(h) \/ Continue(h)
  BY <1>12, RequestCore, ContinueCore
<1>13. CASE UNCHANGED vars
  BY <1>1, <1>13, StutterStep DEF vars, Core, RegistryType, TallyType, tally
<1> QED
  BY <1>2, <1>3, <1>4, <1>5, <1>6, <1>7, <1>8, <1>9, <1>10, <1>11, <1>12, <1>13 DEF Next

\* The stored skills and the requests in flight keep their types, and nothing
\* but a boot starts wiring.
LEMMA RequestProcess ==
  ASSUME NEW h \in Handler
  PROVE  Inv /\ Request(h) => ProcessType' /\ Wiring'
<1> SUFFICES ASSUME Inv, Request(h) PROVE ProcessType' /\ Wiring'
  OBVIOUS
<1> USE DEF Serving
<1>1. ProcessType
  BY InvParts
<1>2. /\ toWire = {} /\ UNCHANGED <<now, running, toWire, crashes>>
  BY DEF Request, RegisterLoad, StatusStore, WriteStore, ApproveLoad, DeleteStore
<1>3. Wiring'
  BY <1>2 DEF Wiring
<1>4. \A s \in Skill : Started(s) => raced' \in SUBSET Skill
  BY <1>1 DEF Started, ProcessType
<1>5. \A s \in Skill : /\ skills[s] \in SkillRecord
                       /\ skills[s].body \in Body \cup {NoBody}
                       /\ skills[s].status # "Absent" => skills[s].body \in Body
  BY <1>1 DEF ProcessType, SkillRecord, Status
<1>6. CASE \E c \in Calls : RegisterLoad(h, c)
  <2>1. PICK c \in Calls : RegisterLoad(h, c)
    BY <1>6
  <2>2. c \in Call /\ c.skill \in Skill
    BY TriggersAssumption DEF Call
  <2>3. [at |-> "registering", call |-> c, body |-> skills[c.skill].body] \in Busy
    BY <1>5, <2>2 DEF Busy
  <2> QED
    BY <1>1, <1>2, <1>3, <2>1, <2>3 DEF RegisterLoad, ProcessType
<1>7. CASE \E s \in Skill, st \in Status : StatusStore(h, s, st)
  <2>1. PICK s \in Skill, st \in Status : StatusStore(h, s, st)
    BY <1>7
  <2>2. [skills[s] EXCEPT !.status = st] \in SkillRecord
    BY <1>5, <2>1 DEF StatusStore, SkillRecord, Status
  <2>3. [at |-> "stored", skill |-> s, status |-> st] \in Busy
    BY DEF Busy
  <2>4. skills' \in [Skill -> SkillRecord]
    BY <1>1, <2>1, <2>2 DEF StatusStore, ProcessType
  <2> QED
    BY <1>1, <1>2, <1>3, <1>4, <2>1, <2>3, <2>4 DEF StatusStore, ProcessType
<1>8. CASE \E s \in Skill, b \in Body : WriteStore(h, s, b)
  <2>1. PICK s \in Skill, b \in Body : WriteStore(h, s, b)
    BY <1>8
  <2>2. PICK st \in WrittenStatus(s) :
          /\ skills' = [skills EXCEPT ![s] = [status |-> st, body |-> b]]
          /\ handler' = [handler EXCEPT ![h] = [at |-> "stored", skill |-> s, status |-> st]]
    BY <2>1 DEF WriteStore
  <2>3. st \in Status
    BY <1>5 DEF WrittenStatus, Status, SkillRecord
  <2>4. skills' \in [Skill -> SkillRecord]
    BY <1>1, <2>2, <2>3 DEF ProcessType, SkillRecord
  <2>5. handler' \in [Handler -> Busy \cup {Idle}]
    BY <1>1, <2>2, <2>3 DEF ProcessType, Busy
  <2> QED
    BY <1>1, <1>2, <1>3, <1>4, <2>1, <2>4, <2>5 DEF WriteStore, ProcessType
<1>9. CASE \E s \in Skill : ApproveLoad(h, s)
  <2>1. PICK s \in Skill : ApproveLoad(h, s)
    BY <1>9
  <2>2. [at |-> "approving", skill |-> s, body |-> skills[s].body] \in Busy
    BY <1>5, <2>1 DEF ApproveLoad, Busy
  <2> QED
    BY <1>1, <1>2, <1>3, <1>4, <2>1, <2>2 DEF ApproveLoad, ProcessType
<1>10. CASE \E s \in Skill : DeleteStore(h, s)
  <2>1. PICK s \in Skill : DeleteStore(h, s)
    BY <1>10
  <2>2. Missing \in SkillRecord /\ [at |-> "deleted", skill |-> s] \in Busy
    BY DEF Missing, SkillRecord, Busy
  <2>3. skills' \in [Skill -> SkillRecord]
    BY <1>1, <2>1, <2>2 DEF DeleteStore, ProcessType
  <2> QED
    BY <1>1, <1>2, <1>3, <1>4, <2>1, <2>2, <2>3 DEF DeleteStore, ProcessType
<1> QED
  BY <1>6, <1>7, <1>8, <1>9, <1>10 DEF Request

LEMMA ContinueProcess ==
  ASSUME NEW h \in Handler
  PROVE  Inv /\ Continue(h) => ProcessType' /\ Wiring'
<1> SUFFICES ASSUME Inv, Continue(h) PROVE ProcessType' /\ Wiring'
  OBVIOUS
<1> USE DEF Serving
<1>1. ProcessType
  BY InvParts
<1>2. /\ toWire = {} /\ UNCHANGED <<now, running, toWire, crashes, raced>>
  BY DEF Continue, RegisterEvent, SyncLoad, SyncApply, ApproveStore, ApproveApply, DropAllTriggers
<1>3. Wiring'
  BY <1>2 DEF Wiring
<1>4. CASE RegisterEvent(h) \/ SyncApply(h) \/ ApproveApply(h) \/ DropAllTriggers(h)
  <2>1. handler' = [handler EXCEPT ![h] = Idle] /\ skills' = skills
    BY <1>4 DEF RegisterEvent, SyncApply, ApproveApply, DropAllTriggers
  <2> QED
    BY <1>1, <1>2, <1>3, <2>1 DEF ProcessType
<1>5. CASE SyncLoad(h)
  <2>1. handler[h].skill \in Skill /\ handler[h].status \in Status
    BY <1>1, <1>5, HandlerFields DEF SyncLoad
  <2>2. skills[handler[h].skill].body \in Body \cup {NoBody}
    BY <1>1, <2>1 DEF ProcessType, SkillRecord
  <2>3. [at |-> "loaded", skill |-> handler[h].skill, status |-> handler[h].status,
         body |-> skills[handler[h].skill].body] \in Busy
    BY <2>1, <2>2 DEF Busy
  <2> QED
    BY <1>1, <1>2, <1>3, <1>5, <2>3 DEF SyncLoad, ProcessType
<1>6. CASE ApproveStore(h)
  <2>1. handler[h].at = "approving" /\ handler[h].skill \in Skill /\ handler[h].body \in Body
    BY <1>1, <1>6, HandlerFields DEF ApproveStore
  <2>2. [status |-> "Approved", body |-> handler[h].body] \in SkillRecord
    BY <2>1 DEF SkillRecord, Status
  <2>3. handler[h] \in [at : {"approving", "approved"}, skill : Skill, body : Body]
    BY <1>1, <2>1 DEF ProcessType, Busy, Idle
  <2>4. [handler[h] EXCEPT !.at = "approved"] \in Busy
    BY <2>3 DEF Busy
  <2>5. skills' \in [Skill -> SkillRecord]
    BY <1>1, <1>6, <2>2 DEF ApproveStore, ProcessType
  <2> QED
    BY <1>1, <1>2, <1>3, <1>6, <2>4, <2>5 DEF ApproveStore, ProcessType
<1> QED
  BY <1>4, <1>5, <1>6 DEF Continue

LEMMA NextProcess == Inv /\ [Next]_vars => ProcessType' /\ Wiring'
<1> SUFFICES ASSUME Inv, [Next]_vars PROVE ProcessType' /\ Wiring'
  OBVIOUS
<1> USE TriggersAssumption
<1>1. ProcessType /\ Wiring
  BY InvParts
<1>2. CASE Boot \/ BootFails
  BY <1>1, <1>2 DEF Boot, BootFails, Approved, ProcessType, Wiring
<1>3. CASE \E s \in Skill : WireSkill(s)
  BY <1>1, <1>3 DEF WireSkill, ProcessType, Wiring
<1>4. CASE Crash
  <2>1. /\ UNCHANGED <<now, skills>> /\ toWire' = {} /\ raced' = {} /\ running' = FALSE
        /\ crashes < MaxCrashes /\ crashes' = crashes + 1
        /\ handler' = [h \in Handler |-> Idle]
    BY <1>4 DEF Crash
  <2>2. handler' \in [Handler -> Busy \cup {Idle}]
    BY <2>1
  <2>3. crashes' \in 0 .. MaxCrashes
    BY <1>1, <2>1 DEF ProcessType
  <2> QED
    BY <1>1, <2>1, <2>2, <2>3 DEF ProcessType, Wiring
<1>5. CASE Advance
  BY <1>1, <1>5 DEF Advance, ProcessType, Wiring
<1>6. CASE Tick
  BY <1>1, <1>6 DEF Tick, ProcessType, Wiring
<1>7. CASE \E c \in Calls : RegisterCron(c)
  BY <1>1, <1>7 DEF RegisterCron, ProcessType, Wiring
<1>8. CASE \E i \in Id : UnregisterTrigger(i)
  BY <1>1, <1>8 DEF UnregisterTrigger, ProcessType, Wiring
<1>9. CASE \E i \in Id, on \in BOOLEAN : SetTriggerEnabled(i, on)
  BY <1>1, <1>9 DEF SetTriggerEnabled, ProcessType, Wiring
<1>10. CASE \E s \in Skill, b \in Body : BridgeWrite(s, b)
  <2>1. PICK s \in Skill, b \in Body : BridgeWrite(s, b)
    BY <1>10
  <2>2. PICK st \in DraftedStatus(s) : skills' = [skills EXCEPT ![s] = [status |-> st, body |-> b]]
    BY <2>1 DEF BridgeWrite
  <2>3. skills[s].status \in Status \cup {"Absent"}
    BY <1>1 DEF ProcessType, SkillRecord
  <2>4. st \in Status
    BY <2>3 DEF DraftedStatus, WrittenStatus, Status
  <2>5. skills' \in [Skill -> SkillRecord]
    BY <1>1, <2>2, <2>4 DEF ProcessType, SkillRecord
  <2> QED
    BY <1>1, <2>1, <2>5 DEF BridgeWrite, Serving, ProcessType, Wiring
<1>11. CASE \E h \in Handler : Request(h) \/ Continue(h)
  BY <1>11, RequestProcess, ContinueProcess
<1>12. CASE UNCHANGED vars
  BY <1>1, <1>12 DEF vars, ProcessType, Wiring
<1> QED
  BY <1>2, <1>3, <1>4, <1>5, <1>6, <1>7, <1>8, <1>9, <1>10, <1>11, <1>12 DEF Next

-----------------------------------------------------------------------------
(* The file agrees with the registry: every step that changes an imperative *)
(* trigger writes the file, except the declared triggers that displace one. *)

\* After a write, however it went.
LEMMA AgreesSaved ==
  ASSUME Save(triggers')
  PROVE  FileAgrees'
<1>1. CASE file' = [ok |-> TRUE, rows |-> Rows(triggers')]
  <2>1. /\ file'.rows = Rows(triggers') /\ DOMAIN Rows(triggers') = Imperative(triggers')
        /\ \A i \in Imperative(triggers') : Rows(triggers')[i] = RowOf(triggers'[i])
    BY <1>1 DEF Rows
  <2> QED
    BY <2>1 DEF FileAgrees, ImperativeDurable, OnlyOvertakenResurrect
<1>2. CASE saved' = FALSE
  BY <1>2 DEF FileAgrees, ImperativeDurable, OnlyOvertakenResurrect
<1> QED
  BY <1>1, <1>2 DEF Save

\* Without a write: the imperative triggers that go are displaced ones.
LEMMA AgreesKept ==
  ASSUME FileAgrees, running, UNCHANGED <<file, saved>>,
         \A i \in Imperative(triggers') :
           i \in Imperative(triggers) /\ RowOf(triggers'[i]) = RowOf(triggers[i]),
         (Imperative(triggers) \ Imperative(triggers')) \cup overtaken \subseteq overtaken'
  PROVE  FileAgrees'
BY DEF FileAgrees, ImperativeDurable, OnlyOvertakenResurrect

\* Registrations are taken out, and the file written if an imperative one is.
LEMMA RemoveAgrees ==
  ASSUME FileAgrees, running, NEW ids, ids \subseteq DOMAIN triggers,
         triggers' = Only(triggers, ids),
         SaveIf((DOMAIN triggers \ ids) \cap Imperative(triggers) # {}, triggers')
  PROVE  FileAgrees'
<1>1. CASE Save(triggers')
  BY <1>1, AgreesSaved
<1>2. CASE UNCHANGED disk /\ (DOMAIN triggers \ ids) \cap Imperative(triggers) = {}
  <2>1. DOMAIN triggers' = ids /\ \A i \in ids : triggers'[i] = triggers[i]
    BY DEF Only
  <2>2. Imperative(triggers') = Imperative(triggers)
    BY <1>2, <2>1 DEF Imperative
  <2>3. \A i \in Imperative(triggers') : RowOf(triggers'[i]) = RowOf(triggers[i])
    BY <2>1 DEF Imperative
  <2> QED
    BY <1>2, <2>2, <2>3, AgreesKept DEF disk
<1> QED
  BY <1>1, <1>2 DEF SaveIf

\* Declared triggers are registered on top of all the imperative ones.
LEMMA DeclaredAgrees ==
  ASSUME Inv, FileAgrees, running, NEW ids, ids \subseteq DOMAIN triggers,
         Imperative(triggers) \subseteq ids,
         NEW qs, GoodRegistrations(qs), \A k \in 1 .. Len(qs) : qs[k].declarative,
         RegisterDeclared(Only(triggers, ids), qs)
  PROVE  FileAgrees'
<1>1. nextId \in Nat /\ Len(qs) \in Nat /\ DOMAIN triggers \subseteq 1 .. nextId - 1
  BY MaxIdAssumption DEF Inv, TypeOK, RegistryType, GoodRegistrations
<1>2. /\ triggers' = RegisterAll(Only(triggers, ids), nextId, qs) /\ UNCHANGED <<file, saved>>
      /\ overtaken' = overtaken \cup ((DOMAIN triggers \ DOMAIN triggers') \cap Imperative(triggers))
  BY DEF RegisterDeclared
<1>3. \A i \in DOMAIN triggers' : i < nextId => i \in DOMAIN triggers /\ triggers'[i] = triggers[i]
  BY <1>1, <1>2 DEF RegisterAll, Untaken, Surviving, Only, GoodRegistrations
<1>4. \A i \in DOMAIN triggers' : i \notin DOMAIN triggers => triggers'[i].declarative
  BY <1>1, <1>2 DEF RegisterAll, Untaken, Surviving, Only, GoodRegistrations
<1>5. \A i \in Imperative(triggers') : i \in DOMAIN triggers /\ triggers'[i] = triggers[i]
  BY <1>1, <1>3, <1>4 DEF Imperative
<1>6. Imperative(triggers) \ Imperative(triggers') \subseteq DOMAIN triggers \ DOMAIN triggers'
  BY <1>1, <1>3 DEF Imperative
<1> QED
  BY <1>2, <1>5, <1>6, AgreesKept DEF Imperative

LEMMA DeclaredAreDeclarative ==
  ASSUME NEW s, NEW b
  PROVE  \A k \in 1 .. Len(Decl[b]) : DeclaredBy(s, b)[k].declarative
BY DEF DeclaredBy

LEMMA NextAgrees == Inv /\ FileAgrees /\ [Next]_vars => FileAgrees'
<1> SUFFICES ASSUME Inv, FileAgrees, [Next]_vars PROVE FileAgrees'
  OBVIOUS
<1> USE DEF Serving
<1>1. triggers = Only(triggers, DOMAIN triggers) /\ Imperative(triggers) \subseteq DOMAIN triggers
  BY OnlyAll DEF Inv, Imperative
<1>2. CASE Boot
  <2>1. /\ DOMAIN triggers' = Unexpired /\ Unexpired \subseteq DOMAIN file.rows
        /\ \A i \in Unexpired : triggers'[i] = FromRow(file.rows[i])
        /\ file' = [file EXCEPT !.rows = Only(file.rows, Unexpired)]
    BY <1>2 DEF Boot, Unexpired
  <2>2. file'.rows = Only(file.rows, Unexpired) /\ \A i \in Unexpired : file.rows[i] \in Row
    BY <2>1 DEF Inv, TypeOK, DiskType
  <2>3. DOMAIN file'.rows = Unexpired /\ \A i \in Unexpired : file'.rows[i] = file.rows[i]
    BY <2>2 DEF Only
  <2>4. \A i \in Unexpired : RowOf(triggers'[i]) = file'.rows[i] /\ ~triggers'[i].declarative
    BY <2>1, <2>2, <2>3 DEF FromRow, RowOf, Row
  <2> QED
    BY <2>1, <2>3, <2>4 DEF FileAgrees, ImperativeDurable, OnlyOvertakenResurrect, Imperative
<1>3. CASE BootFails \/ Crash
  BY <1>3 DEF BootFails, Crash, FileAgrees, ImperativeDurable, OnlyOvertakenResurrect
<1>4. CASE \E s \in Skill : WireSkill(s)
  <2>1. PICK s \in Skill : WireSkill(s)
    BY <1>4
  <2>2. skills[s].body \in Body
    BY <2>1 DEF WireSkill, Inv, Wiring, TypeOK, ProcessType, SkillRecord
  <2>3. GoodRegistrations(DeclaredBy(s, skills[s].body))
        /\ \A k \in 1 .. Len(DeclaredBy(s, skills[s].body)) : DeclaredBy(s, skills[s].body)[k].declarative
    BY <2>2, DeclaredByGood, DeclaredAreDeclarative
  <2> QED
    BY <1>1, <2>1, <2>3, DeclaredAgrees DEF WireSkill
<1>5. CASE Tick
  BY <1>5, RemoveAgrees DEF Tick
<1>6. CASE \E c \in Calls : RegisterCron(c)
  BY <1>6, AgreesSaved DEF RegisterCron, RegisterTrigger
<1>7. CASE \E i \in Id : UnregisterTrigger(i)
  <2>1. PICK i \in Id : UnregisterTrigger(i)
    BY <1>7
  <2>2. SaveIf((DOMAIN triggers \ (DOMAIN triggers \ {i})) \cap Imperative(triggers) # {}, triggers')
    BY <2>1 DEF UnregisterTrigger, SaveIf, Imperative
  <2> QED
    BY <2>1, <2>2, RemoveAgrees DEF UnregisterTrigger, Without
<1>8. CASE \E i \in Id, on \in BOOLEAN : SetTriggerEnabled(i, on)
  <2>1. PICK i \in Id, on \in BOOLEAN : SetTriggerEnabled(i, on)
    BY <1>8
  <2>2. CASE ~triggers[i].declarative
    BY <2>1, <2>2, AgreesSaved DEF SetTriggerEnabled, SaveIf
  <2>3. CASE triggers[i].declarative
    <3>1. /\ UNCHANGED disk /\ triggers' = [triggers EXCEPT ![i].enabled = on]
          /\ triggers \in [DOMAIN triggers -> Registration] /\ i \in DOMAIN triggers
      BY <2>1, <2>3 DEF SetTriggerEnabled, SaveIf, Inv, GoodMap
    <3>2. DOMAIN triggers' = DOMAIN triggers /\ \A j \in DOMAIN triggers \ {i} : triggers'[j] = triggers[j]
      BY <3>1
    <3>3. triggers'[i].declarative
      BY <2>3, <3>1 DEF Registration
    <3>4. Imperative(triggers') = Imperative(triggers) /\ i \notin Imperative(triggers)
      BY <2>3, <3>2, <3>3 DEF Imperative
    <3>5. \A j \in Imperative(triggers') : triggers'[j] = triggers[j]
      BY <1>1, <3>2, <3>4
    <3> QED
      BY <2>1, <3>1, <3>4, <3>5, AgreesKept DEF SetTriggerEnabled, disk
  <2> QED
    BY <2>2, <2>3
<1>9. CASE \E h \in Handler : RegisterEvent(h)
  BY <1>9, AgreesSaved DEF RegisterEvent, RegisterTrigger
<1>10. CASE \E h \in Handler : SyncApply(h) \/ ApproveApply(h)
  <2>1. PICK h \in Handler : SyncApply(h) \/ ApproveApply(h)
    BY <1>10
  <2> DEFINE s == handler[h].skill
             b == handler[h].body
  <2>2. PICK st : SyncDeclarativeTriggers(s, b, st)
    BY <2>1 DEF SyncApply, ApproveApply
  <2>3. s \in Skill /\ b \in Body \cup {NoBody}
    BY <2>1, HandlerFields DEF SyncApply, ApproveApply, Inv, TypeOK
  <2> DEFINE qs  == IF st = "Approved" /\ b # NoBody THEN DeclaredBy(s, b) ELSE <<>>
             ids == DOMAIN triggers \ DeclarativeOf(triggers, s)
  <2>4. RegisterDeclared(Only(triggers, ids), qs)
    BY <2>2 DEF SyncDeclarativeTriggers, KeptBySync, Without
  <2>5. GoodRegistrations(qs) /\ \A k \in 1 .. Len(qs) : qs[k].declarative
    <3>1. CASE st = "Approved" /\ b # NoBody
      BY <2>3, <3>1, DeclaredByGood, DeclaredAreDeclarative
    <3>2. CASE ~(st = "Approved" /\ b # NoBody)
      BY <3>2 DEF GoodRegistrations
    <3> QED
      BY <3>1, <3>2
  <2>6. Imperative(triggers) \subseteq ids /\ ids \subseteq DOMAIN triggers /\ running
    BY <2>1 DEF Imperative, DeclarativeOf, SyncApply, ApproveApply
  <2> HIDE DEF qs, ids
  <2> QED
    BY <2>4, <2>5, <2>6, DeclaredAgrees
<1>11. CASE \E h \in Handler : DropAllTriggers(h)
  <2>1. PICK h \in Handler : DropAllTriggers(h)
    BY <1>11
  <2> DEFINE gone == AllOf(triggers, handler[h].skill)
  <2>2. gone \subseteq DOMAIN triggers /\ running /\ triggers' = Only(triggers, DOMAIN triggers \ gone)
        /\ SaveIf(gone \cap Imperative(triggers) # {}, triggers')
    BY <2>1 DEF DropAllTriggers, AllOf, Without
  <2> HIDE DEF gone
  <2>3. DOMAIN triggers \ (DOMAIN triggers \ gone) = gone
    BY <2>2
  <2> QED
    BY <2>2, <2>3, RemoveAgrees
<1>12. CASE UNCHANGED <<triggers, file, saved, overtaken, running>>
  BY <1>12 DEF FileAgrees, ImperativeDurable, OnlyOvertakenResurrect
<1>13. ASSUME \/ Advance \/ \E s \in Skill, b \in Body : BridgeWrite(s, b)
              \/ \E h \in Handler : Request(h) \/ SyncLoad(h) \/ ApproveStore(h)
              \/ UNCHANGED vars
       PROVE  UNCHANGED <<triggers, file, saved, overtaken, running>>
  <2>1. CASE Advance
    BY <2>1 DEF Advance, registry, disk
  <2>2. CASE \E s \in Skill, b \in Body : BridgeWrite(s, b)
    BY <2>2 DEF BridgeWrite, registry, disk
  <2>3. ASSUME NEW h \in Handler, Request(h)
        PROVE  UNCHANGED <<triggers, file, saved, overtaken, running>>
    BY <2>3 DEF Request, RegisterLoad, StatusStore, WriteStore, ApproveLoad, DeleteStore,
                registry, disk
  <2>4. CASE \E h \in Handler : SyncLoad(h) \/ ApproveStore(h)
    BY <2>4 DEF SyncLoad, ApproveStore, registry, disk
  <2>5. CASE UNCHANGED vars
    BY <2>5 DEF vars, registry, disk
  <2> QED
    BY <1>13, <2>1, <2>2, <2>3, <2>4, <2>5
<1> QED
  BY <1>2, <1>3, <1>4, <1>5, <1>6, <1>7, <1>8, <1>9, <1>10, <1>11, <1>12, <1>13 DEF Next, Continue

-----------------------------------------------------------------------------
(* Fires: each registration that has been in service in this minute allows *)
(* one fire of its schedule; those of now that have not fired still do.    *)

Unfired(k) == {i \in On(triggers, k, Minute) : cronState[i] # Minute}

WithinStints ==
  /\ ~running => DOMAIN triggers = {}
  /\ \A k \in Schedule : fires[k] + Cardinality(Unfired(k)) <= stints[k]

\* Who stays keeps its schedule and its cronState.
Kept ==
  \A i \in DOMAIN triggers \cap DOMAIN triggers' :
    /\ triggers'[i].source = triggers[i].source
    /\ triggers'[i].skill = triggers[i].skill
    /\ triggers'[i].name = triggers[i].name
    /\ cronState'[i] = cronState[i]

\* The sets that are counted are finite.
LEMMA Counted ==
  ASSUME Inv, NEW k, NEW m, NEW S, S \subseteq On(triggers, k, m)
  PROVE  IsFiniteSet(S) /\ Cardinality(S) \in Nat
<1>1. nextId - 1 \in Nat /\ DOMAIN triggers \subseteq 1 .. nextId - 1
  BY MaxIdAssumption DEF Inv, TypeOK, RegistryType
<1> QED
  BY <1>1, OnFinite

\* A step without fires: what can newly fire has newly come into service.
LEMMA WithinKept ==
  ASSUME Inv, WithinStints, Core', Kept, CountStints, UNCHANGED <<fires, now>>,
         ~running' => DOMAIN triggers' = {}
  PROVE  WithinStints'
<1>1. Minute' = Minute
  BY DEF Minute
<1> SUFFICES ASSUME NEW k \in Schedule
             PROVE  fires'[k] + Cardinality(Unfired(k)') <= stints'[k]
  BY <1>1 DEF WithinStints
<1> DEFINE new == On(triggers', k, Minute) \ DOMAIN triggers
<1>2. Unfired(k)' \subseteq Unfired(k) \cup new
  BY <1>1 DEF Unfired, On, Kept
<1>3. stints'[k] = stints[k] + Cardinality(new)
  BY DEF CountStints
<1>4. nextId' - 1 \in Nat /\ DOMAIN triggers' \subseteq 1 .. nextId' - 1
  BY MaxIdAssumption DEF Core, RegistryType
<1>5. IsFiniteSet(new) /\ Cardinality(new) \in Nat
  BY <1>4, OnFinite
<1>6. IsFiniteSet(Unfired(k)') /\ Cardinality(Unfired(k)') \in Nat
  <2>1. Unfired(k)' \subseteq On(triggers', k, Minute')
    BY DEF Unfired
  <2> QED
    BY <1>4, <2>1, OnFinite
<1>7. IsFiniteSet(Unfired(k)) /\ Cardinality(Unfired(k)) \in Nat
  BY Counted DEF Unfired
<1> HIDE DEF new
<1>8. Cardinality(Unfired(k) \cup new) <= Cardinality(Unfired(k)) + Cardinality(new)
  <2>1. Cardinality(Unfired(k) \cap new) \in Nat
    BY <1>7, FS_Subset, FS_CardinalityType
  <2>2. Cardinality(Unfired(k) \cup new)
          = Cardinality(Unfired(k)) + Cardinality(new) - Cardinality(Unfired(k) \cap new)
    BY <1>5, <1>7, FS_Union
  <2> QED
    BY <1>5, <1>7, <2>1, <2>2
<1>9. /\ Cardinality(Unfired(k)') <= Cardinality(Unfired(k) \cup new)
      /\ Cardinality(Unfired(k) \cup new) \in Nat
  BY <1>2, <1>5, <1>7, FS_Union, FS_Subset, FS_CardinalityType
<1>10. fires[k] \in Nat /\ stints[k] \in Nat /\ fires[k] + Cardinality(Unfired(k)) <= stints[k]
  BY DEF WithinStints, Inv, TypeOK, RegistryType, TallyType
<1> QED
  BY <1>3, <1>5, <1>6, <1>7, <1>8, <1>9, <1>10

\* A step that only takes registrations away, or none.
LEMMA WithinFewer ==
  ASSUME Inv, WithinStints, Core', Kept, DOMAIN triggers' \subseteq DOMAIN triggers,
         UNCHANGED <<tally, now, running>>
  PROVE  WithinStints'
<1>1. \A k : On(triggers', k, Minute) \ DOMAIN triggers = {}
  BY DEF On
<1>2. CountStints
  <2> DEFINE n(k) == Cardinality(On(triggers', k, Minute) \ DOMAIN triggers)
  <2>1. \A k \in Schedule : n(k) = 0
    BY <1>1, FS_EmptySet
  <2>2. stints' = stints /\ stints \in [Schedule -> Nat]
    BY DEF Inv, TypeOK, RegistryType, TallyType, tally
  <2>3. CountStints <=> stints' = [k \in Schedule |-> stints[k] + n(k)]
    BY DEF CountStints
  <2> HIDE DEF n
  <2> QED
    BY <2>1, <2>2, <2>3
<1> QED
  BY <1>2, WithinKept DEF tally, WithinStints

LEMMA WithinDeclared ==
  ASSUME Inv, WithinStints, Core', NEW ids, ids \subseteq DOMAIN triggers,
         NEW qs, GoodRegistrations(qs), RegisterDeclared(Only(triggers, ids), qs),
         UNCHANGED <<fires, running, now>>, running
  PROVE  WithinStints'
<1>1. nextId \in Nat /\ Len(qs) \in Nat /\ DOMAIN triggers \subseteq 1 .. nextId - 1 /\ nextId - 1 <= MaxId
  BY MaxIdAssumption DEF Inv, TypeOK, RegistryType, GoodRegistrations
<1>2. /\ triggers' = RegisterAll(Only(triggers, ids), nextId, qs)
      /\ cronState' = ForgetCron(DOMAIN triggers \ DOMAIN triggers')
      /\ CountStints
  BY DEF RegisterDeclared
<1>3. \A i \in DOMAIN triggers' : i < nextId => triggers'[i] = triggers[i]
  BY <1>1, <1>2 DEF RegisterAll, Untaken, Surviving, Only, GoodRegistrations
<1>4. \A i \in DOMAIN triggers : i < nextId /\ i \in Id
  BY <1>1, MaxIdAssumption DEF Id
<1>5. Kept
  BY <1>2, <1>3, <1>4 DEF Kept, ForgetCron
<1> QED
  BY <1>2, <1>5, WithinKept

LEMMA WithinRegister ==
  ASSUME Inv, WithinStints, Core', NEW c \in Call, NEW params \in SUBSET Var,
         RegisterTrigger(c, params), UNCHANGED <<fires, running, now>>, running
  PROVE  WithinStints'
<1> DEFINE qs == <<CalledFor(c, params)>>
<1>1. nextId \in Nat /\ Len(qs) = 1 /\ DOMAIN triggers \subseteq 1 .. nextId - 1 /\ nextId - 1 <= MaxId
  BY MaxIdAssumption DEF Inv, TypeOK, RegistryType
<1>2. /\ triggers' = RegisterAll(triggers, nextId, qs)
      /\ cronState' = ForgetCron(DOMAIN triggers \ DOMAIN triggers')
      /\ CountStints
  BY DEF RegisterTrigger
<1> HIDE DEF qs
<1>3. \A i \in DOMAIN triggers' : i < nextId => triggers'[i] = triggers[i]
  BY <1>1, <1>2 DEF RegisterAll, Untaken, Surviving
<1>4. \A i \in DOMAIN triggers : i < nextId /\ i \in Id
  BY <1>1, MaxIdAssumption DEF Id
<1>5. Kept
  BY <1>2, <1>3, <1>4 DEF Kept, ForgetCron
<1> QED
  BY <1>2, <1>5, WithinKept

LEMMA WithinRemove ==
  ASSUME Inv, WithinStints, Core', NEW gone, triggers' = Without(triggers, gone),
         cronState' = ForgetCron(gone), UNCHANGED <<tally, running, now>>
  PROVE  WithinStints'
<1>1. DOMAIN triggers \subseteq Id
  BY MaxIdAssumption DEF Inv, TypeOK, RegistryType, Id
<1>2. Kept /\ DOMAIN triggers' \subseteq DOMAIN triggers
  BY <1>1 DEF Kept, Without, Only, ForgetCron
<1> QED
  BY <1>2, WithinFewer

LEMMA NextWithin == Inv /\ WithinStints /\ Core' /\ [Next]_vars => WithinStints'
<1> SUFFICES ASSUME Inv, WithinStints, Core', [Next]_vars PROVE WithinStints'
  OBVIOUS
<1> USE DEF Serving
<1>1. /\ fires \in [Schedule -> Nat] /\ stints \in [Schedule -> Nat]
      /\ DOMAIN triggers \subseteq Id
  BY MaxIdAssumption DEF Inv, TypeOK, RegistryType, TallyType, Id
<1>2. CASE Boot
  <2>1. DOMAIN triggers = {} /\ CountStints /\ running' /\ UNCHANGED <<fires, now>>
    BY <1>2 DEF Boot, WithinStints
  <2> QED
    BY <2>1, WithinKept DEF Kept
<1>3. CASE BootFails
  BY <1>3, WithinFewer DEF BootFails, Kept, registry
<1>4. CASE Crash
  <2>1. \A k \in Schedule : Unfired(k)' = {}
    BY <1>4 DEF Crash, Unfired, On
  <2>2. ASSUME NEW k \in Schedule PROVE fires'[k] + Cardinality(Unfired(k)') <= stints'[k]
    <3>1. Cardinality(Unfired(k)) \in Nat
      BY Counted DEF Unfired
    <3>2. Cardinality(Unfired(k)') = 0
      BY <2>1, FS_EmptySet
    <3>3. fires'[k] = fires[k] /\ stints'[k] = stints[k]
      BY <1>4 DEF Crash, tally
    <3> QED
      BY <1>1, <3>1, <3>2, <3>3 DEF WithinStints
  <2>3. DOMAIN triggers' = {}
    BY <1>4 DEF Crash
  <2> QED
    BY <2>2, <2>3 DEF WithinStints
<1>5. CASE \E s \in Skill : WireSkill(s)
  <2>1. PICK s \in Skill : WireSkill(s)
    BY <1>5
  <2>2. skills[s].body \in Body
    BY <2>1 DEF WireSkill, Inv, Wiring, TypeOK, ProcessType, SkillRecord
  <2>3. triggers = Only(triggers, DOMAIN triggers)
    BY OnlyAll DEF Inv
  <2> QED
    BY <2>1, <2>2, <2>3, DeclaredByGood, WithinDeclared DEF WireSkill
<1>6. CASE Advance
  <2>1. UNCHANGED <<triggers, cronState, running>>
    BY <1>6 DEF Advance, registry
  <2>2. CASE Minute' = Minute
    <3>1. UNCHANGED tally
      BY <1>6, <2>2 DEF Advance
    <3>2. \A k : Unfired(k)' = Unfired(k)
      BY <2>1, <2>2 DEF Unfired, On
    <3> QED
      BY <2>1, <3>1, <3>2 DEF WithinStints, tally
  <2>3. CASE Minute' # Minute
    <3>1. \A k \in Schedule : fires'[k] = 0 /\ stints'[k] = Cardinality(On(triggers, k, Minute'))
      BY <1>6, <2>3 DEF Advance
    <3>2. ASSUME NEW k \in Schedule
          PROVE  fires'[k] + Cardinality(Unfired(k)') <= stints'[k]
      <4>1. Unfired(k)' \subseteq On(triggers, k, Minute')
        BY <2>1 DEF Unfired
      <4>2. IsFiniteSet(On(triggers, k, Minute'))
        BY Counted
      <4>3. /\ Cardinality(Unfired(k)') <= Cardinality(On(triggers, k, Minute'))
            /\ Cardinality(Unfired(k)') \in Nat
        BY <4>1, <4>2, FS_Subset, FS_CardinalityType
      <4> QED
        BY <3>1, <4>3
    <3> QED
      BY <2>1, <3>2 DEF WithinStints
  <2> QED
    BY <2>2, <2>3
<1>7. CASE Tick
  <2> DEFINE left == {i \in DOMAIN triggers : ~Expired(triggers[i], now)}
             due  == Due(left)
  <2>1. /\ running /\ UNCHANGED <<running, now, stints>> /\ triggers' = Only(triggers, left)
        /\ cronState' = [i \in Id |-> IF i \in due THEN Minute
                                      ELSE IF i \in DOMAIN triggers \ left THEN -1
                                      ELSE cronState[i]]
        /\ fires' = [k \in Schedule |-> fires[k] + Cardinality(due \cap On(triggers, k, Minute))]
    BY <1>7 DEF Tick
  <2>2. left \subseteq DOMAIN triggers /\ \A i \in due : i \in left /\ cronState[i] # Minute
    BY DEF Due, DueAt
  <2>3. Minute' = Minute
    BY <2>1 DEF Minute
  <2> HIDE DEF left, due
  <2>4. ASSUME NEW k \in Schedule
        PROVE  fires'[k] + Cardinality(Unfired(k)') <= stints'[k]
    <3> DEFINE nowDue == due \cap On(triggers, k, Minute)
    <3>1. nowDue \subseteq Unfired(k)
      BY <2>2 DEF Unfired
    <3>2. Unfired(k)' \subseteq Unfired(k) \ nowDue
      BY <1>1, <2>1, <2>2, <2>3 DEF Unfired, On, Only
    <3>3. IsFiniteSet(Unfired(k)) /\ Cardinality(Unfired(k)) \in Nat
      BY Counted DEF Unfired
    <3>4. fires'[k] = fires[k] + Cardinality(nowDue) /\ stints'[k] = stints[k]
      BY <2>1
    <3>5. fires[k] + Cardinality(Unfired(k)) <= stints[k]
      BY DEF WithinStints
    <3> HIDE DEF nowDue
    <3>6. /\ IsFiniteSet(Unfired(k) \ nowDue)
          /\ Cardinality(Unfired(k) \ nowDue)
               = Cardinality(Unfired(k)) - Cardinality(Unfired(k) \cap nowDue)
      BY <3>3, FS_Difference
    <3>7. Cardinality(Unfired(k) \ nowDue) = Cardinality(Unfired(k)) - Cardinality(nowDue)
      <4>1. Unfired(k) \cap nowDue = nowDue
        BY <3>1
      <4> QED
        BY <3>6, <4>1
    <3>8. Cardinality(nowDue) \in Nat
      BY <3>1, <3>3, FS_Subset, FS_CardinalityType
    <3>9. /\ Cardinality(Unfired(k)') <= Cardinality(Unfired(k) \ nowDue)
          /\ Cardinality(Unfired(k)') \in Nat
      BY <3>2, <3>6, FS_Subset, FS_CardinalityType
    <3>10. fires[k] \in Nat /\ stints[k] \in Nat
      BY <1>1
    <3> QED
      BY <3>3, <3>4, <3>5, <3>7, <3>8, <3>9, <3>10
  <2>5. running'
    BY <2>1
  <2> QED
    BY <2>4, <2>5 DEF WithinStints
<1>8. CASE \E c \in Calls : RegisterCron(c)
  BY <1>8, WithinRegister, TriggersAssumption DEF RegisterCron
<1>9. CASE \E i \in Id : UnregisterTrigger(i)
  BY <1>9, WithinRemove DEF UnregisterTrigger
<1>10. CASE \E i \in Id, on \in BOOLEAN : SetTriggerEnabled(i, on)
  <2>1. PICK i \in Id, on \in BOOLEAN : SetTriggerEnabled(i, on)
    BY <1>10
  <2>2. /\ UNCHANGED <<tally, running, now, cronState>>
        /\ i \in DOMAIN triggers /\ triggers' = [triggers EXCEPT ![i].enabled = on]
    BY <2>1 DEF SetTriggerEnabled
  <2>3. triggers \in [DOMAIN triggers -> Registration]
    BY DEF Inv, GoodMap
  <2>4. Kept /\ DOMAIN triggers' \subseteq DOMAIN triggers
    BY <2>2, <2>3 DEF Kept, Registration
  <2> QED
    BY <2>2, <2>4, WithinFewer
<1>11. CASE \E h \in Handler : RegisterEvent(h)
  <2>1. PICK h \in Handler : RegisterEvent(h)
    BY <1>11
  <2>2. handler[h].call \in Call /\ handler[h].body \in Body \cup {NoBody}
    BY <2>1, HandlerFields DEF RegisterEvent, Inv, TypeOK
  <2>3. ParamsOf(handler[h].body) \in SUBSET Var
    BY <2>2, BodyAssumption DEF ParamsOf
  <2> QED
    BY <2>1, <2>2, <2>3, WithinRegister DEF RegisterEvent
<1>12. CASE \E h \in Handler : SyncApply(h) \/ ApproveApply(h)
  <2>1. PICK h \in Handler : SyncApply(h) \/ ApproveApply(h)
    BY <1>12
  <2> DEFINE s == handler[h].skill
             b == handler[h].body
  <2>2. PICK st : SyncDeclarativeTriggers(s, b, st)
    BY <2>1 DEF SyncApply, ApproveApply
  <2>3. s \in Skill /\ b \in Body \cup {NoBody} /\ running /\ UNCHANGED <<fires, running, now>>
    BY <2>1, HandlerFields DEF SyncApply, ApproveApply, Inv, TypeOK
  <2> DEFINE qs  == IF st = "Approved" /\ b # NoBody THEN DeclaredBy(s, b) ELSE <<>>
             ids == DOMAIN triggers \ DeclarativeOf(triggers, s)
  <2>4. RegisterDeclared(Only(triggers, ids), qs) /\ ids \subseteq DOMAIN triggers
    BY <2>2 DEF SyncDeclarativeTriggers, KeptBySync, Without
  <2>5. GoodRegistrations(qs)
    <3>1. CASE st = "Approved" /\ b # NoBody
      BY <2>3, <3>1, DeclaredByGood
    <3>2. CASE ~(st = "Approved" /\ b # NoBody)
      BY <3>2 DEF GoodRegistrations
    <3> QED
      BY <3>1, <3>2
  <2> HIDE DEF qs, ids
  <2> QED
    BY <2>3, <2>4, <2>5, WithinDeclared
<1>13. CASE \E h \in Handler : DropAllTriggers(h)
  BY <1>13, WithinRemove DEF DropAllTriggers
<1>14. CASE \/ \E s \in Skill, b \in Body : BridgeWrite(s, b)
            \/ \E h \in Handler : Request(h) \/ SyncLoad(h) \/ ApproveStore(h)
            \/ UNCHANGED vars
  <2>1. UNCHANGED <<triggers, cronState, tally, running, now>>
    <3>1. CASE \E s \in Skill, b \in Body : BridgeWrite(s, b)
      BY <3>1 DEF BridgeWrite, registry
    <3>2. ASSUME NEW h \in Handler, Request(h)
          PROVE  UNCHANGED <<triggers, cronState, tally, running, now>>
      BY <3>2 DEF Request, RegisterLoad, StatusStore, WriteStore, ApproveLoad, DeleteStore, registry
    <3>3. CASE \E h \in Handler : SyncLoad(h) \/ ApproveStore(h)
      BY <3>3 DEF SyncLoad, ApproveStore, registry
    <3>4. CASE UNCHANGED vars
      BY <3>4 DEF vars, registry
    <3> QED
      BY <1>14, <3>1, <3>2, <3>3, <3>4
  <2> QED
    BY <2>1, WithinFewer DEF Kept
<1> QED
  BY <1>2, <1>3, <1>4, <1>5, <1>6, <1>7, <1>8, <1>9, <1>10, <1>11, <1>12, <1>13, <1>14
  DEF Next, Continue

-----------------------------------------------------------------------------
(* What is in service.  A request that has its skill to itself carries what *)
(* the store holds, so its sync leaves exactly what the body declares; what *)
(* happens to those triggers afterwards is either that skill's next request *)
(* or noted in cut.                                                         *)

OnSkill(h) == handler[h].at \notin {"idle", "registering"}

InFlight(s) == \E h \in Handler : OnSkill(h) /\ handler[h].skill = s

\* Requests that overlap on a skill are known to.
Alone ==
  \A g, h \in Handler :
    OnSkill(g) /\ OnSkill(h) /\ handler[g].skill = handler[h].skill /\ g # h
      => handler[g].skill \in raced

\* What request h carries over its awaits is what the store holds.
UpToDate(h) ==
  LET r == skills[handler[h].skill]
  IN  /\ handler[h].at \in {"stored", "loaded"} => r.status = handler[h].status
      /\ handler[h].at \in {"loaded", "approving", "approved"} => r.body = handler[h].body
      /\ handler[h].at = "approved" => r.status = "Approved"
      /\ handler[h].at = "deleted" => r.status = "Absent"

CarriesTruth ==
  \A h \in Handler : OnSkill(h) /\ handler[h].skill \notin raced => UpToDate(h)

Unwired == \A s \in toWire : DeclarativeOf(triggers, s) = {}

\* The declarative triggers of s in T are triggers its record r declares, all
\* of them but those in C.
Exact(T, C, s, r) ==
  /\ \A i \in DeclarativeOf(T, s) :
       /\ r.status = "Approved"
       /\ \E k \in 1 .. Len(Decl[r.body]) :
            [T[i] EXCEPT !.enabled = TRUE] = DeclaredBy(s, r.body)[k]
  /\ r.status = "Approved" =>
       \A k \in 1 .. Len(Decl[r.body]) :
         \/ Key(DeclaredBy(s, r.body)[k]) \in C
         \/ \E i \in DOMAIN T : T[i] = DeclaredBy(s, r.body)[k]

Settled(s) == running /\ s \notin raced /\ s \notin toWire /\ ~InFlight(s)

InService == \A s \in Skill : Settled(s) => Exact(triggers, cut, s, skills[s])

Service == Alone /\ CarriesTruth /\ Unwired /\ InService

\* A set of numbers with a bound has a last one.
LEMMA LastOne ==
  ASSUME NEW n \in Nat, NEW S, S \subseteq 1 .. n, S # {}
  PROVE  \E m \in S : \A j \in S : j <= m
<1> DEFINE U == {n - k : k \in S}
<1>1. U \subseteq Nat /\ U # {}
  <2>1. \A k \in S : k \in Int /\ k <= n
    OBVIOUS
  <2>2. \A k \in S : n - k \in Nat
    BY <2>1
  <2> QED
    BY <2>2
<1>2. PICK x \in U : \A y \in U : ~(<<y, x>> \in OpToRel(<, Nat))
  <2> HIDE DEF U
  <2> QED
    BY <1>1, NatLessThanWellFounded, WFMin
<1>3. \A y \in U : ~(y < x)
  BY <1>1, <1>2 DEF OpToRel
<1>4. PICK m \in S : x = n - m
  OBVIOUS
<1>5. \A j \in S : n - j \in U /\ j \in Int
  OBVIOUS
<1> HIDE DEF U
<1>6. \A j \in S : ~(n - j < n - m)
  BY <1>3, <1>4, <1>5
<1> QED
  BY <1>5, <1>6

\* Every registration of a sequence survives, or a later one of its event does.
LEMMA OneSurvives ==
  ASSUME NEW qs, GoodRegistrations(qs), NEW k \in 1 .. Len(qs)
  PROVE  \E j \in Surviving(qs) : j = k \/ SameEvent(qs[j], qs[k])
<1>1. Len(qs) \in Nat
  BY DEF GoodRegistrations
<1>2. CASE qs[k].source # "event"
  BY <1>2 DEF Surviving, SameEvent
<1>3. CASE qs[k].source = "event"
  <2> DEFINE S == {j \in 1 .. Len(qs) : SameEvent(qs[j], qs[k])}
  <2>1. k \in S
    BY <1>3 DEF SameEvent
  <2>2. PICK m \in S : \A j \in S : j <= m
    <3>1. S \subseteq 1 .. Len(qs) /\ S # {}
      BY <2>1
    <3> HIDE DEF S
    <3> QED
      BY <1>1, <3>1, LastOne
  <2>3. ASSUME NEW j \in 1 .. Len(qs), j > m, SameEvent(qs[j], qs[m]) PROVE FALSE
    <3>1. j \in S
      BY <2>3 DEF SameEvent
    <3> QED
      BY <1>1, <2>2, <2>3, <3>1
  <2> QED
    BY <2>2, <2>3 DEF Surviving
<1> QED
  BY <1>2, <1>3

\* What is where after a sequence has been registered.
LEMMA RegisterAllAt ==
  ASSUME NEW T, NEW n \in Nat \ {0}, GoodMap(T, n), NEW qs, GoodRegistrations(qs), NEW R,
         R = RegisterAll(T, n, qs)
  PROVE  /\ \A j \in Surviving(qs) : n + j - 1 \in DOMAIN R /\ R[n + j - 1] = qs[j]
         /\ \A i \in Untaken(T, qs) : i \in DOMAIN R /\ R[i] = T[i]
         /\ \A i \in DOMAIN R : \/ i \in Untaken(T, qs)
                                \/ \E j \in 1 .. Len(qs) : i = n + j - 1 /\ R[i] = qs[j]
         /\ Untaken(T, qs) = DOMAIN T \cap DOMAIN R
<1> DEFINE new == {n + k - 1 : k \in Surviving(qs)}
<1>1. /\ DOMAIN R = Untaken(T, qs) \cup new
      /\ \A i \in DOMAIN R : R[i] = IF i \in new THEN qs[i - n + 1] ELSE T[i]
  BY DEF RegisterAll
<1>2. \A k \in Surviving(qs) : k \in 1 .. Len(qs) /\ k \in Int
  BY DEF Surviving, GoodRegistrations
<1>3. \A i \in DOMAIN T : i \in Int /\ i < n
  BY DEF GoodMap
<1>4. \A i \in Untaken(T, qs) : i \in DOMAIN T
  BY DEF Untaken
<1>5. \A i \in new : i >= n /\ i \notin DOMAIN T
  BY <1>2, <1>3 DEF GoodRegistrations
<1>6. \A k \in Surviving(qs) : n + k - 1 \in new /\ (n + k - 1) - n + 1 = k
  BY <1>2
<1>7. \A i \in new : \E j \in Surviving(qs) : i = n + j - 1 /\ i - n + 1 = j
  BY <1>2
<1> HIDE DEF new
<1>8. \A j \in Surviving(qs) : n + j - 1 \in DOMAIN R /\ R[n + j - 1] = qs[j]
  BY <1>1, <1>6
<1>9. \A i \in Untaken(T, qs) : i \in DOMAIN R /\ R[i] = T[i]
  BY <1>1, <1>4, <1>5
<1>10. \A i \in DOMAIN R : \/ i \in Untaken(T, qs)
                           \/ \E j \in 1 .. Len(qs) : i = n + j - 1 /\ R[i] = qs[j]
  BY <1>1, <1>2, <1>7
<1>11. Untaken(T, qs) = DOMAIN T \cap DOMAIN R
  BY <1>1, <1>4, <1>5
<1> QED
  BY <1>8, <1>9, <1>10, <1>11

LEMMA DeclaredByAt ==
  ASSUME NEW s, NEW b, NEW k \in 1 .. Len(Decl[b]), NEW q, q = DeclaredBy(s, b)[k]
  PROVE  /\ q = [skill |-> s, source |-> Decl[b][k].source,
                 name |-> Normalized(Decl[b][k].source, Decl[b][k].name),
                 params |-> IF Decl[b][k].source = "event" THEN Vars[b] ELSE {},
                 expires |-> Never, declarative |-> TRUE, enabled |-> TRUE]
         /\ q.skill = s /\ q.declarative /\ q.enabled /\ q.expires = Never
         /\ Key(q)[1] = s
BY DEF DeclaredBy, Key

LEMMA EnabledAlready ==
  ASSUME NEW q \in Registration, q.enabled
  PROVE  [q EXCEPT !.enabled = TRUE] = q
<1>1. q.enabled = TRUE
  BY DEF Registration
<1> QED
  BY <1>1 DEF Registration

\* Two declarations of one body for one event, in any spelling, are the same.
LEMMA SameKeySame ==
  ASSUME NEW s, NEW b \in Body, NEW j \in 1 .. Len(Decl[b]), NEW k \in 1 .. Len(Decl[b]),
         Key(DeclaredBy(s, b)[j]) = Key(DeclaredBy(s, b)[k])
  PROVE  DeclaredBy(s, b)[j] = DeclaredBy(s, b)[k]
<1> DEFINE p == DeclaredBy(s, b)[j]
           q == DeclaredBy(s, b)[k]
<1>1. /\ p = [skill |-> s, source |-> Decl[b][j].source,
              name |-> Normalized(Decl[b][j].source, Decl[b][j].name),
              params |-> IF Decl[b][j].source = "event" THEN Vars[b] ELSE {},
              expires |-> Never, declarative |-> TRUE, enabled |-> TRUE]
      /\ q = [skill |-> s, source |-> Decl[b][k].source,
              name |-> Normalized(Decl[b][k].source, Decl[b][k].name),
              params |-> IF Decl[b][k].source = "event" THEN Vars[b] ELSE {},
              expires |-> Never, declarative |-> TRUE, enabled |-> TRUE]
  BY DEF DeclaredBy
<1>2. p.source = q.source /\ p.name = q.name
  BY DEF Key
<1> HIDE DEF p, q
<1>3. p = q
  BY <1>1, <1>2
<1> QED
  BY <1>3 DEF p, q

\* A sync, or boot: a skill without declared triggers gets those of its body.
LEMMA FreshExact ==
  ASSUME NEW T, NEW n \in Nat \ {0}, GoodMap(T, n), NEW s \in Skill, NEW C, NEW r,
         r.status = "Approved", r.body \in Body, DeclarativeOf(T, s) = {}
  PROVE  Exact(RegisterAll(T, n, DeclaredBy(s, r.body)), C, s, r)
<1> DEFINE b  == r.body
           qs == DeclaredBy(s, b)
           R  == RegisterAll(T, n, qs)
<1>1. GoodRegistrations(qs) /\ Len(qs) = Len(Decl[b])
  BY DeclaredByGood
<1>2. /\ \A j \in Surviving(qs) : n + j - 1 \in DOMAIN R /\ R[n + j - 1] = qs[j]
      /\ \A i \in Untaken(T, qs) : i \in DOMAIN R /\ R[i] = T[i]
      /\ \A i \in DOMAIN R : \/ i \in Untaken(T, qs)
                             \/ \E j \in 1 .. Len(qs) : i = n + j - 1 /\ R[i] = qs[j]
  <2> HIDE DEF qs
  <2> QED
    BY <1>1, RegisterAllAt
<1>3. Untaken(T, qs) \subseteq DOMAIN T
  BY DEF Untaken
<1>4. \A i \in Untaken(T, qs) : i \notin DeclarativeOf(R, s)
  BY <1>2, <1>3 DEF DeclarativeOf
<1>5. ASSUME NEW i \in DeclarativeOf(R, s)
      PROVE  \E k \in 1 .. Len(Decl[b]) : [R[i] EXCEPT !.enabled = TRUE] = qs[k]
  <2>1. PICK k \in 1 .. Len(Decl[b]) : R[i] = qs[k]
    BY <1>1, <1>2, <1>4, <1>5 DEF DeclarativeOf
  <2>2. qs[k] \in Registration /\ qs[k].enabled
    BY <1>1, DeclaredByAt DEF GoodRegistrations
  <2>3. [qs[k] EXCEPT !.enabled = TRUE] = qs[k]
    BY <2>2, EnabledAlready
  <2> QED
    BY <2>1, <2>3
<1>6. ASSUME NEW k \in 1 .. Len(Decl[b])
      PROVE  \E i \in DOMAIN R : R[i] = qs[k]
  <2>1. PICK j \in Surviving(qs) : j = k \/ SameEvent(qs[j], qs[k])
    <3> HIDE DEF qs
    <3> QED
      BY <1>1, OneSurvives
  <2>2. j \in 1 .. Len(Decl[b])
    BY <1>1 DEF Surviving
  <2>3. Key(qs[j]) = Key(qs[k])
    <3>1. qs[j].skill = s /\ qs[k].skill = s
      BY <2>2 DEF DeclaredBy
    <3> QED
      BY <2>1, <3>1 DEF SameEvent, Key
  <2> QED
    BY <1>2, <2>1, <2>2, <2>3, SameKeySame
<1> QED
  BY <1>5, <1>6 DEF Exact

\* A skill none of whose declared triggers is added, and none lost unnoticed.
LEMMA Undisturbed ==
  ASSUME NEW T, NEW C, NEW s, NEW r, r.status = "Approved" => r.body \in Body, Exact(T, C, s, r),
         NEW T2, NEW C2,
         \A i \in DeclarativeOf(T2, s) : i \in DOMAIN T /\ T2[i] = T[i],
         \A i \in DeclarativeOf(T, s) :
           (i \in DOMAIN T2 /\ T2[i] = T[i]) \/ Key(T[i]) \in C2,
         \A k \in C : k[1] = s => k \in C2
  PROVE  Exact(T2, C2, s, r)
<1>1. \A i \in DeclarativeOf(T2, s) : i \in DeclarativeOf(T, s) /\ T2[i] = T[i]
  BY DEF DeclarativeOf
<1>2. ASSUME r.status = "Approved", NEW k \in 1 .. Len(Decl[r.body])
      PROVE  \/ Key(DeclaredBy(s, r.body)[k]) \in C2
             \/ \E i \in DOMAIN T2 : T2[i] = DeclaredBy(s, r.body)[k]
  <2> DEFINE q == DeclaredBy(s, r.body)[k]
  <2>1. q.skill = s /\ q.declarative /\ Key(q)[1] = s
    BY <1>2, DeclaredByAt
  <2> HIDE DEF q
  <2>2. CASE Key(q) \in C
    BY <2>1, <2>2 DEF q
  <2>3. CASE \E i \in DOMAIN T : T[i] = q
    BY <2>1, <2>3 DEF q, DeclarativeOf
  <2> QED
    BY <1>2, <2>2, <2>3 DEF q, Exact
<1>3. \A i \in DeclarativeOf(T2, s) :
        /\ r.status = "Approved"
        /\ \E k \in 1 .. Len(Decl[r.body]) :
             [T2[i] EXCEPT !.enabled = TRUE] = DeclaredBy(s, r.body)[k]
  <2> SUFFICES ASSUME NEW i \in DeclarativeOf(T2, s)
               PROVE  /\ r.status = "Approved"
                      /\ \E k \in 1 .. Len(Decl[r.body]) :
                           [T2[i] EXCEPT !.enabled = TRUE] = DeclaredBy(s, r.body)[k]
    OBVIOUS
  <2>1. T2[i] = T[i] /\ i \in DeclarativeOf(T, s)
    BY <1>1
  <2> QED
    BY <2>1 DEF Exact
<1> QED
  BY <1>2, <1>3 DEF Exact

\* Registrations that are not declared triggers of s leave it undisturbed.
LEMMA OthersRegister ==
  ASSUME NEW T, NEW n \in Nat \ {0}, GoodMap(T, n), NEW qs, GoodRegistrations(qs),
         NEW C, NEW C2, NEW s, NEW r, r.status = "Approved" => r.body \in Body, Exact(T, C, s, r),
         \A k \in 1 .. Len(qs) : ~qs[k].declarative \/ qs[k].skill # s,
         Lost(T, Untaken(T, qs)) \subseteq C2,
         \A k \in C : k[1] = s => k \in C2
  PROVE  Exact(RegisterAll(T, n, qs), C2, s, r)
<1> DEFINE R == RegisterAll(T, n, qs)
<1>1. /\ \A i \in Untaken(T, qs) : i \in DOMAIN R /\ R[i] = T[i]
      /\ \A i \in DOMAIN R : \/ i \in Untaken(T, qs)
                             \/ \E j \in 1 .. Len(qs) : i = n + j - 1 /\ R[i] = qs[j]
  BY RegisterAllAt
<1>2. Untaken(T, qs) \subseteq DOMAIN T
  BY DEF Untaken
<1> HIDE DEF R
<1>3. \A i \in DeclarativeOf(R, s) : i \in DOMAIN T /\ R[i] = T[i]
  BY <1>1, <1>2 DEF DeclarativeOf
<1>4. \A i \in DeclarativeOf(T, s) : (i \in DOMAIN R /\ R[i] = T[i]) \/ Key(T[i]) \in C2
  BY <1>1 DEF DeclarativeOf, Lost
<1>5. Exact(R, C2, s, r)
  BY <1>3, <1>4, Undisturbed
<1> QED
  BY <1>5 DEF R

\* Removals that are noted leave s undisturbed, and so do those of other skills.
LEMMA RemovalsNoted ==
  ASSUME NEW T, NEW ids, ids \subseteq DOMAIN T,
         NEW C, NEW C2, NEW s, NEW r, r.status = "Approved" => r.body \in Body, Exact(T, C, s, r),
         \A i \in DeclarativeOf(T, s) : i \in ids \/ Key(T[i]) \in C2,
         \A k \in C : k[1] = s => k \in C2
  PROVE  Exact(Only(T, ids), C2, s, r)
<1> DEFINE R == Only(T, ids)
<1>1. DOMAIN R = ids /\ \A i \in ids : R[i] = T[i]
  BY DEF Only
<1> HIDE DEF R
<1>2. \A i \in DeclarativeOf(R, s) : i \in DOMAIN T /\ R[i] = T[i]
  BY <1>1 DEF DeclarativeOf
<1>3. \A i \in DeclarativeOf(T, s) : (i \in DOMAIN R /\ R[i] = T[i]) \/ Key(T[i]) \in C2
  BY <1>1
<1>4. Exact(R, C2, s, r)
  BY <1>2, <1>3, Undisturbed
<1> QED
  BY <1>4 DEF R

\* A request on a skill names one.
LEMMA OnSkillType ==
  ASSUME ProcessType, NEW h \in Handler, OnSkill(h)
  PROVE  handler[h].skill \in Skill
BY HandlerFields DEF ProcessType, OnSkill, Busy, Idle

LEMMA RequestsKept ==
  ASSUME Alone, CarriesTruth, UNCHANGED <<handler, skills, raced>>
  PROVE  Alone' /\ CarriesTruth'
BY DEF Alone, CarriesTruth, OnSkill, UpToDate

\* A request ends, or one that is not on a skill goes on.
LEMMA RequestEnds ==
  ASSUME ProcessType, Alone, CarriesTruth, NEW h \in Handler, NEW c,
         handler' = [handler EXCEPT ![h] = c], c.at \in {"idle", "registering"},
         UNCHANGED <<skills, raced, running, toWire>>
  PROVE  /\ Alone' /\ CarriesTruth'
         /\ \A t \in Skill : Settled(t)' => Settled(t) \/ (OnSkill(h) /\ handler[h].skill = t)
<1>1. \A g \in Handler : OnSkill(g)' => g # h /\ OnSkill(g) /\ handler'[g] = handler[g]
  BY DEF ProcessType, OnSkill
<1>2. Alone'
  BY <1>1 DEF Alone
<1>3. \A g \in Handler : OnSkill(g)' /\ UpToDate(g) => UpToDate(g)'
  BY <1>1 DEF UpToDate
<1>4. CarriesTruth'
  BY <1>1, <1>3 DEF CarriesTruth
<1>5. \A g \in Handler \ {h} : handler'[g] = handler[g]
  BY DEF ProcessType
<1>6. \A t \in Skill : InFlight(t) => InFlight(t)' \/ (OnSkill(h) /\ handler[h].skill = t)
  BY <1>5 DEF InFlight, OnSkill
<1> QED
  BY <1>2, <1>4, <1>6 DEF Settled

\* A request on s starts; nothing else happens to the other skills.
LEMMA RequestStarts ==
  ASSUME ProcessType, Alone, CarriesTruth, NEW h \in Handler, NEW s \in Skill, NEW c,
         handler[h] = Idle, Started(s), handler' = [handler EXCEPT ![h] = c],
         c.at \notin {"idle", "registering"}, c.skill = s,
         \A t \in Skill \ {s} : skills'[t] = skills[t], UpToDate(h)', UNCHANGED <<running, toWire>>
  PROVE  /\ Alone' /\ CarriesTruth'
         /\ \A t \in Skill : Settled(t)' => t # s /\ Settled(t)
<1>1. handler'[h] = c /\ \A g \in Handler \ {h} : handler'[g] = handler[g]
  BY DEF ProcessType
<1>2. \A g \in Handler \ {h} : OnSkill(g)' <=> OnSkill(g)
  BY <1>1 DEF OnSkill
<1>3. \A t \in Skill \ {s} : t \in raced' <=> t \in raced
  BY DEF Started
<1>4. \A g \in Handler \ {h} : OnSkill(g) /\ handler[g].skill = s => s \in raced'
  BY DEF Started, OnSkill
<1>5. ~OnSkill(h) /\ OnSkill(h)'
  BY <1>1 DEF OnSkill, Idle
<1>6. Alone'
  <2> SUFFICES ASSUME NEW g \in Handler, NEW k \in Handler, OnSkill(g)', OnSkill(k)',
                      handler'[g].skill = handler'[k].skill, g # k
               PROVE  handler'[g].skill \in raced'
    BY DEF Alone
  <2>1. CASE g = h \/ k = h
    BY <1>1, <1>2, <1>4, <2>1
  <2>2. CASE g # h /\ k # h
    <3>1. handler'[g] = handler[g] /\ handler[g].skill \in raced /\ OnSkill(g)
      BY <1>1, <1>2, <2>2 DEF Alone
    <3> QED
      BY <1>3, <1>4, <2>2, <3>1, OnSkillType
  <2> QED
    BY <2>1, <2>2
<1>7. CarriesTruth'
  <2> SUFFICES ASSUME NEW g \in Handler, OnSkill(g)', handler'[g].skill \notin raced'
               PROVE  UpToDate(g)'
    BY DEF CarriesTruth
  <2>1. CASE g # h
    <3>1. handler'[g] = handler[g] /\ OnSkill(g) /\ handler[g].skill # s /\ handler[g].skill \in Skill
      BY <1>1, <1>2, <1>4, <2>1, OnSkillType
    <3>2. UpToDate(g) /\ skills'[handler[g].skill] = skills[handler[g].skill]
      BY <1>3, <3>1 DEF CarriesTruth
    <3> QED
      BY <3>1, <3>2 DEF UpToDate
  <2> QED
    BY <2>1
<1>8. InFlight(s)'
  BY <1>1, <1>5 DEF InFlight
<1>9. \A t \in Skill : InFlight(t) => InFlight(t)'
  BY <1>1, <1>2, <1>5 DEF InFlight
<1> QED
  BY <1>3, <1>6, <1>7, <1>8, <1>9 DEF Settled

\* A request goes on: what it carries is still what the store holds.
LEMMA RequestGoesOn ==
  ASSUME ProcessType, Alone, CarriesTruth, NEW h \in Handler, NEW c, OnSkill(h),
         handler' = [handler EXCEPT ![h] = c], raced' = raced,
         c.at \notin {"idle", "registering"}, c.skill = handler[h].skill,
         \A t \in Skill \ {handler[h].skill} : skills'[t] = skills[t],
         UpToDate(h) => UpToDate(h)'
  PROVE  /\ Alone' /\ CarriesTruth'
         /\ \A t \in Skill : InFlight(t)' <=> InFlight(t)
<1>1. handler'[h] = c /\ \A g \in Handler \ {h} : handler'[g] = handler[g]
  BY DEF ProcessType
<1>2. \A g \in Handler : OnSkill(g)' <=> OnSkill(g)
  BY <1>1 DEF OnSkill
<1>3. \A g \in Handler : handler'[g].skill = handler[g].skill
  BY <1>1
<1>4. Alone'
  BY <1>2, <1>3 DEF Alone
<1>5. CarriesTruth'
  <2> SUFFICES ASSUME NEW g \in Handler, OnSkill(g)', handler'[g].skill \notin raced'
               PROVE  UpToDate(g)'
    BY DEF CarriesTruth
  <2>1. OnSkill(g) /\ UpToDate(g) /\ handler[g].skill \in Skill
    BY <1>2, <1>3, OnSkillType DEF CarriesTruth
  <2>2. CASE g # h
    <3>1. handler[g].skill # handler[h].skill
      BY <1>3, <2>1, <2>2 DEF Alone
    <3>2. skills'[handler[g].skill] = skills[handler[g].skill] /\ handler'[g] = handler[g]
      BY <1>1, <2>1, <2>2, <3>1
    <3> QED
      BY <2>1, <3>2 DEF UpToDate
  <2> QED
    BY <2>1, <2>2
<1>6. \A t \in Skill : InFlight(t)' <=> InFlight(t)
  BY <1>2, <1>3 DEF InFlight
<1> QED
  BY <1>4, <1>5, <1>6

\* A step that neither registry nor the records of the settled skills feel.
LEMMA ServiceKept ==
  ASSUME InService, UNCHANGED <<triggers, cut>>,
         \A t \in Skill : Settled(t)' => Settled(t) /\ skills'[t] = skills[t]
  PROVE  InService'
<1> SUFFICES ASSUME NEW t \in Skill, Settled(t)' PROVE Exact(triggers, cut, t, skills[t])'
  BY DEF InService
<1>1. Exact(triggers, cut, t, skills[t]) /\ skills'[t] = skills[t]
  BY DEF InService
<1> QED
  BY <1>1

\* A record that is Approved has a body.
LEMMA ApprovedBody ==
  ASSUME ProcessType, NEW s \in Skill
  PROVE  skills[s].status = "Approved" => skills[s].body \in Body
BY DEF ProcessType, SkillRecord

\* Declared triggers of one skill are registered on top of a part of the
\* registry that has all those of the others: by boot and by the syncs.
LEMMA DeclaredService ==
  ASSUME Inv, InService, NEW s \in Skill, NEW ids, ids \subseteq DOMAIN triggers,
         DeclarativeOf(triggers, s) \cap ids = {},
         \A i \in DOMAIN triggers \ ids : i \in DeclarativeOf(triggers, s),
         NEW qs, qs = <<>> \/ \E b \in Body : qs = DeclaredBy(s, b),
         triggers' = RegisterAll(Only(triggers, ids), nextId, qs),
         skills' = skills,
         \A t \in Skill \ {s} : Settled(t)' => Settled(t),
         Settled(s)' => qs = IF skills[s].status = "Approved"
                             THEN DeclaredBy(s, skills[s].body) ELSE <<>>,
         Lost(Only(triggers, ids), Untaken(Only(triggers, ids), qs)) \subseteq cut',
         \A k \in cut : k[1] # s => k \in cut'
  PROVE  /\ InService'
         /\ \A t \in Skill \ {s} : DeclarativeOf(triggers, t) = {} => DeclarativeOf(triggers', t) = {}
<1> DEFINE T == Only(triggers, ids)
<1>1. nextId \in Nat \ {0} /\ GoodMap(T, nextId) /\ ProcessType
  BY MaxIdAssumption, OnlyGood DEF Inv, TypeOK, RegistryType
<1>2. GoodRegistrations(qs) /\ \A k \in 1 .. Len(qs) : qs[k].skill = s
  <2>1. CASE qs = <<>>
    BY <2>1 DEF GoodRegistrations
  <2>2. ASSUME NEW b \in Body, qs = DeclaredBy(s, b)
        PROVE  GoodRegistrations(qs) /\ \A k \in 1 .. Len(qs) : qs[k].skill = s
    BY <2>2, DeclaredByGood, DeclaredByAt
  <2> QED
    BY <2>1, <2>2
<1>3. DOMAIN T = ids /\ \A i \in ids : T[i] = triggers[i]
  BY DEF Only
<1>4. DeclarativeOf(T, s) = {}
  BY <1>3 DEF DeclarativeOf
<1>5. \A t \in Skill \ {s} : DeclarativeOf(triggers, t) \subseteq ids
  BY DEF DeclarativeOf
<1> HIDE DEF T
<1>6. ASSUME NEW t \in Skill \ {s}, Settled(t)'
      PROVE  Exact(triggers', cut', t, skills[t])
  <2>1. Exact(triggers, cut, t, skills[t]) /\ (skills[t].status = "Approved" => skills[t].body \in Body)
    BY <1>1, <1>6, ApprovedBody DEF InService
  <2>2. Exact(T, cut, t, skills[t])
    <3>1. \A i \in DeclarativeOf(triggers, t) : i \in ids \/ Key(triggers[i]) \in cut
      BY <1>5
    <3> QED
      BY <2>1, <3>1, RemovalsNoted DEF T
  <2>3. \A k \in 1 .. Len(qs) : ~qs[k].declarative \/ qs[k].skill # t
    BY <1>2
  <2>4. Lost(T, Untaken(T, qs)) \subseteq cut' /\ \A k \in cut : k[1] = t => k \in cut'
    BY DEF T
  <2>5. Exact(RegisterAll(T, nextId, qs), cut', t, skills[t])
    BY <1>1, <1>2, <2>1, <2>2, <2>3, <2>4, OthersRegister
  <2> QED
    BY <2>5 DEF T
<1>7. ASSUME Settled(s)'
      PROVE  Exact(triggers', cut', s, skills[s])
  <2>1. CASE skills[s].status = "Approved"
    <3>1. skills[s].body \in Body /\ qs = DeclaredBy(s, skills[s].body)
      BY <1>1, <1>7, <2>1, ApprovedBody
    <3>2. Exact(RegisterAll(T, nextId, DeclaredBy(s, skills[s].body)), cut', s, skills[s])
      BY <1>1, <1>4, <2>1, <3>1, FreshExact
    <3> QED
      BY <3>1, <3>2 DEF T
  <2>2. CASE skills[s].status # "Approved"
    <3>1. qs = <<>> /\ Len(qs) = 0
      BY <1>7, <2>2
    <3>2. \A i \in DOMAIN triggers' : i \in DOMAIN T /\ triggers'[i] = T[i]
      BY <1>1, <1>2, <3>1, RegisterAllAt DEF T, Untaken
    <3>3. DeclarativeOf(triggers', s) = {}
      BY <1>4, <3>2 DEF DeclarativeOf
    <3> QED
      BY <2>2, <3>3 DEF Exact
  <2> QED
    BY <2>1, <2>2
<1>8. InService'
  BY <1>6, <1>7 DEF InService
<1>9. ASSUME NEW t \in Skill \ {s}, DeclarativeOf(triggers, t) = {}
      PROVE  DeclarativeOf(triggers', t) = {}
  <2>1. \A i \in DOMAIN triggers' : \/ i \in DOMAIN T /\ triggers'[i] = T[i]
                                    \/ triggers'[i].skill = s
    BY <1>1, <1>2, RegisterAllAt DEF T, Untaken
  <2> QED
    BY <1>3, <1>9, <2>1 DEF DeclarativeOf
<1> QED
  BY <1>8, <1>9

\* Boot registers stored rows, which are nobody's declared triggers.
LEMMA BootService == Inv /\ Service /\ Boot => Service'
<1> SUFFICES ASSUME Inv, Service, Boot PROVE Service'
  OBVIOUS
<1>1. \A i \in DOMAIN triggers' : ~triggers'[i].declarative
  BY DEF Boot, FromRow
<1>2. \A t \in Skill : DeclarativeOf(triggers', t) = {}
  BY <1>1 DEF DeclarativeOf
<1>3. Alone' /\ CarriesTruth'
  BY RequestsKept DEF Service, Boot
<1>4. Unwired'
  BY <1>2 DEF Unwired, Boot, Approved
<1>5. \A t \in Skill : Settled(t)' => skills'[t].status # "Approved"
  BY DEF Boot, Settled, Approved
<1>6. InService'
  BY <1>2, <1>5 DEF InService, Exact
<1> QED
  BY <1>3, <1>4, <1>6 DEF Service

LEMMA WireService == ASSUME NEW s \in Skill PROVE Inv /\ Service /\ WireSkill(s) => Service'
<1> SUFFICES ASSUME Inv, Service, WireSkill(s) PROVE Service'
  OBVIOUS
<1> DEFINE b  == skills[s].body
           qs == DeclaredBy(s, b)
<1>1. b \in Body /\ skills[s].status = "Approved" /\ s \in toWire /\ toWire \subseteq Skill
  BY DEF WireSkill, Inv, Wiring, TypeOK, ProcessType, SkillRecord
<1>2. /\ triggers = Only(triggers, DOMAIN triggers) /\ triggers' = RegisterAll(triggers, nextId, qs)
      /\ GoodMap(triggers, nextId) /\ nextId \in Nat \ {0} /\ GoodRegistrations(qs)
  BY <1>1, OnlyAll, DeclaredByGood, MaxIdAssumption
  DEF Inv, TypeOK, RegistryType, WireSkill, RegisterDeclared
<1>3. /\ UNCHANGED <<skills, handler, raced, running>> /\ toWire' = toWire \ {s}
      /\ cut' = cut \cup Lost(triggers, DOMAIN triggers')
  BY DEF WireSkill
<1>4. DeclarativeOf(triggers, s) = {}
  BY <1>1 DEF Service, Unwired
<1>5. Lost(triggers, Untaken(triggers, qs)) \subseteq cut'
  <2>1. Untaken(triggers, qs) = DOMAIN triggers \cap DOMAIN triggers'
    <3> HIDE DEF qs
    <3> QED
      BY <1>2, RegisterAllAt
  <2> QED
    BY <1>3, <2>1 DEF Lost
<1>6. \A t \in Skill \ {s} : Settled(t)' => Settled(t)
  BY <1>3 DEF Settled, InFlight, OnSkill
<1>7. \E c \in Body : qs = DeclaredBy(s, c)
  BY <1>1
<1> DEFINE ids == DOMAIN triggers
<1>8. /\ DeclarativeOf(triggers, s) \cap ids = {}
      /\ \A i \in DOMAIN triggers \ ids : i \in DeclarativeOf(triggers, s)
      /\ triggers' = RegisterAll(Only(triggers, ids), nextId, qs)
      /\ Lost(Only(triggers, ids), Untaken(Only(triggers, ids), qs)) \subseteq cut'
      /\ qs = IF skills[s].status = "Approved" THEN DeclaredBy(s, skills[s].body) ELSE <<>>
      /\ \A k \in cut : k \in cut'
      /\ ids \subseteq DOMAIN triggers
  BY <1>1, <1>2, <1>3, <1>4, <1>5
<1> HIDE DEF ids, qs
<1>9. InService' /\ \A t \in Skill \ {s} : DeclarativeOf(triggers, t) = {} => DeclarativeOf(triggers', t) = {}
  BY <1>3, <1>6, <1>7, <1>8, DeclaredService DEF Service
<1>10. Unwired'
  BY <1>1, <1>3, <1>9 DEF Service, Unwired
<1> QED
  BY <1>3, <1>9, <1>10, RequestsKept DEF Service

\* The end of a sync, in skill_status, skill_write and /approve.
LEMMA SyncService ==
  ASSUME Inv, Service, NEW h \in Handler, OnSkill(h), NEW st, NEW b \in Body \cup {NoBody},
         SyncDeclarativeTriggers(handler[h].skill, b, st),
         UpToDate(h) => /\ skills[handler[h].skill].status = st
                        /\ skills[handler[h].skill].body = b,
         handler' = [handler EXCEPT ![h] = Idle], UNCHANGED <<skills, raced, running, toWire>>,
         toWire = {}
  PROVE  Service'
<1>1. ProcessType /\ handler[h].skill \in Skill
  BY OnSkillType DEF Inv, TypeOK
<1>0. PICK s \in Skill : s = handler[h].skill
  BY <1>1
<1> DEFINE qs  == IF st = "Approved" /\ b # NoBody THEN DeclaredBy(s, b) ELSE <<>>
           ids == DOMAIN triggers \ DeclarativeOf(triggers, s)
<1>2. /\ triggers' = RegisterAll(Only(triggers, ids), nextId, qs)
      /\ cut' = {k \in cut : k[1] # s} \cup Lost(Only(triggers, ids), Untaken(Only(triggers, ids), qs))
  BY <1>0 DEF SyncDeclarativeTriggers, RegisterDeclared, KeptBySync, Without
<1>3. /\ Alone' /\ CarriesTruth'
      /\ \A t \in Skill : Settled(t)' => Settled(t) \/ s = t
  <2>1. Idle.at \in {"idle", "registering"}
    BY DEF Idle
  <2> QED
    BY <1>1, <1>0, <2>1, RequestEnds DEF Service
<1>4. qs = <<>> \/ \E c \in Body : qs = DeclaredBy(s, c)
  BY TriggersAssumption
<1>5. Settled(s)' => qs = IF skills[s].status = "Approved"
                          THEN DeclaredBy(s, skills[s].body) ELSE <<>>
  <2> SUFFICES ASSUME Settled(s)'
               PROVE  qs = IF skills[s].status = "Approved"
                           THEN DeclaredBy(s, skills[s].body) ELSE <<>>
    OBVIOUS
  <2>1. s \notin raced
    BY DEF Settled
  <2>2. skills[s].status = st /\ skills[s].body = b
    BY <1>0, <2>1 DEF Service, CarriesTruth
  <2>3. st = "Approved" => b # NoBody
    BY <1>1, <2>2, ApprovedBody, TriggersAssumption
  <2> QED
    BY <2>2, <2>3
<1>6. /\ DeclarativeOf(triggers, s) \cap ids = {}
      /\ \A i \in DOMAIN triggers \ ids : i \in DeclarativeOf(triggers, s)
      /\ ids \subseteq DOMAIN triggers
  OBVIOUS
<1>7. /\ \A k \in cut : k[1] # s => k \in cut'
      /\ Lost(Only(triggers, ids), Untaken(Only(triggers, ids), qs)) \subseteq cut'
  BY <1>2
<1> HIDE DEF ids, qs
<1>8. InService'
  BY <1>1, <1>2, <1>3, <1>4, <1>5, <1>6, <1>7, DeclaredService DEF Service
<1>9. Unwired'
  BY DEF Unwired
<1> QED
  BY <1>3, <1>8, <1>9 DEF Service

\* Removals: those that matter to a settled skill are noted.
LEMMA RemovalService ==
  ASSUME Inv, InService, NEW ids, ids \subseteq DOMAIN triggers, triggers' = Only(triggers, ids),
         skills' = skills, \A t \in Skill : Settled(t)' => Settled(t),
         \A t \in Skill : Settled(t)' =>
           /\ \A i \in DeclarativeOf(triggers, t) : i \in ids \/ Key(triggers[i]) \in cut'
           /\ \A k \in cut : k[1] = t => k \in cut'
  PROVE  InService'
<1> SUFFICES ASSUME NEW t \in Skill, Settled(t)' PROVE Exact(triggers, cut, t, skills[t])'
  BY DEF InService
<1>1. Exact(triggers, cut, t, skills[t]) /\ (skills[t].status = "Approved" => skills[t].body \in Body)
  BY ApprovedBody DEF InService, Inv, TypeOK
<1>2. Exact(Only(triggers, ids), cut', t, skills[t])
  BY <1>1, RemovalsNoted
<1> QED
  BY <1>2

\* register_trigger: what it displaces is noted.
LEMMA RegisterTriggerService ==
  ASSUME Inv, InService, NEW c \in Call, NEW params \in SUBSET Var, RegisterTrigger(c, params),
         skills' = skills, \A t \in Skill : Settled(t)' => Settled(t)
  PROVE  InService'
<1> DEFINE qs == <<CalledFor(c, params)>>
<1>1. /\ triggers' = RegisterAll(triggers, nextId, qs)
      /\ cut' = cut \cup Lost(triggers, DOMAIN triggers')
      /\ GoodMap(triggers, nextId) /\ nextId \in Nat \ {0}
  BY MaxIdAssumption DEF RegisterTrigger, Inv, TypeOK, RegistryType
<1>2. GoodRegistrations(qs) /\ \A k \in 1 .. Len(qs) : ~qs[k].declarative
  <2>1. CalledFor(c, params) \in Registration /\ WellNamed(CalledFor(c, params))
    BY LowerAssumption DEF Call, CalledFor, Registration, Source, Normalized, WellNamed
  <2>2. ~CalledFor(c, params).declarative
    BY DEF CalledFor
  <2>3. qs = [k \in 1 .. Len(qs) |-> qs[k]] /\ Len(qs) = 1 /\ qs[1] = CalledFor(c, params)
    OBVIOUS
  <2> QED
    BY <2>1, <2>2, <2>3 DEF GoodRegistrations
<1> HIDE DEF qs
<1>3. Untaken(triggers, qs) = DOMAIN triggers \cap DOMAIN triggers'
  BY <1>1, <1>2, RegisterAllAt
<1>4. Lost(triggers, Untaken(triggers, qs)) \subseteq cut'
  BY <1>1, <1>3 DEF Lost
<1> SUFFICES ASSUME NEW t \in Skill, Settled(t)' PROVE Exact(triggers, cut, t, skills[t])'
  BY DEF InService
<1>5. Exact(triggers, cut, t, skills[t]) /\ (skills[t].status = "Approved" => skills[t].body \in Body)
  BY ApprovedBody DEF InService, Inv, TypeOK
<1>6. Exact(RegisterAll(triggers, nextId, qs), cut', t, skills[t])
  BY <1>1, <1>2, <1>4, <1>5, OthersRegister
<1> QED
  BY <1>1, <1>6

\* set_trigger_enabled: a declared trigger that is turned off is noted, and one
\* that is turned on is what its body declares again.
LEMMA EnabledService ==
  ASSUME Inv, InService, NEW i \in Id, NEW on \in BOOLEAN, SetTriggerEnabled(i, on)
  PROVE  InService'
<1>1. /\ i \in DOMAIN triggers /\ triggers[i] \in Registration /\ triggers[i].enabled # on
      /\ triggers' = [triggers EXCEPT ![i].enabled = on]
      /\ triggers \in [DOMAIN triggers -> Registration]
  BY DEF SetTriggerEnabled, Inv, GoodMap
<1>2. /\ DOMAIN triggers' = DOMAIN triggers
      /\ \A j \in DOMAIN triggers \ {i} : triggers'[j] = triggers[j]
      /\ triggers'[i] = [triggers[i] EXCEPT !.enabled = on]
  BY <1>1
<1>3. /\ triggers'[i].skill = triggers[i].skill /\ triggers'[i].declarative = triggers[i].declarative
      /\ Key(triggers[i])[1] = triggers[i].skill
      /\ [triggers'[i] EXCEPT !.enabled = TRUE] = [triggers[i] EXCEPT !.enabled = TRUE]
  BY <1>1, <1>2 DEF Registration, Key
<1>4. /\ cut' = IF ~triggers[i].declarative THEN cut
                ELSE IF on THEN cut \ {Key(triggers[i])} ELSE cut \cup {Key(triggers[i])}
      /\ UNCHANGED <<running, toWire, skills, handler, raced>>
  BY DEF SetTriggerEnabled
<1>5. \A t \in Skill : Settled(t)' => Settled(t)
  BY <1>4 DEF Settled, InFlight, OnSkill
<1> SUFFICES ASSUME NEW t \in Skill, Settled(t)' PROVE Exact(triggers', cut', t, skills[t])
  BY <1>4 DEF InService
<1>6. Exact(triggers, cut, t, skills[t]) /\ (skills[t].status = "Approved" => skills[t].body \in Body)
  BY <1>5, ApprovedBody DEF InService, Inv, TypeOK
<1>7. CASE i \notin DeclarativeOf(triggers, t)
  <2>1. \A j \in DeclarativeOf(triggers', t) : j \in DOMAIN triggers /\ triggers'[j] = triggers[j]
    BY <1>1, <1>2, <1>3, <1>7 DEF DeclarativeOf
  <2>2. \A j \in DeclarativeOf(triggers, t) : j \in DOMAIN triggers' /\ triggers'[j] = triggers[j]
    BY <1>2, <1>7 DEF DeclarativeOf
  <2>3. \A k \in cut : k[1] = t => k \in cut'
    BY <1>1, <1>3, <1>4, <1>7 DEF DeclarativeOf
  <2> QED
    BY <1>6, <2>1, <2>2, <2>3, Undisturbed
<1>8. CASE i \in DeclarativeOf(triggers, t)
  <2> DEFINE r == skills[t]
             q(k) == DeclaredBy(t, r.body)[k]
  <2>1. /\ triggers[i].declarative /\ r.status = "Approved" /\ r.body \in Body
        /\ \E k \in 1 .. Len(Decl[r.body]) : [triggers[i] EXCEPT !.enabled = TRUE] = q(k)
    BY <1>6, <1>8 DEF Exact, DeclarativeOf
  <2>2. PICK m \in 1 .. Len(Decl[r.body]) : [triggers[i] EXCEPT !.enabled = TRUE] = q(m)
    BY <2>1
  <2>3. Key(q(m)) = Key(triggers[i])
    BY <1>1, <2>2 DEF Registration, Key
  <2>4. ASSUME NEW j \in DeclarativeOf(triggers', t)
        PROVE  \E k \in 1 .. Len(Decl[r.body]) : [triggers'[j] EXCEPT !.enabled = TRUE] = q(k)
    <3>1. CASE j = i
      BY <1>3, <2>2, <3>1
    <3>2. CASE j # i
      <4>1. j \in DeclarativeOf(triggers, t) /\ triggers'[j] = triggers[j]
        BY <1>2, <2>4, <3>2 DEF DeclarativeOf
      <4> QED
        BY <1>6, <4>1 DEF Exact
    <3> QED
      BY <3>1, <3>2
  <2>5. ASSUME NEW k \in 1 .. Len(Decl[r.body])
        PROVE  Key(q(k)) \in cut' \/ \E j \in DOMAIN triggers' : triggers'[j] = q(k)
    <3>1. CASE on
      <4>1. triggers'[i] = q(m) /\ cut' = cut \ {Key(triggers[i])}
        BY <1>2, <1>4, <2>1, <2>2, <3>1
      <4>2. CASE Key(q(k)) = Key(triggers[i])
        <5>1. q(k) = q(m)
          BY <2>1, <2>3, <4>2, SameKeySame
        <5> QED
          BY <1>1, <1>2, <4>1, <5>1
      <4>3. CASE Key(q(k)) # Key(triggers[i])
        <5>1. CASE Key(q(k)) \in cut
          BY <4>1, <4>3, <5>1
        <5>2. ASSUME NEW j \in DOMAIN triggers, triggers[j] = q(k)
              PROVE  j \in DOMAIN triggers' /\ triggers'[j] = q(k)
          BY <1>2, <4>3, <5>2
        <5> QED
          BY <1>6, <2>1, <5>1, <5>2 DEF Exact
      <4> QED
        BY <4>2, <4>3
    <3>2. CASE ~on
      <4>1. cut' = cut \cup {Key(triggers[i])}
        BY <1>4, <2>1, <3>2
      <4>2. CASE Key(q(k)) \in cut
        BY <4>1, <4>2
      <4>3. ASSUME NEW j \in DOMAIN triggers, triggers[j] = q(k)
            PROVE  Key(q(k)) \in cut' \/ triggers'[j] = q(k)
        BY <1>2, <4>1, <4>3
      <4> QED
        BY <1>2, <1>6, <2>1, <4>2, <4>3 DEF Exact
    <3> QED
      BY <3>1, <3>2
  <2> QED
    BY <2>1, <2>4, <2>5 DEF Exact
<1> QED
  BY <1>7, <1>8

\* A step of no request: nothing of the requests changes.
LEMMA RegistryService ==
  ASSUME Service, InService', UNCHANGED <<handler, skills, raced, toWire>>, toWire = {}
  PROVE  Service'
<1>1. Unwired'
  BY DEF Unwired
<1> QED
  BY <1>1, RequestsKept DEF Service

LEMMA TickService == Inv /\ Service /\ Tick => Service'
<1> SUFFICES ASSUME Inv, Service, Tick PROVE Service'
  OBVIOUS
<1> DEFINE left == {i \in DOMAIN triggers : ~Expired(triggers[i], now)}
<1>1. /\ triggers' = Only(triggers, left) /\ left \subseteq DOMAIN triggers
      /\ UNCHANGED <<running, toWire, skills, handler, cut, raced>> /\ toWire = {}
  BY DEF Tick, Serving
<1>2. \A t \in Skill : Settled(t)' => Settled(t)
  BY <1>1 DEF Settled, InFlight, OnSkill
<1>3. ASSUME NEW t \in Skill, Settled(t)', NEW i \in DeclarativeOf(triggers, t)
      PROVE  i \in left
  <2>1. PICK k \in 1 .. Len(Decl[skills[t].body]) :
          [triggers[i] EXCEPT !.enabled = TRUE] = DeclaredBy(t, skills[t].body)[k]
    BY <1>2, <1>3 DEF Service, InService, Exact
  <2>2. DeclaredBy(t, skills[t].body)[k].expires = Never
    BY DeclaredByAt
  <2>3. i \in DOMAIN triggers /\ triggers[i] \in Registration
    BY DEF DeclarativeOf, Inv, GoodMap
  <2>4. triggers[i].expires = Never
    BY <2>1, <2>2, <2>3 DEF Registration
  <2> QED
    BY <2>3, <2>4 DEF Expired
<1> HIDE DEF left
<1>4. InService'
  BY <1>1, <1>2, <1>3, RemovalService DEF Service
<1> QED
  BY <1>1, <1>4, RegistryService

LEMMA UnregisterService ==
  ASSUME NEW i \in Id PROVE Inv /\ Service /\ UnregisterTrigger(i) => Service'
<1> SUFFICES ASSUME Inv, Service, UnregisterTrigger(i) PROVE Service'
  OBVIOUS
<1> DEFINE ids == DOMAIN triggers \ {i}
<1>1. /\ triggers' = Only(triggers, ids) /\ ids \subseteq DOMAIN triggers
      /\ UNCHANGED <<running, toWire, skills, handler, raced>> /\ toWire = {}
      /\ cut' = cut \cup Lost(triggers, ids)
  BY DEF UnregisterTrigger, Without, Serving
<1>2. \A t \in Skill : Settled(t)' => Settled(t)
  BY <1>1 DEF Settled, InFlight, OnSkill
<1> HIDE DEF ids
<1>3. \A t \in Skill : \A j \in DeclarativeOf(triggers, t) : j \in ids \/ Key(triggers[j]) \in cut'
  BY <1>1 DEF DeclarativeOf, Lost
<1>4. InService'
  BY <1>1, <1>2, <1>3, RemovalService DEF Service
<1> QED
  BY <1>1, <1>4, RegistryService

LEMMA DropAllService == ASSUME NEW h \in Handler PROVE Inv /\ Service /\ DropAllTriggers(h) => Service'
<1> SUFFICES ASSUME Inv, Service, DropAllTriggers(h) PROVE Service'
  OBVIOUS
<1>1. ProcessType /\ handler[h].at = "deleted" /\ OnSkill(h) /\ handler[h].skill \in Skill
  BY OnSkillType DEF Inv, TypeOK, DropAllTriggers, OnSkill
<1>2. PICK s \in Skill : s = handler[h].skill
  BY <1>1
<1> DEFINE ids == DOMAIN triggers \ AllOf(triggers, s)
<1>3. /\ triggers' = Only(triggers, ids) /\ ids \subseteq DOMAIN triggers
      /\ UNCHANGED <<running, toWire, skills, raced>> /\ toWire = {}
      /\ handler' = [handler EXCEPT ![h] = Idle]
      /\ cut' = {k \in cut : k[1] # s}
  BY <1>2 DEF DropAllTriggers, Without, Serving
<1>4. Alone' /\ CarriesTruth' /\ \A t \in Skill : Settled(t)' => Settled(t) \/ s = t
  <2>1. Idle.at \in {"idle", "registering"}
    BY DEF Idle
  <2> QED
    BY <1>1, <1>2, <1>3, <2>1, RequestEnds DEF Service
<1>5. \A i \in DOMAIN triggers' : i \in ids /\ triggers'[i] = triggers[i]
  BY <1>3 DEF Only
<1>6. Settled(s)' => skills[s].status = "Absent"
  <2>1. Settled(s)' => s \notin raced
    BY <1>3 DEF Settled
  <2> QED
    BY <1>1, <1>2, <2>1 DEF Service, CarriesTruth, UpToDate
<1>7. Settled(s)' => Exact(triggers', cut', s, skills[s])
  <2>1. DeclarativeOf(triggers', s) = {}
    BY <1>5 DEF DeclarativeOf, AllOf
  <2> QED
    BY <1>6, <2>1 DEF Exact
<1>8. ASSUME NEW t \in Skill \ {s}, Settled(t)'
      PROVE  Exact(triggers', cut', t, skills[t])
  <2>1. Exact(triggers, cut, t, skills[t]) /\ (skills[t].status = "Approved" => skills[t].body \in Body)
    BY <1>1, <1>4, <1>8, ApprovedBody DEF Service, InService
  <2>2. \A i \in DeclarativeOf(triggers, t) : i \in ids
    BY DEF DeclarativeOf, AllOf
  <2>3. \A k \in cut : k[1] = t => k \in cut'
    BY <1>3
  <2> HIDE DEF ids
  <2>4. Exact(Only(triggers, ids), cut', t, skills[t])
    BY <1>3, <2>1, <2>2, <2>3, RemovalsNoted
  <2> QED
    BY <1>3, <2>4
<1>9. InService'
  BY <1>3, <1>7, <1>8 DEF InService
<1>10. Unwired'
  BY <1>3 DEF Unwired
<1> QED
  BY <1>4, <1>9, <1>10 DEF Service

LEMMA ContinueService == ASSUME NEW h \in Handler PROVE Inv /\ Service /\ Continue(h) => Service'
<1> SUFFICES ASSUME Inv, Service, Continue(h) PROVE Service'
  OBVIOUS
<1>1. ProcessType
  BY DEF Inv, TypeOK
<1>2. CASE RegisterEvent(h)
  <2>1. handler[h].call \in Call /\ handler[h].body \in Body \cup {NoBody}
    BY <1>1, <1>2, HandlerFields DEF RegisterEvent
  <2>2. ParamsOf(handler[h].body) \in SUBSET Var
    BY <2>1, BodyAssumption DEF ParamsOf
  <2>3. /\ RegisterTrigger(handler[h].call, ParamsOf(handler[h].body))
        /\ handler' = [handler EXCEPT ![h] = Idle] /\ Idle.at \in {"idle", "registering"}
        /\ UNCHANGED <<skills, raced, running, toWire>> /\ toWire = {} /\ ~OnSkill(h)
    BY <1>2 DEF RegisterEvent, Serving, OnSkill, Idle
  <2>4. Alone' /\ CarriesTruth' /\ \A t \in Skill : Settled(t)' => Settled(t)
    BY <1>1, <2>3, RequestEnds DEF Service
  <2>5. InService'
    BY <2>1, <2>2, <2>3, <2>4, RegisterTriggerService DEF Service
  <2> QED
    BY <2>3, <2>4, <2>5 DEF Service, Unwired
<1>3. CASE SyncLoad(h)
  <2> DEFINE c == [at |-> "loaded", skill |-> handler[h].skill,
                   status |-> handler[h].status, body |-> skills[handler[h].skill].body]
  <2>1. /\ handler' = [handler EXCEPT ![h] = c] /\ OnSkill(h) /\ handler[h].at = "stored"
        /\ UNCHANGED <<skills, raced, running, toWire, triggers, cut>> /\ toWire = {}
    BY <1>3 DEF SyncLoad, Serving, OnSkill, registry
  <2>2. handler'[h] = c
    BY <1>1, <2>1 DEF ProcessType
  <2>3. UpToDate(h) => UpToDate(h)'
    BY <2>1, <2>2 DEF UpToDate
  <2>4. c.at \notin {"idle", "registering"} /\ c.skill = handler[h].skill
    OBVIOUS
  <2> HIDE DEF c
  <2>5. Alone' /\ CarriesTruth' /\ \A t \in Skill : InFlight(t)' <=> InFlight(t)
    BY <1>1, <2>1, <2>3, <2>4, RequestGoesOn DEF Service
  <2>6. InService'
    BY <2>1, <2>5, ServiceKept DEF Service, Settled
  <2> QED
    BY <2>1, <2>5, <2>6 DEF Service, Unwired
<1>4. CASE SyncApply(h)
  <2>1. /\ handler[h].body \in Body \cup {NoBody} /\ OnSkill(h) /\ handler[h].at = "loaded"
        /\ SyncDeclarativeTriggers(handler[h].skill, handler[h].body, handler[h].status)
        /\ handler' = [handler EXCEPT ![h] = Idle]
        /\ UNCHANGED <<skills, raced, running, toWire>> /\ toWire = {}
    BY <1>1, <1>4, HandlerFields DEF SyncApply, Serving, OnSkill
  <2>2. UpToDate(h) => /\ skills[handler[h].skill].status = handler[h].status
                       /\ skills[handler[h].skill].body = handler[h].body
    BY <2>1 DEF UpToDate
  <2> QED
    BY <2>1, <2>2, SyncService
<1>5. CASE ApproveStore(h)
  <2> DEFINE c == [handler[h] EXCEPT !.at = "approved"]
  <2>1. /\ handler' = [handler EXCEPT ![h] = c] /\ OnSkill(h) /\ handler[h].at = "approving"
        /\ skills' = [skills EXCEPT ![handler[h].skill] =
                       [status |-> "Approved", body |-> handler[h].body]]
        /\ UNCHANGED <<raced, running, toWire, triggers, cut>> /\ toWire = {}
    BY <1>5 DEF ApproveStore, Serving, OnSkill, registry
  <2>2. handler[h] \in [at : {"approving", "approved"}, skill : Skill, body : Body]
    BY <1>1, <2>1 DEF ProcessType, Busy, Idle
  <2>3. c.at = "approved" /\ c.skill = handler[h].skill /\ c.body = handler[h].body
    BY <2>2
  <2>4. handler'[h] = c
    BY <1>1, <2>1 DEF ProcessType
  <2> HIDE DEF c
  <2>5. handler[h].skill \in Skill
    BY <2>2
  <2>6. /\ skills'[handler[h].skill] = [status |-> "Approved", body |-> handler[h].body]
        /\ \A t \in Skill \ {handler[h].skill} : skills'[t] = skills[t]
    BY <1>1, <2>1, <2>5 DEF ProcessType
  <2>7. UpToDate(h)'
    BY <2>3, <2>4, <2>6 DEF UpToDate
  <2>8. Alone' /\ CarriesTruth' /\ \A t \in Skill : InFlight(t)' <=> InFlight(t)
    BY <1>1, <2>1, <2>3, <2>6, <2>7, RequestGoesOn DEF Service
  <2>9. \A t \in Skill : Settled(t)' => Settled(t) /\ skills'[t] = skills[t]
    BY <2>1, <2>6, <2>8 DEF Settled, InFlight
  <2>10. InService'
    BY <2>1, <2>9, ServiceKept DEF Service
  <2> QED
    BY <2>1, <2>8, <2>10 DEF Service, Unwired
<1>6. CASE ApproveApply(h)
  <2>1. /\ handler[h].body \in Body \cup {NoBody} /\ OnSkill(h) /\ handler[h].at = "approved"
        /\ SyncDeclarativeTriggers(handler[h].skill, handler[h].body, "Approved")
        /\ handler' = [handler EXCEPT ![h] = Idle]
        /\ UNCHANGED <<skills, raced, running, toWire>> /\ toWire = {}
    BY <1>1, <1>6, HandlerFields DEF ApproveApply, Serving, OnSkill
  <2>2. UpToDate(h) => /\ skills[handler[h].skill].status = "Approved"
                       /\ skills[handler[h].skill].body = handler[h].body
    BY <2>1 DEF UpToDate
  <2> QED
    BY <2>1, <2>2, SyncService
<1>7. CASE DropAllTriggers(h)
  BY <1>7, DropAllService
<1> QED
  BY <1>2, <1>3, <1>4, <1>5, <1>6, <1>7 DEF Continue

\* The first steps of the requests: each makes its skill one with a request in
\* flight, and carries what it has stored or read.
LEMMA StartService ==
  ASSUME Inv, Service, NEW h \in Handler, NEW s \in Skill, NEW c,
         handler[h] = Idle, Started(s), handler' = [handler EXCEPT ![h] = c],
         c.at \notin {"idle", "registering"}, c.skill = s,
         \A t \in Skill \ {s} : skills'[t] = skills[t], UpToDate(h)',
         UNCHANGED <<running, toWire, triggers, cut>>, toWire = {}
  PROVE  Service'
<1>1. Alone' /\ CarriesTruth' /\ \A t \in Skill : Settled(t)' => t # s /\ Settled(t)
  BY RequestStarts DEF Service, Inv, TypeOK
<1>2. InService'
  BY <1>1, ServiceKept DEF Service
<1> QED
  BY <1>1, <1>2 DEF Service, Unwired

LEMMA RequestService == ASSUME NEW h \in Handler PROVE Inv /\ Service /\ Request(h) => Service'
<1> SUFFICES ASSUME Inv, Service, Request(h) PROVE Service'
  OBVIOUS
<1>1. ProcessType /\ handler \in [Handler -> Busy \cup {Idle}] /\ skills \in [Skill -> SkillRecord]
  BY DEF Inv, TypeOK, ProcessType
<1>2. /\ UNCHANGED <<running, toWire, triggers, cut>> /\ toWire = {} /\ handler[h] = Idle
  BY DEF Request, RegisterLoad, StatusStore, WriteStore, ApproveLoad, DeleteStore, Serving, registry
<1>3. CASE \E c \in Calls : RegisterLoad(h, c)
  <2>1. PICK d \in Calls : RegisterLoad(h, d)
    BY <1>3
  <2> DEFINE c == [at |-> "registering", call |-> d, body |-> skills[d.skill].body]
  <2>2. handler' = [handler EXCEPT ![h] = c] /\ UNCHANGED <<skills, raced>> /\ ~OnSkill(h)
    BY <1>2, <2>1 DEF RegisterLoad, OnSkill, Idle
  <2>3. c.at \in {"idle", "registering"}
    OBVIOUS
  <2> HIDE DEF c
  <2>4. Alone' /\ CarriesTruth' /\ \A t \in Skill : Settled(t)' => Settled(t)
    BY <1>1, <1>2, <2>2, <2>3, RequestEnds DEF Service
  <2>5. InService'
    BY <1>2, <2>2, <2>4, ServiceKept DEF Service
  <2> QED
    BY <1>2, <2>4, <2>5 DEF Service, Unwired
<1>4. CASE \E s \in Skill, st \in Status : StatusStore(h, s, st)
  <2>1. PICK s \in Skill, st \in Status : StatusStore(h, s, st)
    BY <1>4
  <2> DEFINE c == [at |-> "stored", skill |-> s, status |-> st]
  <2>2. /\ Started(s) /\ handler' = [handler EXCEPT ![h] = c] /\ handler'[h] = c
        /\ skills' = [skills EXCEPT ![s].status = st]
    BY <1>1, <2>1 DEF StatusStore
  <2>3. skills'[s].status = st /\ \A t \in Skill \ {s} : skills'[t] = skills[t]
    BY <1>1, <2>2 DEF SkillRecord
  <2>4. c.at = "stored" /\ c.skill = s /\ c.status = st
    OBVIOUS
  <2> HIDE DEF c
  <2>5. UpToDate(h)'
    BY <2>2, <2>3, <2>4 DEF UpToDate
  <2> QED
    BY <1>2, <2>2, <2>3, <2>4, <2>5, StartService
<1>5. CASE \E s \in Skill, b \in Body : WriteStore(h, s, b)
  <2>1. PICK s \in Skill, b \in Body : WriteStore(h, s, b)
    BY <1>5
  <2>2. PICK st \in WrittenStatus(s) :
          /\ skills' = [skills EXCEPT ![s] = [status |-> st, body |-> b]]
          /\ handler' = [handler EXCEPT ![h] = [at |-> "stored", skill |-> s, status |-> st]]
    BY <2>1 DEF WriteStore
  <2> DEFINE c == [at |-> "stored", skill |-> s, status |-> st]
  <2>3. Started(s) /\ handler' = [handler EXCEPT ![h] = c] /\ handler'[h] = c
    BY <1>1, <2>1, <2>2 DEF WriteStore
  <2>4. skills'[s].status = st /\ \A t \in Skill \ {s} : skills'[t] = skills[t]
    BY <1>1, <2>2
  <2>5. c.at = "stored" /\ c.skill = s /\ c.status = st
    OBVIOUS
  <2> HIDE DEF c
  <2>6. UpToDate(h)'
    BY <2>3, <2>4, <2>5 DEF UpToDate
  <2> QED
    BY <1>2, <2>3, <2>4, <2>5, <2>6, StartService
<1>6. CASE \E s \in Skill : ApproveLoad(h, s)
  <2>1. PICK s \in Skill : ApproveLoad(h, s)
    BY <1>6
  <2> DEFINE c == [at |-> "approving", skill |-> s, body |-> skills[s].body]
  <2>2. Started(s) /\ handler' = [handler EXCEPT ![h] = c] /\ handler'[h] = c /\ skills' = skills
    BY <1>1, <2>1 DEF ApproveLoad
  <2>3. c.at = "approving" /\ c.skill = s /\ c.body = skills[s].body
    OBVIOUS
  <2> HIDE DEF c
  <2>4. UpToDate(h)'
    BY <2>2, <2>3 DEF UpToDate
  <2> QED
    BY <1>2, <2>2, <2>3, <2>4, StartService
<1>7. CASE \E s \in Skill : DeleteStore(h, s)
  <2>1. PICK s \in Skill : DeleteStore(h, s)
    BY <1>7
  <2> DEFINE c == [at |-> "deleted", skill |-> s]
  <2>2. Started(s) /\ handler' = [handler EXCEPT ![h] = c] /\ handler'[h] = c
    BY <1>1, <2>1 DEF DeleteStore
  <2>3. skills'[s].status = "Absent" /\ \A t \in Skill \ {s} : skills'[t] = skills[t]
    BY <1>1, <2>1 DEF DeleteStore, Missing
  <2>4. c.at = "deleted" /\ c.skill = s
    OBVIOUS
  <2> HIDE DEF c
  <2>5. UpToDate(h)'
    BY <2>2, <2>3, <2>4 DEF UpToDate
  <2> QED
    BY <1>2, <2>2, <2>3, <2>4, <2>5, StartService
<1> QED
  BY <1>3, <1>4, <1>5, <1>6, <1>7 DEF Request

LEMMA NextService == Inv /\ Service /\ [Next]_vars => Service'
<1> SUFFICES ASSUME Inv, Service, [Next]_vars PROVE Service'
  OBVIOUS
<1> USE DEF Serving
<1>1. CASE Boot
  BY <1>1, BootService
<1>2. CASE BootFails \/ Advance \/ UNCHANGED vars
  <2>1. UNCHANGED <<running, toWire, triggers, cut, skills, handler, raced>>
    BY <1>2 DEF BootFails, Advance, vars, registry
  <2>2. Alone' /\ CarriesTruth'
    BY <2>1, RequestsKept DEF Service
  <2>3. \A t \in Skill : Settled(t)' => Settled(t)
    BY <2>1 DEF Settled, InFlight, OnSkill
  <2>4. InService'
    BY <2>1, <2>3, ServiceKept DEF Service
  <2> QED
    BY <2>1, <2>2, <2>4 DEF Service, Unwired
<1>3. CASE \E s \in Skill : WireSkill(s)
  BY <1>3, WireService
<1>4. CASE Crash
  <2>1. (\A h \in Handler : ~OnSkill(h)') /\ toWire' = {} /\ ~running'
    BY <1>4 DEF Crash, OnSkill, Idle
  <2> QED
    BY <2>1 DEF Service, Alone, CarriesTruth, Unwired, InService, Settled
<1>5. CASE Tick
  BY <1>5, TickService
<1>6. CASE \E c \in Calls : RegisterCron(c)
  <2>1. PICK c \in Calls : RegisterCron(c)
    BY <1>6
  <2>2. /\ c \in Call /\ {} \in SUBSET Var /\ RegisterTrigger(c, {})
        /\ UNCHANGED <<handler, skills, raced, toWire, running>> /\ toWire = {}
    BY <2>1, TriggersAssumption DEF RegisterCron
  <2>3. \A t \in Skill : Settled(t)' => Settled(t)
    BY <2>2 DEF Settled, InFlight, OnSkill
  <2>4. InService'
    BY <2>2, <2>3, RegisterTriggerService DEF Service
  <2> QED
    BY <2>2, <2>4, RegistryService
<1>7. CASE \E i \in Id : UnregisterTrigger(i)
  BY <1>7, UnregisterService
<1>8. CASE \E i \in Id, on \in BOOLEAN : SetTriggerEnabled(i, on)
  <2>1. UNCHANGED <<handler, skills, raced, toWire>> /\ toWire = {}
    BY <1>8 DEF SetTriggerEnabled
  <2>2. InService'
    BY <1>8, EnabledService DEF Service
  <2> QED
    BY <2>1, <2>2, RegistryService
<1>9. CASE \E s \in Skill, b \in Body : BridgeWrite(s, b)
  <2>1. PICK s \in Skill, b \in Body : BridgeWrite(s, b)
    BY <1>9
  <2>2. /\ UNCHANGED <<running, toWire, triggers, cut, handler>> /\ toWire = {}
        /\ raced' = raced \cup {s} /\ \A t \in Skill \ {s} : skills'[t] = skills[t]
    BY <2>1 DEF BridgeWrite, registry, Inv, TypeOK, ProcessType
  <2>3. Alone'
    BY <2>2 DEF Service, Alone, OnSkill
  <2>4. CarriesTruth'
    <3> SUFFICES ASSUME NEW h \in Handler, OnSkill(h)', handler'[h].skill \notin raced'
                 PROVE  UpToDate(h)'
      BY DEF CarriesTruth
    <3>1. OnSkill(h) /\ handler[h].skill \notin raced /\ handler[h].skill # s
      BY <2>2 DEF OnSkill
    <3>2. handler[h].skill \in Skill
      BY <3>1, OnSkillType DEF Inv, TypeOK
    <3>3. UpToDate(h) /\ skills'[handler[h].skill] = skills[handler[h].skill]
      BY <2>2, <3>1, <3>2 DEF Service, CarriesTruth
    <3> QED
      BY <2>2, <3>3 DEF UpToDate
  <2>5. \A t \in Skill : Settled(t)' => Settled(t) /\ t # s
    BY <2>2 DEF Settled, InFlight, OnSkill
  <2>6. InService'
    BY <2>2, <2>5, ServiceKept DEF Service
  <2> QED
    BY <2>2, <2>3, <2>4, <2>6 DEF Service, Unwired
<1>10. CASE \E h \in Handler : Request(h) \/ Continue(h)
  BY <1>10, RequestService, ContinueService
<1> QED
  BY <1>1, <1>2, <1>3, <1>4, <1>5, <1>6, <1>7, <1>8, <1>9, <1>10 DEF Next

\* What a registration of an event stands for: the event, in any spelling, goes
\* to its skill.
LEMMA HeldByOne ==
  ASSUME NEW T, NEW n, GoodMap(T, n), NEW i \in DOMAIN T, T[i].source = "event", T[i].enabled,
         NEW e \in Event, Lower[e] = T[i].name
  PROVE  FiredBy(T, e, T[i].params) = {T[i].skill}
<1>1. \A j \in DOMAIN T : T[j].source = "event" /\ T[j].name = Lower[e] => j = i
  BY DEF GoodMap, OneHolder
<1> QED
  BY <1>1 DEF FiredBy

LEMMA ServiceServes == Inv /\ Service => DeclarativeServed
<1> SUFFICES ASSUME Inv, Service, Quiescent, NEW s \in Skill \ raced
             PROVE  SoundFor(s) /\ LiveFor(s)
  BY DEF DeclarativeServed, DeclarativeSound, DeclarativeLive
<1>1. Settled(s)
  BY DEF Quiescent, Settled, Serving, InFlight, OnSkill, Idle
<1>2. Exact(triggers, cut, s, skills[s])
  BY <1>1 DEF Service, InService
<1>3. SoundFor(s)
  BY <1>2 DEF Exact, SoundFor
<1>4. LiveFor(s)
  <2> SUFFICES ASSUME skills[s].status = "Approved", NEW k \in 1 .. Len(Decl[skills[s].body]),
                      NEW q, q = DeclaredBy(s, skills[s].body)[k], Key(q) \notin cut
               PROVE  \/ q.source = "cron" /\ \E i \in DOMAIN triggers : triggers[i] = q
                      \/ /\ q.source = "event"
                         /\ \A e \in Event : Lower[e] = q.name =>
                              FiredBy(triggers, e, Vars[skills[s].body]) = {s}
    BY DEF LiveFor
  <2>1. PICK i \in DOMAIN triggers : triggers[i] = q
    BY <1>2 DEF Exact
  <2>2. q.source \in {"cron", "event"} /\ GoodMap(triggers, nextId)
    BY <2>1 DEF Inv, GoodMap, Registration, Source
  <2>3. CASE q.source = "event"
    <3>1. q.skill = s /\ q.enabled /\ q.params = Vars[skills[s].body]
      BY <2>3 DEF DeclaredBy
    <3>2. triggers[i].source = "event" /\ triggers[i].enabled
      BY <2>1, <2>3, <3>1
    <3>3. \A e \in Event : Lower[e] = triggers[i].name =>
            FiredBy(triggers, e, triggers[i].params) = {triggers[i].skill}
      BY <2>2, <3>2, HeldByOne
    <3> QED
      BY <2>1, <2>3, <3>1, <3>3
  <2> QED
    BY <2>1, <2>2, <2>3
<1> QED
  BY <1>3, <1>4

-----------------------------------------------------------------------------
(* Theorems *)

\* The inductive invariant: types, and a registry and a file in which every
\* event name has one holder and every id one meaning.
THEOREM Invariance == Spec => []Inv
<1>1. Init => Inv
  <2>1. Init => ProcessType /\ Wiring
    <3> SUFFICES ASSUME Init PROVE ProcessType /\ Wiring
      OBVIOUS
    <3>1. handler \in [Handler -> Busy \cup {Idle}]
      BY DEF Init
    <3>2. skills \in [Skill -> SkillRecord]
      BY TriggersAssumption DEF Init
    <3>3. /\ now = 0 /\ running = FALSE /\ toWire = {} /\ crashes = 0 /\ raced = {}
          /\ 0 \in 0 .. MaxTime /\ 0 \in 0 .. MaxCrashes
      BY TriggersAssumption DEF Init
    <3> QED
      BY <3>1, <3>2, <3>3 DEF ProcessType, Wiring
  <2> QED
    BY <2>1, InitCore, InvParts
<1>2. Inv /\ [Next]_vars => Inv'
  <2>1. Inv' <=> (ProcessType' /\ Wiring' /\ Core')
    BY DEF Inv, Core, TypeOK
  <2> QED
    BY <2>1, NextCore, NextProcess
<1> QED
  BY <1>1, <1>2, PTL DEF Spec

\* Type correctness of every variable, for every instance.
THEOREM TypeCorrect == Spec => []TypeOK
<1>1. Inv => TypeOK
  BY DEF Inv
<1> QED
  BY <1>1, Invariance, PTL

\* fireEvent has at most one skill to hand an event to, whatever clients,
\* declared triggers, restarts and failed writes did before.
THEOREM OneSkillPerEvent == Spec => []EventNameUnique
<1>1. Inv => EventNameUnique
  BY DEF Inv, GoodMap, EventNameUnique
<1> QED
  BY <1>1, Invariance, PTL

\* Hydration never makes two stored rows fight for an event name.
THEOREM OneRowPerEvent == Spec => []StoredNamesUnique
<1>1. Inv => StoredNamesUnique
  BY DEF Inv, FileGood, StoredNamesUnique
<1> QED
  BY <1>1, Invariance, PTL

\* An id on disk and the same id in memory are the same trigger.
THEOREM IdMeansOneTrigger == Spec => []RowIdentity
<1>1. Inv => RowIdentity
  BY DEF Inv
<1> QED
  BY <1>1, Invariance, PTL

\* triggers.json holds every imperative trigger as it is, and nothing that was
\* taken out on purpose, unless the last write failed (trigger-persistence.ts).
THEOREM FileAgreesAlways == Spec => []FileAgrees
<1>1. Init => FileAgrees
  BY DEF Init, FileAgrees, ImperativeDurable, OnlyOvertakenResurrect
<1> QED
  BY <1>1, NextAgrees, Invariance, PTL DEF Spec

\* In a minute a schedule fires no more often than it has had registrations in
\* service: polls, toggles, removals and expiries repeat no fire, and a sync, a
\* client's call or a boot after a crash allows the one of the registration it
\* makes (scheduler.ts: tick, and cronState, whose entries go with their ids).
THEOREM FiresPerStint == Spec => []FiresOncePerStint
<1>1. Init => WithinStints
  <2> SUFFICES ASSUME Init PROVE WithinStints
    OBVIOUS
  <2>1. DOMAIN triggers = {}
    BY DEF Init
  <2>2. ASSUME NEW k \in Schedule PROVE fires[k] + Cardinality(Unfired(k)) <= stints[k]
    <3>1. Cardinality(Unfired(k)) = 0
      BY <2>1, FS_EmptySet DEF Unfired, On
    <3> QED
      BY <3>1 DEF Init
  <2> QED
    BY <2>1, <2>2 DEF WithinStints
<1>2. Inv /\ WithinStints => FiresOncePerStint
  <2> SUFFICES ASSUME Inv, WithinStints, NEW k \in Schedule PROVE fires[k] <= stints[k]
    BY DEF FiresOncePerStint
  <2>1. Cardinality(Unfired(k)) \in Nat
    BY Counted DEF Unfired
  <2> QED
    BY <2>1 DEF WithinStints, Inv, TypeOK, RegistryType, TallyType
<1>3. Inv => Core
  BY InvParts
<1> QED
  BY <1>1, <1>2, <1>3, NextWithin, Invariance, PTL DEF Spec

\* With no request in flight, the declared triggers that serve are those of the
\* stored body of an Approved skill, for every skill whose latest requests did not
\* overlap: whatever boots, clients, expiries, events that change hands, deletions
\* and any number of requests on any skills came before (mcp-server.ts and
\* dashboard/server.ts: the sync after each store; bootstrap.ts: the wiring).
THEOREM DeclaredAreServed == Spec => []DeclarativeServed
<1>1. Init => Service
  BY DEF Init, Service, Alone, CarriesTruth, Unwired, InService, Settled, OnSkill, Idle
<1> QED
  BY <1>1, NextService, ServiceServes, Invariance, PTL DEF Spec

-----------------------------------------------------------------------------
(* The registering loop *)

Entry == Int \X Registration

\* m is a Map that holds the registrations of T, under their ids and nothing
\* else, in some order.
Lists(m, T) ==
  /\ m \in Seq(Entry)
  /\ \A k \in DOMAIN m : m[k][1] \in DOMAIN T /\ m[k][2] = T[m[k][1]]
  /\ \A j, k \in DOMAIN m : m[j][1] = m[k][1] => j = k
  /\ \A i \in DOMAIN T : \E k \in DOMAIN m : m[k][1] = i

\* The registry is what its Map holds.
LEMMA EntriesListed ==
  ASSUME NEW m, NEW T, Lists(m, T), T = [i \in DOMAIN T |-> T[i]]
  PROVE  EntriesOf(m) = T
<1>1. {m[k][1] : k \in DOMAIN m} = DOMAIN T
  <2>1. \A i \in DOMAIN T : i \in {m[k][1] : k \in DOMAIN m}
    BY DEF Lists
  <2>2. \A k \in DOMAIN m : m[k][1] \in DOMAIN T
    BY DEF Lists
  <2> QED
    BY <2>1, <2>2
<1>2. ASSUME NEW i \in DOMAIN T
      PROVE  m[CHOOSE k \in DOMAIN m : m[k][1] = i][2] = T[i]
  BY DEF Lists
<1> QED
  BY <1>1, <1>2 DEF EntriesOf

\* The ids of a registry have places 1, 2, ... in their order.
LEMMA Places ==
  ASSUME NEW D, NEW n \in Nat, D \subseteq 1 .. n - 1, NEW k \in 1 .. Cardinality(D)
  PROVE  \E i \in D : Cardinality({j \in D : j =< i}) = k
<1> DEFINE below(i) == {j \in D : j =< i}
           f == [i \in D |-> Cardinality(below(i))]
           C == Cardinality(D)
<1>1. IsFiniteSet(D) /\ \A i \in D : i \in Int
  <2>1. IsFiniteSet(1 .. n - 1)
    BY FS_Interval
  <2>2. IsFiniteSet(D)
    BY <2>1, FS_Subset
  <2> QED
    BY <2>2
<1>2. C \in Nat
  BY <1>1, FS_CardinalityType
<1>3. ASSUME NEW i \in D
      PROVE  IsFiniteSet(below(i)) /\ Cardinality(below(i)) \in 1 .. C
  <2>1. below(i) \in SUBSET D /\ i \in below(i)
    OBVIOUS
  <2>2. IsFiniteSet(below(i)) /\ Cardinality(below(i)) =< C
    BY <1>1, <2>1, FS_Subset
  <2>3. Cardinality(below(i)) \in Nat
    BY <2>2, FS_CardinalityType
  <2>4. Cardinality(below(i)) # 0
    BY <2>1, <2>2, FS_EmptySet
  <2> QED
    BY <1>2, <2>2, <2>3, <2>4
<1>4. ASSUME NEW i \in D, NEW j \in D, i < j
      PROVE  Cardinality(below(i)) # Cardinality(below(j))
  <2>1. below(i) \in SUBSET below(j) /\ j \in below(j) /\ j \notin below(i)
    <3>1. \A x \in D : x =< i => x =< j
      BY <1>1, <1>4
    <3>2. i =< i /\ j =< j /\ ~(j =< i)
      BY <1>1, <1>4
    <3> QED
      BY <3>1, <3>2
  <2> QED
    BY <1>3, <2>1, FS_Subset
<1>5. f \in Injection(D, 1 .. C)
  <2>1. f \in [D -> 1 .. C]
    BY <1>3
  <2>2. ASSUME NEW i \in D, NEW j \in D, f[i] = f[j] PROVE i = j
    <3>1. ~(i < j) /\ ~(j < i)
      BY <1>4, <2>2
    <3> QED
      BY <3>1
  <2> QED
    BY <2>1, <2>2 DEF Injection, IsInjective
<1>6. IsFiniteSet(1 .. C) /\ Cardinality(1 .. C) = C
  BY <1>2, FS_Interval
<1>7. f \in Surjection(D, 1 .. C)
  <2> HIDE DEF f
  <2> QED
    BY <1>5, <1>6, FS_Injection
<1>8. PICK i \in D : f[i] = k
  BY <1>7 DEF Surjection
<1> QED
  BY <1>8

\* Iterating the Map yields every registration once.
LEMMA MapListed ==
  ASSUME NEW T, NEW n \in Nat, GoodMap(T, n)
  PROVE  Lists(MapOf(T), T)
<1> DEFINE D == DOMAIN T
           place(i) == Cardinality({j \in D : j =< i})
           id(k) == CHOOSE i \in D : place(i) = k
           C == Cardinality(D)
           m == [k \in 1 .. C |-> <<id(k), T[id(k)]>>]
<1>1. D \subseteq 1 .. n - 1 /\ IsFiniteSet(D) /\ C \in Nat /\ \A i \in D : i \in Int
  <2>1. D \subseteq 1 .. n - 1
    BY DEF GoodMap
  <2>2. IsFiniteSet(1 .. n - 1)
    BY FS_Interval
  <2>3. IsFiniteSet(D)
    BY <2>1, <2>2, FS_Subset
  <2>4. C \in Nat
    BY <2>3, FS_CardinalityType
  <2> QED
    BY <2>1, <2>3, <2>4
<1>2. ASSUME NEW k \in 1 .. C PROVE id(k) \in D /\ place(id(k)) = k
  <2>1. \E i \in D : place(i) = k
    BY <1>1, Places
  <2> HIDE DEF place
  <2> QED
    BY <2>1
<1>3. ASSUME NEW i \in D PROVE place(i) \in 1 .. C
  <2> DEFINE below == {j \in D : j =< i}
  <2>1. below \in SUBSET D /\ i \in below
    BY <1>1
  <2>2. IsFiniteSet(below) /\ Cardinality(below) =< C
    BY <1>1, <2>1, FS_Subset
  <2>3. Cardinality(below) \in Nat /\ Cardinality(below) # 0
    BY <2>1, <2>2, FS_CardinalityType, FS_EmptySet
  <2> QED
    BY <1>1, <2>2, <2>3
<1>4. ASSUME NEW i \in D PROVE id(place(i)) = i
  <2> DEFINE j == id(place(i))
  <2>1. j \in D /\ place(j) = place(i)
    BY <1>2, <1>3
  <2>2. ASSUME NEW a \in D, NEW b \in D, a < b PROVE place(a) # place(b)
    <3> DEFINE A == {x \in D : x =< a}
               B == {x \in D : x =< b}
    <3>1. A \in SUBSET B /\ B \in SUBSET D /\ b \in B /\ b \notin A
      BY <1>1, <2>2
    <3>2. IsFiniteSet(B) /\ A # B
      BY <1>1, <3>1, FS_Subset
    <3> HIDE DEF A, B
    <3>3. Cardinality(A) # Cardinality(B)
      BY <3>1, <3>2, FS_Subset
    <3> QED
      BY <3>3 DEF A, B
  <2>3. ~(i < j) /\ ~(j < i)
    BY <2>1, <2>2
  <2> QED
    BY <1>1, <2>1, <2>3
<1>5. m = MapOf(T)
  BY DEF MapOf
<1> HIDE DEF id, place
<1>6. m \in Seq(Entry)
  <2>1. ASSUME NEW k \in 1 .. C PROVE m[k] \in Entry
    BY <1>1, <1>2 DEF GoodMap, Entry
  <2> QED
    BY <1>1, <2>1
<1>7. DOMAIN m = 1 .. C /\ \A k \in 1 .. C : m[k][1] = id(k) /\ m[k][2] = T[id(k)]
  OBVIOUS
<1> HIDE DEF m, C, D
<1>8. \A j, k \in DOMAIN m : m[j][1] = m[k][1] => j = k
  BY <1>2, <1>7
<1>9. \A i \in D : \E k \in DOMAIN m : m[k][1] = i
  BY <1>3, <1>4, <1>7
<1>10. \A k \in DOMAIN m : m[k][1] \in D /\ m[k][2] = T[m[k][1]]
  BY <1>2, <1>7
<1> QED
  BY <1>5, <1>6, <1>8, <1>9, <1>10 DEF Lists, D

\* Deleting an entry of the Map deletes its id.
LEMMA RemoveListed ==
  ASSUME NEW m, NEW T, Lists(m, T), NEW k \in DOMAIN m
  PROVE  Lists(RemoveAt(m, k), Without(T, {m[k][1]}))
<1> DEFINE r == RemoveAt(m, k)
           W == Without(T, {m[k][1]})
<1>1. PICK n \in Nat : n = Len(m)
  BY DEF Lists
<1>2. m \in Seq(Entry) /\ DOMAIN m = 1 .. n /\ k \in 1 .. n
  BY <1>1 DEF Lists
<1> DEFINE a == SubSeq(m, 1, k - 1)
           b == SubSeq(m, k + 1, n)
<1>3. a \in Seq(Entry) /\ Len(a) = k - 1 /\ \A i \in 1 .. k - 1 : a[i] = m[i]
  <2>1. \A i \in 1 .. k - 1 : m[i] \in Entry
    BY <1>2
  <2> QED
    BY <1>2, <2>1, SubSeqProperties
<1>4. b \in Seq(Entry) /\ Len(b) = n - k /\ \A i \in 1 .. n - k : b[i] = m[k + i]
  <2>1. \A i \in k + 1 .. n : m[i] \in Entry
    BY <1>2
  <2>2. /\ b \in Seq(Entry)
        /\ Len(b) = IF k + 1 <= n THEN n - (k + 1) + 1 ELSE 0
        /\ \A i \in 1 .. n - (k + 1) + 1 : b[i] = m[(k + 1) + i - 1]
    BY <1>2, <2>1, SubSeqProperties
  <2> QED
    BY <1>2, <2>2
<1>5. r = a \o b
  BY <1>1 DEF RemoveAt
<1> HIDE DEF a, b, r
<1>6. /\ r \in Seq(Entry) /\ Len(r) = n - 1
      /\ \A i \in 1 .. n - 1 : r[i] = IF i < k THEN m[i] ELSE m[i + 1]
  <2>1. /\ r \in Seq(Entry) /\ Len(r) = Len(a) + Len(b)
        /\ \A i \in 1 .. Len(a) + Len(b) : r[i] = IF i <= Len(a) THEN a[i] ELSE b[i - Len(a)]
    BY <1>3, <1>4, <1>5, ConcatProperties
  <2>2. Len(a) + Len(b) = n - 1 /\ Len(a) = k - 1
    BY <1>2, <1>3, <1>4
  <2>3. ASSUME NEW i \in 1 .. n - 1 PROVE r[i] = IF i < k THEN m[i] ELSE m[i + 1]
    <3>1. CASE i < k
      BY <1>2, <1>3, <2>1, <2>2, <3>1
    <3>2. CASE ~(i < k)
      <4>1. i - (k - 1) \in 1 .. n - k /\ k + (i - (k - 1)) = i + 1
        BY <1>2, <3>2
      <4> QED
        BY <1>4, <2>1, <2>2, <3>2, <4>1
    <3> QED
      BY <3>1, <3>2
  <2> QED
    BY <2>1, <2>2, <2>3
<1>7. DOMAIN r = 1 .. n - 1
  BY <1>1, <1>6
<1>8. \A i \in 1 .. n - 1 : \E j \in 1 .. n : /\ j # k /\ r[i] = m[j]
                                              /\ j = IF i < k THEN i ELSE i + 1
  BY <1>2, <1>6
<1>9. DOMAIN W = DOMAIN T \ {m[k][1]} /\ \A i \in DOMAIN W : W[i] = T[i]
  BY DEF Without, Only
<1> HIDE DEF W
<1>10. \A i \in DOMAIN r : r[i][1] \in DOMAIN W /\ r[i][2] = W[r[i][1]]
  <2> SUFFICES ASSUME NEW i \in DOMAIN r PROVE r[i][1] \in DOMAIN W /\ r[i][2] = W[r[i][1]]
    OBVIOUS
  <2>1. PICK j \in 1 .. n : j # k /\ r[i] = m[j]
    BY <1>7, <1>8
  <2> QED
    BY <1>2, <1>9, <2>1 DEF Lists
<1>11. \A i, j \in DOMAIN r : r[i][1] = r[j][1] => i = j
  <2> SUFFICES ASSUME NEW i \in DOMAIN r, NEW j \in DOMAIN r, r[i][1] = r[j][1] PROVE i = j
    OBVIOUS
  <2>1. PICK x \in 1 .. n : x # k /\ r[i] = m[x] /\ x = IF i < k THEN i ELSE i + 1
    BY <1>7, <1>8
  <2>2. PICK y \in 1 .. n : y # k /\ r[j] = m[y] /\ y = IF j < k THEN j ELSE j + 1
    BY <1>7, <1>8
  <2>3. x = y
    BY <1>2, <2>1, <2>2 DEF Lists
  <2> QED
    BY <1>2, <1>7, <2>1, <2>2, <2>3
<1>12. \A i \in DOMAIN W : \E j \in DOMAIN r : r[j][1] = i
  <2> SUFFICES ASSUME NEW i \in DOMAIN W PROVE \E j \in DOMAIN r : r[j][1] = i
    OBVIOUS
  <2>1. PICK x \in 1 .. n : m[x][1] = i
    BY <1>2, <1>9 DEF Lists
  <2>2. x # k
    BY <1>9, <2>1
  <2>3. CASE x < k
    BY <1>2, <1>6, <1>7, <2>1, <2>3
  <2>4. CASE x > k
    <3>1. x - 1 \in 1 .. n - 1 /\ ~(x - 1 < k) /\ (x - 1) + 1 = x
      BY <1>2, <2>4
    <3> QED
      BY <1>6, <1>7, <2>1, <3>1
  <2> QED
    BY <1>2, <2>2, <2>3, <2>4
<1> QED
  BY <1>6, <1>10, <1>11, <1>12 DEF Lists, r, W

\* Setting a new key of the Map adds its entry.
LEMMA AppendListed ==
  ASSUME NEW m, NEW T, Lists(m, T), NEW i \in Int, i \notin DOMAIN T, NEW q \in Registration, NEW R,
         DOMAIN R = DOMAIN T \cup {i}, R[i] = q, \A j \in DOMAIN T : R[j] = T[j]
  PROVE  Lists(Append(m, <<i, q>>), R)
<1> DEFINE r == Append(m, <<i, q>>)
<1>1. PICK n \in Nat : n = Len(m)
  BY DEF Lists
<1>2. m \in Seq(Entry) /\ DOMAIN m = 1 .. n
  BY <1>1 DEF Lists
<1>3. <<i, q>> \in Entry
  BY DEF Entry
<1>4. r \in Seq(Entry) /\ Len(r) = n + 1 /\ r[n + 1] = <<i, q>> /\ \A k \in 1 .. n : r[k] = m[k]
  BY <1>1, <1>2, <1>3, AppendProperties
<1> HIDE DEF r
<1>5. DOMAIN r = 1 .. n + 1 /\ \A k \in DOMAIN r : k = n + 1 \/ k \in 1 .. n
  BY <1>4
<1>6. r[n + 1][1] = i /\ r[n + 1][2] = q
  BY <1>4
<1>7. \A k \in 1 .. n : m[k][1] \in DOMAIN T /\ m[k][1] # i /\ m[k][2] = T[m[k][1]]
  BY <1>2 DEF Lists
<1>8. \A k \in DOMAIN r : r[k][1] \in DOMAIN R /\ r[k][2] = R[r[k][1]]
  BY <1>4, <1>5, <1>6, <1>7
<1>9. \A j, k \in DOMAIN r : r[j][1] = r[k][1] => j = k
  <2>1. \A j, k \in 1 .. n : m[j][1] = m[k][1] => j = k
    BY <1>2 DEF Lists
  <2> QED
    BY <1>4, <1>5, <1>6, <1>7, <2>1
<1>10. \A j \in DOMAIN R : \E k \in DOMAIN r : r[k][1] = j
  <2> SUFFICES ASSUME NEW j \in DOMAIN R PROVE \E k \in DOMAIN r : r[k][1] = j
    OBVIOUS
  <2>1. CASE j = i
    BY <1>5, <1>6, <2>1
  <2>2. CASE j \in DOMAIN T
    <3>1. PICK k \in 1 .. n : m[k][1] = j
      BY <1>2, <2>2 DEF Lists
    <3>2. k \in DOMAIN r
      BY <1>5, <3>1
    <3> QED
      BY <1>4, <3>1, <3>2
  <2> QED
    BY <2>1, <2>2
<1> QED
  BY <1>4, <1>8, <1>9, <1>10 DEF Lists, r

-----------------------------------------------------------------------------
\* One turn of the loop is the closed form for one registration.
LEMMA RegisterOneIs ==
  ASSUME NEW T, NEW n \in Nat \ {0}, GoodMap(T, n), NEW m, Lists(m, T),
         NEW q \in Registration, WellNamed(q),
         NEW st, st = RegisterOne([map |-> m, next |-> n], q)
  PROVE  Lists(st.map, RegisterAll(T, n, <<q>>)) /\ st.next = n + 1
<1> DEFINE qs == <<q>>
           R  == RegisterAll(T, n, qs)
           held == IF q.source = "event" THEN Existing(m, q.name) ELSE {}
           rest == IF held = {} THEN m ELSE RemoveAt(m, CHOOSE k \in held : TRUE)
           U == Untaken(T, qs)
<1>1. st.map = Append(rest, <<n, q>>) /\ st.next = n + 1
  BY DEF RegisterOne
<1>2. Len(qs) = 1 /\ qs[1] = q
  OBVIOUS
<1> HIDE DEF qs
<1>3. U = {i \in DOMAIN T : ~SameEvent(T[i], q)} /\ Surviving(qs) = {1}
  BY <1>2 DEF Untaken, Surviving
<1>4. /\ DOMAIN R = U \cup {n} /\ R[n] = q
      /\ \A i \in U : R[i] = T[i]
  <2>1. /\ DOMAIN R = U \cup {n + k - 1 : k \in {1}}
        /\ \A i \in DOMAIN R : R[i] = IF i \in {n + k - 1 : k \in {1}} THEN qs[i - n + 1] ELSE T[i]
    BY <1>3 DEF RegisterAll
  <2>2. {n + k - 1 : k \in {1}} = {n}
    OBVIOUS
  <2>3. \A i \in U : i # n
    BY <1>3 DEF GoodMap
  <2>4. n - n + 1 = 1
    OBVIOUS
  <2> QED
    BY <1>2, <2>1, <2>2, <2>3, <2>4
<1>5. \A i \in DOMAIN T : T[i].source = "event" => Lower[T[i].name] = T[i].name
  BY DEF GoodMap, WellNamed
<1>6. \A k \in DOMAIN m : m[k][1] \in DOMAIN T /\ m[k][2] = T[m[k][1]]
  BY DEF Lists
<1>7. Lists(rest, Only(T, U))
  <2>1. CASE held = {}
    <3>1. ASSUME NEW i \in DOMAIN T, SameEvent(T[i], q) PROVE FALSE
      <4> DEFINE H == {k \in DOMAIN m : m[k][2].source = "event" /\ Lower[m[k][2].name] = q.name}
      <4>1. H # {}
        <5>1. PICK k \in DOMAIN m : m[k][1] = i
          BY DEF Lists
        <5> QED
          BY <1>5, <1>6, <3>1, <5>1 DEF SameEvent
      <4>2. PICK k \in H : \A j \in H : ~(j < k)
        <5>1. H \in SUBSET Nat
          BY DEF Lists
        <5> HIDE DEF H
        <5>2. PICK k \in H : \A j \in H : ~(<<j, k>> \in OpToRel(<, Nat))
          BY <4>1, <5>1, NatLessThanWellFounded, WFMin
        <5> QED
          BY <5>1, <5>2 DEF OpToRel
      <4>3. \A j \in 1 .. k - 1 : j \in DOMAIN m /\ j < k
        BY DEF Lists
      <4>4. k \in Existing(m, q.name)
        BY <4>2, <4>3 DEF Existing
      <4> QED
        BY <2>1, <3>1, <4>4 DEF SameEvent
    <3>2. U = DOMAIN T
      BY <1>3, <3>1
    <3>3. T = Only(T, DOMAIN T)
      BY OnlyAll
    <3> QED
      BY <2>1, <3>2, <3>3
  <2>2. CASE held # {}
    <3>1. PICK k : k = (CHOOSE x \in held : TRUE)
      OBVIOUS
    <3>2. k \in held
      BY <2>2, <3>1
    <3>3. q.source = "event" /\ k \in Existing(m, q.name)
      BY <3>2
    <3>4. /\ k \in DOMAIN m
          /\ T[m[k][1]].source = "event" /\ T[m[k][1]].name = q.name
      BY <1>5, <1>6, <3>3 DEF Existing
    <3>5. U = DOMAIN T \ {m[k][1]}
      <4>1. \A i \in DOMAIN T : SameEvent(T[i], q) => i = m[k][1]
        BY <1>6, <3>4 DEF SameEvent, GoodMap, OneHolder
      <4>2. SameEvent(T[m[k][1]], q)
        BY <3>3, <3>4 DEF SameEvent
      <4> QED
        BY <1>3, <4>1, <4>2
    <3>6. rest = RemoveAt(m, k)
      BY <2>2, <3>1
    <3>7. Lists(RemoveAt(m, k), Without(T, {m[k][1]}))
      BY <3>4, RemoveListed
    <3> QED
      BY <3>5, <3>6, <3>7 DEF Without
  <2> QED
    BY <2>1, <2>2
<1>8. DOMAIN Only(T, U) = U /\ \A i \in U : Only(T, U)[i] = T[i]
  BY DEF Only
<1>9. n \in Int /\ n \notin U
  BY <1>3 DEF GoodMap
<1> HIDE DEF rest, R, U
<1>10. Lists(Append(rest, <<n, q>>), R)
  BY <1>4, <1>7, <1>8, <1>9, AppendListed
<1> QED
  BY <1>1, <1>10 DEF R, qs

First(qs, k) == [j \in 1 .. k |-> qs[j]]

LEMMA FirstGood ==
  ASSUME NEW qs, GoodRegistrations(qs), NEW k \in 0 .. Len(qs)
  PROVE  GoodRegistrations(First(qs, k)) /\ Len(First(qs, k)) = k
BY DEF GoodRegistrations, First

\* What a closed form leaves, position by position.
LEMMA RegisterAllIs ==
  ASSUME NEW T, NEW n \in Nat \ {0}, GoodMap(T, n), NEW qs, GoodRegistrations(qs)
  PROVE  LET R == RegisterAll(T, n, qs) IN
         /\ \A i : i \in DOMAIN R <=> \/ i \in Untaken(T, qs)
                                     \/ \E j \in Surviving(qs) : i = n + j - 1
         /\ \A i \in Untaken(T, qs) : R[i] = T[i]
         /\ \A j \in Surviving(qs) : R[n + j - 1] = qs[j]
<1> DEFINE R == RegisterAll(T, n, qs)
           new == {n + k - 1 : k \in Surviving(qs)}
<1>1. DOMAIN R = Untaken(T, qs) \cup new
  BY DEF RegisterAll
<1>2. \A i : i \in new <=> \E j \in Surviving(qs) : i = n + j - 1
  OBVIOUS
<1>3. PICK S : S = R
  OBVIOUS
<1>4. /\ \A j \in Surviving(qs) : S[n + j - 1] = qs[j]
      /\ \A i \in Untaken(T, qs) : S[i] = T[i]
  BY <1>3, RegisterAllAt
<1> HIDE DEF R, new
<1> QED
  BY <1>1, <1>2, <1>3, <1>4 DEF R

\* The closed form for one registration more is the closed form for one,
\* after the closed form for those before it.
LEMMA RegisterMore ==
  ASSUME NEW T, NEW n \in Nat \ {0}, GoodMap(T, n), NEW qs, GoodRegistrations(qs),
         NEW k \in Nat, k < Len(qs)
  PROVE  RegisterAll(T, n, First(qs, k + 1)) = RegisterAll(RegisterAll(T, n, First(qs, k)), n + k, <<qs[k + 1]>>)
<1> DEFINE q == qs[k + 1]
           A == First(qs, k)
           B == First(qs, k + 1)
           C == <<qs[k + 1]>>
           R == RegisterAll(T, n, A)
           S == RegisterAll(T, n, B)
           Q == RegisterAll(R, n + k, C)
<1>1. Len(qs) \in Nat /\ k \in 0 .. Len(qs) /\ k + 1 \in 0 .. Len(qs) /\ k + 1 \in 1 .. Len(qs)
  BY DEF GoodRegistrations
<1>2. GoodRegistrations(A) /\ Len(A) = k /\ GoodRegistrations(B) /\ Len(B) = k + 1
  BY <1>1, FirstGood
<1>3. Len(C) = 1 /\ C[1] = q /\ GoodRegistrations(C)
  <2>1. q \in Registration /\ WellNamed(q)
    BY <1>1 DEF GoodRegistrations
  <2> QED
    BY <2>1 DEF GoodRegistrations
<1>4. GoodMap(R, n + k)
  BY <1>2, RegisterAllGood
<1>5. /\ \A j \in 1 .. k : A[j] = qs[j] /\ B[j] = qs[j]
      /\ B[k + 1] = q
  BY DEF First
<1>6. n + k \in Nat \ {0} /\ Surviving(C) = {1}
  BY <1>3 DEF Surviving
<1> HIDE DEF A, B, C, q
<1>7. \A i : i \in Untaken(T, B) <=> i \in Untaken(T, A) /\ ~SameEvent(T[i], q)
  <2>1. \A j \in 1 .. k + 1 : j = k + 1 \/ j \in 1 .. k
    BY <1>1
  <2>2. k + 1 \in 1 .. k + 1 /\ \A j \in 1 .. k : j \in 1 .. k + 1
    BY <1>1
  <2> QED
    BY <1>2, <1>5, <2>1, <2>2 DEF Untaken
<1>8. \A j : j \in Surviving(B) <=> j = k + 1 \/ (j \in Surviving(A) /\ ~SameEvent(qs[j], q))
  <2>1. \A j \in 1 .. k + 1 : j = k + 1 \/ j \in 1 .. k
    BY <1>1
  <2>2. k + 1 \in 1 .. k + 1 /\ \A j \in 1 .. k : j \in 1 .. k + 1 /\ k + 1 > j /\ ~(j > k + 1)
    BY <1>1
  <2>3. \A j \in Surviving(A) : j \in 1 .. k
    BY <1>2 DEF Surviving
  <2>4. k + 1 \in Surviving(B)
    BY <1>1, <1>2 DEF Surviving
  <2>5. ASSUME NEW j \in 1 .. k
        PROVE  j \in Surviving(B) <=> j \in Surviving(A) /\ ~SameEvent(qs[j], q)
    <3>1. j \in Surviving(A) <=> \A x \in 1 .. k : x > j => ~SameEvent(qs[x], qs[j])
      BY <1>2, <1>5 DEF Surviving
    <3>2. j \in Surviving(B) <=> \A x \in 1 .. k + 1 : x > j => ~SameEvent(B[x], qs[j])
      BY <1>2, <1>5, <2>2 DEF Surviving
    <3>3. SameEvent(q, qs[j]) <=> SameEvent(qs[j], q)
      BY DEF SameEvent
    <3> QED
      BY <1>5, <2>1, <2>2, <3>1, <3>2, <3>3
  <2>6. \A j \in Surviving(B) : j \in 1 .. k + 1
    BY <1>2 DEF Surviving
  <2> QED
    BY <2>1, <2>3, <2>4, <2>5, <2>6
<1>9. /\ \A i : i \in DOMAIN R <=> i \in Untaken(T, A) \/ \E j \in Surviving(A) : i = n + j - 1
      /\ \A i \in Untaken(T, A) : R[i] = T[i]
      /\ \A j \in Surviving(A) : R[n + j - 1] = qs[j]
  <2>1. \A j \in Surviving(A) : A[j] = qs[j]
    BY <1>2, <1>5 DEF Surviving
  <2> QED
    BY <1>2, <2>1, RegisterAllIs
<1>10. /\ \A i : i \in DOMAIN S <=> i \in Untaken(T, B) \/ \E j \in Surviving(B) : i = n + j - 1
       /\ \A i \in Untaken(T, B) : S[i] = T[i]
       /\ \A j \in Surviving(B) : S[n + j - 1] = B[j]
  BY <1>2, RegisterAllIs
<1>11. /\ \A i : i \in DOMAIN Q <=> i \in Untaken(R, C) \/ i = n + k
       /\ \A i \in Untaken(R, C) : Q[i] = R[i]
       /\ Q[n + k] = q
  <2>1. /\ \A i : i \in DOMAIN Q <=> i \in Untaken(R, C) \/ \E j \in Surviving(C) : i = (n + k) + j - 1
        /\ \A i \in Untaken(R, C) : Q[i] = R[i]
        /\ \A j \in Surviving(C) : Q[(n + k) + j - 1] = C[j]
    <3> HIDE DEF R
    <3> QED
      BY <1>3, <1>4, <1>6, RegisterAllIs
  <2>2. (n + k) + 1 - 1 = n + k
    OBVIOUS
  <2> QED
    BY <1>3, <1>6, <2>1, <2>2
<1>12. \A i : i \in Untaken(R, C) <=> i \in DOMAIN R /\ ~SameEvent(R[i], q)
  BY <1>3 DEF Untaken
<1>13. S = [i \in DOMAIN S |-> S[i]] /\ Q = [i \in DOMAIN Q |-> Q[i]]
  BY DEF RegisterAll
<1> HIDE DEF R, S, Q
<1>14. \A i : i \in DOMAIN S <=> i \in DOMAIN Q
  <2> SUFFICES ASSUME NEW i PROVE i \in DOMAIN S <=> i \in DOMAIN Q
    OBVIOUS
  <2>1. ASSUME i \in Untaken(T, B) PROVE i \in DOMAIN Q
    BY <1>7, <1>9, <1>11, <1>12, <2>1
  <2>2. ASSUME NEW j \in Surviving(B), i = n + j - 1 PROVE i \in DOMAIN Q
    <3>1. CASE j = k + 1
      BY <1>1, <1>11, <2>2, <3>1
    <3>2. CASE j # k + 1
      BY <1>8, <1>9, <1>11, <1>12, <2>2, <3>2
    <3> QED
      BY <3>1, <3>2
  <2>3. ASSUME i \in Untaken(R, C) PROVE i \in DOMAIN S
    <3>1. CASE i \in Untaken(T, A)
      BY <1>7, <1>9, <1>10, <1>12, <2>3, <3>1
    <3>2. CASE \E j \in Surviving(A) : i = n + j - 1
      BY <1>8, <1>9, <1>10, <1>12, <2>3, <3>2
    <3> QED
      BY <1>9, <1>12, <2>3, <3>1, <3>2
  <2>4. ASSUME i = n + k PROVE i \in DOMAIN S
    <3>1. k + 1 \in Surviving(B) /\ i = n + (k + 1) - 1
      BY <1>8, <2>4
    <3> QED
      BY <1>10, <3>1
  <2> QED
    BY <1>10, <1>11, <2>1, <2>2, <2>3, <2>4
<1>15. ASSUME NEW i \in DOMAIN S PROVE S[i] = Q[i]
  <2>1. CASE i \in Untaken(T, B)
    BY <1>7, <1>9, <1>10, <1>11, <1>12, <2>1
  <2>2. CASE \E j \in Surviving(B) : i = n + j - 1
    <3>1. PICK j \in Surviving(B) : i = n + j - 1
      BY <2>2
    <3>2. CASE j = k + 1
      <4>1. n + j - 1 = n + k
        BY <1>1, <3>2
      <4> QED
        BY <1>5, <1>10, <1>11, <3>1, <3>2, <4>1
    <3>3. CASE j # k + 1
      <4>1. j \in Surviving(A) /\ ~SameEvent(qs[j], q)
        BY <1>8, <3>1, <3>3
      <4>2. R[i] = qs[j] /\ i \in Untaken(R, C)
        BY <1>9, <1>12, <3>1, <4>1
      <4>3. j \in 1 .. k
        BY <1>2, <4>1 DEF Surviving
      <4> QED
        BY <1>5, <1>10, <1>11, <3>1, <4>2, <4>3
    <3> QED
      BY <3>2, <3>3
  <2> QED
    BY <1>10, <2>1, <2>2
<1>16. S = Q
  BY <1>13, <1>14, <1>15
<1> QED
  BY <1>16 DEF S, Q, R, A, B, C, q

-----------------------------------------------------------------------------
(* The loop *)

\* f gives the state of the loop after each of its first k turns.
Turns(f, k, T, n, qs) ==
  f = [j \in 0 .. k |-> IF j = 0 THEN [map |-> MapOf(T), next |-> n] ELSE RegisterOne(f[j - 1], qs[j])]

LEMMA TurnsExist ==
  ASSUME NEW T, NEW n, NEW qs, NEW k \in Nat
  PROVE  \E f : Turns(f, k, T, n, qs)
<1> DEFINE Bad == {j \in Nat : ~\E f : Turns(f, j, T, n, qs)}
<1>1. SUFFICES ASSUME Bad # {} PROVE FALSE
  OBVIOUS
<1>2. PICK j \in Bad : \A i \in Bad : ~(i < j)
  <2> HIDE DEF Bad
  <2>1. PICK j \in Bad : \A i \in Bad : ~(<<i, j>> \in OpToRel(<, Nat))
    <3>1. Bad \in SUBSET Nat
      BY DEF Bad
    <3> QED
      BY <1>1, <3>1, NatLessThanWellFounded, WFMin
  <2> QED
    BY <2>1 DEF OpToRel, Bad
<1>3. j \in Nat /\ ~\E f : Turns(f, j, T, n, qs)
  OBVIOUS
<1>4. CASE j = 0
  <2> DEFINE st == [map |-> MapOf(T), next |-> n]
             f == [i \in 0 .. 0 |-> st]
  <2>1. f = [i \in 0 .. 0 |-> IF i = 0 THEN st ELSE RegisterOne(f[i - 1], qs[i])]
    <3> HIDE DEF st
    <3>1. \A i \in 0 .. 0 : i = 0
      OBVIOUS
    <3> QED
      BY <3>1
  <2> QED
    BY <1>3, <1>4, <2>1 DEF Turns
<1>5. CASE j # 0
  <2>1. j - 1 \in Nat /\ j - 1 \notin Bad
    BY <1>2, <1>3, <1>5
  <2>2. PICK f : Turns(f, j - 1, T, n, qs)
    BY <2>1
  <2> DEFINE st == [map |-> MapOf(T), next |-> n]
             g == [i \in 0 .. j |-> IF i = j THEN RegisterOne(f[j - 1], qs[j]) ELSE f[i]]
  <2>3. \A i \in 0 .. j - 1 : f[i] = IF i = 0 THEN st ELSE RegisterOne(f[i - 1], qs[i])
    BY <2>2 DEF Turns
  <2> HIDE DEF st
  <2>4. ASSUME NEW i \in 0 .. j
        PROVE  g[i] = IF i = 0 THEN st ELSE RegisterOne(g[i - 1], qs[i])
    <3>1. CASE i = j
      <4>1. g[i - 1] = f[j - 1]
        BY <1>3, <1>5, <3>1
      <4> QED
        BY <1>5, <3>1, <4>1
    <3>2. CASE i # j
      <4>1. i \in 0 .. j - 1 /\ (i # 0 => i - 1 \in 0 .. j - 1 /\ i - 1 # j)
        BY <1>3, <3>2
      <4>2. i # 0 => g[i - 1] = f[i - 1]
        BY <1>3, <4>1
      <4> QED
        BY <2>3, <3>2, <4>1, <4>2
    <3> QED
      BY <3>1, <3>2
  <2>5. g = [i \in 0 .. j |-> IF i = 0 THEN st ELSE RegisterOne(g[i - 1], qs[i])]
    <3>1. g = [i \in 0 .. j |-> g[i]]
      OBVIOUS
    <3> HIDE DEF g
    <3> QED
      BY <2>4, <3>1
  <2> QED
    BY <1>3, <2>5 DEF Turns, st
<1> QED
  BY <1>4, <1>5

\* Turn by turn the Map lists what the closed form gives for the registrations
\* made so far.
LEMMA TurnIs ==
  ASSUME NEW T, NEW n \in Nat \ {0}, GoodMap(T, n), NEW qs, GoodRegistrations(qs),
         NEW f, Turns(f, Len(qs), T, n, qs), NEW k \in 0 .. Len(qs)
  PROVE  Lists(f[k].map, RegisterAll(T, n, First(qs, k))) /\ f[k].next = n + k
<1> DEFINE Right(j) == Lists(f[j].map, RegisterAll(T, n, First(qs, j))) /\ f[j].next = n + j
           Bad == {j \in 0 .. Len(qs) : ~Right(j)}
<1>1. SUFFICES ASSUME Bad # {} PROVE FALSE
  OBVIOUS
<1>2. Len(qs) \in Nat
  BY DEF GoodRegistrations
<1>3. PICK j \in Bad : \A i \in Bad : ~(i < j)
  <2>1. Bad \in SUBSET Nat
    OBVIOUS
  <2> HIDE DEF Bad
  <2>2. PICK j \in Bad : \A i \in Bad : ~(<<i, j>> \in OpToRel(<, Nat))
    BY <1>1, <2>1, NatLessThanWellFounded, WFMin
  <2> QED
    BY <2>1, <2>2 DEF OpToRel
<1>4. j \in 0 .. Len(qs) /\ ~Right(j)
  OBVIOUS
<1>5. f[j] = IF j = 0 THEN [map |-> MapOf(T), next |-> n] ELSE RegisterOne(f[j - 1], qs[j])
  BY <1>4 DEF Turns
<1>6. CASE j = 0
  <2>1. f[j].map = MapOf(T) /\ f[j].next = n
    BY <1>5, <1>6
  <2> DEFINE A == First(qs, 0)
  <2>2. Len(A) = 0 /\ GoodRegistrations(A)
    BY <1>2, FirstGood
  <2> HIDE DEF A
  <2>3. Untaken(T, A) = DOMAIN T /\ Surviving(A) = {}
    BY <2>2 DEF Untaken, Surviving
  <2>4. RegisterAll(T, n, A) = T
    <3>1. RegisterAll(T, n, A) = [i \in DOMAIN T |-> T[i]]
      BY <2>3 DEF RegisterAll
    <3> QED
      BY <3>1 DEF GoodMap
  <2>5. Lists(MapOf(T), T)
    BY MapListed
  <2> QED
    BY <1>4, <1>6, <2>1, <2>4, <2>5 DEF A
<1>7. CASE j # 0
  <2> DEFINE i == j - 1
  <2>1. i \in Nat /\ i \in 0 .. Len(qs) /\ i < Len(qs) /\ i + 1 = j /\ i < j /\ j \in 1 .. Len(qs)
    BY <1>2, <1>4, <1>7
  <2> HIDE DEF i
  <2>2. Right(i)
    BY <1>3, <2>1
  <2> DEFINE R == RegisterAll(T, n, First(qs, i))
             m == f[i].map
             q == qs[j]
  <2>3. GoodMap(R, n + i)
    <3>1. GoodRegistrations(First(qs, i)) /\ Len(First(qs, i)) = i
      BY <2>1, FirstGood
    <3> QED
      BY <3>1, RegisterAllGood
  <2>4. n + i \in Nat \ {0} /\ q \in Registration /\ WellNamed(q)
    BY <2>1 DEF GoodRegistrations
  <2>5. f[j] = RegisterOne([map |-> m, next |-> n + i], q)
    <3>1. f[j] = RegisterOne(f[i], q)
      BY <1>5, <1>7 DEF i
    <3>2. RegisterOne(f[i], q) = RegisterOne([map |-> m, next |-> n + i], q)
      BY <2>2 DEF RegisterOne
    <3> QED
      BY <3>1, <3>2
  <2> HIDE DEF R, m, q
  <2>6. Lists(f[j].map, RegisterAll(R, n + i, <<q>>)) /\ f[j].next = n + i + 1
    BY <2>2, <2>3, <2>4, <2>5, RegisterOneIs DEF R, m
  <2>7. RegisterAll(T, n, First(qs, i + 1)) = RegisterAll(R, n + i, <<qs[i + 1]>>)
    BY <2>1, RegisterMore DEF R
  <2> QED
    BY <1>4, <2>1, <2>6, <2>7 DEF q
<1> QED
  BY <1>6, <1>7

LEMMA LoopIsClosedForm ==
  ASSUME NEW T, NEW n \in Nat \ {0}, GoodMap(T, n), NEW qs, GoodRegistrations(qs),
         NEW to, to = Registered(T, n, qs)
  PROVE  EntriesOf(to.map) = RegisterAll(T, n, qs) /\ to.next = n + Len(qs)
<1> DEFINE k == Len(qs)
           turn == CHOOSE f : Turns(f, k, T, n, qs)
<1>1. k \in Nat /\ k \in 0 .. k
  BY DEF GoodRegistrations
<1>2. Turns(turn, k, T, n, qs)
  BY <1>1, TurnsExist
<1>3. to = turn[k]
  BY DEF Registered, Turns
<1>4. First(qs, k) = qs
  BY DEF First, GoodRegistrations
<1> HIDE DEF turn
<1>5. Lists(to.map, RegisterAll(T, n, qs)) /\ to.next = n + k
  BY <1>1, <1>2, <1>3, <1>4, TurnIs
<1> DEFINE R == RegisterAll(T, n, qs)
<1>6. R = [i \in DOMAIN R |-> R[i]]
  BY DEF RegisterAll
<1> HIDE DEF R
<1>7. EntriesOf(to.map) = R
  BY <1>5, <1>6, EntriesListed DEF R
<1> QED
  BY <1>5, <1>7 DEF R

\* In every registry the scheduler can have, registering the triggers a body
\* declares one after the other, each time dropping the first holder of the
\* event name, gives what the closed form of the actions gives, bodies that
\* declare a name twice included (scheduler.ts:603).
THEOREM LoopIsRegisterAll == Spec => []LoopAgrees
<1>1. Inv => LoopAgrees
  <2> SUFFICES ASSUME Inv, NEW s \in Skill, NEW b \in Body
               PROVE  LET qs == DeclaredBy(s, b)
                          to == Registered(triggers, nextId, qs)
                      IN  /\ EntriesOf(to.map) = RegisterAll(triggers, nextId, qs)
                          /\ to.next = nextId + Len(qs)
    BY DEF LoopAgrees
  <2>1. GoodMap(triggers, nextId) /\ nextId \in Nat \ {0}
    BY MaxIdAssumption DEF Inv, TypeOK, RegistryType
  <2>2. GoodRegistrations(DeclaredBy(s, b))
    BY DeclaredByGood
  <2> QED
    BY <2>1, <2>2, LoopIsClosedForm
<1> QED
  BY <1>1, Invariance, PTL
=============================================================================
