------------------------------- MODULE Registry -------------------------------
(***************************************************************************)
(* The trigger registry of the scheduler as a value: Scheduler.triggers, a *)
(* Map from trigger id to registration, and the operations on it that run  *)
(* in one turn of the event loop.  An id is the number N of "trig-N".      *)
(*                                                                         *)
(* The loops of the source that register several triggers in a row are in  *)
(* closed form here; module RegistryLoop holds the loops themselves and    *)
(* its run compares the two.                                               *)
(***************************************************************************)
EXTENDS Integers, Sequences

CONSTANTS
  Skill,       \* skill names
  Body,        \* skill bodies, Status line left out
  Cron,        \* cron expressions
  Event,       \* spellings of event names
  Lower,       \* [Event -> Event], String.toLowerCase
  Var,         \* names a "# Vars:" header declares
  Decl,        \* [Body -> Seq of declarations], the "# Triggers:" header
  Vars,        \* [Body -> SUBSET Var], the "# Vars:" header
  MaxId        \* bound: ids the scheduler hands out in one life

ASSUME NamesAssumption == Cron \cap Event = {}

ASSUME LowerAssumption ==
  /\ Lower \in [Event -> Event]
  /\ \A e \in Event : Lower[Lower[e]] = Lower[e]

Source == {"cron", "event"}

Declaration == [source : {"cron"}, name : Cron] \cup [source : {"event"}, name : Event]

ASSUME BodyAssumption ==
  /\ Decl \in [Body -> Seq(Declaration)]
  /\ Vars \in [Body -> SUBSET Var]

ASSUME MaxIdAssumption == MaxId \in Nat

-----------------------------------------------------------------------------
Never == -1                      \* no expiresAt

Id == 1 .. MaxId

\* A registration without its id.  params is {} where the code leaves it
\* undefined: fireEvent reads it as `trig.params ?? []`.
Registration ==
  [skill : Skill, source : Source, name : Cron \cup Event, params : SUBSET Var,
   expires : Nat \cup {Never}, declarative : BOOLEAN, enabled : BOOLEAN]

\* registerTrigger lower-cases event names and leaves cron expressions alone.
Normalized(source, name) == IF source = "event" THEN Lower[name] ELSE name

SameEvent(p, q) == p.source = "event" /\ q.source = "event" /\ p.name = q.name

\* What registerTrigger builds for the k-th trigger a skill's body declares;
\* event triggers take their parameters from the body's "# Vars:".
DeclaredBy(s, b) ==
  [k \in 1 .. Len(Decl[b]) |->
    [skill       |-> s,
     source      |-> Decl[b][k].source,
     name        |-> Normalized(Decl[b][k].source, Decl[b][k].name),
     params      |-> IF Decl[b][k].source = "event" THEN Vars[b] ELSE {},
     expires     |-> Never,
     declarative |-> TRUE,
     enabled     |-> TRUE]]

-----------------------------------------------------------------------------
Only(T, ids) == [i \in ids |-> T[i]]

\* Variant: only another skill's registration gives way.
UntakenByOthers(T, qs) ==
  {i \in DOMAIN T : \A k \in 1 .. Len(qs) :
     ~(SameEvent(T[i], qs[k]) /\ T[i].skill # qs[k].skill)}

\* The ids left in T once the registrations qs have taken their event names.
Untaken(T, qs) ==
  {i \in DOMAIN T : \A k \in 1 .. Len(qs) : ~SameEvent(T[i], qs[k])}

\* Variant: the first declaration of a name wins over later ones.
SurvivingFirst(qs) ==
  {k \in 1 .. Len(qs) : \A j \in 1 .. k - 1 : ~SameEvent(qs[j], qs[k])}

\* The positions of qs that no later one of the same event name replaces.
Surviving(qs) ==
  {k \in 1 .. Len(qs) : \A j \in 1 .. Len(qs) : j > k => ~SameEvent(qs[j], qs[k])}

\* registerTrigger for every element of qs in turn, when the next id is n.
RegisterAll(T, n, qs) ==
  LET new == {n + k - 1 : k \in Surviving(qs)}
  IN  [i \in Untaken(T, qs) \cup new |-> IF i \in new THEN qs[i - n + 1] ELSE T[i]]

\* The ids of the declarative triggers of s, of its imperative ones (a variant
\* of the next), and of all its triggers.
DeclarativeOf(T, s) == {i \in DOMAIN T : T[i].declarative /\ T[i].skill = s}
AllOf(T, s) == {i \in DOMAIN T : T[i].skill = s}

Without(T, ids) == Only(T, DOMAIN T \ ids)

\* fireEvent: the skills a POST of event e with parameters ps is handed to;
\* empty for its 404 (no enabled trigger) and its 400 (parameters differ).
FiredBy(T, e, ps) ==
  {T[i].skill : i \in {j \in DOMAIN T : /\ T[j].source = "event"
                                         /\ T[j].name = Lower[e]
                                         /\ T[j].enabled
                                         /\ T[j].params = ps}}

-----------------------------------------------------------------------------
\* The registrations that triggers.json holds, and what a row keeps of one:
\* everything but the parameters.
Imperative(T) == {i \in DOMAIN T : ~T[i].declarative}

Row == [skill : Skill, source : Source, name : Cron \cup Event,
        expires : Nat \cup {Never}, enabled : BOOLEAN]

RowOf(t) == [skill |-> t.skill, source |-> t.source, name |-> t.name,
             expires |-> t.expires, enabled |-> t.enabled]

Rows(T) == [i \in Imperative(T) |-> RowOf(T[i])]

\* The registration hydratePersistedTriggers makes of a row.
FromRow(r) == [skill |-> r.skill, source |-> r.source, name |-> r.name,
               params |-> {}, expires |-> r.expires,
               declarative |-> FALSE, enabled |-> r.enabled]

Expired(t, now) == t.expires # Never /\ t.expires <= now
=============================================================================
