----------------------------- MODULE RegistryLoop -----------------------------
(***************************************************************************)
(* The loop that registers the triggers a body declares, one               *)
(* registerTrigger after the other, on a Map in insertion order: the inner *)
(* loops of syncDeclarativeTriggersForSkill and wireDeclarativeTriggers.   *)
(* Registry!RegisterAll, which the actions of Triggers use, is what the    *)
(* loop computes.                                                          *)
(***************************************************************************)
EXTENDS Triggers, SequencesExt

\* Scheduler.triggers as a Map: entries <<id, registration>>.  New ids are the
\* highest and hydration keeps the order of the file, so ids ascend.
MapOf(T) ==
  LET place(i) == Cardinality({j \in DOMAIN T : j =< i})
      id(k)    == CHOOSE i \in DOMAIN T : place(i) = k
  IN  [k \in 1 .. Cardinality(DOMAIN T) |-> <<id(k), T[id(k)]>>]

EntriesOf(m) ==
  [i \in {m[k][1] : k \in DOMAIN m} |-> m[CHOOSE k \in DOMAIN m : m[k][1] = i][2]]

\* The first entry, in insertion order, that holds the event name.
Existing(m, name) ==
  {k \in DOMAIN m :
     /\ m[k][2].source = "event" /\ Lower[m[k][2].name] = name
     /\ \A j \in 1 .. k - 1 : ~(m[j][2].source = "event" /\ Lower[m[j][2].name] = name)}

\* One registerTrigger: delete the holder of the event name, append under the
\* next id.
RegisterOne(st, q) ==
  LET held == IF q.source = "event" THEN Existing(st.map, q.name) ELSE {}
      rest == IF held = {} THEN st.map ELSE RemoveAt(st.map, CHOOSE k \in held : TRUE)
  IN  [map |-> Append(rest, <<st.next, q>>), next |-> st.next + 1]

\* The loop, turn by turn.
Registered(T, n, qs) ==
  LET turn[k \in 0 .. Len(qs)] ==
        IF k = 0 THEN [map |-> MapOf(T), next |-> n] ELSE RegisterOne(turn[k - 1], qs[k])
  IN  turn[Len(qs)]

\* Registering the triggers of a body one by one, each time dropping the first
\* holder of the name, ends where the closed form does, in any registry the
\* scheduler can have and for bodies that declare a name twice (scheduler.ts:603).
LoopAgrees ==
  \A s \in Skill, b \in Body :
    LET qs == DeclaredBy(s, b)
        to == Registered(triggers, nextId, qs)
    IN  EntriesOf(to.map) = RegisterAll(triggers, nextId, qs) /\ to.next = nextId + Len(qs)
=============================================================================
