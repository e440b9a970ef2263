---------------------------- MODULE ExecutorProofs ----------------------------
(***************************************************************************)
(* For every set of stored bodies, every store and every way to start a    *)
(* run: composition lends neither authority nor time, nothing catches the  *)
(* deadline, what it cut is reported, and a result without errors is a     *)
(* complete one.                                                           *)
(***************************************************************************)
EXTENDS Executor, SequenceTheorems, TLAPS

\* The names of ops and what stands in their place.
Ids == { o.id : o \in Ops } \cup {"none", "delivery"}

\* An op as it may stand in the list of a frame: an op of a body, or what an
\* `if` and a foreach leave there in its place.
Pend == { o \in [kind : Kinds, id : Ids, tool : STRING, bare : BOOLEAN, fallback : BOOLEAN,
                 mutation : BOOLEAN, approved : BOOLEAN, effecting : BOOLEAN,
                 outlives : BOOLEAN, timeout : Nat, uses : SUBSET Var, out : SUBSET Var,
                 body : Seq(Ops), orelse : Seq(Ops), child : STRING] :
            (o.kind = "shell" => o.effecting) /\ (Harmless(o) => ~o.effecting) }

Skills == UNION { DOMAIN q.store : q \in Setup }

Frames == [skill : Skills, depth : Nat, runRoot : BOOLEAN, auth : BOOLEAN, left : Time,
           target : Nat \ {0}, part : {"ops", "else", "render", "deliver", "return"},
           todo : Seq(Pend), bound : SUBSET Var, errors : SUBSET Ids,
           done : SUBSET Ids, expired : BOOLEAN, uncertain : SUBSET Ids]

\* Everything has its type.
TypeOK ==
  /\ setup \in Setup
  /\ stack \in Seq(Frames)
  /\ exc \in [kind : {"none", "op", "deadline"}, id : Ids, cut : SUBSET Ids]
  /\ flight \in [phase : {"idle", "open", "cleanup", "killed", "delivery"},
                 timer : Time, reserve : Nat]
  /\ outcome \in [kind : {"running", "threw", "returned"}, errors : SUBSET Ids,
                  expired : BOOLEAN, uncertain : SUBSET Ids]
  /\ issued \subseteq [id : Ids, skill : Skills, unconfirmed : BOOLEAN]
  /\ lost \subseteq Pend
  /\ raised \in BOOLEAN

\* The code of a skill of the store q.
CodeOf(q, s) == Body[q.store[s]]

\* Ops that will be marked done when the list is worked off.
Coming(todo) == { todo[k].id : k \in { j \in 1..Len(todo) : todo[j].kind # "item" } }

\* Without errors, the ops before the current one are done and the others of the
\* target are still to come.
Complete(q, f) ==
  LET ts == CodeOf(q, f.skill).targets IN
  f.errors = {} =>
    /\ f.part # "else"
    /\ \A t \in 1..Len(ts) : \A k \in 1..Len(ts[t].ops) :
         \/ t > f.target /\ f.part = "ops"
         \/ ts[t].ops[k].id \in f.done
         \/ t = f.target /\ f.part = "ops" /\ ts[t].ops[k].id \in Coming(f.todo)

\* A frame that runs a skill of the store, with that skill's own authority.
Sound(q, f) ==
  /\ f \in Frames
  /\ f.skill \in DOMAIN q.store
  /\ f.target \in 1..Len(CodeOf(q, f.skill).targets)
  /\ f.auth /\ q.secured => q.approved[f.skill]
  /\ Complete(q, f)

\* A frame that waits for the one above it.
Calling(f) == f.part \in {"ops", "else"} /\ f.todo # <<>>

Fresh(f) == ~f.expired /\ f.uncertain = {}

Nested ==
  /\ \A i \in 1..Len(stack) : /\ Sound(setup, stack[i])
                              /\ IsRoot(stack[i]) <=> i = 1
                              /\ ~raised => Fresh(stack[i])
                              /\ i < Len(stack) => Calling(stack[i])
  /\ DeadlineTightens
  /\ stack # <<>> => stack[1].skill = setup.skill

\* An op or a delivery is awaited by a running frame, and nothing is thrown then.
Awaited ==
  /\ outcome.kind = "running" <=> stack # <<>>
  /\ outcome.kind = "running" => outcome = Running
  /\ exc.kind = "none" => exc = NoExc
  /\ flight.phase = "idle" => flight = Landed
  /\ flight.phase # "idle" => exc = NoExc /\ stack # <<>>
  /\ flight.phase \in {"open", "cleanup", "killed"} => Calling(stack[Len(stack)])
  /\ exc.kind = "op" => stack # <<>> /\ stack[Len(stack)].part \in {"ops", "else"}

\* The ops among S that the run's log names.
Reported(S) == { o.id : o \in { p \in S : UncertainWhenCut(p) } }

\* The deadline is on its way up, or the root has turned it into its result.
Unwinding ==
  /\ ~raised => lost = {} /\ exc.kind # "deadline"
  /\ raised =>
       /\ flight = Landed
       /\ stack # <<>> =>
            \/ exc.kind = "deadline" /\ exc.cut = Reported(lost)
            \/ /\ exc = NoExc /\ Len(stack) = 1
               /\ stack[1].expired /\ stack[1].uncertain = Reported(lost)
               /\ stack[1].part \in {"render", "deliver", "return"}

IInv == TypeOK /\ Nested /\ Awaited /\ Unwinding /\ OwnAuthority /\ CutReported

-------------------------------------------------------------------------------
(* Data. *)

\* What a setup of Started offers.
LEMMA SetupIs ==
  ASSUME NEW q \in Setup
  PROVE  /\ q.skill \in DOMAIN q.store /\ DOMAIN q.store \subseteq Skills
         /\ q.ceiling \in Time
         /\ q.entry \in {"trigger", "name", "source"}
         /\ q.entry # "source" => q.approved[q.skill]
         /\ \A s \in DOMAIN q.store : q.approved[s] \in BOOLEAN /\ q.store[s] \in DOMAIN Body
         /\ q.secured \in BOOLEAN
BY Started DEF Skills

\* What the code of a stored skill offers.
LEMMA CodeIs ==
  ASSUME NEW q \in Setup, NEW s \in DOMAIN q.store
  PROVE  /\ Len(CodeOf(q, s).targets) \in Nat \ {0}
         /\ \A t \in 1..Len(CodeOf(q, s).targets) :
              /\ CodeOf(q, s).targets[t].ops \in Seq(Ops)
              /\ CodeOf(q, s).targets[t].orelse \in Seq(Ops)
         /\ CodeOf(q, s).deadline \in Time
         /\ CodeOf(q, s).template \subseteq Var
<1> DEFINE b == q.store[s]
           TargetT == [ops : Seq(Ops), recovers : BOOLEAN, orelse : Seq(Ops)]
<1>1. b \in DOMAIN Body
  BY SetupIs
<1>2. /\ Body[b] \in [targets : Seq(TargetT), autonomous : BOOLEAN, deadline : Time,
                      timeout : Nat, template : SUBSET Var, delivers : BOOLEAN,
                      address : SUBSET Var]
      /\ Body[b].targets # <<>>
  BY <1>1, Parsed
<1>3. Body[b].targets \in Seq(TargetT)
  BY <1>2
<1>4. Len(Body[b].targets) \in Nat \ {0}
  BY <1>2, <1>3
<1>5. \A t \in 1..Len(Body[b].targets) : Body[b].targets[t] \in TargetT
  <2> HIDE DEF TargetT
  <2> QED
    BY <1>3
<1> QED
  BY <1>2, <1>4, <1>5 DEF CodeOf

\* Ops of bodies are ops a frame may hold, and so are sequences of them.
LEMMA OpsPend ==
  /\ Ops \subseteq Pend
  /\ \A ops \in Seq(Ops) : ops \in Seq(Pend)
<1>1. Ops \subseteq Pend
  BY Parsed DEF Pend, Ids
<1> QED
  BY <1>1

\* What an `if` and a foreach leave in the place of the op.
LEMMA MarkersPend ==
  ASSUME NEW op \in Pend, NEW v \in SUBSET Var
  PROVE  /\ [op EXCEPT !.kind = "local"] \in Pend
         /\ [op EXCEPT !.kind = "item", !.uses = {}] \in Pend
         /\ [op EXCEPT !.kind = "end", !.uses = {}, !.out = v] \in Pend
         /\ [op EXCEPT !.kind = "local"].id = op.id
         /\ [op EXCEPT !.kind = "local"].kind = "local"
         /\ [op EXCEPT !.kind = "end", !.uses = {}, !.out = v].id = op.id
         /\ [op EXCEPT !.kind = "end", !.uses = {}, !.out = v].kind = "end"
BY DEF Pend, Kinds, Harmless

\* The ops of a loop's rounds are the ops of its body.
LEMMA RoundsType ==
  ASSUME NEW S, NEW n \in Nat, NEW ops \in Seq(S), ops # <<>>
  PROVE  Rounds(n, ops) \in Seq(S)
<1>1. Len(ops) \in Nat \ {0}
  OBVIOUS
<1>2. n * Len(ops) \in Nat
  BY <1>1
<1>3. ASSUME NEW k \in 1..(n * Len(ops))
      PROVE  ops[((k - 1) % Len(ops)) + 1] \in S
  <2>1. k - 1 \in Nat
    BY <1>2
  <2>2. (k - 1) % Len(ops) \in 0..(Len(ops) - 1)
    BY <1>1, <2>1
  <2> QED
    BY <2>2, <1>1
<1> QED
  BY <1>2, <1>3 DEF Rounds

\* Bounds only tighten, also as time passes.
LEMMA EarlierType ==
  ASSUME NEW a \in Time, NEW b \in Time
  PROVE  Earlier(a, b) \in Time /\ Earlier(Earlier(a, b), a) = Earlier(a, b)
BY Times DEF Earlier, Time

LEMMA EarlierTightens ==
  ASSUME NEW a \in Time, NEW b \in Time, NEW c \in Time
  PROVE  Earlier(Earlier(Earlier(a, b), c), a) = Earlier(Earlier(a, b), c)
BY Times DEF Earlier, Time

LEMMA SoonerType ==
  ASSUME NEW a \in Time
  PROVE  Sooner(a) \in Time
BY Times DEF Sooner, Time

LEMMA SoonerMonotone ==
  ASSUME NEW a \in Time, NEW b \in Time, Earlier(a, b) = a
  PROVE  Earlier(Sooner(a), Sooner(b)) = Sooner(a)
BY Times DEF Earlier, Sooner, Time

-------------------------------------------------------------------------------
(* What is to come. *)

\* Working off the first op of a list keeps the others.
LEMMA ComingTail ==
  ASSUME NEW todo \in Seq(Pend), todo # <<>>
  PROVE  Coming(todo) \subseteq Coming(Tail(todo)) \cup {Head(todo).id}
<1> SUFFICES ASSUME NEW k \in 1..Len(todo), todo[k].kind # "item"
             PROVE  todo[k].id \in Coming(Tail(todo)) \cup {Head(todo).id}
  BY DEF Coming
<1>1. CASE k = 1
  BY <1>1
<1>2. CASE k # 1
  <2>1. k - 1 \in 1..Len(Tail(todo)) /\ Tail(todo)[k - 1] = todo[k]
    BY <1>2
  <2> QED
    BY <2>1 DEF Coming
<1> QED
  BY <1>1, <1>2

\* An op that marks the loop's next item is not waited for.
LEMMA ComingItem ==
  ASSUME NEW todo \in Seq(Pend), todo # <<>>, Head(todo).kind = "item"
  PROVE  Coming(todo) \subseteq Coming(Tail(todo))
<1> SUFFICES ASSUME NEW k \in 1..Len(todo), todo[k].kind # "item"
             PROVE  todo[k].id \in Coming(Tail(todo))
  BY DEF Coming
<1>1. k # 1
  OBVIOUS
<1>2. k - 1 \in 1..Len(Tail(todo)) /\ Tail(todo)[k - 1] = todo[k]
  BY <1>1
<1> QED
  BY <1>2 DEF Coming

\* What replaces an op and ends with a marker of the same name keeps it to come.
LEMMA ComingReplaced ==
  ASSUME NEW todo \in Seq(Pend), todo # <<>>, NEW ops \in Seq(Pend), NEW m \in Pend,
         m.id = Head(todo).id, m.kind # "item"
  PROVE  /\ (ops \o <<m>>) \o Tail(todo) \in Seq(Pend)
         /\ (ops \o <<m>>) \o Tail(todo) # <<>>
         /\ Coming(todo) \subseteq Coming((ops \o <<m>>) \o Tail(todo))
<1> DEFINE new == (ops \o <<m>>) \o Tail(todo)
<1>1. new \in Seq(Pend) /\ Len(new) = Len(ops) + Len(todo)
  OBVIOUS
<1>2. new[Len(ops) + 1] = m /\ Len(ops) + 1 \in 1..Len(new)
  OBVIOUS
<1>3. ASSUME NEW k \in 2..Len(todo)
      PROVE  new[Len(ops) + k] = todo[k] /\ Len(ops) + k \in 1..Len(new)
  OBVIOUS
<1>4. ASSUME NEW k \in 1..Len(todo), todo[k].kind # "item"
      PROVE  todo[k].id \in Coming(new)
  <2>1. CASE k = 1
    BY <2>1, <1>2 DEF Coming
  <2>2. CASE k # 1
    <3>1. new[Len(ops) + k] = todo[k] /\ Len(ops) + k \in 1..Len(new)
      BY <1>3, <2>2
    <3> HIDE DEF new
    <3> QED
      BY <3>1, <1>4 DEF Coming
  <2> QED
    BY <2>1, <2>2
<1>5. new # <<>>
  BY <1>1
<1> HIDE DEF new
<1>6. Coming(todo) \subseteq Coming(new)
  BY <1>4 DEF Coming
<1> QED
  BY <1>1, <1>5, <1>6 DEF new

-------------------------------------------------------------------------------
(* Frames. *)

\* What no step but time's changes in a frame, and what only the root changes.
Stays(g, f) == g.skill = f.skill /\ g.depth = f.depth /\ g.runRoot = f.runRoot /\ g.left = f.left
Keeps(g, f) == Stays(g, f) /\ g.expired = f.expired /\ g.uncertain = f.uncertain

\* A frame that has done more and forgotten nothing.
LEMMA SoundEdit ==
  ASSUME NEW q \in Setup, NEW f, Sound(q, f), NEW g \in Frames,
         g.skill = f.skill, g.auth = f.auth, g.target = f.target, g.part = f.part,
         g.errors = f.errors, f.done \subseteq g.done,
         Coming(f.todo) \subseteq Coming(g.todo) \cup g.done
  PROVE  Sound(q, g)
<1>1. Complete(q, f)
  BY DEF Sound
<1>2. Complete(q, g)
  <2> HIDE DEF Coming
  <2> DEFINE ts == CodeOf(q, g.skill).targets
  <2> SUFFICES ASSUME g.errors = {}
               PROVE  /\ g.part # "else"
                      /\ \A t \in 1..Len(ts) : \A k \in 1..Len(ts[t].ops) :
                           \/ t > g.target /\ g.part = "ops"
                           \/ ts[t].ops[k].id \in g.done
                           \/ t = g.target /\ g.part = "ops" /\ ts[t].ops[k].id \in Coming(g.todo)
    BY DEF Complete
  <2>1. g.part # "else"
    BY <1>1 DEF Complete
  <2>2. ASSUME NEW t \in 1..Len(ts), NEW k \in 1..Len(ts[t].ops)
        PROVE  \/ t > g.target /\ g.part = "ops"
               \/ ts[t].ops[k].id \in g.done
               \/ t = g.target /\ g.part = "ops" /\ ts[t].ops[k].id \in Coming(g.todo)
    <3>1. \/ t > f.target /\ f.part = "ops"
          \/ ts[t].ops[k].id \in f.done
          \/ t = f.target /\ f.part = "ops" /\ ts[t].ops[k].id \in Coming(f.todo)
      BY <1>1 DEF Complete
    <3> QED
      BY <3>1
  <2> QED
    BY <2>1, <2>2
<1> QED
  BY <1>2 DEF Sound

\* Fields of an op a frame may hold.
LEMMA OpIs ==
  ASSUME NEW f \in Frames, f.todo # <<>>
  PROVE  /\ Head(f.todo) \in Pend /\ Tail(f.todo) \in Seq(Pend)
         /\ Head(f.todo).id \in Ids /\ Head(f.todo).out \subseteq Var
         /\ Head(f.todo).body \in Seq(Ops) /\ Head(f.todo).orelse \in Seq(Ops)
<1>1. f.todo \in Seq(Pend)
  BY DEF Frames
<1>2. Head(f.todo) \in Pend /\ Tail(f.todo) \in Seq(Pend)
  BY <1>1
<1> QED
  BY <1>2 DEF Pend

\* What the parser tells of such an op.
LEMMA PendIs ==
  ASSUME NEW o \in Pend
  PROVE  /\ o.effecting \in BOOLEAN /\ o.bare \in BOOLEAN
         /\ o.kind = "shell" => o.effecting
         /\ Harmless(o) => ~o.effecting
BY DEF Pend

\* The op that is up is done.
LEMMA FinishedSound ==
  ASSUME NEW q \in Setup, NEW f, Sound(q, f), f.todo # <<>>,
         NEW op \in Pend, op.id = Head(f.todo).id
  PROVE  Sound(q, Finished(f, op)) /\ Keeps(Finished(f, op), f)
<1>1. f \in Frames
  BY DEF Sound
<1>2. Tail(f.todo) \in Seq(Pend)
  BY <1>1, OpIs
<1>3. Coming(f.todo) \subseteq Coming(Tail(f.todo)) \cup {op.id}
  BY <1>1, ComingTail DEF Frames
<1>4. f.bound \cup op.out \in SUBSET Var /\ f.done \cup {op.id} \in SUBSET Ids
  BY <1>1 DEF Frames, Pend
<1>5. Finished(f, op) = [f EXCEPT !.todo = Tail(f.todo), !.bound = f.bound \cup op.out,
                                  !.done = f.done \cup {op.id}]
  BY <1>1 DEF Finished, Frames
<1> HIDE DEF Finished
<1> DEFINE todo == Tail(f.todo)
           b == f.bound \cup op.out
           d == f.done \cup {op.id}
           g == Finished(f, op)
<1>6. /\ todo \in Seq(Pend) /\ b \in SUBSET Var /\ d \in SUBSET Ids /\ f.done \subseteq d
      /\ Coming(f.todo) \subseteq Coming(todo) \cup d
      /\ g = [f EXCEPT !.todo = todo, !.bound = b, !.done = d]
  BY <1>2, <1>3, <1>4, <1>5
<1> HIDE DEF todo, b, d, g
<1>7. g \in Frames
  BY <1>1, <1>6 DEF Frames
<1>8. /\ g.skill = f.skill /\ g.auth = f.auth /\ g.target = f.target /\ g.part = f.part
      /\ g.errors = f.errors /\ g.done = d /\ g.todo = todo
  BY <1>1, <1>6 DEF Frames
<1>9. Keeps(g, f)
  BY <1>1, <1>6 DEF Frames, Keeps, Stays
<1>10. Sound(q, g)
  BY <1>6, <1>7, <1>8, SoundEdit
<1> QED
  BY <1>9, <1>10 DEF g

\* The op that is up is replaced by a block that ends with its own marker.
LEMMA DoSound ==
  ASSUME NEW q \in Setup, NEW f, Sound(q, f), f.todo # <<>>,
         NEW ops \in Seq(Pend), NEW m \in Pend, m.id = Head(f.todo).id, m.kind # "item"
  PROVE  LET g == [f EXCEPT !.todo = (ops \o <<m>>) \o Tail(@)]
         IN  Sound(q, g) /\ Keeps(g, f)
<1>1. f \in Frames
  BY DEF Sound
<1>2. f.todo \in Seq(Pend)
  BY <1>1 DEF Frames
<1> DEFINE new == (ops \o <<m>>) \o Tail(f.todo)
<1>3. new \in Seq(Pend) /\ Coming(f.todo) \subseteq Coming(new)
  BY <1>2, ComingReplaced
<1>4. [f EXCEPT !.todo = (ops \o <<m>>) \o Tail(@)]
        = [f EXCEPT !.todo = new, !.bound = f.bound, !.done = f.done]
  BY <1>1 DEF Frames
<1>5. f.bound \in SUBSET Var /\ f.done \in SUBSET Ids
  BY <1>1 DEF Frames
<1> HIDE DEF new
<1> DEFINE todo == new
           b == f.bound
           d == f.done
           g == [f EXCEPT !.todo = (ops \o <<m>>) \o Tail(@)]
<1>6. /\ todo \in Seq(Pend) /\ b \in SUBSET Var /\ d \in SUBSET Ids /\ f.done \subseteq d
      /\ Coming(f.todo) \subseteq Coming(todo) \cup d
      /\ g = [f EXCEPT !.todo = todo, !.bound = b, !.done = d]
  BY <1>3, <1>4, <1>5
<1> HIDE DEF todo, b, d, g
<1>7. g \in Frames
  BY <1>1, <1>6 DEF Frames
<1>8. /\ g.skill = f.skill /\ g.auth = f.auth /\ g.target = f.target /\ g.part = f.part
      /\ g.errors = f.errors /\ g.done = d /\ g.todo = todo
  BY <1>1, <1>6 DEF Frames
<1>9. Keeps(g, f)
  BY <1>1, <1>6 DEF Frames, Keeps, Stays
<1>10. Sound(q, g)
  BY <1>6, <1>7, <1>8, SoundEdit
<1> QED
  BY <1>9, <1>10 DEF g

\* The next item of a loop is bound.
LEMMA ItemSound ==
  ASSUME NEW q \in Setup, NEW f, Sound(q, f), f.todo # <<>>, Head(f.todo).kind = "item"
  PROVE  LET g == [f EXCEPT !.todo = Tail(@), !.bound = @ \cup Head(f.todo).out]
         IN  Sound(q, g) /\ Keeps(g, f)
<1>1. f \in Frames
  BY DEF Sound
<1>2. Tail(f.todo) \in Seq(Pend) /\ Head(f.todo).out \subseteq Var
  BY <1>1, OpIs
<1>3. Coming(f.todo) \subseteq Coming(Tail(f.todo))
  BY <1>1, ComingItem DEF Frames
<1>4. f.bound \cup Head(f.todo).out \in SUBSET Var /\ f.done \in SUBSET Ids
  BY <1>1, <1>2 DEF Frames
<1>5. [f EXCEPT !.todo = Tail(@), !.bound = @ \cup Head(f.todo).out]
        = [f EXCEPT !.todo = Tail(f.todo), !.bound = f.bound \cup Head(f.todo).out,
                    !.done = f.done]
  BY <1>1 DEF Frames
<1> DEFINE todo == Tail(f.todo)
           b == f.bound \cup Head(f.todo).out
           d == f.done
           g == [f EXCEPT !.todo = Tail(@), !.bound = @ \cup Head(f.todo).out]
<1>6. /\ todo \in Seq(Pend) /\ b \in SUBSET Var /\ d \in SUBSET Ids /\ f.done \subseteq d
      /\ Coming(f.todo) \subseteq Coming(todo) \cup d
      /\ g = [f EXCEPT !.todo = todo, !.bound = b, !.done = d]
  BY <1>2, <1>3, <1>4, <1>5
<1> HIDE DEF todo, b, d, g
<1>7. g \in Frames
  BY <1>1, <1>6 DEF Frames
<1>8. /\ g.skill = f.skill /\ g.auth = f.auth /\ g.target = f.target /\ g.part = f.part
      /\ g.errors = f.errors /\ g.done = d /\ g.todo = todo
  BY <1>1, <1>6 DEF Frames
<1>9. Keeps(g, f)
  BY <1>1, <1>6 DEF Frames, Keeps, Stays
<1>10. Sound(q, g)
  BY <1>6, <1>7, <1>8, SoundEdit
<1> QED
  BY <1>9, <1>10 DEF g

\* A loop ends.
LEMMA EndSound ==
  ASSUME NEW q \in Setup, NEW f, Sound(q, f), f.todo # <<>>
  PROVE  LET g == [f EXCEPT !.todo = Tail(@), !.bound = Head(f.todo).out,
                            !.done = @ \cup {Head(f.todo).id}]
         IN  Sound(q, g) /\ Keeps(g, f)
<1>1. f \in Frames
  BY DEF Sound
<1>2. /\ Tail(f.todo) \in Seq(Pend) /\ Head(f.todo).out \in SUBSET Var
      /\ Head(f.todo).id \in Ids
  BY <1>1, OpIs
<1>3. Coming(f.todo) \subseteq Coming(Tail(f.todo)) \cup {Head(f.todo).id}
  BY <1>1, ComingTail DEF Frames
<1>4. f.done \cup {Head(f.todo).id} \in SUBSET Ids
  BY <1>1, <1>2 DEF Frames
<1>5. [f EXCEPT !.todo = Tail(@), !.bound = Head(f.todo).out,
                !.done = @ \cup {Head(f.todo).id}]
        = [f EXCEPT !.todo = Tail(f.todo), !.bound = Head(f.todo).out,
                    !.done = f.done \cup {Head(f.todo).id}]
  BY <1>1 DEF Frames
<1> DEFINE todo == Tail(f.todo)
           b == Head(f.todo).out
           d == f.done \cup {Head(f.todo).id}
           g == [f EXCEPT !.todo = Tail(@), !.bound = Head(f.todo).out,
                            !.done = @ \cup {Head(f.todo).id}]
<1>6. /\ todo \in Seq(Pend) /\ b \in SUBSET Var /\ d \in SUBSET Ids /\ f.done \subseteq d
      /\ Coming(f.todo) \subseteq Coming(todo) \cup d
      /\ g = [f EXCEPT !.todo = todo, !.bound = b, !.done = d]
  BY <1>2, <1>3, <1>4, <1>5
<1> HIDE DEF todo, b, d, g
<1>7. g \in Frames
  BY <1>1, <1>6 DEF Frames
<1>8. /\ g.skill = f.skill /\ g.auth = f.auth /\ g.target = f.target /\ g.part = f.part
      /\ g.errors = f.errors /\ g.done = d /\ g.todo = todo
  BY <1>1, <1>6 DEF Frames
<1>9. Keeps(g, f)
  BY <1>1, <1>6 DEF Frames, Keeps, Stays
<1>10. Sound(q, g)
  BY <1>6, <1>7, <1>8, SoundEdit
<1> QED
  BY <1>9, <1>10 DEF g

\* A frame with an error owes nothing.
LEMMA EnterAfterError ==
  ASSUME NEW q \in Setup, NEW f, Sound(q, f), f.errors # {},
         NEW part \in {"ops", "else", "render", "deliver", "return"}, NEW todo \in Seq(Pend)
  PROVE  LET g == Enter(f, part, todo)
         IN  Sound(q, g) /\ Keeps(g, f) /\ g.part = part /\ g.todo = todo
<1> DEFINE g == Enter(f, part, todo)
<1>1. f \in Frames
  BY DEF Sound
<1>2. g \in Frames
  BY <1>1 DEF Frames, Enter
<1>3. /\ g.skill = f.skill /\ g.auth = f.auth /\ g.target = f.target
      /\ g.errors = f.errors /\ g.part = part /\ g.todo = todo
  BY <1>1 DEF Frames, Enter
<1>4. Keeps(g, f)
  BY <1>1 DEF Frames, Keeps, Stays, Enter
<1> HIDE DEF g
<1>5. Sound(q, g)
  BY <1>2, <1>3 DEF Sound, Complete
<1> QED
  BY <1>3, <1>4, <1>5 DEF g

\* Past the loop nothing is owed any more.
LEMMA EnterAfterLoop ==
  ASSUME NEW q \in Setup, NEW f, Sound(q, f), f.part \in {"render", "deliver"},
         NEW part \in {"deliver", "return"}
  PROVE  LET g == Enter(f, part, <<>>) IN Sound(q, g) /\ Keeps(g, f) /\ g.part = part
<1> DEFINE g == Enter(f, part, <<>>)
<1>1. f \in Frames
  BY DEF Sound
<1>2. g \in Frames
  <2>1. <<>> \in Seq(Pend)
    OBVIOUS
  <2> QED
    BY <1>1, <2>1 DEF Frames, Enter
<1>3. /\ g.skill = f.skill /\ g.auth = f.auth /\ g.target = f.target
      /\ g.errors = f.errors /\ g.part = part /\ g.done = f.done
  BY <1>1 DEF Frames, Enter
<1>4. Keeps(g, f)
  BY <1>1 DEF Frames, Keeps, Stays, Enter
<1> HIDE DEF g
<1>5. Complete(q, f) /\ f.part \notin {"ops", "else"}
  BY DEF Sound
<1>6. Complete(q, g)
  BY <1>3, <1>5 DEF Complete
<1>7. Sound(q, g)
  BY <1>2, <1>3, <1>6 DEF Sound
<1> QED
  BY <1>3, <1>4, <1>7 DEF g

\* An error is noted.
LEMMA ErrorSound ==
  ASSUME NEW q \in Setup, NEW f, Sound(q, f), NEW e \in SUBSET Ids, e # {}
  PROVE  LET g == [f EXCEPT !.errors = e]
         IN  /\ Sound(q, g) /\ Keeps(g, f) /\ g.errors = e
             /\ g.part = f.part /\ g.todo = f.todo /\ g.target = f.target
<1> DEFINE g == [f EXCEPT !.errors = e]
<1>1. f \in Frames
  BY DEF Sound
<1>2. g \in Frames
  BY <1>1 DEF Frames
<1>3. /\ g.skill = f.skill /\ g.auth = f.auth /\ g.target = f.target
      /\ g.errors = e /\ g.part = f.part /\ g.todo = f.todo
  BY <1>1 DEF Frames
<1>4. Keeps(g, f)
  BY <1>1 DEF Frames, Keeps, Stays
<1> HIDE DEF g
<1>5. Sound(q, g)
  BY <1>2, <1>3 DEF Sound, Complete
<1> QED
  BY <1>3, <1>4, <1>5 DEF g

\* When a target's list is worked off, or has failed, the next one is up.
LEMMA NextTargetSound ==
  ASSUME setup \in Setup, NEW f, Sound(setup, f), f.part \in {"ops", "else"},
         f.errors = {} => f.todo = <<>>
  PROVE  LET g == NextTarget(f)
         IN  Sound(setup, g) /\ Keeps(g, f) /\ g.part \in {"ops", "render"}
<1> DEFINE g == NextTarget(f)
           ts == CodeOf(setup, f.skill).targets
<1>1. /\ f \in Frames /\ f.skill \in DOMAIN setup.store /\ f.target \in 1..Len(ts)
      /\ Complete(setup, f)
  BY DEF Sound
<1>2. /\ Len(ts) \in Nat \ {0}
      /\ \A t \in 1..Len(ts) : ts[t].ops \in Seq(Pend)
  BY <1>1, CodeIs, OpsPend
<1>3. Code(f.skill).targets = ts
  BY DEF Code, CodeOf
<1>4. f.target \in Nat \ {0}
  BY <1>1, <1>2
<1> HIDE DEF ts
<1>5. CASE f.target = Len(ts)
  <2>1. g = Enter(f, "render", <<>>)
    BY <1>3, <1>5 DEF NextTarget
  <2>2. g \in Frames
    <3>1. <<>> \in Seq(Pend)
      OBVIOUS
    <3> QED
      BY <1>1, <2>1, <3>1 DEF Frames, Enter
  <2>3. /\ g.skill = f.skill /\ g.auth = f.auth /\ g.target = f.target /\ g.part = "render"
        /\ g.errors = f.errors /\ g.done = f.done
    BY <1>1, <2>1 DEF Frames, Enter
  <2>4. Keeps(g, f)
    BY <1>1, <2>1 DEF Frames, Keeps, Stays, Enter
  <2> HIDE DEF g
  <2>5. Complete(setup, g)
    <3> SUFFICES ASSUME g.errors = {}, NEW t \in 1..Len(ts), NEW k \in 1..Len(ts[t].ops)
                 PROVE  ts[t].ops[k].id \in g.done
      BY <2>3 DEF Complete, ts
    <3>1. Coming(f.todo) = {}
      BY <2>3 DEF Coming
    <3>2. \/ t > f.target /\ f.part = "ops"
          \/ ts[t].ops[k].id \in f.done
          \/ t = f.target /\ f.part = "ops" /\ ts[t].ops[k].id \in Coming(f.todo)
      BY <1>1, <2>3 DEF Complete, ts
    <3> QED
      BY <3>1, <3>2, <2>3, <1>5, <1>2
  <2> QED
    BY <1>1, <2>2, <2>3, <2>4, <2>5 DEF Sound, g, ts
<1>6. CASE f.target # Len(ts)
  <2>1. g = [Enter(f, "ops", ts[f.target + 1].ops) EXCEPT !.target = f.target + 1]
    <3>1. Enter(f, "ops", ts[f.target + 1].ops).target = f.target
      BY <1>1 DEF Frames, Enter
    <3> QED
      BY <1>3, <1>6, <3>1 DEF NextTarget
  <2>2. f.target + 1 \in 1..Len(ts)
    BY <1>1, <1>2, <1>6
  <2>3. g \in Frames
    <3> DEFINE n == f.target + 1
               ops == ts[f.target + 1].ops
    <3>1. n \in Nat \ {0} /\ ops \in Seq(Pend)
      BY <1>2, <1>4, <2>2
    <3>2. g = [Enter(f, "ops", ops) EXCEPT !.target = n]
      BY <2>1
    <3> HIDE DEF n, ops, g
    <3> QED
      BY <1>1, <3>1, <3>2 DEF Frames, Enter
  <2>4. /\ g.skill = f.skill /\ g.auth = f.auth /\ g.target = f.target + 1 /\ g.part = "ops"
        /\ g.errors = f.errors /\ g.done = f.done /\ g.todo = ts[f.target + 1].ops
    BY <1>1, <2>1 DEF Frames, Enter
  <2>5. Keeps(g, f)
    BY <1>1, <2>1 DEF Frames, Keeps, Stays, Enter
  <2> HIDE DEF g
  <2>6. Complete(setup, g)
    <3> SUFFICES ASSUME g.errors = {}, NEW t \in 1..Len(ts), NEW k \in 1..Len(ts[t].ops)
                 PROVE  \/ t > g.target
                        \/ ts[t].ops[k].id \in g.done
                        \/ t = g.target /\ ts[t].ops[k].id \in Coming(g.todo)
      BY <2>4 DEF Complete, ts
    <3>1. Coming(f.todo) = {}
      BY <2>4 DEF Coming
    <3>2. \/ t > f.target /\ f.part = "ops"
          \/ ts[t].ops[k].id \in f.done
          \/ t = f.target /\ f.part = "ops" /\ ts[t].ops[k].id \in Coming(f.todo)
      BY <1>1, <2>4 DEF Complete, ts
    <3>3. CASE t = g.target
      <4>1. ts[t].ops[k].kind # "item"
        <5>1. ts[t].ops \in Seq(Ops)
          BY <1>1, CodeIs DEF ts
        <5>2. ts[t].ops[k] \in Ops
          BY <5>1
        <5> QED
          BY <5>2, Parsed
      <4>2. ts[t].ops[k].id \in Coming(g.todo)
        BY <3>3, <2>4, <4>1 DEF Coming
      <4> QED
        BY <3>3, <4>2
    <3>4. CASE t # g.target
      BY <3>1, <3>2, <3>4, <2>4, <1>2, <1>4
    <3> QED
      BY <3>3, <3>4
  <2> QED
    BY <1>1, <2>2, <2>3, <2>4, <2>5, <2>6 DEF Sound, g, ts
<1> QED
  BY <1>5, <1>6

\* A new frame: its own skill and authority, and no more time than it inherits.
LEMMA FrameSound ==
  ASSUME setup \in Setup, NEW s \in DOMAIN setup.store, NEW d \in Nat, NEW r \in BOOLEAN,
         NEW auth \in BOOLEAN, auth /\ setup.secured => setup.approved[s], NEW t \in Time,
         NEW g, g = Frame(s, d, r, auth, t)
  PROVE  /\ Sound(setup, g) /\ Fresh(g)
         /\ g.skill = s /\ g.depth = d /\ g.runRoot = r
         /\ Earlier(g.left, t) = g.left
<1> DEFINE ts == CodeOf(setup, s).targets
<1>1. /\ Len(ts) \in Nat \ {0} /\ CodeOf(setup, s).deadline \in Time
      /\ ts[1].ops \in Seq(Ops) /\ ts[1].ops \in Seq(Pend)
  BY CodeIs, OpsPend
<1>2. s \in Skills /\ setup.ceiling \in Time
  BY SetupIs
<1>3. Code(s) = CodeOf(setup, s)
  BY DEF Code, CodeOf
<1>4. /\ g.left \in Time /\ Earlier(g.left, t) = g.left
  <2>1. g.left = Earlier(Earlier(t, setup.ceiling), CodeOf(setup, s).deadline)
    BY <1>3 DEF Frame, Bound
  <2>2. Earlier(t, setup.ceiling) \in Time
    BY <1>2, EarlierType
  <2>3. Earlier(Earlier(t, setup.ceiling), CodeOf(setup, s).deadline) \in Time
    BY <2>2, <1>1, EarlierType
  <2>4. Earlier(Earlier(Earlier(t, setup.ceiling), CodeOf(setup, s).deadline), t)
          = Earlier(Earlier(t, setup.ceiling), CodeOf(setup, s).deadline)
    BY <1>1, <1>2, EarlierTightens
  <2> QED
    BY <2>1, <2>3, <2>4
<1>5. /\ g.skill = s /\ g.depth = d /\ g.runRoot = r /\ g.auth = auth /\ g.target = 1
      /\ g.part = "ops" /\ g.todo = ts[1].ops /\ g.expired = FALSE /\ g.uncertain = {}
  BY <1>3 DEF Frame
<1>6. g \in Frames
  <2> HIDE DEF ts
  <2>1. Bound(t, Code(s).deadline) \in Time
    BY <1>4 DEF Frame
  <2> QED
    BY <1>1, <1>2, <1>3, <2>1 DEF Frame, Frames, ts
<1>7. Complete(setup, g)
  <2>1. ASSUME NEW k \in 1..Len(ts[1].ops)
        PROVE  ts[1].ops[k].id \in Coming(g.todo)
    <3>1. ts[1].ops[k] \in Ops
      BY <1>1
    <3>2. ts[1].ops[k].kind # "item"
      BY <3>1, Parsed
    <3> QED
      BY <1>5, <3>2 DEF Coming
  <2> QED
    BY <2>1, <1>1, <1>5 DEF Complete
<1>8. Sound(setup, g)
  BY <1>1, <1>5, <1>6, <1>7 DEF Sound
<1> QED
  BY <1>4, <1>5, <1>8 DEF Fresh

-------------------------------------------------------------------------------
(* The stack. *)

\* The top frame.
LEMMA TopIs ==
  ASSUME TypeOK, Nested, stack # <<>>
  PROVE  /\ Len(stack) \in Nat \ {0} /\ Top = stack[Len(stack)]
         /\ Top \in Frames /\ Sound(setup, Top)
<1>1. stack \in Seq(Frames)
  BY DEF TypeOK
<1>2. Len(stack) \in Nat \ {0}
  BY <1>1
<1>3. Top = stack[Len(stack)]
  BY DEF Top, Last
<1>4. Sound(setup, Top)
  BY <1>2, <1>3 DEF Nested
<1> QED
  BY <1>2, <1>3, <1>4 DEF Sound

\* A step of the top frame.
LEMMA NestedTop ==
  ASSUME TypeOK, Nested, setup' = setup, ~raised' => ~raised, stack # <<>>,
         NEW g, Sound(setup, g), Stays(g, Top), ~raised' => Fresh(g), stack' = WithTop(g)
  PROVE  /\ Nested' /\ stack' \in Seq(Frames)
         /\ Len(stack') = Len(stack) /\ stack'[Len(stack)] = g
         /\ \A i \in 1..(Len(stack) - 1) : stack'[i] = stack[i]
<1>1. /\ stack \in Seq(Frames) /\ g \in Frames /\ Len(stack) \in Nat \ {0}
      /\ Top = stack[Len(stack)]
  BY TopIs DEF TypeOK, Sound
<1>2. /\ stack' \in Seq(Frames) /\ Len(stack') = Len(stack)
      /\ \A i \in 1..Len(stack) : stack'[i] = IF i = Len(stack) THEN g ELSE stack[i]
  BY <1>1 DEF WithTop
<1>3. \A i \in 1..Len(stack) : Stays(stack'[i], stack[i])
  BY <1>1, <1>2 DEF Stays
<1>4. ASSUME NEW i \in 1..Len(stack')
      PROVE  /\ Sound(setup', stack'[i])
             /\ IsRoot(stack'[i]) <=> i = 1
             /\ ~raised' => Fresh(stack'[i])
             /\ i < Len(stack') => Calling(stack'[i])
  <2>1. /\ Sound(setup, stack[i]) /\ (IsRoot(stack[i]) <=> i = 1)
        /\ (~raised => Fresh(stack[i])) /\ (i < Len(stack) => Calling(stack[i]))
    BY <1>2 DEF Nested
  <2>2. IsRoot(stack'[i]) <=> IsRoot(stack[i])
    BY <1>2, <1>3 DEF IsRoot, Stays
  <2>3. CASE i = Len(stack)
    BY <1>1, <1>2, <2>1, <2>2, <2>3
  <2>4. CASE i # Len(stack)
    BY <1>1, <1>2, <2>1, <2>2, <2>4
  <2> QED
    BY <2>3, <2>4
<1>5. DeadlineTightens'
  BY <1>1, <1>2, <1>3 DEF Nested, DeadlineTightens, Stays
<1>6. stack'[1].skill = setup'.skill
  BY <1>1, <1>2, <1>3 DEF Nested, Stays
<1> QED
  BY <1>1, <1>2, <1>4, <1>5, <1>6 DEF Nested

\* A nested run starts.
LEMMA NestedPush ==
  ASSUME TypeOK, Nested, setup' = setup, raised' = raised, stack # <<>>, Calling(Top),
         NEW g, Sound(setup, g), Fresh(g), ~IsRoot(g), Earlier(g.left, Top.left) = g.left,
         stack' = Append(stack, g)
  PROVE  Nested' /\ stack' \in Seq(Frames) /\ stack' # <<>>
<1>1. /\ stack \in Seq(Frames) /\ g \in Frames /\ Len(stack) \in Nat \ {0}
      /\ Top = stack[Len(stack)]
  BY TopIs DEF TypeOK, Sound
<1>2. /\ stack' \in Seq(Frames) /\ Len(stack') = Len(stack) + 1
      /\ stack'[Len(stack) + 1] = g
      /\ \A i \in 1..Len(stack) : stack'[i] = stack[i]
  BY <1>1
<1>3. ASSUME NEW i \in 1..Len(stack')
      PROVE  /\ Sound(setup', stack'[i])
             /\ IsRoot(stack'[i]) <=> i = 1
             /\ ~raised' => Fresh(stack'[i])
             /\ i < Len(stack') => Calling(stack'[i])
  <2>1. CASE i = Len(stack) + 1
    BY <1>1, <1>2, <2>1
  <2>2. CASE i # Len(stack) + 1
    <3>1. i \in 1..Len(stack)
      BY <1>1, <1>2, <2>2
    <3>2. /\ Sound(setup, stack[i]) /\ (IsRoot(stack[i]) <=> i = 1)
          /\ (~raised => Fresh(stack[i])) /\ (i < Len(stack) => Calling(stack[i]))
      BY <3>1 DEF Nested
    <3>3. stack'[i] = stack[i]
      BY <1>2, <3>1
    <3> QED
      BY <1>1, <3>1, <3>2, <3>3
  <2> QED
    BY <2>1, <2>2
<1>4. DeadlineTightens'
  <2> SUFFICES ASSUME NEW i \in 2..Len(stack')
               PROVE  Earlier(stack'[i].left, stack'[i - 1].left) = stack'[i].left
    BY DEF DeadlineTightens
  <2>1. CASE i = Len(stack) + 1
    BY <1>1, <1>2, <2>1
  <2>2. CASE i # Len(stack) + 1
    BY <1>1, <1>2, <2>2 DEF Nested, DeadlineTightens
  <2> QED
    BY <2>1, <2>2
<1>5. stack'[1].skill = setup'.skill
  BY <1>1, <1>2 DEF Nested
<1>6. stack' # <<>>
  BY <1>1, <1>2
<1> QED
  BY <1>2, <1>3, <1>4, <1>5, <1>6 DEF Nested

\* A nested run is left.
LEMMA NestedPop ==
  ASSUME TypeOK, Nested, setup' = setup, ~raised' => ~raised, Len(stack) > 1,
         stack' = Front(stack)
  PROVE  /\ Nested' /\ stack' \in Seq(Frames) /\ Len(stack') = Len(stack) - 1
         /\ \A i \in 1..(Len(stack) - 1) : stack'[i] = stack[i]
<1>1. stack \in Seq(Frames) /\ Len(stack) \in Nat
  BY DEF TypeOK
<1>2. /\ stack' \in Seq(Frames) /\ Len(stack') = Len(stack) - 1
      /\ \A i \in 1..(Len(stack) - 1) : stack'[i] = stack[i]
  BY <1>1 DEF Front
<1>3. ASSUME NEW i \in 1..Len(stack')
      PROVE  /\ Sound(setup', stack'[i])
             /\ IsRoot(stack'[i]) <=> i = 1
             /\ ~raised' => Fresh(stack'[i])
             /\ i < Len(stack') => Calling(stack'[i])
  <2>1. i \in 1..Len(stack) /\ stack'[i] = stack[i]
    BY <1>1, <1>2
  <2>2. /\ Sound(setup, stack[i]) /\ (IsRoot(stack[i]) <=> i = 1)
        /\ (~raised => Fresh(stack[i])) /\ (i < Len(stack) => Calling(stack[i]))
    BY <2>1 DEF Nested
  <2> QED
    BY <1>1, <1>2, <2>1, <2>2
<1>4. DeadlineTightens'
  BY <1>1, <1>2 DEF Nested, DeadlineTightens
<1>5. stack'[1].skill = setup'.skill
  BY <1>1, <1>2 DEF Nested
<1> QED
  BY <1>2, <1>3, <1>4, <1>5 DEF Nested

\* A nested run is left and its caller goes on.
LEMMA NestedReturn ==
  ASSUME TypeOK, Nested, setup' = setup, raised' = raised, Len(stack) > 1,
         NEW g, Sound(setup, g), Keeps(g, stack[Len(stack) - 1]),
         stack' = [Front(stack) EXCEPT ![Len(stack) - 1] = g]
  PROVE  Nested' /\ stack' \in Seq(Frames) /\ Len(stack') = Len(stack) - 1 /\ stack' # <<>>
<1>1. stack \in Seq(Frames) /\ Len(stack) \in Nat /\ g \in Frames
  BY DEF TypeOK, Sound
<1>2. /\ stack' \in Seq(Frames) /\ Len(stack') = Len(stack) - 1
      /\ \A i \in 1..(Len(stack) - 1) :
           stack'[i] = IF i = Len(stack) - 1 THEN g ELSE stack[i]
  <2> DEFINE r == Front(stack)
  <2>1. /\ r \in Seq(Frames) /\ Len(r) = Len(stack) - 1
        /\ \A i \in 1..(Len(stack) - 1) : r[i] = stack[i]
    BY <1>1 DEF Front
  <2>2. stack' = [r EXCEPT ![Len(stack) - 1] = g]
    OBVIOUS
  <2>3. Len(r) \in Nat \ {0}
    BY <1>1, <2>1
  <2> HIDE DEF r
  <2>4. stack' = [r EXCEPT ![Len(r)] = g]
    BY <2>1, <2>2
  <2>5. r \in Seq(Frames) /\ g \in Frames
    BY <1>1, <2>1
  <2>6. stack' \in Seq(Frames)
    <3>1. Len(r) \in 1..Len(r)
      BY <2>3
    <3>2. [r EXCEPT ![Len(r)] = g] \in Seq(Frames)
      BY <3>1, <2>5, ExceptSeq
    <3> QED
      BY <3>2, <2>4
  <2>7. Len(stack') = Len(r)
    BY <2>3, <2>4, <2>5
  <2>8. \A i \in 1..Len(r) : stack'[i] = IF i = Len(r) THEN g ELSE r[i]
    BY <2>3, <2>4, <2>5
  <2> QED
    BY <1>1, <2>1, <2>6, <2>7, <2>8
<1>3. \A i \in 1..(Len(stack) - 1) : Keeps(stack'[i], stack[i])
  BY <1>1, <1>2 DEF Keeps, Stays
<1>4. ASSUME NEW i \in 1..Len(stack')
      PROVE  /\ Sound(setup', stack'[i])
             /\ IsRoot(stack'[i]) <=> i = 1
             /\ ~raised' => Fresh(stack'[i])
             /\ i < Len(stack') => Calling(stack'[i])
  <2>1. i \in 1..Len(stack)
    BY <1>1, <1>2
  <2>2. /\ Sound(setup, stack[i]) /\ (IsRoot(stack[i]) <=> i = 1)
        /\ (~raised => Fresh(stack[i])) /\ (i < Len(stack) => Calling(stack[i]))
    BY <2>1 DEF Nested
  <2>3. (IsRoot(stack'[i]) <=> IsRoot(stack[i])) /\ (Fresh(stack'[i]) <=> Fresh(stack[i]))
    BY <1>1, <1>2, <1>3 DEF IsRoot, Fresh, Keeps, Stays
  <2>4. Sound(setup, stack'[i])
    BY <1>1, <1>2, <2>2
  <2>5. i < Len(stack') => Calling(stack'[i])
    BY <1>1, <1>2, <2>2
  <2> QED
    BY <2>2, <2>3, <2>4, <2>5
<1>5. DeadlineTightens'
  BY <1>1, <1>2, <1>3 DEF Nested, DeadlineTightens, Keeps, Stays
<1>6. stack'[1].skill = setup'.skill
  BY <1>1, <1>2, <1>3 DEF Nested, Keeps, Stays
<1>7. stack' # <<>>
  BY <1>1, <1>2
<1> QED
  BY <1>2, <1>4, <1>5, <1>6, <1>7 DEF Nested

\* The run is over.
LEMMA NestedEmpty ==
  ASSUME stack' = <<>>
  PROVE  Nested' /\ stack' \in Seq(Frames)
<1>1. Len(stack') = 0 /\ stack' \in Seq(Frames)
  OBVIOUS
<1> QED
  BY <1>1 DEF Nested, DeadlineTightens

\* Nothing happens to the frames.
LEMMA NestedSame ==
  ASSUME TypeOK, Nested, setup' = setup, ~raised' => ~raised, stack' = stack
  PROVE  Nested' /\ stack' \in Seq(Frames)
BY DEF TypeOK, Nested, DeadlineTightens

\* Time passes for all frames alike.
LEMMA NestedTick ==
  ASSUME TypeOK, Nested, setup' = setup, raised' = raised,
         stack' = [i \in DOMAIN stack |-> [stack[i] EXCEPT !.left = Sooner(@)]]
  PROVE  /\ Nested' /\ stack' \in Seq(Frames) /\ Len(stack') = Len(stack)
         /\ \A i \in 1..Len(stack) :
              /\ stack'[i].part = stack[i].part /\ stack'[i].todo = stack[i].todo
              /\ stack'[i].done = stack[i].done
              /\ stack'[i].expired = stack[i].expired /\ stack'[i].uncertain = stack[i].uncertain
<1>1. stack \in Seq(Frames) /\ Len(stack) \in Nat /\ DOMAIN stack = 1..Len(stack)
  BY DEF TypeOK
<1>2. ASSUME NEW i \in 1..Len(stack)
      PROVE  /\ stack'[i] \in Frames
             /\ stack'[i].left = Sooner(stack[i].left)
             /\ stack'[i].part = stack[i].part /\ stack'[i].todo = stack[i].todo
             /\ stack'[i].done = stack[i].done /\ stack'[i].skill = stack[i].skill
             /\ stack'[i].expired = stack[i].expired /\ stack'[i].uncertain = stack[i].uncertain
             /\ stack'[i].depth = stack[i].depth /\ stack'[i].runRoot = stack[i].runRoot
             /\ stack'[i].auth = stack[i].auth /\ stack'[i].target = stack[i].target
             /\ stack'[i].errors = stack[i].errors
  <2>1. stack[i] \in Frames
    BY <1>1
  <2>2. stack'[i] = [stack[i] EXCEPT !.left = Sooner(@)]
    BY <1>1
  <2>3. Sooner(stack[i].left) \in Time
    BY <2>1, SoonerType DEF Frames
  <2> DEFINE f == stack[i]
             g == stack'[i]
             t == Sooner(stack[i].left)
  <2>4. f \in Frames /\ t \in Time /\ g = [f EXCEPT !.left = t]
    BY <2>1, <2>2, <2>3 DEF Frames
  <2> HIDE DEF f, g, t
  <2>5. /\ g \in Frames /\ g.left = t
        /\ g.part = f.part /\ g.todo = f.todo /\ g.done = f.done /\ g.skill = f.skill
        /\ g.expired = f.expired /\ g.uncertain = f.uncertain /\ g.depth = f.depth
        /\ g.runRoot = f.runRoot /\ g.auth = f.auth /\ g.target = f.target
        /\ g.errors = f.errors
    BY <2>4 DEF Frames
  <2> QED
    BY <2>5 DEF f, g, t
<1>3. stack' \in Seq(Frames) /\ Len(stack') = Len(stack)
  <2>1. \A i \in 1..Len(stack) : [stack[i] EXCEPT !.left = Sooner(@)] \in Frames
    BY <1>1, <1>2
  <2> QED
    BY <1>1, <2>1
<1>4. ASSUME NEW i \in 1..Len(stack')
      PROVE  /\ Sound(setup', stack'[i])
             /\ IsRoot(stack'[i]) <=> i = 1
             /\ ~raised' => Fresh(stack'[i])
             /\ i < Len(stack') => Calling(stack'[i])
  <2>1. i \in 1..Len(stack)
    BY <1>3
  <2>2. /\ Sound(setup, stack[i]) /\ (IsRoot(stack[i]) <=> i = 1)
        /\ (~raised => Fresh(stack[i])) /\ (i < Len(stack) => Calling(stack[i]))
    BY <2>1 DEF Nested
  <2>3. /\ IsRoot(stack'[i]) <=> IsRoot(stack[i])
        /\ Fresh(stack'[i]) <=> Fresh(stack[i])
        /\ Calling(stack'[i]) <=> Calling(stack[i])
    BY <1>2, <2>1 DEF IsRoot, Fresh, Calling
  <2>4. Sound(setup, stack'[i])
    <3> DEFINE f == stack[i]
               g == stack'[i]
    <3>1. /\ g \in Frames /\ g.skill = f.skill /\ g.auth = f.auth /\ g.target = f.target
          /\ g.part = f.part /\ g.errors = f.errors /\ g.done = f.done /\ g.todo = f.todo
      BY <1>2, <2>1
    <3>2. setup \in Setup /\ Sound(setup, f)
      BY <2>2 DEF TypeOK
    <3> HIDE DEF f, g
    <3>3. Sound(setup, g)
      BY <3>1, <3>2, SoundEdit
    <3> QED
      BY <3>3 DEF g
  <2> QED
    BY <1>3, <2>2, <2>3, <2>4
<1>5. DeadlineTightens'
  <2> SUFFICES ASSUME NEW i \in 2..Len(stack)
               PROVE  Earlier(stack'[i].left, stack'[i - 1].left) = stack'[i].left
    BY <1>3 DEF DeadlineTightens
  <2>1. i \in 1..Len(stack) /\ i - 1 \in 1..Len(stack)
    BY <1>1
  <2>2. stack[i].left \in Time /\ stack[i - 1].left \in Time
    <3>1. stack[i] \in Frames /\ stack[i - 1] \in Frames
      BY <1>1, <2>1
    <3> QED
      BY <3>1 DEF Frames
  <2>3. Earlier(stack[i].left, stack[i - 1].left) = stack[i].left
    BY DEF Nested, DeadlineTightens
  <2> QED
    BY <1>2, <2>1, <2>2, <2>3, SoonerMonotone
<1>6. stack' # <<>> => stack'[1].skill = setup'.skill
  <2>1. ASSUME stack' # <<>> PROVE stack # <<>> /\ 1 \in 1..Len(stack)
    BY <1>1, <1>3, <2>1
  <2> QED
    BY <1>2, <2>1 DEF Nested
<1> QED
  BY <1>2, <1>3, <1>4, <1>5, <1>6 DEF Nested

-------------------------------------------------------------------------------
(* How an op ends. *)

\* The invariant but for the effects.
Live == TypeOK /\ Nested /\ Awaited /\ Unwinding

\* The top frame is at an op.
Busy == /\ stack # <<>> /\ Calling(Top) /\ Op \in Pend
        /\ outcome = Running /\ exc = NoExc /\ ~raised

LEMMA BusyAt ==
  ASSUME Live, \/ AtOp
               \/ flight.phase \in {"open", "cleanup", "killed"}
  PROVE  Busy
<1>1. outcome.kind = "running" /\ exc = NoExc /\ stack # <<>>
  BY DEF Live, Awaited, AtOp
<1>2. Top = stack[Len(stack)] /\ Top \in Frames
  BY <1>1, TopIs DEF Live
<1>3. Calling(Top)
  BY <1>2 DEF Live, Awaited, AtOp, Calling
<1>4. Op \in Pend
  BY <1>2, <1>3, OpIs DEF Op, Calling
<1>5. ~raised
  <2>1. CASE AtOp
    <3>1. Top.part \in {"ops", "else"}
      BY <1>3 DEF Calling
    <3>3. exc.kind # "deadline"
      BY <1>1 DEF NoExc
    <3>2. Len(stack) = 1 => Top = stack[1]
      BY <1>2
    <3> QED
      BY <1>1, <3>1, <3>2, <3>3 DEF Live, Unwinding
  <2>2. CASE flight.phase \in {"open", "cleanup", "killed"}
    BY <2>2 DEF Live, Unwinding, Landed
  <2> QED
    BY <2>1, <2>2
<1> QED
  BY <1>1, <1>3, <1>4, <1>5 DEF Busy, Live, Awaited

\* The values between steps have their types.
LEMMA RestTypes ==
  /\ Landed \in [phase : {"idle", "open", "cleanup", "killed", "delivery"},
                 timer : Time, reserve : Nat]
  /\ Landed.phase = "idle"
  /\ NoExc \in [kind : {"none", "op", "deadline"}, id : Ids, cut : SUBSET Ids]
  /\ NoExc.kind = "none"
  /\ Running \in [kind : {"running", "threw", "returned"}, errors : SUBSET Ids,
                  expired : BOOLEAN, uncertain : SUBSET Ids]
  /\ Running.kind = "running"
<1>1. /\ Landed \in [phase : {"idle", "open", "cleanup", "killed", "delivery"},
                     timer : Time, reserve : Nat]
      /\ Landed.phase = "idle"
  BY DEF Landed, Time
<1>2. /\ NoExc \in [kind : {"none", "op", "deadline"}, id : Ids, cut : SUBSET Ids]
      /\ NoExc.kind = "none"
  <2>1. {} \in SUBSET Ids /\ "none" \in Ids /\ "none" \in {"none", "op", "deadline"}
    BY DEF Ids
  <2>2. NoExc \in [kind : {"none", "op", "deadline"}, id : Ids, cut : SUBSET Ids]
    BY <2>1 DEF NoExc
  <2>3. NoExc.kind = "none"
    BY DEF NoExc
  <2> QED
    BY <2>2, <2>3
<1>3. /\ Running \in [kind : {"running", "threw", "returned"}, errors : SUBSET Ids,
                      expired : BOOLEAN, uncertain : SUBSET Ids]
      /\ Running.kind = "running"
  BY DEF Running
<1> QED
  BY <1>1, <1>2, <1>3

\* The top frame goes on, nothing is awaited and nothing thrown.
LEMMA AdvanceLive ==
  ASSUME Live, stack # <<>>, exc.kind # "deadline", NEW g, Sound(setup, g), Keeps(g, Top),
         raised => g.part \in {"render", "deliver", "return"},
         stack' = WithTop(g), exc' = NoExc, flight' = Landed,
         UNCHANGED <<setup, outcome, issued, lost, raised>>
  PROVE  Live'
<1>1. ~raised => Fresh(g)
  <2>1. ~raised => Fresh(Top)
    BY TopIs DEF Live, Nested
  <2> QED
    BY <2>1 DEF Keeps, Fresh
<1>2. /\ Nested' /\ stack' \in Seq(Frames) /\ Len(stack') = Len(stack)
      /\ stack'[Len(stack)] = g
  BY <1>1, NestedTop DEF Live, Keeps
<1>3. stack' # <<>> /\ Len(stack) \in Nat \ {0} /\ Top = stack[Len(stack)]
  BY <1>2, TopIs DEF Live
<1>4. TypeOK'
  BY <1>2, RestTypes DEF Live, TypeOK
<1>5. Awaited'
  BY <1>3, RestTypes DEF Live, Awaited
<1>6. Unwinding'
  <2>1. CASE raised
    <3>1. Len(stack) = 1 /\ stack[1].expired /\ stack[1].uncertain = Reported(lost)
      BY <2>1 DEF Live, Unwinding
    <3>2. stack'[1].expired /\ stack'[1].uncertain = Reported(lost) /\ stack'[1].part = g.part
      BY <3>1, <1>2, <1>3 DEF Keeps
    <3> QED
      BY <2>1, <3>1, <3>2, <1>2 DEF Unwinding
  <2>2. CASE ~raised
    BY <2>2, RestTypes DEF Live, Unwinding
  <2> QED
    BY <2>1, <2>2
<1> QED
  BY <1>2, <1>4, <1>5, <1>6 DEF Live

LEMMA FinishLive ==
  ASSUME Live, Busy, Finish, UNCHANGED <<setup, issued>>
  PROVE  Live'
<1> DEFINE g == Finished(Top, Op)
<1>1. Sound(setup, Top) /\ setup \in Setup /\ Top.todo # <<>>
  BY TopIs DEF Live, Busy, TypeOK, Calling
<1>2. Op \in Pend /\ Op.id = Head(Top.todo).id
  BY DEF Busy, Op
<1>3. Sound(setup, g) /\ Keeps(g, Top)
  BY <1>1, <1>2, FinishedSound
<1>4. stack' = WithTop(g) /\ flight' = Landed /\ UNCHANGED <<exc, outcome, lost, raised>>
  BY DEF Finish
<1>5. exc.kind # "deadline" /\ exc' = NoExc /\ stack # <<>> /\ ~raised
  BY <1>4, RestTypes DEF Busy
<1> HIDE DEF g
<1> QED
  BY <1>3, <1>4, <1>5, AdvanceLive

\* Something is thrown that leaves the stack as it is.
LEMMA RaiseLive ==
  ASSUME Live, Busy, Raise, UNCHANGED <<setup, issued>>
  PROVE  Live'
<1>1. Top \in Frames /\ Top = stack[Len(stack)] /\ Top.todo # <<>>
  BY TopIs DEF Live, Busy, Calling
<1>2. /\ exc' = [NoExc EXCEPT !.kind = "op", !.id = Op.id]
      /\ flight' = Landed /\ stack' = stack /\ outcome' = outcome
      /\ lost' = lost /\ raised' = raised
  BY DEF Raise, Throw
<1>3. Op.id \in Ids
  BY <1>1, OpIs DEF Op
<1>4. /\ exc' \in [kind : {"none", "op", "deadline"}, id : Ids, cut : SUBSET Ids]
      /\ exc'.kind = "op"
  BY <1>2, <1>3 DEF NoExc
<1>5. Nested' /\ stack' \in Seq(Frames)
  BY <1>2, NestedSame DEF Live
<1>6. TypeOK'
  BY <1>2, <1>4, <1>5, RestTypes DEF Live, TypeOK
<1>7. Awaited'
  BY <1>1, <1>2, <1>4, RestTypes DEF Live, Awaited, Busy, Calling
<1>8. Unwinding'
  BY <1>2, <1>4 DEF Live, Unwinding, Busy
<1> QED
  BY <1>5, <1>6, <1>7, <1>8 DEF Live

LEMMA FailLive ==
  ASSUME Live, Busy, Fail, UNCHANGED <<setup, issued>>
  PROVE  Live'
BY FinishLive, RaiseLive DEF Fail

LEMMA DeadlineLive ==
  ASSUME Live, Busy, UNCHANGED <<setup, issued>>,
         exc' \in [kind : {"deadline"}, id : Ids, cut : SUBSET Ids], exc'.cut = Reported(lost'),
         flight' = Landed, UNCHANGED <<stack, outcome>>, raised' = TRUE, lost' \subseteq Pend
  PROVE  Live'
<1>1. /\ exc' \in [kind : {"none", "op", "deadline"}, id : Ids, cut : SUBSET Ids]
      /\ exc'.kind = "deadline" /\ lost' \subseteq Pend
  OBVIOUS
<1>2. Nested' /\ stack' \in Seq(Frames)
  BY NestedSame DEF Live, Busy
<1>3. TypeOK'
  BY <1>1, <1>2, RestTypes DEF Live, TypeOK
<1>4. Awaited'
  BY <1>1, RestTypes DEF Live, Awaited, Busy
<1>5. Unwinding'
  BY <1>1 DEF Unwinding
<1> QED
  BY <1>2, <1>3, <1>4, <1>5 DEF Live

LEMMA CutLive ==
  ASSUME Live, Busy, Cut, UNCHANGED <<setup, issued>>
  PROVE  Live'
<1>1. Top \in Frames /\ Top.todo # <<>>
  BY TopIs DEF Live, Busy, Calling
<1>2. Op \in Pend /\ Op.id \in Ids
  BY <1>1, OpIs DEF Op
<1>3. lost = {}
  BY DEF Live, Unwinding, Busy
<1>4. Reported({Op}) = IF UncertainWhenCut(Op) THEN {Op.id} ELSE {}
  BY DEF Reported
<1>5. /\ exc' = [kind |-> "deadline", id |-> Op.id,
                 cut |-> IF UncertainWhenCut(Op) THEN {Op.id} ELSE {}]
      /\ lost' = lost \cup {Op}
      /\ flight' = Landed /\ stack' = stack /\ outcome' = outcome /\ raised' = TRUE
  BY DEF Cut, Throw
<1>6. lost' = {Op} /\ lost' \subseteq Pend
  BY <1>2, <1>3, <1>5
<1>7. exc' \in [kind : {"deadline"}, id : Ids, cut : SUBSET Ids] /\ exc'.cut = Reported(lost')
  BY <1>2, <1>4, <1>5, <1>6
<1> QED
  BY <1>5, <1>6, <1>7, DeadlineLive

-------------------------------------------------------------------------------
(* The steps, one by one. *)

LEMMA ClearedBusy ==
  ASSUME Live, NEW kinds, Cleared(kinds)
  PROVE  Busy /\ setup' = setup /\ flight = Landed /\ Op.kind \in kinds
BY BusyAt DEF Cleared, AtOp

LEMMA RefusedLive == ASSUME Live, Refused PROVE Live'
BY BusyAt, RaiseLive DEF Refused

LEMMA LocalLive == ASSUME Live, Local PROVE Live'
BY ClearedBusy, FinishLive DEF Local

LEMMA AccumulateLive == ASSUME Live, Accumulate PROVE Live'
BY ClearedBusy, FinishLive, RaiseLive DEF Accumulate

LEMMA InlineLive == ASSUME Live, Inline PROVE Live'
BY ClearedBusy, RaiseLive DEF Inline

LEMMA PreviewLive == ASSUME Live, Preview PROVE Live'
BY ClearedBusy, FinishLive DEF Preview

LEMMA JsonParseLive == ASSUME Live, JsonParse PROVE Live'
BY ClearedBusy, FinishLive, FailLive DEF JsonParse

LEMMA UndeclaredLive == ASSUME Live, Undeclared PROVE Live'
BY ClearedBusy, RaiseLive DEF Undeclared

LEMMA DeniedLive == ASSUME Live, Denied PROVE Live'
BY ClearedBusy, FailLive DEF Denied

LEMMA PastDeadlineLive == ASSUME Live, PastDeadline PROVE Live'
<1>1. Busy /\ setup' = setup
  BY ClearedBusy DEF PastDeadline
<1>2. Op.id \in Ids /\ lost = {}
  BY <1>1 DEF Busy, Pend, Live, Unwinding
<1>3. /\ exc' = [NoExc EXCEPT !.kind = "deadline", !.id = Op.id]
      /\ flight' = Landed /\ UNCHANGED <<stack, outcome>> /\ raised' = TRUE
      /\ issued' = issued /\ lost' = lost
  BY DEF PastDeadline, Throw
<1>4. exc' \in [kind : {"deadline"}, id : Ids, cut : SUBSET Ids] /\ exc'.cut = Reported(lost')
  BY <1>2, <1>3 DEF NoExc, Reported
<1>5. lost' \subseteq Pend
  BY <1>2, <1>3
<1> QED
  BY <1>1, <1>3, <1>4, <1>5, DeadlineLive

\* What an op in flight has in hand.
LEMMA TimerType ==
  ASSUME Live, Busy
  PROVE  Timer(Top, Op) \in Time /\ Reserve(Top, Op) \in Nat
<1>1. Top \in Frames /\ Top.left \in Time /\ Sound(setup, Top) /\ setup \in Setup
  BY TopIs DEF Live, Busy, Frames, TypeOK
<1>2. Op.timeout \in Nat
  BY DEF Busy, Pend
<1>3. Code(Top.skill).timeout \in Nat
  <2>1. setup.store[Top.skill] \in DOMAIN Body
    BY <1>1, SetupIs DEF Sound
  <2> QED
    BY <2>1, Parsed DEF Code
<1>4. Reserve(Top, Op) \in Nat /\ (Top.left # Never => Top.left - Reserve(Top, Op) \in Nat)
  BY <1>1, Times DEF Reserve, Earlier, Time
<1>5. BaseTimeout(Top, Op) \in Nat
  BY <1>2, <1>3, Times DEF BaseTimeout
<1>6. (IF Top.left = Never THEN Never ELSE Top.left - Reserve(Top, Op)) \in Time
  BY <1>1, <1>4 DEF Time
<1> HIDE DEF Reserve, BaseTimeout
<1> QED
  BY <1>4, <1>5, <1>6, EarlierType DEF Timer, Time

LEMMA IssueLive == ASSUME Live, Issue PROVE Live'
<1>1. Busy /\ setup' = setup /\ Op.kind \in Effects \ {"skill", "json_parse"}
  BY ClearedBusy DEF Issue
<1>2. /\ UNCHANGED <<stack, exc, outcome, lost, raised>>
      /\ flight' = [phase |-> "open", timer |-> Timer(Top, Op), reserve |-> Reserve(Top, Op)]
      /\ issued' = issued \cup {Effect(Top, Op.id, Op.mutation /\ ~Op.approved)}
  BY DEF Issue
<1>3. /\ flight' \in [phase : {"idle", "open", "cleanup", "killed", "delivery"},
                      timer : Time, reserve : Nat]
      /\ flight'.phase = "open"
  BY <1>1, <1>2, TimerType
<1>4. Effect(Top, Op.id, Op.mutation /\ ~Op.approved)
        \in [id : Ids, skill : Skills, unconfirmed : BOOLEAN]
  <2>1. Top.skill \in Skills
    BY <1>1, TopIs DEF Live, Busy, Frames
  <2>2. Op.id \in Ids
    BY <1>1 DEF Busy, Pend
  <2>3. (Op.mutation /\ ~Op.approved) \in BOOLEAN
    OBVIOUS
  <2> QED
    BY <2>1, <2>2, <2>3 DEF Effect
<1>5. Nested'
  BY <1>1, <1>2, NestedSame DEF Live
<1>6. TypeOK'
  BY <1>1, <1>2, <1>3, <1>4 DEF Live, TypeOK
<1>7. Calling(stack[Len(stack)])
  BY <1>1, TopIs DEF Live, Busy
<1>8. Awaited'
  BY <1>1, <1>2, <1>3, <1>7 DEF Live, Awaited, Busy
<1>9. Unwinding'
  BY <1>1, <1>2 DEF Live, Unwinding, Busy
<1> QED
  BY <1>5, <1>6, <1>8, <1>9 DEF Live

LEMMA BeforeLive == ASSUME Live, Before PROVE Live'
BY RefusedLive, LocalLive, AccumulateLive, InlineLive, PreviewLive, JsonParseLive,
   PastDeadlineLive, UndeclaredLive, DeniedLive, IssueLive DEF Before

LEMMA FlightBusy ==
  ASSUME Live, NEW phases \in SUBSET {"open", "cleanup", "killed"}, InFlight(phases)
  PROVE  Busy /\ flight.phase \in phases /\ UNCHANGED <<setup, issued>>
BY BusyAt DEF InFlight

LEMMA SettlesLive == ASSUME Live, Settles PROVE Live'
<1>1. ASSUME Answered PROVE Live'
  BY <1>1, FlightBusy, FinishLive DEF Answered
<1>2. ASSUME ToolError PROVE Live'
  BY <1>2, FlightBusy, RaiseLive DEF ToolError
<1>3. ASSUME Rejected PROVE Live'
  <2>1. Busy /\ UNCHANGED <<setup, issued>>
    BY <1>3, FlightBusy DEF Rejected
  <2>2. Cut \/ Raise \/ Fail
    BY <1>3 DEF Rejected
  <2> QED
    BY <2>1, <2>2, CutLive, RaiseLive, FailLive
<1> QED
  BY <1>1, <1>2, <1>3 DEF Settles

\* An op's flight enters its next phase.
LEMMA PhaseLive ==
  ASSUME Live, Busy, NEW p \in {"cleanup", "killed"}, flight' = [flight EXCEPT !.phase = p],
         UNCHANGED <<setup, stack, exc, outcome, issued, lost, raised>>
  PROVE  Live'
<1>1. flight \in [phase : {"idle", "open", "cleanup", "killed", "delivery"},
                  timer : Time, reserve : Nat]
  BY DEF Live, TypeOK
<1>2. /\ flight' \in [phase : {"idle", "open", "cleanup", "killed", "delivery"},
                      timer : Time, reserve : Nat]
      /\ flight'.phase = p
  BY <1>1
<1>3. Nested'
  BY NestedSame DEF Live
<1>4. TypeOK'
  BY <1>2 DEF Live, TypeOK
<1>5. Calling(stack[Len(stack)])
  BY TopIs DEF Live, Busy
<1>6. Awaited'
  BY <1>2, <1>5 DEF Live, Awaited, Busy
<1>7. Unwinding'
  BY DEF Live, Unwinding, Busy
<1> QED
  BY <1>3, <1>4, <1>6, <1>7 DEF Live

LEMMA TimersLive == ASSUME Live, Timers PROVE Live'
<1>1. ASSUME ToolTimer PROVE Live'
  <2>1. Busy /\ UNCHANGED <<setup, issued>>
    BY <1>1, FlightBusy DEF ToolTimer
  <2>2. \/ /\ flight' = [flight EXCEPT !.phase = "cleanup"]
           /\ UNCHANGED <<stack, exc, outcome, lost, raised>>
        \/ Cut \/ Fail
    BY <1>1 DEF ToolTimer
  <2> QED
    BY <2>1, <2>2, PhaseLive, CutLive, FailLive
<1>2. ASSUME CleanedUp PROVE Live'
  BY <1>2, FlightBusy, CutLive DEF CleanedUp
<1>3. ASSUME ShellTimer PROVE Live'
  <2>1. Busy /\ UNCHANGED <<setup, issued>>
    BY <1>3, FlightBusy DEF ShellTimer
  <2>2. /\ flight' = [flight EXCEPT !.phase = "killed"]
        /\ UNCHANGED <<stack, exc, outcome, lost, raised>>
    BY <1>3 DEF ShellTimer
  <2> QED
    BY <2>1, <2>2, PhaseLive
<1>4. ASSUME ShellClosed PROVE Live'
  <2>1. Busy /\ UNCHANGED <<setup, issued>>
    BY <1>4, FlightBusy DEF ShellClosed
  <2>2. Cut \/ Fail
    BY <1>4 DEF ShellClosed
  <2> QED
    BY <2>1, <2>2, CutLive, FailLive
<1> QED
  BY <1>1, <1>2, <1>3, <1>4 DEF Timers

\* A block stands in the place of its op.
LEMMA DoLive ==
  ASSUME Live, Busy, NEW ops \in Seq(Pend), NEW m \in Pend, m.id = Op.id, m.kind # "item",
         Do(ops \o <<m>>), setup' = setup, flight = Landed
  PROVE  Live'
<1> DEFINE g == [Top EXCEPT !.todo = (ops \o <<m>>) \o Tail(@)]
<1>1. Sound(setup, Top) /\ setup \in Setup /\ Top.todo # <<>>
  BY TopIs DEF Live, Busy, TypeOK, Calling
<1>2. m.id = Head(Top.todo).id
  BY DEF Op
<1>3. Sound(setup, g) /\ Keeps(g, Top)
  BY <1>1, <1>2, DoSound
<1>4. stack' = WithTop(g) /\ UNCHANGED <<exc, flight, outcome, issued, lost, raised>>
  BY DEF Do
<1>5. exc.kind # "deadline" /\ exc' = NoExc /\ stack # <<>> /\ ~raised
  BY <1>4, RestTypes DEF Busy
<1> HIDE DEF g
<1> QED
  BY <1>3, <1>4, <1>5, AdvanceLive

LEMMA IfLive == ASSUME Live, If PROVE Live'
<1>1. Busy /\ setup' = setup /\ flight = Landed
  BY ClearedBusy DEF If
<1>2. CASE Raise /\ UNCHANGED issued
  BY <1>1, <1>2, RaiseLive
<1>3. ASSUME NEW branch \in {Op.body, Op.orelse}, Do(branch \o <<[Op EXCEPT !.kind = "local"]>>)
      PROVE  Live'
  <2> DEFINE m == [Op EXCEPT !.kind = "local"]
  <2>1. Op \in Pend /\ branch \in Seq(Ops)
    BY <1>1 DEF Busy, Pend
  <2>2. branch \in Seq(Pend)
    BY <2>1, OpsPend
  <2>3. m \in Pend /\ m.id = Op.id /\ m.kind = "local"
    BY <2>1, MarkersPend
  <2>4. Do(branch \o <<m>>)
    BY <1>3
  <2> HIDE DEF m
  <2> QED
    BY <1>1, <2>2, <2>3, <2>4, DoLive
<1> QED
  BY <1>2, <1>3 DEF If

LEMMA ForeachLive == ASSUME Live, Foreach PROVE Live'
<1>1. Busy /\ setup' = setup /\ flight = Landed
  BY ClearedBusy DEF Foreach
<1> DEFINE round == <<[Op EXCEPT !.kind = "item", !.uses = {}]>> \o Op.body
           m == [Op EXCEPT !.kind = "end", !.uses = {}, !.out = Top.bound]
<1>2. PICK n \in Nat : Do(Rounds(n, round) \o <<m>>)
  <2>1. (IF Op.uses \subseteq Top.bound THEN 0..MaxItems ELSE {0}) \subseteq Nat
    BY Times
  <2> QED
    BY <2>1 DEF Foreach
<1>3. Op \in Pend /\ Op.body \in Seq(Ops)
  BY <1>1 DEF Busy, Pend
<1>4. Top.bound \in SUBSET Var
  BY <1>1, TopIs DEF Live, Busy, Frames
<1>5. m \in Pend /\ m.id = Op.id /\ m.kind = "end"
  BY <1>3, <1>4, MarkersPend
<1>6. round \in Seq(Pend) /\ round # <<>>
  <2> DEFINE i == [Op EXCEPT !.kind = "item", !.uses = {}]
  <2>1. i \in Pend
    BY <1>3, MarkersPend
  <2>2. Op.body \in Seq(Pend)
    BY <1>3, OpsPend
  <2> HIDE DEF i
  <2>3. <<i>> \o Op.body \in Seq(Pend) /\ Len(<<i>> \o Op.body) = 1 + Len(Op.body)
    BY <2>1, <2>2
  <2>4. Len(Op.body) \in Nat
    BY <2>2
  <2>5. <<i>> \o Op.body # <<>>
    BY <2>3, <2>4
  <2> QED
    BY <2>3, <2>5 DEF i
<1> HIDE DEF round, m
<1>7. Rounds(n, round) \in Seq(Pend)
  BY <1>6, RoundsType
<1> QED
  BY <1>1, <1>2, <1>5, <1>7, DoLive

LEMMA ItemLive == ASSUME Live, Item PROVE Live'
<1>1. Busy /\ setup' = setup /\ flight = Landed /\ Op.kind = "item"
  BY ClearedBusy DEF Item
<1> DEFINE g == [Top EXCEPT !.todo = Tail(@), !.bound = @ \cup Head(Top.todo).out]
<1>2. Sound(setup, Top) /\ setup \in Setup /\ Top.todo # <<>>
  BY <1>1, TopIs DEF Live, Busy, TypeOK, Calling
<1>3. Sound(setup, g) /\ Keeps(g, Top)
  BY <1>1, <1>2, ItemSound DEF Op
<1>4. stack' = WithTop(g) /\ UNCHANGED <<exc, flight, outcome, issued, lost, raised>>
  BY DEF Item, Op
<1>5. exc.kind # "deadline" /\ exc' = NoExc /\ stack # <<>> /\ ~raised
  BY <1>1, <1>4, RestTypes DEF Busy
<1> HIDE DEF g
<1> QED
  BY <1>1, <1>3, <1>4, <1>5, AdvanceLive

LEMMA EndForeachLive == ASSUME Live, EndForeach PROVE Live'
<1>1. Busy /\ setup' = setup /\ flight = Landed
  BY ClearedBusy DEF EndForeach
<1> DEFINE g == [Top EXCEPT !.todo = Tail(@), !.bound = Head(Top.todo).out,
                            !.done = @ \cup {Head(Top.todo).id}]
<1>2. Sound(setup, Top) /\ setup \in Setup /\ Top.todo # <<>>
  BY <1>1, TopIs DEF Live, Busy, TypeOK, Calling
<1>3. Sound(setup, g) /\ Keeps(g, Top)
  BY <1>2, EndSound
<1>4. stack' = WithTop(g) /\ UNCHANGED <<exc, flight, outcome, issued, lost, raised>>
  BY DEF EndForeach, Op
<1>5. exc.kind # "deadline" /\ exc' = NoExc /\ stack # <<>> /\ ~raised
  BY <1>1, <1>4, RestTypes DEF Busy
<1> HIDE DEF g
<1> QED
  BY <1>1, <1>3, <1>4, <1>5, AdvanceLive

LEMMA ComposeLive == ASSUME Live, Compose PROVE Live'
<1>1. Busy /\ setup' = setup /\ flight = Landed /\ issued' = issued
  BY ClearedBusy DEF Compose
<1>2. CASE TooDeep(Top) \/ ~Composable(Op.child)
  <2>1. Fail
    BY <1>2 DEF Compose
  <2> QED
    BY <1>1, <2>1, FailLive
<1>3. CASE ~(TooDeep(Top) \/ ~Composable(Op.child))
  <2> DEFINE g == Frame(Op.child, Top.depth + 1, FALSE, TRUE, Top.left)
  <2>1. /\ stack' = Append(stack, g) /\ UNCHANGED <<exc, flight, outcome, lost, raised>>
    BY <1>3 DEF Compose
  <2>2. Op.child \in DOMAIN setup.store /\ setup.approved[Op.child]
    BY <1>3 DEF Composable
  <2>3. Top.depth + 1 \in Nat /\ Top.depth + 1 # 0 /\ Top.left \in Time
    BY <1>1, TopIs DEF Live, Busy, Frames
  <2>4. /\ Sound(setup, g) /\ Fresh(g) /\ g.depth = Top.depth + 1 /\ g.runRoot = FALSE
        /\ Earlier(g.left, Top.left) = g.left
    <3>1. setup \in Setup
      BY DEF Live, TypeOK
    <3>2. PICK yes \in BOOLEAN, no \in BOOLEAN : yes = TRUE /\ no = FALSE
      OBVIOUS
    <3>3. g = Frame(Op.child, Top.depth + 1, no, yes, Top.left)
      BY <3>2
    <3>4. yes /\ setup.secured => setup.approved[Op.child]
      BY <2>2
    <3> DEFINE s == Op.child
               d == Top.depth + 1
               t == Top.left
    <3>5. s \in DOMAIN setup.store /\ d \in Nat /\ t \in Time
      BY <2>2, <2>3
    <3>6. (yes /\ setup.secured => setup.approved[s]) /\ g = Frame(s, d, no, yes, t)
      BY <3>3, <3>4
    <3> HIDE DEF g, s, d, t
    <3>7. /\ Sound(setup, g) /\ Fresh(g) /\ g.depth = d /\ g.runRoot = no
          /\ Earlier(g.left, t) = g.left
      BY <3>1, <3>5, <3>6, FrameSound
    <3> QED
      BY <3>2, <3>7 DEF s, d, t
  <2>5. ~IsRoot(g)
    BY <2>3, <2>4 DEF IsRoot
  <2> HIDE DEF g
  <2>6. Nested' /\ stack' \in Seq(Frames) /\ stack' # <<>>
    BY <1>1, <2>1, <2>4, <2>5, NestedPush DEF Live, Busy
  <2>7. TypeOK'
    BY <1>1, <2>1, <2>6 DEF Live, TypeOK
  <2>8. Awaited'
    BY <1>1, <2>1, <2>6, RestTypes DEF Live, Awaited, Busy
  <2>9. Unwinding'
    BY <1>1, <2>1 DEF Live, Unwinding, Busy
  <2> QED
    BY <2>6, <2>7, <2>8, <2>9 DEF Live
<1> QED
  BY <1>2, <1>3

LEMMA BlockLive == ASSUME Live, Block PROVE Live'
BY IfLive, ForeachLive, ItemLive, EndForeachLive, ComposeLive DEF Block

\* Between steps the top frame is there.
LEMMA BetweenIs ==
  ASSUME Live, Between
  PROVE  /\ stack # <<>> /\ Sound(setup, Top) /\ setup \in Setup /\ Top \in Frames
         /\ Len(stack) \in Nat \ {0} /\ Top = stack[Len(stack)]
         /\ outcome = Running /\ flight' = Landed /\ flight = Landed
         /\ UNCHANGED <<setup, issued, lost, raised>>
         /\ exc.kind = "op" => ~raised
         /\ exc.kind = "none" /\ raised =>
              Len(stack) = 1 /\ Top.expired /\ Top.part \in {"render", "deliver", "return"}
         /\ exc.kind = "deadline" => raised /\ exc.cut = Reported(lost)
<1>1. /\ stack # <<>> /\ outcome = Running /\ flight' = Landed /\ flight = Landed
      /\ UNCHANGED <<setup, issued, lost, raised>>
  BY DEF Between, Live, Awaited
<1>2. /\ Sound(setup, Top) /\ setup \in Setup /\ Top \in Frames
      /\ Len(stack) \in Nat \ {0} /\ Top = stack[Len(stack)]
  BY <1>1, TopIs DEF Live, TypeOK
<1>3. /\ exc.kind = "op" => ~raised
      /\ exc.kind = "deadline" => raised /\ exc.cut = Reported(lost)
  BY <1>1, RestTypes DEF Live, Unwinding
<1>4. exc.kind = "none" /\ raised =>
        Len(stack) = 1 /\ Top.expired /\ Top.part \in {"render", "deliver", "return"}
  BY <1>1, <1>2 DEF Live, Unwinding
<1> QED
  BY <1>1, <1>2, <1>3, <1>4

LEMMA TargetDoneLive == ASSUME Live, TargetDone PROVE Live'
<1>1. Between /\ exc = NoExc /\ exc.kind = "none" /\ exc' = exc /\ outcome' = outcome
  BY RestTypes DEF TargetDone
<1> DEFINE g == NextTarget(Top)
<1>2. /\ Top.part \in {"ops", "else"} /\ Top.todo = <<>> /\ stack' = WithTop(g)
  BY DEF TargetDone
<1>3. Sound(setup, g) /\ Keeps(g, Top)
  BY <1>1, <1>2, BetweenIs, NextTargetSound
<1>4. ~raised
  BY <1>1, <1>2, BetweenIs
<1> HIDE DEF g
<1> QED
  BY <1>1, <1>2, <1>3, <1>4, BetweenIs, AdvanceLive

LEMMA TargetFailedLive == ASSUME Live, TargetFailed PROVE Live'
<1>1. Between /\ exc.kind = "op" /\ exc' = NoExc /\ outcome' = outcome
  BY DEF TargetFailed
<1>2. Top.part \in {"ops", "else"} /\ Sound(setup, Top) /\ setup \in Setup /\ ~raised
  BY <1>1, BetweenIs DEF Live, Awaited
<1> DEFINE f == [Top EXCEPT !.errors = WithError(Top)]
<1>3. WithError(Top) \in SUBSET Ids /\ WithError(Top) # {}
  BY <1>1, BetweenIs DEF WithError, Frames, Live, TypeOK
<1>4. /\ Sound(setup, f) /\ Keeps(f, Top) /\ f.errors = WithError(Top) /\ f.part = Top.part
  BY <1>2, <1>3, ErrorSound
<1>5. \/ /\ Top.part = "else" /\ stack' = WithTop(NextTarget(f))
      \/ stack' = WithTop(Enter(f, "else", Target(f).orelse))
      \/ stack' = WithTop(Enter(f, "render", <<>>))
  BY DEF TargetFailed
<1> HIDE DEF f
<1>6. PICK g : Sound(setup, g) /\ Keeps(g, f) /\ stack' = WithTop(g)
  <2>1. CASE stack' = WithTop(NextTarget(f))
    <3>1. Sound(setup, NextTarget(f)) /\ Keeps(NextTarget(f), f)
      BY <1>2, <1>3, <1>4, NextTargetSound
    <3> QED
      BY <2>1, <3>1
  <2>2. CASE stack' = WithTop(Enter(f, "else", Target(f).orelse))
    <3> DEFINE todo == Target(f).orelse
    <3>1. todo \in Seq(Pend)
      <4>1. f.skill \in DOMAIN setup.store /\ f.target \in 1..Len(CodeOf(setup, f.skill).targets)
        BY <1>4 DEF Sound
      <4>2. todo = CodeOf(setup, f.skill).targets[f.target].orelse
        BY DEF Target, Code, CodeOf
      <4>3. CodeOf(setup, f.skill).targets[f.target].orelse \in Seq(Ops)
        BY <1>2, <4>1, CodeIs
      <4> QED
        BY <4>2, <4>3, OpsPend
    <3> HIDE DEF todo
    <3>2. Sound(setup, Enter(f, "else", todo)) /\ Keeps(Enter(f, "else", todo), f)
      BY <1>2, <1>3, <1>4, <3>1, EnterAfterError
    <3> QED
      BY <2>2, <3>2 DEF todo
  <2>3. CASE stack' = WithTop(Enter(f, "render", <<>>))
    <3>1. <<>> \in Seq(Pend)
      OBVIOUS
    <3>2. Sound(setup, Enter(f, "render", <<>>)) /\ Keeps(Enter(f, "render", <<>>), f)
      BY <1>2, <1>3, <1>4, <3>1, EnterAfterError
    <3> QED
      BY <2>3, <3>2
  <2> QED
    BY <1>5, <2>1, <2>2, <2>3
<1>7. Keeps(g, Top)
  BY <1>4, <1>6 DEF Keeps, Stays
<1> QED
  BY <1>1, <1>2, <1>6, <1>7, BetweenIs, AdvanceLive

\* The caller of the top frame waits at a composing op.
LEMMA CallerIs ==
  ASSUME Live, Len(stack) > 1, NEW f, f = stack[Len(stack) - 1]
  PROVE  /\ ~raised \/ exc.kind = "deadline"
         /\ Sound(setup, f) /\ setup \in Setup /\ f \in Frames /\ Calling(f)
         /\ Head(f.todo) \in Pend
         /\ Sound(setup, Finished(f, Head(f.todo))) /\ Keeps(Finished(f, Head(f.todo)), f)
<1>1. stack \in Seq(Frames) /\ Len(stack) \in Nat /\ setup \in Setup
  BY DEF Live, TypeOK
<1>2. Len(stack) - 1 \in 1..Len(stack) /\ Len(stack) - 1 < Len(stack) /\ stack # <<>>
  BY <1>1
<1>3. Sound(setup, f) /\ Calling(f)
  BY <1>2 DEF Live, Nested
<1>4. f \in Frames /\ Head(f.todo) \in Pend /\ f.todo # <<>>
  BY <1>3, OpIs DEF Sound, Calling
<1>5. Sound(setup, Finished(f, Head(f.todo))) /\ Keeps(Finished(f, Head(f.todo)), f)
  BY <1>1, <1>3, <1>4, FinishedSound
<1>6. ~raised \/ exc.kind = "deadline"
  <2>1. PICK k \in Nat : k = Len(stack)
    BY <1>1
  <2>2. k > 1 => k # 1
    OBVIOUS
  <2>3. Len(stack) # 1
    BY <2>1, <2>2
  <2> QED
    BY <1>2, <2>3 DEF Live, Unwinding
<1> QED
  BY <1>1, <1>3, <1>4, <1>5, <1>6

\* The caller goes on after its op.
LEMMA CallerLive ==
  ASSUME Live, Between, Len(stack) > 1, exc.kind # "deadline", exc' = NoExc, outcome' = outcome,
         stack' = [Front(stack) EXCEPT ![Len(stack) - 1] =
                     Finished(stack[Len(stack) - 1], Head(stack[Len(stack) - 1].todo))]
  PROVE  Live'
<1> DEFINE f == stack[Len(stack) - 1]
           g == Finished(f, Head(f.todo))
<1>1. Sound(setup, g) /\ Keeps(g, f) /\ ~raised
  BY CallerIs
<1>2. stack' = [Front(stack) EXCEPT ![Len(stack) - 1] = g]
  OBVIOUS
<1>3. /\ outcome = Running /\ flight' = Landed /\ UNCHANGED <<setup, issued, lost, raised>>
  BY BetweenIs
<1> HIDE DEF g
<1>4. Nested' /\ stack' \in Seq(Frames) /\ stack' # <<>>
  BY <1>1, <1>2, <1>3, NestedReturn DEF Live
<1>5. TypeOK'
  BY <1>3, <1>4, RestTypes DEF Live, TypeOK
<1>6. Awaited'
  BY <1>3, <1>4, RestTypes DEF Live, Awaited
<1>7. Unwinding'
  BY <1>1, <1>3, RestTypes DEF Live, Unwinding
<1> QED
  BY <1>4, <1>5, <1>6, <1>7 DEF Live

\* The outermost run is left.
LEMMA LeaveLive ==
  ASSUME Live, Between, exc.kind = "none", exc' = exc, stack' = <<>>,
         outcome' \in [kind : {"threw", "returned"}, errors : SUBSET Ids,
                       expired : BOOLEAN, uncertain : SUBSET Ids]
  PROVE  Live'
<1>1. /\ flight' = Landed /\ UNCHANGED <<setup, issued, lost, raised>>
  BY BetweenIs
<1>2. Nested' /\ stack' \in Seq(Frames)
  BY NestedEmpty
<1>3. /\ outcome' \in [kind : {"running", "threw", "returned"}, errors : SUBSET Ids,
                       expired : BOOLEAN, uncertain : SUBSET Ids]
      /\ outcome'.kind # "running"
  OBVIOUS
<1>4. TypeOK'
  BY <1>1, <1>2, <1>3, RestTypes DEF Live, TypeOK
<1>5. Awaited'
  BY <1>1, <1>3, RestTypes DEF Live, Awaited
<1>6. Unwinding'
  BY <1>1 DEF Live, Unwinding
<1> QED
  BY <1>2, <1>4, <1>5, <1>6 DEF Live

\* A nested run lets the exception pass.
LEMMA PopLive ==
  ASSUME Live, Between, Len(stack) > 1, stack' = Front(stack), outcome' = outcome,
         \/ exc.kind = "deadline" /\ exc' = exc
         \/ /\ exc.kind # "deadline"
            /\ exc' = [NoExc EXCEPT !.kind = "op", !.id = Head(stack[Len(stack) - 1].todo).id]
  PROVE  Live'
<1> DEFINE f == stack[Len(stack) - 1]
<1>1. /\ ~raised \/ exc.kind = "deadline"
      /\ Calling(f) /\ Head(f.todo) \in Pend
  BY CallerIs
<1>2. /\ outcome = Running /\ flight' = Landed /\ UNCHANGED <<setup, issued, lost, raised>>
      /\ Len(stack) \in Nat
      /\ exc.kind = "deadline" => raised /\ exc.cut = Reported(lost)
  BY BetweenIs
<1>3. /\ Nested' /\ stack' \in Seq(Frames) /\ Len(stack') = Len(stack) - 1
      /\ \A i \in 1..(Len(stack) - 1) : stack'[i] = stack[i]
  BY <1>2, NestedPop DEF Live
<1>4. stack' # <<>> /\ stack'[Len(stack')] = f
  BY <1>2, <1>3
<1>5. Head(f.todo).id \in Ids
  BY <1>1 DEF Pend
<1> HIDE DEF f
<1>6. /\ exc' \in [kind : {"none", "op", "deadline"}, id : Ids, cut : SUBSET Ids]
      /\ \/ exc.kind = "deadline" /\ exc'.kind = "deadline" /\ exc'.cut = Reported(lost)
         \/ exc.kind # "deadline" /\ exc'.kind = "op"
  <2>1. CASE exc.kind = "deadline" /\ exc' = exc
    BY <2>1, <1>2 DEF Live, TypeOK
  <2>2. CASE /\ exc.kind # "deadline" /\ exc' = [NoExc EXCEPT !.kind = "op", !.id = Head(f.todo).id]
    BY <2>2, <1>5 DEF NoExc
  <2> QED
    BY <2>1, <2>2 DEF f
<1>7. TypeOK'
  BY <1>2, <1>3, <1>6, RestTypes DEF Live, TypeOK
<1>8. Awaited'
  BY <1>1, <1>2, <1>4, <1>6, RestTypes DEF Live, Awaited, Calling
<1>9. Unwinding'
  BY <1>1, <1>2, <1>6 DEF Live, Unwinding
<1> QED
  BY <1>3, <1>7, <1>8, <1>9 DEF Live

LEMMA RunBoundaryLive == ASSUME Live, RunBoundary PROVE Live'
<1>1. Between /\ exc.kind = "deadline"
  BY DEF RunBoundary
<1>2. /\ raised /\ exc.cut = Reported(lost) /\ Sound(setup, Top) /\ setup \in Setup /\ Top \in Frames
      /\ Len(stack) \in Nat \ {0} /\ Top = stack[Len(stack)] /\ stack # <<>>
      /\ outcome = Running /\ flight' = Landed /\ UNCHANGED <<setup, issued, lost, raised>>
  BY <1>1, BetweenIs
<1>3. IsRoot(Top) <=> Len(stack) = 1
  <2>1. Len(stack) \in 1..Len(stack)
    BY <1>2
  <2>2. IsRoot(stack[Len(stack)]) <=> Len(stack) = 1
    BY <2>1 DEF Live, Nested
  <2> QED
    BY <1>2, <2>2
<1>4. CASE IsRoot(Top)
  <2> DEFINE e == Enter(Top, "render", <<>>)
             g == [e EXCEPT !.expired = TRUE, !.uncertain = exc.cut, !.errors = @ \cup {exc.id}]
  <2>1. stack' = WithTop(g) /\ exc' = NoExc /\ outcome' = outcome
    BY <1>4 DEF RunBoundary
  <2>2. exc.id \in Ids /\ exc.cut \in SUBSET Ids
    BY DEF Live, TypeOK
  <2>3. <<>> \in Seq(Pend)
    OBVIOUS
  <2>4. e \in Frames /\ e.errors = Top.errors
    BY <1>2, <2>3 DEF Frames, Enter
  <2>5. /\ e.skill = Top.skill /\ e.depth = Top.depth /\ e.runRoot = Top.runRoot
        /\ e.left = Top.left /\ e.auth = Top.auth /\ e.target = Top.target /\ e.part = "render"
    BY <1>2 DEF Frames, Enter
  <2> HIDE DEF e
  <2>6. /\ g \in Frames /\ g.skill = e.skill /\ g.depth = e.depth /\ g.runRoot = e.runRoot
        /\ g.left = e.left /\ g.auth = e.auth /\ g.target = e.target /\ g.part = e.part
        /\ g.expired = TRUE /\ g.uncertain = exc.cut /\ g.errors = e.errors \cup {exc.id}
    BY <2>2, <2>4 DEF Frames
  <2> HIDE DEF g
  <2>7. Stays(g, Top)
    BY <2>5, <2>6 DEF Stays
  <2>8. Sound(setup, g)
    BY <1>2, <2>5, <2>6 DEF Sound, Complete
  <2>9. /\ Nested' /\ stack' \in Seq(Frames) /\ Len(stack') = Len(stack)
        /\ stack'[Len(stack)] = g
    BY <1>2, <2>1, <2>7, <2>8, NestedTop DEF Live
  <2>10. stack' # <<>>
    BY <1>2, <2>9
  <2>11. TypeOK'
    BY <1>2, <2>1, <2>9, RestTypes DEF Live, TypeOK
  <2>12. Awaited'
    BY <1>2, <2>1, <2>10, RestTypes DEF Live, Awaited
  <2>13. Unwinding'
    BY <1>2, <1>3, <1>4, <2>1, <2>5, <2>6, <2>9 DEF Unwinding
  <2> QED
    BY <2>9, <2>11, <2>12, <2>13 DEF Live
<1>5. CASE ~IsRoot(Top)
  <2>1. Len(stack) # 1 /\ Len(stack) > 1
    <3>1. Len(stack) # 1
      BY <1>3, <1>5
    <3>2. PICK k \in Nat \ {0} : k = Len(stack)
      BY <1>2
    <3>3. k # 1 => k > 1
      OBVIOUS
    <3> QED
      BY <3>1, <3>2, <3>3
  <2>2. stack' = Front(stack) /\ exc' = exc /\ outcome' = outcome
    BY <1>5, <2>1 DEF RunBoundary
  <2> QED
    BY <1>1, <2>1, <2>2, PopLive
<1> QED
  BY <1>4, <1>5

LEMMA RenderLive == ASSUME Live, Render PROVE Live'
<1>1. Between /\ exc = NoExc /\ exc.kind = "none" /\ Top.part = "render"
  BY RestTypes DEF Render
<1>2. /\ Sound(setup, Top) /\ setup \in Setup /\ stack # <<>>
      /\ flight' = Landed /\ UNCHANGED <<setup, issued, lost, raised>>
  BY <1>1, BetweenIs
<1> DEFINE g == Enter(Top, "deliver", <<>>)
<1>3. stack' = WithTop(g) /\ UNCHANGED <<exc, outcome>>
  BY DEF Render
<1>4. Sound(setup, g) /\ Keeps(g, Top) /\ g.part = "deliver"
  BY <1>1, <1>2, EnterAfterLoop
<1> HIDE DEF g
<1> QED
  BY <1>1, <1>2, <1>3, <1>4, AdvanceLive

LEMMA UnresolvedLive == ASSUME Live, Unresolved PROVE Live'
<1>1. Between /\ exc = NoExc /\ exc.kind = "none"
  BY RestTypes DEF Unresolved
<1>2. CASE Len(stack) > 1
  <2> DEFINE f == stack[Len(stack) - 1]
  <2>1. ChildThrew /\ outcome' = outcome
    BY <1>2 DEF Unresolved
  <2>2. CASE Head(f.todo).fallback
    <3>1. /\ stack' = [Front(stack) EXCEPT ![Len(stack) - 1] = Finished(f, Head(f.todo))]
          /\ exc' = NoExc
      BY <2>1, <2>2 DEF ChildThrew
    <3> QED
      BY <1>1, <1>2, <2>1, <3>1, CallerLive
  <2>3. CASE ~Head(f.todo).fallback
    <3>1. /\ stack' = Front(stack)
          /\ exc' = [NoExc EXCEPT !.kind = "op", !.id = Head(f.todo).id]
      BY <2>1, <2>3 DEF ChildThrew
    <3> QED
      BY <1>1, <1>2, <2>1, <3>1, PopLive
  <2> QED
    BY <2>2, <2>3
<1>3. CASE ~(Len(stack) > 1)
  <2>1. stack' = <<>> /\ Escape /\ exc' = exc
    BY <1>3 DEF Unresolved
  <2>2. outcome' \in [kind : {"threw", "returned"}, errors : SUBSET Ids,
                      expired : BOOLEAN, uncertain : SUBSET Ids]
    BY <2>1 DEF Escape, Running
  <2> QED
    BY <1>1, <2>1, <2>2, LeaveLive
<1> QED
  BY <1>2, <1>3

LEMMA DeliverLive == ASSUME Live, Deliver PROVE Live'
<1>1. /\ exc = NoExc /\ exc.kind = "none" /\ flight = Landed /\ outcome.kind = "running"
      /\ Top.part = "deliver" /\ ~Top.expired
  BY RestTypes DEF Deliver, Delivers
<1>2. stack # <<>>
  BY <1>1 DEF Live, Awaited
<1>3. /\ Len(stack) \in Nat \ {0} /\ Top = stack[Len(stack)] /\ Top \in Frames
      /\ Sound(setup, Top) /\ setup \in Setup
  BY <1>2, TopIs DEF Live, TypeOK
<1>4. ~raised
  BY <1>1, <1>2, <1>3 DEF Live, Unwinding
<1> DEFINE g == Enter(Top, "return", <<>>)
<1>5. /\ stack' = WithTop(g) /\ flight' = [Landed EXCEPT !.phase = "delivery"]
      /\ issued' = issued \cup {Effect(Top, "delivery", FALSE)}
      /\ UNCHANGED <<setup, exc, outcome, lost, raised>>
  BY DEF Deliver
<1>6. Sound(setup, g) /\ Keeps(g, Top)
  BY <1>1, <1>3, EnterAfterLoop
<1>7. Fresh(g)
  BY <1>3, <1>4, <1>6 DEF Live, Nested, Fresh, Keeps
<1> HIDE DEF g
<1>8. Nested' /\ stack' \in Seq(Frames) /\ Len(stack') = Len(stack)
  BY <1>2, <1>4, <1>5, <1>6, <1>7, NestedTop DEF Live, Keeps
<1>9. /\ flight' \in [phase : {"idle", "open", "cleanup", "killed", "delivery"},
                      timer : Time, reserve : Nat]
      /\ flight'.phase = "delivery"
  BY <1>5 DEF Landed, Time
<1>10. Effect(Top, "delivery", FALSE) \in [id : Ids, skill : Skills, unconfirmed : BOOLEAN]
  <2>1. Top.skill \in Skills /\ "delivery" \in Ids
    BY <1>3 DEF Frames, Ids
  <2> QED
    BY <2>1 DEF Effect
<1>11. TypeOK'
  BY <1>5, <1>8, <1>9, <1>10 DEF Live, TypeOK
<1>12. stack' # <<>>
  BY <1>3, <1>8
<1>13. Awaited'
  BY <1>1, <1>5, <1>9, <1>12 DEF Live, Awaited
<1>14. Unwinding'
  BY <1>4, <1>5 DEF Live, Unwinding
<1> QED
  BY <1>8, <1>11, <1>13, <1>14 DEF Live

LEMMA DeliveredLive == ASSUME Live, Delivered PROVE Live'
<1>1. flight.phase = "delivery" /\ flight' = Landed /\ UNCHANGED <<setup, issued>>
  BY DEF Delivered, InFlight
<1>2. UNCHANGED <<stack, exc, outcome, lost, raised>>
  BY DEF Delivered
<1>3. Nested'
  BY <1>1, <1>2, NestedSame DEF Live
<1>4. TypeOK'
  BY <1>1, <1>2, RestTypes DEF Live, TypeOK
<1>5. Awaited'
  BY <1>1, <1>2, RestTypes DEF Live, Awaited
<1>6. Unwinding'
  BY <1>1, <1>2 DEF Live, Unwinding
<1> QED
  BY <1>3, <1>4, <1>5, <1>6 DEF Live

LEMMA ReturnLive == ASSUME Live, Return PROVE Live'
<1>1. Between /\ exc = NoExc /\ exc.kind = "none" /\ exc' = exc
  BY RestTypes DEF Return
<1>2. Top \in Frames /\ outcome = Running
  BY <1>1, BetweenIs
<1>3. CASE Len(stack) > 1
  <2>1. /\ stack' = [Front(stack) EXCEPT ![Len(stack) - 1] =
                       Finished(stack[Len(stack) - 1], Head(stack[Len(stack) - 1].todo))]
        /\ outcome' = outcome
    BY <1>3 DEF Return
  <2> QED
    BY <1>1, <1>3, <2>1, CallerLive
<1>4. CASE ~(Len(stack) > 1)
  <2>1. /\ stack' = <<>>
        /\ outcome' = [kind |-> "returned", errors |-> Top.errors,
                       expired |-> Top.expired, uncertain |-> Top.uncertain]
    BY <1>4 DEF Return
  <2>2. Top.errors \in SUBSET Ids /\ Top.expired \in BOOLEAN /\ Top.uncertain \in SUBSET Ids
    BY <1>2 DEF Frames
  <2>3. outcome' \in [kind : {"threw", "returned"}, errors : SUBSET Ids,
                      expired : BOOLEAN, uncertain : SUBSET Ids]
    BY <2>1, <2>2
  <2> QED
    BY <1>1, <2>1, <2>3, LeaveLive
<1> QED
  BY <1>3, <1>4

LEMMA WayLive == ASSUME Live, Way PROVE Live'
BY TargetDoneLive, TargetFailedLive, RunBoundaryLive, RenderLive, UnresolvedLive, DeliverLive,
   DeliveredLive, ReturnLive DEF Way

LEMMA TickLive == ASSUME Live, Tick PROVE Live'
<1>1. /\ stack' = [i \in DOMAIN stack |-> [stack[i] EXCEPT !.left = Sooner(@)]]
      /\ flight' = [flight EXCEPT !.timer = Sooner(@)]
      /\ UNCHANGED <<setup, exc, outcome, issued, lost, raised>>
  BY DEF Tick
<1>2. /\ Nested' /\ stack' \in Seq(Frames) /\ Len(stack') = Len(stack)
      /\ \A i \in 1..Len(stack) :
           /\ stack'[i].part = stack[i].part /\ stack'[i].todo = stack[i].todo
           /\ stack'[i].expired = stack[i].expired /\ stack'[i].uncertain = stack[i].uncertain
  BY <1>1, NestedTick DEF Live
<1>3. Len(stack) \in Nat /\ (stack = <<>> <=> Len(stack) = 0) /\ (stack' = <<>> <=> Len(stack') = 0)
  BY <1>2 DEF Live, TypeOK
<1>4. flight \in [phase : {"idle", "open", "cleanup", "killed", "delivery"},
                  timer : Time, reserve : Nat]
  BY DEF Live, TypeOK
<1>5. Sooner(flight.timer) \in Time /\ Sooner(Never) = Never
  BY <1>4, SoonerType DEF Sooner
<1>6. /\ flight' \in [phase : {"idle", "open", "cleanup", "killed", "delivery"},
                      timer : Time, reserve : Nat]
      /\ flight'.phase = flight.phase
  <2> HIDE DEF Sooner
  <2> QED
    BY <1>1, <1>4, <1>5
<1>7. flight = Landed => flight' = Landed
  <2> SUFFICES ASSUME flight = Landed PROVE flight' = Landed
    OBVIOUS
  <2>1. flight' = [Landed EXCEPT !.timer = Sooner(Never)]
    BY <1>1 DEF Landed
  <2> QED
    BY <1>5, <2>1 DEF Landed
<1>8. TypeOK'
  BY <1>1, <1>2, <1>6 DEF Live, TypeOK
<1>9. stack # <<>> => stack'[Len(stack')].part = stack[Len(stack)].part
                      /\ stack'[Len(stack')].todo = stack[Len(stack)].todo
  BY <1>2, <1>3
<1>10. Awaited'
  BY <1>1, <1>2, <1>3, <1>6, <1>7, <1>9, RestTypes DEF Live, Awaited, Calling
<1>11. Unwinding'
  <2>1. CASE ~raised
    BY <1>1, <2>1 DEF Live, Unwinding
  <2>2. CASE raised
    BY <1>1, <1>2, <1>3, <1>7, <2>2 DEF Live, Unwinding
  <2> QED
    BY <2>1, <2>2
<1> QED
  BY <1>2, <1>8, <1>10, <1>11 DEF Live

LEMMA NextLive == ASSUME Live, [Next]_vars PROVE Live'
<1>1. CASE UNCHANGED vars
  <2>1. Nested'
    BY <1>1, NestedSame DEF Live, vars
  <2> QED
    BY <1>1, <2>1 DEF Live, vars, TypeOK, Awaited, Unwinding
<1> QED
  BY <1>1, BlockLive, BeforeLive, TimersLive, WayLive, SettlesLive, TickLive DEF Next

-------------------------------------------------------------------------------
(* The theorems. *)

LEMMA InitLive == Init => Live /\ OwnAuthority /\ CutReported
<1> SUFFICES ASSUME Init PROVE Live /\ OwnAuthority /\ CutReported
  OBVIOUS
<1>1. setup \in Setup /\ stack = <<FirstFrame>> /\ exc = NoExc /\ flight = Landed
  BY DEF Init
<1>2. outcome = Running /\ issued = {} /\ lost = {} /\ raised = FALSE
  BY DEF Init
<1> DEFINE s == setup.skill
           g == FirstFrame
<1>3. /\ s \in DOMAIN setup.store /\ setup.entry \in {"trigger", "name", "source"}
      /\ setup.entry # "source" => setup.approved[s]
      /\ setup.approved[s] \in BOOLEAN /\ setup.secured \in BOOLEAN
  BY <1>1, SetupIs
<1>4. PICK d \in Nat, r \in BOOLEAN, auth \in BOOLEAN :
        /\ g = Frame(s, d, r, auth, Never)
        /\ auth /\ setup.secured => setup.approved[s]
        /\ d = 0 \/ r
  <2>1. CASE setup.entry = "trigger"
    BY <1>3, <2>1 DEF FirstFrame
  <2>2. CASE setup.entry = "name"
    BY <1>3, <2>2 DEF FirstFrame
  <2>3. CASE setup.entry = "source"
    <3> DEFINE a == ~setup.secured \/ setup.approved[s]
    <3>1. a \in BOOLEAN /\ (a /\ setup.secured => setup.approved[s])
      BY <1>3
    <3>2. g = Frame(s, 1, TRUE, a, Never)
      BY <2>3 DEF FirstFrame
    <3> QED
      BY <3>1, <3>2
  <2> QED
    BY <1>3, <2>1, <2>2, <2>3
<1>5. Never \in Time
  BY DEF Time
<1> HIDE DEF g, s
<1>6. Sound(setup, g) /\ Fresh(g) /\ g.skill = s /\ IsRoot(g)
  <2>1. Sound(setup, g) /\ Fresh(g) /\ g.skill = s /\ g.depth = d /\ g.runRoot = r
    BY <1>1, <1>3, <1>4, <1>5, FrameSound
  <2> QED
    BY <1>4, <2>1 DEF IsRoot
<1>7. g \in Frames
  BY <1>6 DEF Sound
<1>8. stack \in Seq(Frames) /\ Len(stack) = 1 /\ stack[1] = g /\ stack # <<>>
  BY <1>1, <1>7 DEF g
<1>9. TypeOK
  BY <1>1, <1>2, <1>8, RestTypes DEF TypeOK
<1>10. Nested
  <2>1. DeadlineTightens
    BY <1>8 DEF DeadlineTightens
  <2>2. ASSUME NEW i \in 1..Len(stack)
        PROVE  i = 1 /\ stack[i] = g
    BY <1>8
  <2> QED
    BY <1>6, <1>8, <2>1, <2>2 DEF Nested, s
<1>11. Awaited
  BY <1>1, <1>2, <1>8, RestTypes DEF Awaited
<1>12. Unwinding
  BY <1>1, <1>2, RestTypes DEF Unwinding
<1>13. OwnAuthority
  BY <1>2 DEF OwnAuthority
<1>14. CutReported
  BY <1>2, RestTypes DEF CutReported
<1> QED
  BY <1>9, <1>10, <1>11, <1>12, <1>13, <1>14 DEF Live

\* What starts an effect has the authority of its own skill.
LEMMA AuthorityKept ==
  ASSUME Live, OwnAuthority, [Next]_vars
  PROVE  OwnAuthority'
<1>1. setup' = setup
  BY DEF vars, Next, Block, Before, Timers, Way, Settles, If, Foreach, Item, EndForeach, Compose,
         Refused, Local, Accumulate, Inline, Preview, JsonParse, PastDeadline, Undeclared, Denied,
         Issue, Cleared, InFlight, Between, ToolTimer, CleanedUp, ShellTimer, ShellClosed,
         TargetDone, TargetFailed, RunBoundary, Render, Unresolved, Deliver, Delivered, Return, Answered,
         ToolError, Rejected, Tick
<1>2. CASE issued' = issued
  BY <1>1, <1>2 DEF OwnAuthority, Code
<1>3. CASE Issue
  <2> DEFINE e == Effect(Top, Op.id, Op.mutation /\ ~Op.approved)
  <2>1. Busy /\ issued' = issued \cup {e}
    BY <1>3, ClearedBusy DEF Issue
  <2>2. Sound(setup, Top)
    BY <2>1, TopIs DEF Live, Busy
  <2>3. /\ Op.kind \in Effects
        /\ ~Unconfirmed(Op) /\ ~Unauthorized(Op)
    BY <1>3 DEF Issue, Cleared
  <2>4. e.skill = Top.skill /\ (e.unconfirmed <=> Op.mutation /\ ~Op.approved)
    BY DEF Effect
  <2> HIDE DEF e
  <2>5. e.unconfirmed => Code(e.skill).autonomous
    BY <2>3, <2>4 DEF Unconfirmed
  <2>6. setup.secured => setup.approved[e.skill]
    BY <2>2, <2>3, <2>4 DEF Unauthorized, Sound
  <2> QED
    BY <1>1, <2>1, <2>5, <2>6 DEF OwnAuthority, Code
<1>4. CASE Deliver
  <2> DEFINE e == Effect(Top, "delivery", FALSE)
  <2>1. issued' = issued \cup {e} /\ outcome.kind = "running"
    BY <1>4 DEF Deliver
  <2>2. Sound(setup, Top)
    BY <2>1, TopIs DEF Live, Awaited
  <2>3. ~(setup.secured /\ ~Top.auth)
    BY <1>4 DEF Deliver, Delivers
  <2>4. e.skill = Top.skill /\ ~e.unconfirmed
    BY DEF Effect
  <2> HIDE DEF e
  <2>5. setup.secured => setup.approved[e.skill]
    BY <2>2, <2>3, <2>4 DEF Sound
  <2> QED
    BY <1>1, <2>1, <2>4, <2>5 DEF OwnAuthority, Code
<1> QED
  BY <1>2, <1>3, <1>4
  DEF vars, Next, Block, Before, Timers, Way, Settles, If, Foreach, Item, EndForeach, Compose, Do,
      Refused, Local, Accumulate, Inline, Preview, JsonParse, PastDeadline, Undeclared, Denied,
      InFlight, Between, ToolTimer, CleanedUp, ShellTimer, ShellClosed,
      TargetDone, TargetFailed, RunBoundary, Render, Unresolved, Delivered, Return, Answered,
      ToolError, Rejected, Tick

\* Only a running frame takes steps.
LEMMA OnlyRunning ==
  ASSUME Live, Next
  PROVE  outcome = Running /\ setup' = setup
<1>1. setup' = setup
  BY DEF Next, Block, Before, Timers, Way, Settles, If, Foreach, Item, EndForeach, Compose,
         Refused, Local, Accumulate, Inline, Preview, JsonParse, PastDeadline, Undeclared, Denied,
         Issue, Cleared, InFlight, Between, ToolTimer, CleanedUp, ShellTimer, ShellClosed,
         TargetDone, TargetFailed, RunBoundary, Render, Unresolved, Deliver, Delivered, Return, Answered,
         ToolError, Rejected, Tick
<1>2. outcome.kind = "running" \/ flight.phase # "idle"
  BY DEF Next, Block, Before, Timers, Way, Settles, If, Foreach, Item, EndForeach, Compose,
         Refused, Local, Accumulate, Inline, Preview, JsonParse, PastDeadline, Undeclared, Denied,
         Issue, Cleared, AtOp, InFlight, Between, ToolTimer, CleanedUp, ShellTimer, ShellClosed,
         TargetDone, TargetFailed, RunBoundary, Render, Unresolved, Deliver, Delivered, Return, Answered,
         ToolError, Rejected, Tick
<1> QED
  BY <1>1, <1>2 DEF Live, Awaited

\* How a run ends.
LEMMA Endings ==
  ASSUME Live, Next, ~Unresolved, ~Return
  PROVE  outcome' = Running
<1>1. outcome = Running
  BY OnlyRunning
<1>2. ASSUME RunBoundary PROVE outcome' = outcome
  <2>1. /\ Len(stack) \in Nat \ {0} /\ Top = stack[Len(stack)]
    BY <1>2, BetweenIs DEF RunBoundary
  <2>2. Len(stack) \in 1..Len(stack)
    BY <2>1
  <2>3. Len(stack) = 1 => IsRoot(Top)
    BY <2>1, <2>2 DEF Live, Nested
  <2> QED
    BY <1>2, <2>3 DEF RunBoundary
<1>3. ASSUME TargetDone \/ TargetFailed \/ Render \/ Deliver \/ Delivered \/ Tick \/ Timers \/ Settles
             \/ Block \/ Before
      PROVE  outcome' = outcome
  BY <1>3
  DEF Block, Before, Timers, Settles, If, Foreach, Item, EndForeach, Compose, Do,
      Refused, Local, Accumulate, Inline, Preview, JsonParse, PastDeadline, Undeclared, Denied,
      Issue, ToolTimer, CleanedUp, ShellTimer, ShellClosed, TargetDone, TargetFailed, Render, Deliver,
      Delivered, Answered, ToolError, Rejected, Tick, Finish, Raise, Fail, Cut, Throw
<1> QED
  BY <1>1, <1>2, <1>3 DEF Next, Way

\* The log names what may have had an effect, homonyms apart, and no built-in
\* that has none.
LEMMA ReportedRight ==
  ASSUME NEW S \in SUBSET Pend
  PROVE  /\ \A o \in S : o.effecting => o.id \in Reported(S) \/ Homonym(o)
         /\ \A u \in Reported(S) : \E o \in S : u = o.id /\ ~Harmless(o)
<1>1. ASSUME NEW o \in S, o.effecting PROVE o.id \in Reported(S) \/ Homonym(o)
  <2>1. CASE UncertainWhenCut(o)
    BY <2>1 DEF Reported
  <2>2. CASE ~UncertainWhenCut(o)
    BY <1>1, <2>2, PendIs DEF UncertainWhenCut, Homonym, Harmless
  <2> QED
    BY <2>1, <2>2
<1>2. ASSUME NEW o \in S, UncertainWhenCut(o) PROVE ~Harmless(o)
  BY <1>2, PendIs DEF UncertainWhenCut, Harmless
<1> QED
  BY <1>1, <1>2 DEF Reported

\* The caller learns of the deadline and of what it cut.
LEMMA CutReportedKept ==
  ASSUME Live, CutReported, [Next]_vars
  PROVE  CutReported'
<1>1. CASE UNCHANGED vars
  BY <1>1 DEF CutReported, vars, Code
<1>2. CASE Unresolved
  <2>1. /\ Between /\ stack # <<>> /\ outcome = Running /\ setup' = setup /\ lost' = lost
        /\ Len(stack) \in Nat \ {0} /\ Top = stack[Len(stack)]
    BY <1>2, BetweenIs DEF Unresolved
  <2>2. CASE outcome' = outcome
    BY <2>1, <2>2, RestTypes DEF CutReported
  <2>3. CASE outcome' # outcome
    <3>1. ~(Len(stack) > 1) /\ Escape /\ exc.kind = "none"
      BY <1>2, <2>3, RestTypes DEF Unresolved
    <3>2. Len(stack) = 1
      <4>1. PICK k \in Nat \ {0} : k = Len(stack)
        BY <2>1
      <4>2. ~(k > 1) => k = 1
        OBVIOUS
      <4> QED
        BY <3>1, <4>1, <4>2
    <3>3. Top.skill = setup.skill
      BY <2>1, <3>2 DEF Live, Nested
    <3>4. CASE Top.part = "render" /\ ~Rendered(Top)
      BY <2>1, <3>1, <3>3, <3>4 DEF Rendered, CutReported, Code, Escape, Running
    <3>5. CASE Top.part = "deliver" /\ Delivers(Top)
      <4>1. ~raised
        BY <2>1, <3>1, <3>5, BetweenIs DEF Delivers
      <4>2. lost' = {}
        BY <2>1, <4>1 DEF Live, Unwinding
      <4> QED
        BY <3>1, <4>2 DEF CutReported, Escape, Running
    <3> QED
      BY <1>2, <3>4, <3>5 DEF Unresolved
  <2> QED
    BY <2>2, <2>3
<1>3. CASE Return
  <2>1. /\ Between /\ stack # <<>> /\ outcome = Running /\ setup' = setup /\ lost' = lost
        /\ Len(stack) \in Nat \ {0} /\ Top = stack[Len(stack)] /\ raised' = raised
    BY <1>3, BetweenIs DEF Return
  <2>2. CASE outcome' = outcome
    BY <2>1, <2>2, RestTypes DEF CutReported
  <2>3. CASE outcome' # outcome
    <3>1. /\ Len(stack) = 1
          /\ outcome' = [kind |-> "returned", errors |-> Top.errors,
                         expired |-> Top.expired, uncertain |-> Top.uncertain]
      <4>1. ~(Len(stack) > 1)
        BY <1>3, <2>3 DEF Return
      <4>2. Len(stack) = 1
        BY <2>1, <4>1
      <4> QED
        BY <1>3, <4>1, <4>2 DEF Return
    <3>2. exc.kind # "deadline" /\ 1 \in 1..Len(stack)
      BY <1>3, <3>1, RestTypes DEF Return
    <3>3. raised => Top.expired /\ Top.uncertain = Reported(lost)
      BY <2>1, <3>1, <3>2 DEF Live, Unwinding
    <3>4. ~raised => ~Top.expired /\ Top.uncertain = {} /\ lost = {}
      BY <2>1, <3>1, <3>2 DEF Live, Unwinding, Nested, Fresh
    <3>5. Top.expired \in BOOLEAN /\ raised \in BOOLEAN
      BY <2>1, BetweenIs DEF Frames, Live, TypeOK
    <3>6. Top.uncertain = Reported(lost)
      BY <3>3, <3>4 DEF Reported
    <3>7. outcome'.expired = raised' /\ outcome'.uncertain = Reported(lost')
      BY <2>1, <3>1, <3>3, <3>4, <3>5, <3>6
    <3>8. lost' \subseteq Pend
      BY <2>1 DEF Live, TypeOK
    <3>9. outcome'.kind = "returned"
      BY <3>1
    <3> QED
      BY <3>7, <3>8, <3>9, ReportedRight DEF CutReported
  <2> QED
    BY <2>2, <2>3
<1>4. CASE Next /\ ~Unresolved /\ ~Return
  BY <1>4, Endings, RestTypes DEF CutReported
<1> QED
  BY <1>1, <1>2, <1>3, <1>4

\* The invariant, of every run of every skill.
THEOREM ExecutorInvariant == Spec => []IInv
<1>1. Init => Live /\ OwnAuthority /\ CutReported
  BY InitLive
<1>2. Live /\ OwnAuthority /\ CutReported /\ [Next]_vars => (Live /\ OwnAuthority /\ CutReported)'
  BY NextLive, AuthorityKept, CutReportedKept
<1>3. Live /\ OwnAuthority /\ CutReported => IInv
  BY DEF Live, IInv
<1> QED
  BY <1>1, <1>2, <1>3, PTL DEF Spec

\* Composition lends nothing: an effect starts with the authority of its own
\* skill, and a composed run ends no later than its caller (composition.ts:180).
THEOREM ExecutorLendsNothing == Spec => []LendsNothing
<1>1. IInv => LendsNothing
  BY DEF IInv, Nested, LendsNothing
<1> QED
  BY <1>1, ExecutorInvariant, PTL

\* Whoever started the run learns of the deadline and of what it cut, homonyms of
\* built-ins apart (runtime.ts:644, 1813).
THEOREM ExecutorCutReported == Spec => []CutReported
<1>1. IInv => CutReported
  BY DEF IInv
<1> QED
  BY <1>1, ExecutorInvariant, PTL

\* A result without errors is a complete one (runtime.ts:633).
THEOREM ExecutorCleanMeansComplete == Spec => []CleanMeansComplete
<1>1. IInv => CleanMeansComplete
  <2> SUFFICES ASSUME IInv, NEW i \in DOMAIN stack,
                      stack[i].part \in {"deliver", "return"}, stack[i].errors = {},
                      NEW t \in Range(Code(stack[i].skill).targets), NEW o \in Range(t.ops)
               PROVE  o.id \in stack[i].done
    BY DEF CleanMeansComplete
  <2> DEFINE f == stack[i]
             ts == CodeOf(setup, f.skill).targets
  <2>1. i \in 1..Len(stack) /\ setup \in Setup
    BY DEF IInv, TypeOK
  <2>2. f.skill \in DOMAIN setup.store /\ Complete(setup, f)
    BY <2>1 DEF IInv, Nested, Sound
  <2>3. Code(f.skill).targets = ts
    BY DEF Code, CodeOf
  <2>4. \E j \in DOMAIN ts : t = ts[j]
    BY <2>3 DEF Range
  <2>5. DOMAIN ts = 1..Len(ts)
    <3>1. setup.store[f.skill] \in DOMAIN Body
      BY <2>1, <2>2, SetupIs
    <3> DEFINE TargetT == [ops : Seq(Ops), recovers : BOOLEAN, orelse : Seq(Ops)]
    <3>2. Body[setup.store[f.skill]] \in
            [targets : Seq(TargetT), autonomous : BOOLEAN, deadline : Time, timeout : Nat,
             template : SUBSET Var, delivers : BOOLEAN,
                      address : SUBSET Var]
      BY <3>1, Parsed
    <3> HIDE DEF TargetT
    <3>3. ts \in Seq(TargetT)
      BY <3>2 DEF CodeOf
    <3> QED
      BY <3>3
  <2>6. PICK j \in 1..Len(ts) : t = ts[j]
    BY <2>4, <2>5
  <2>7. t.ops \in Seq(Ops)
    BY <2>1, <2>2, <2>6, CodeIs
  <2>8. PICK k \in 1..Len(t.ops) : o = t.ops[k]
    BY <2>7 DEF Range
  <2> QED
    BY <2>2, <2>6, <2>8 DEF Complete
<1> QED
  BY <1>1, ExecutorInvariant, PTL

\* What can still happen once the deadline was raised.
LEMMA AfterDeadline ==
  ASSUME Live, raised, Next
  PROVE  RunBoundary \/ Render \/ Unresolved \/ Return \/ Tick
<1>1. outcome = Running /\ flight = Landed /\ stack # <<>>
  BY OnlyRunning, RestTypes DEF Live, Awaited, Unwinding
<1>2. ~Busy
  BY DEF Busy
<1>3. ~AtOp /\ flight.phase = "idle"
  BY <1>1, <1>2, BusyAt, RestTypes
<1>4. ~Block
  BY <1>3 DEF Block, If, Foreach, Item, EndForeach, Compose, Cleared
<1>5. ~Before
  BY <1>3 DEF Before, Refused, Local, Accumulate, Inline, Preview, JsonParse, PastDeadline,
              Undeclared, Denied, Issue, Cleared
<1>6. ~Timers /\ ~Settles /\ ~Delivered
  BY <1>3 DEF Timers, Settles, ToolTimer, CleanedUp, ShellTimer, ShellClosed, Answered, ToolError,
              Rejected, Delivered, InFlight
<1>7. ~TargetFailed
  BY <1>1, RestTypes DEF TargetFailed, Live, Unwinding
<1>8. ~TargetDone
  <2>1. ASSUME TargetDone PROVE FALSE
    <3>1. Between /\ exc.kind = "none" /\ Top.part \in {"ops", "else"}
      BY <2>1, RestTypes DEF TargetDone
    <3> QED
      BY <3>1, BetweenIs
  <2> QED
    BY <2>1
<1>9. ~Deliver
  <2>1. ASSUME Deliver PROVE FALSE
    <3>1. exc.kind = "none" /\ ~Top.expired
      BY <2>1, RestTypes DEF Deliver, Delivers
    <3>2. Len(stack) = 1 /\ stack[1].expired
      BY <1>1, <3>1 DEF Live, Unwinding
    <3> QED
      BY <1>1, <3>1, <3>2, TopIs DEF Live
  <2> QED
    BY <2>1
<1> QED
  BY <1>4, <1>5, <1>6, <1>7, <1>8, <1>9 DEF Next, Way

\* Nothing catches the deadline: once it was raised no op, no nested run and no
\* delivery starts, and no op counts as done that was not (errors.ts:250).
THEOREM ExecutorUncatchable == Spec => Uncatchable
<1> DEFINE A == raised => /\ flight' = Landed
                          /\ Len(stack') <= Len(stack)
                          /\ issued' = issued
                          /\ \A i \in DOMAIN stack' : stack'[i].done = stack[i].done
<1>1. ASSUME IInv, Next, raised PROVE A
  <2>1. Live /\ stack \in Seq(Frames) /\ Len(stack) \in Nat
    BY <1>1 DEF IInv, Live, TypeOK
  <2>2. outcome = Running /\ flight = Landed
    BY <1>1, <2>1, OnlyRunning DEF Live, Unwinding
  <2>3. ASSUME RunBoundary PROVE A
    <3>1. /\ Between /\ exc.kind = "deadline"
      BY <2>3 DEF RunBoundary
    <3>2. /\ Len(stack) \in Nat \ {0} /\ Top = stack[Len(stack)] /\ Top \in Frames
          /\ flight' = Landed /\ issued' = issued
      BY <2>1, <3>1, BetweenIs
    <3>3. CASE IsRoot(Top)
      <4> DEFINE g == [Enter(Top, "render", <<>>) EXCEPT !.expired = TRUE, !.uncertain = exc.cut,
                                                         !.errors = @ \cup {exc.id}]
      <4>1. stack' = WithTop(g)
        BY <2>3, <3>3 DEF RunBoundary
      <4>2. g.done = Top.done
        BY <3>2 DEF Frames, Enter
      <4> HIDE DEF g
      <4>3. /\ Len(stack') = Len(stack) /\ DOMAIN stack' = 1..Len(stack)
            /\ \A i \in 1..Len(stack) : stack'[i] = IF i = Len(stack) THEN g ELSE stack[i]
        BY <2>1, <3>2, <4>1 DEF WithTop
      <4>4. Len(stack') <= Len(stack)
        <5>1. Len(stack) <= Len(stack)
          BY <2>1
        <5> QED
          BY <5>1, <4>3
      <4>5. ASSUME NEW i \in 1..Len(stack) PROVE stack'[i].done = stack[i].done
        BY <3>2, <4>2, <4>3
      <4> QED
        BY <3>2, <4>3, <4>4, <4>5
    <3>4. CASE ~IsRoot(Top)
      <4>1. stack' = Front(stack)
        BY <2>3, <3>4 DEF RunBoundary
      <4>2. /\ Len(stack') = Len(stack) - 1 /\ stack' \in Seq(Frames)
            /\ \A i \in 1..(Len(stack) - 1) : stack'[i] = stack[i]
        <5>1. Len(stack) \in 1..Len(stack)
          BY <3>2
        <5>2. Len(stack) # 1
          BY <3>2, <3>4, <5>1, <2>1 DEF Live, Nested
        <5>3. Len(stack) > 1
          BY <3>2, <5>2
        <5>4. setup' = setup /\ (~raised' => ~raised)
          BY <2>1, <3>1, BetweenIs
        <5> QED
          BY <2>1, <4>1, <5>3, <5>4, NestedPop DEF Live
      <4>3. DOMAIN stack' = 1..(Len(stack) - 1)
        BY <4>2
      <4>4. Len(stack') <= Len(stack)
        BY <3>2, <4>2
      <4> QED
        BY <3>2, <4>2, <4>3, <4>4
    <3> QED
      BY <3>3, <3>4
  <2>4. ASSUME Render \/ Unresolved \/ Return PROVE A
    <3>1. Between /\ exc.kind = "none"
      BY <2>4, RestTypes DEF Render, Unresolved, Return
    <3>2. /\ Len(stack) = 1 /\ Top = stack[1] /\ Top \in Frames
          /\ flight' = Landed /\ issued' = issued
      BY <1>1, <2>1, <3>1, BetweenIs
    <3>3. stack' = <<>> \/ stack' = WithTop(Enter(Top, "deliver", <<>>))
      BY <2>4, <3>2 DEF Render, Unresolved, Return
    <3>4. CASE stack' = <<>>
      BY <3>2, <3>4
    <3>5. CASE stack' = WithTop(Enter(Top, "deliver", <<>>))
      <4> DEFINE g == Enter(Top, "deliver", <<>>)
      <4>1. g.done = Top.done
        BY <3>2 DEF Frames, Enter
      <4> HIDE DEF g
      <4>2. stack' = WithTop(g)
        BY <3>5 DEF g
      <4>3. Len(stack') = 1 /\ DOMAIN stack' = {1} /\ stack'[1] = g
        BY <2>1, <3>2, <4>2 DEF WithTop
      <4> QED
        BY <3>2, <4>1, <4>3
    <3> QED
      BY <3>3, <3>4, <3>5
  <2>5. ASSUME Tick PROVE A
    <3>1. /\ stack' = [i \in DOMAIN stack |-> [stack[i] EXCEPT !.left = Sooner(@)]]
          /\ UNCHANGED <<setup, raised, issued>>
      BY <2>5 DEF Tick
    <3>2. /\ Len(stack') = Len(stack)
          /\ \A i \in 1..Len(stack) : stack'[i].done = stack[i].done
      BY <2>1, <3>1, NestedTick DEF Live
    <3>3. flight' = Landed /\ raised'
      BY <1>1, <2>1, <2>5, <3>1, TickLive DEF Live, Unwinding
    <3>4. DOMAIN stack' = 1..Len(stack)
      BY <2>1, <3>1
    <3>5. Len(stack') <= Len(stack)
      BY <2>1, <3>2
    <3> QED
      BY <3>1, <3>2, <3>3, <3>4, <3>5
  <2> QED
    BY <1>1, <2>1, <2>3, <2>4, <2>5, AfterDeadline
<1>2. IInv /\ [Next]_vars => [A]_vars
  BY <1>1
<1> QED
  BY <1>2, ExecutorInvariant, PTL DEF Spec, Uncatchable
===============================================================================
