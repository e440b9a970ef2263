---------------------------- MODULE PipelineProofs ----------------------------
(***************************************************************************)
(* For every set of skills and installations, any nesting and any answers: *)
(* the order of the targets, what compile() inlines, what a run that lint  *)
(* has passed is refused for, which variables may turn out unbound, how    *)
(* conditions read, and why compile() throws for what lint has passed.     *)
(***************************************************************************)
EXTENDS Pipeline, FiniteSetTheorems, SequenceTheorems, WellFoundedInduction, TLAPS

\* A set of numbers with 0 and with the next of each has all of them.
LEMMA Counting ==
  ASSUME NEW S, 0 \in S, \A n \in Nat : n \in S => n + 1 \in S
  PROVE  Nat \subseteq S
<1> DEFINE Bad == Nat \ S
<1>1. SUFFICES ASSUME Bad # {} PROVE FALSE
  OBVIOUS
<1>2. PICK j \in Bad : \A i \in Bad : ~(<<i, j>> \in OpToRel(<, Nat))
  <2>1. Bad \in SUBSET Nat
    OBVIOUS
  <2> HIDE DEF Bad
  <2> QED
    BY <1>1, <2>1, NatLessThanWellFounded, WFMin
<1>3. \A i \in Bad : ~(i < j)
  BY <1>2 DEF OpToRel
<1>4. j \in Nat /\ j \notin S /\ j # 0
  OBVIOUS
<1>5. j - 1 \in Nat /\ j - 1 < j
  BY <1>4
<1>6. j - 1 \notin Bad
  BY <1>3, <1>5
<1>7. j - 1 \in S
  BY <1>5, <1>6
<1>8. (j - 1) + 1 \in S
  BY <1>5, <1>7
<1> QED
  BY <1>4, <1>5, <1>8

-----------------------------------------------------------------------------
(* The order of the targets. *)

AfterDeps(f, n, deeper, deps, visiting, order) ==
  f = [i \in 0 .. n |->
        IF i = 0 THEN [order |-> order, fail |-> None]
        ELSE IF f[i - 1].fail # None THEN f[i - 1]
        ELSE deeper[deps[i]][visiting][f[i - 1].order]]

LEMMA AfterDepsExists ==
  ASSUME NEW n \in Nat, NEW deeper, NEW deps, NEW visiting, NEW order
  PROVE  \E f : AfterDeps(f, n, deeper, deps, visiting, order)
<1> DEFINE Next1(r, i) == IF r.fail # None THEN r ELSE deeper[deps[i]][visiting][r.order]
           base == [order |-> order, fail |-> None]
           Eq(f, m) == f = [i \in 0 .. m |-> IF i = 0 THEN base ELSE Next1(f[i - 1], i)]
           S == {m \in Nat : \E f : Eq(f, m)}
<1>1. 0 \in S
  <2> DEFINE f == [i \in 0 .. 0 |-> base]
  <2>1. Eq(f, 0)
    <3> HIDE DEF base, Next1
    <3>1. \A i \in 0 .. 0 : i = 0
      OBVIOUS
    <3> QED
      BY <3>1
  <2> HIDE DEF f, Eq
  <2> QED
    BY <2>1
<1>2. ASSUME NEW m \in Nat, m \in S
      PROVE  m + 1 \in S
  <2>1. PICK f : Eq(f, m)
    BY <1>2
  <2> DEFINE g == [i \in 0 .. m + 1 |-> IF i = m + 1 THEN Next1(f[m], m + 1) ELSE f[i]]
  <2>2. \A i \in 0 .. m : f[i] = IF i = 0 THEN base ELSE Next1(f[i - 1], i)
    <3> HIDE DEF base, Next1
    <3> QED
      BY <2>1
  <2> HIDE DEF base, Next1
  <2>3. \A i \in 0 .. m + 1 : g[i] = IF i = 0 THEN base ELSE Next1(g[i - 1], i)
    <3> SUFFICES ASSUME NEW i \in 0 .. m + 1
                 PROVE  g[i] = IF i = 0 THEN base ELSE Next1(g[i - 1], i)
      OBVIOUS
    <3>1. CASE i = m + 1
      <4>1. g[i - 1] = f[m] /\ i # 0
        BY <3>1
      <4> QED
        BY <3>1, <4>1
    <3>2. CASE i # m + 1
      <4>1. i \in 0 .. m /\ (i # 0 => i - 1 \in 0 .. m /\ i - 1 # m + 1)
        BY <3>2
      <4>2. i # 0 => g[i - 1] = f[i - 1]
        BY <4>1
      <4> QED
        BY <2>2, <3>2, <4>1, <4>2
    <3> QED
      BY <3>1, <3>2
  <2>4. Eq(g, m + 1)
    BY <2>3
  <2> HIDE DEF g, Eq
  <2> QED
    BY <2>4
<1>3. n \in S
  BY <1>1, <1>2, Counting
<1> QED
  BY <1>3 DEF AfterDeps

DepByDep(f, deeper, deps, visiting, order) ==
  /\ f[0] = [order |-> order, fail |-> None]
  /\ \A i \in 1 .. Len(deps) :
       f[i] = IF f[i - 1].fail # None THEN f[i - 1] ELSE deeper[deps[i]][visiting][f[i - 1].order]
  /\ Dependencies(deeper, deps, visiting, order) = f[Len(deps)]

LEMMA DependenciesIs ==
  ASSUME NEW deeper, NEW deps, Len(deps) \in Nat, NEW visiting, NEW order
  PROVE  \E f : DepByDep(f, deeper, deps, visiting, order)
<1>1. PICK n \in Nat : n = Len(deps)
  OBVIOUS
<1>2. PICK f : /\ AfterDeps(f, n, deeper, deps, visiting, order)
               /\ Dependencies(deeper, deps, visiting, order) = f[n]
  <2> DEFINE g == CHOOSE f : AfterDeps(f, n, deeper, deps, visiting, order)
  <2>1. AfterDeps(g, n, deeper, deps, visiting, order)
    BY AfterDepsExists
  <2>2. Dependencies(deeper, deps, visiting, order) = g[n]
    BY <1>1 DEF Dependencies, AfterDeps
  <2> HIDE DEF g
  <2> QED
    BY <2>1, <2>2
<1>3. ASSUME NEW i \in 0 .. n
      PROVE  f[i] = IF i = 0 THEN [order |-> order, fail |-> None]
                    ELSE IF f[i - 1].fail # None THEN f[i - 1]
                    ELSE deeper[deps[i]][visiting][f[i - 1].order]
  <2> DEFINE body(i1) == IF i1 = 0 THEN [order |-> order, fail |-> None]
                         ELSE IF f[i1 - 1].fail # None THEN f[i1 - 1]
                         ELSE deeper[deps[i1]][visiting][f[i1 - 1].order]
  <2>1. f = [i1 \in 0 .. n |-> body(i1)]
    BY <1>2 DEF AfterDeps
  <2> HIDE DEF body
  <2>2. f[i] = body(i)
    BY <2>1
  <2> QED
    BY <2>2 DEF body
<1>4. 0 \in 0 .. n /\ \A i \in 1 .. n : i \in 0 .. n /\ i # 0
  OBVIOUS
<1>5. DepByDep(f, deeper, deps, visiting, order)
  BY <1>1, <1>2, <1>3, <1>4 DEF DepByDep
<1> QED
  BY <1>5

\* A graph of targets, finite, each with a list of dependencies.
Graph(targets) ==
  /\ IsFiniteSet(DOMAIN targets)
  /\ \A t \in DOMAIN targets : targets[t].deps \in Seq(Range(targets[t].deps))

Named(targets, entry) == {entry} \cup UNION {Range(targets[t].deps) : t \in DOMAIN targets}
ClosedOver(targets, S) == \A t \in S \cap DOMAIN targets : Range(targets[t].deps) \subseteq S

\* A list of targets, each once and after what it depends on, none of them on
\* the path being visited.
Ordered(targets, named, visiting, order) ==
  /\ order \in Seq(named \cap DOMAIN targets) /\ IsInjective(order) /\ Range(order) \cap visiting = {}
  /\ \A i \in DOMAIN order : \A d \in Range(targets[order[i]].deps) : \E j \in 1..(i - 1) : order[j] = d

\* r lists, behind order, the names and nothing they do not lead to.
Listing(targets, named, names, visiting, order, r) ==
  r.fail = None =>
    /\ Ordered(targets, named, visiting, r.order)
    /\ Range(order) \subseteq Range(r.order) /\ names \subseteq Range(r.order)
    /\ \A S : ClosedOver(targets, S) /\ names \subseteq S => Range(r.order) \subseteq Range(order) \cup S

ListingEach(deeper, targets, named) ==
  \A name \in named, visiting \in SUBSET DOMAIN targets, order \in Seq(named) :
    Ordered(targets, named, visiting, order)
      => Listing(targets, named, {name}, visiting, order, deeper[name][visiting][order])

LEMMA DependenciesListed ==
  ASSUME NEW targets, NEW named, NEW deeper, ListingEach(deeper, targets, named),
         NEW deps \in Seq(named), NEW visiting \in SUBSET DOMAIN targets,
         NEW order, Ordered(targets, named, visiting, order)
  PROVE  Listing(targets, named, Range(deps), visiting, order, Dependencies(deeper, deps, visiting, order))
<1>1. Len(deps) \in Nat /\ DOMAIN deps = 1 .. Len(deps)
  OBVIOUS
<1>2. PICK f : DepByDep(f, deeper, deps, visiting, order)
  BY <1>1, DependenciesIs
<1> DEFINE Upto(i) == {deps[k] : k \in 1 .. i}
           Good(i) == i =< Len(deps) => Listing(targets, named, Upto(i), visiting, order, f[i])
           S == {i \in Nat : Good(i)}
<1>3. 0 \in S
  <2>1. 1 .. 0 = {}
    OBVIOUS
  <2>2. Upto(0) = {}
    BY <2>1
  <2>3. f[0].order = order
    <3>1. f[0] = [order |-> order, fail |-> None]
      BY <1>2 DEF DepByDep
    <3> QED
      BY <3>1
  <2> HIDE DEF Upto
  <2> QED
    BY <2>2, <2>3 DEF Listing
<1>4. ASSUME NEW i \in Nat, i \in S
      PROVE  i + 1 \in S
  <2> SUFFICES ASSUME i + 1 =< Len(deps), f[i + 1].fail = None
               PROVE  Listing(targets, named, Upto(i + 1), visiting, order, f[i + 1])
    BY DEF Listing
  <2>1. f[i + 1] = IF f[i].fail # None THEN f[i] ELSE deeper[deps[i + 1]][visiting][f[i].order]
    <3>1. i + 1 \in 1 .. Len(deps) /\ (i + 1) - 1 = i
      BY <1>1
    <3> QED
      BY <1>2, <3>1 DEF DepByDep
  <2>2. f[i].fail = None /\ f[i + 1] = deeper[deps[i + 1]][visiting][f[i].order]
    BY <2>1
  <2>3. Listing(targets, named, Upto(i), visiting, order, f[i])
    BY <1>1, <1>4
  <2>4. Ordered(targets, named, visiting, f[i].order) /\ f[i].order \in Seq(named)
    <3>1. Ordered(targets, named, visiting, f[i].order)
      BY <2>2, <2>3 DEF Listing
    <3>2. f[i].order \in Seq(named \cap DOMAIN targets)
      BY <3>1 DEF Ordered
    <3>3. f[i].order \in Seq(named)
      BY <3>2, SeqMonotonic
    <3> QED
      BY <3>1, <3>3
  <2>5. deps[i + 1] \in named
    BY <1>1
  <2>6. Listing(targets, named, {deps[i + 1]}, visiting, f[i].order, f[i + 1])
    BY <2>2, <2>4, <2>5 DEF ListingEach
  <2>7. Upto(i + 1) = Upto(i) \cup {deps[i + 1]}
    <3>1. 1 .. i + 1 = (1 .. i) \cup {i + 1}
      OBVIOUS
    <3> QED
      BY <3>1
  <2> HIDE DEF Upto
  <2> QED
    BY <2>2, <2>3, <2>6, <2>7 DEF Listing
<1> HIDE DEF Good
<1>5. Good(Len(deps))
  BY <1>1, <1>3, <1>4, Counting
<1>6. Upto(Len(deps)) = Range(deps)
  BY <1>1 DEF Range
<1>7. Listing(targets, named, Upto(Len(deps)), visiting, order, f[Len(deps)])
  <2>1. Len(deps) =< Len(deps)
    BY <1>1
  <2> QED
    BY <1>5, <2>1 DEF Good
<1>8. Dependencies(deeper, deps, visiting, order) = f[Len(deps)]
  BY <1>2 DEF DepByDep
<1> HIDE DEF Upto
<1> QED
  BY <1>6, <1>7, <1>8

LEMMA VisitListed ==
  ASSUME NEW targets, NEW named, NEW deeper, Graph(targets), ListingEach(deeper, targets, named),
         \A t \in DOMAIN targets : Range(targets[t].deps) \subseteq named,
         NEW name \in named, NEW visiting \in SUBSET DOMAIN targets,
         NEW order, Ordered(targets, named, visiting, order)
  PROVE  Listing(targets, named, {name}, visiting, order, Visit(deeper, targets, name, visiting, order))
<1>1. CASE name \in Range(order)
  <2> DEFINE r == [order |-> order, fail |-> None]
  <2>1. Visit(deeper, targets, name, visiting, order) = r
    BY <1>1 DEF Visit
  <2>2. Listing(targets, named, {name}, visiting, order, r)
    BY <1>1 DEF Listing
  <2> QED
    BY <2>1, <2>2
<1>2. CASE name \notin Range(order) /\ (name \in visiting \/ name \notin DOMAIN targets)
  <2> PICK r : r = Visit(deeper, targets, name, visiting, order)
    OBVIOUS
  <2>1. CASE name \in visiting
    <3>1. r = [order |-> order, fail |-> "cycle"]
      BY <1>2, <2>1 DEF Visit
    <3>2. "cycle" # None
      BY NoneAssumption
    <3>3. r.fail # None
      BY <3>1, <3>2
    <3> QED
      BY <3>3 DEF Listing
  <2>2. CASE name \notin visiting
    <3>1. r = [order |-> order, fail |-> "dependency"]
      BY <1>2, <2>2 DEF Visit
    <3>2. "dependency" # None
      BY NoneAssumption
    <3>3. r.fail # None
      BY <3>1, <3>2
    <3> QED
      BY <3>3 DEF Listing
  <2> QED
    BY <2>1, <2>2
<1>3. CASE name \notin Range(order) /\ name \notin visiting /\ name \in DOMAIN targets
  <2> DEFINE deps == targets[name].deps
             e == Dependencies(deeper, deps, visiting \cup {name}, order)
             r == [e EXCEPT !.order = Append(@, name)]
  <2>1. deps \in Seq(named)
    <3>1. deps \in Seq(Range(deps)) /\ Range(deps) \subseteq named
      BY <1>3 DEF Graph
    <3> QED
      BY <3>1, SeqMonotonic
  <2>2. Ordered(targets, named, visiting \cup {name}, order)
    BY <1>3 DEF Ordered
  <2>3. Listing(targets, named, Range(deps), visiting \cup {name}, order, e)
    BY <1>3, <2>1, <2>2, DependenciesListed
  <2>4. Visit(deeper, targets, name, visiting, order) = IF e.fail # None THEN e ELSE r
    BY <1>3 DEF Visit, Finished
  <2> HIDE DEF e
  <2>5. CASE e.fail # None
    BY <2>4, <2>5 DEF Listing
  <2>6. CASE e.fail = None
    <3> SUFFICES ASSUME r.fail = None PROVE Listing(targets, named, {name}, visiting, order, r)
      BY <2>4, <2>6 DEF Listing
    <3>1. Ordered(targets, named, visiting \cup {name}, e.order)
      BY <2>3, <2>6 DEF Listing
    <3>2. PICK o : o = e.order
      OBVIOUS
    <3> DEFINE p == Append(o, name)
               n == Len(o)
    <3>3. o \in Seq(named \cap DOMAIN targets) /\ n \in Nat /\ name \notin Range(o) /\ DOMAIN o = 1 .. n
      BY <3>1, <3>2 DEF Ordered
    <3>4. p \in Seq(named \cap DOMAIN targets) /\ DOMAIN p = 1 .. n + 1 /\ p[n + 1] = name
          /\ \A i \in 1 .. n : p[i] = o[i]
      BY <1>3, <3>3
    <3>5. r.order = p
      BY <3>2
    <3> HIDE DEF p, n, r
    <3>6. Range(p) = Range(o) \cup {name}
      BY <3>3, <3>4 DEF Range
    <3>7. IsInjective(p)
      <4>1. \A i, j \in 1 .. n : o[i] = o[j] => i = j
        BY <3>1, <3>2, <3>3 DEF Ordered, IsInjective
      <4>2. \A i \in 1 .. n : o[i] # name
        BY <3>3 DEF Range
      <4>3. \A i \in 1 .. n + 1 : i \in 1 .. n \/ i = n + 1
        BY <3>3
      <4> QED
        BY <3>4, <4>1, <4>2, <4>3 DEF IsInjective
    <3>8. ASSUME NEW i \in DOMAIN p, NEW d \in Range(targets[p[i]].deps)
          PROVE  \E j \in 1..(i - 1) : p[j] = d
      <4>1. CASE i \in 1 .. n
        <5>1. \E j \in 1..(i - 1) : o[j] = d
          <6>1. i \in DOMAIN o /\ d \in Range(targets[o[i]].deps)
            BY <3>3, <3>4, <3>8, <4>1
          <6>2. \A k \in DOMAIN o : \A x \in Range(targets[o[k]].deps) : \E j \in 1..(k - 1) : o[j] = x
            <7>1. PICK seen : seen = visiting \cup {name}
              OBVIOUS
            <7>2. Ordered(targets, named, seen, o)
              BY <3>1, <3>2, <7>1
            <7> QED
              BY <7>2 DEF Ordered
          <6> QED
            BY <6>1, <6>2
        <5> QED
          BY <3>3, <3>4, <4>1, <5>1
      <4>2. CASE i = n + 1
        <5>1. d \in Range(o)
          BY <2>3, <2>6, <3>2, <3>4, <3>8, <4>2 DEF Listing
        <5>2. PICK j \in 1 .. n : o[j] = d
          BY <3>3, <5>1 DEF Range
        <5> QED
          BY <3>3, <3>4, <4>2, <5>2
      <4> QED
        BY <3>3, <3>4, <4>1, <4>2
    <3>9. Ordered(targets, named, visiting, p)
      <4>1. Range(p) \cap visiting = {}
        BY <1>3, <3>1, <3>2, <3>6 DEF Ordered
      <4> QED
        BY <3>4, <3>7, <3>8, <4>1 DEF Ordered
    <3>10. ASSUME NEW S, ClosedOver(targets, S), name \in S
           PROVE  Range(p) \subseteq Range(order) \cup S
      <4>1. Range(deps) \subseteq S
        BY <1>3, <3>10 DEF ClosedOver
      <4>2. Range(o) \subseteq Range(order) \cup S
        BY <2>3, <2>6, <3>2, <3>10, <4>1 DEF Listing
      <4> QED
        BY <3>6, <3>10, <4>2
    <3>11. Range(order) \subseteq Range(p)
      BY <2>3, <2>6, <3>2, <3>6 DEF Listing
    <3> QED
      BY <3>5, <3>6, <3>9, <3>10, <3>11 DEF Listing
  <2> QED
    BY <2>5, <2>6
<1> QED
  BY <1>1, <1>2, <1>3

\* The visits of the targets, by how many more a path may take.
Layer(f, i, targets, named) ==
  [name \in named |-> [visiting \in SUBSET DOMAIN targets |-> [order \in Seq(named) |->
     IF i = 0 THEN [order |-> order, fail |-> "cycle"] ELSE Visit(f[i - 1], targets, name, visiting, order)]]]
PathOf(f, n, targets, named) == f = [i \in 0 .. n |-> Layer(f, i, targets, named)]

LEMMA PathOfExists ==
  ASSUME NEW n \in Nat, NEW targets, NEW named
  PROVE  \E f : PathOf(f, n, targets, named)
<1> DEFINE Next1(r) == [name \in named |-> [visiting \in SUBSET DOMAIN targets |-> [order \in Seq(named) |->
                          Visit(r, targets, name, visiting, order)]]]
           base == [name \in named |-> [visiting \in SUBSET DOMAIN targets |-> [order \in Seq(named) |->
                      [order |-> order, fail |-> "cycle"]]]]
           body(f, i) == Layer(f, i, targets, named)
           Eq(f, m) == f = [i \in 0 .. m |-> body(f, i)]
           S == {m \in Nat : \E f : Eq(f, m)}
<1>0. \A f, i : body(f, i) = IF i = 0 THEN base ELSE Next1(f[i - 1])
  <2> SUFFICES ASSUME NEW f, NEW i PROVE body(f, i) = IF i = 0 THEN base ELSE Next1(f[i - 1])
    OBVIOUS
  <2>1. CASE i = 0
    BY <2>1 DEF Layer
  <2>2. CASE i # 0
    BY <2>2 DEF Layer
  <2> QED
    BY <2>1, <2>2
<1> HIDE DEF body, base, Next1
<1>1. 0 \in S
  <2> DEFINE f == [i \in 0 .. 0 |-> base]
  <2>1. \A i \in 0 .. 0 : i = 0
    OBVIOUS
  <2>2. \A i \in 0 .. 0 : body(f, i) = base
    BY <1>0, <2>1
  <2>3. Eq(f, 0)
    BY <2>2
  <2> HIDE DEF f, Eq
  <2> QED
    BY <2>3
<1>2. ASSUME NEW m \in Nat, m \in S
      PROVE  m + 1 \in S
  <2>1. PICK f : Eq(f, m)
    BY <1>2
  <2> DEFINE g == [i \in 0 .. m + 1 |-> IF i = m + 1 THEN Next1(f[m]) ELSE f[i]]
  <2>2. \A i \in 0 .. m : f[i] = IF i = 0 THEN base ELSE Next1(f[i - 1])
    BY <1>0, <2>1
  <2>3. \A i \in 0 .. m + 1 : g[i] = IF i = 0 THEN base ELSE Next1(g[i - 1])
    <3> SUFFICES ASSUME NEW i \in 0 .. m + 1
                 PROVE  g[i] = IF i = 0 THEN base ELSE Next1(g[i - 1])
      OBVIOUS
    <3>1. CASE i = m + 1
      <4>1. g[i - 1] = f[m] /\ i # 0
        BY <3>1
      <4> QED
        BY <3>1, <4>1
    <3>2. CASE i # m + 1
      <4>1. i \in 0 .. m /\ (i # 0 => i - 1 \in 0 .. m /\ i - 1 # m + 1)
        BY <3>2
      <4>2. i # 0 => g[i - 1] = f[i - 1]
        BY <4>1
      <4> QED
        BY <2>2, <3>2, <4>1, <4>2
    <3> QED
      BY <3>1, <3>2
  <2>4. Eq(g, m + 1)
    <3>1. g = [i \in 0 .. m + 1 |-> g[i]]
      OBVIOUS
    <3> HIDE DEF g
    <3>2. \A i \in 0 .. m + 1 : g[i] = body(g, i)
      BY <1>0, <2>3
    <3> QED
      BY <3>1, <3>2
  <2> HIDE DEF g, Eq
  <2> QED
    BY <2>4
<1>3. n \in S
  BY <1>1, <1>2, Counting
<1>4. PICK f : Eq(f, n)
  BY <1>3
<1>5. PathOf(f, n, targets, named)
  BY <1>4 DEF PathOf, body
<1> QED
  BY <1>5

\* Where the order starts: at the entry, with every target still allowed.
PathTo(f, targets, entry) ==
  LET K == Cardinality(DOMAIN targets) + 1
      named == Named(targets, entry)
  IN /\ \A name \in named, visiting \in SUBSET DOMAIN targets, order \in Seq(named) :
          /\ f[0][name][visiting][order] = [order |-> order, fail |-> "cycle"]
          /\ \A i \in 1 .. K : f[i][name][visiting][order] = Visit(f[i - 1], targets, name, visiting, order)
     /\ toposort(targets, entry) = f[K][entry][{}][<<>>]

LEMMA ToposortIs ==
  ASSUME NEW targets, NEW entry, IsFiniteSet(DOMAIN targets)
  PROVE  \E f : PathTo(f, targets, entry)
<1>1. PICK K \in Nat : K = Cardinality(DOMAIN targets) + 1
  BY FS_CardinalityType
<1>2. PICK named : named = Named(targets, entry)
  OBVIOUS
<1>3. PICK f : PathOf(f, K, targets, named) /\ toposort(targets, entry) = f[K][entry][{}][<<>>]
  <2> DEFINE g == CHOOSE f : PathOf(f, K, targets, named)
  <2>1. PathOf(g, K, targets, named)
    BY PathOfExists
  <2>2. toposort(targets, entry) = g[K][entry][{}][<<>>]
    <3>1. toposort(targets, entry) =
            (CHOOSE f : PathOf(f, Cardinality(DOMAIN targets) + 1, targets, Named(targets, entry)))
              [Cardinality(DOMAIN targets) + 1][entry][{}][<<>>]
      BY DEF toposort, PathOf, Layer, Named
    <3> QED
      BY <1>1, <1>2, <3>1
  <2> HIDE DEF g
  <2> QED
    BY <2>1, <2>2
<1> DEFINE body(i) == Layer(f, i, targets, named)
<1>4. f = [i \in 0 .. K |-> body(i)]
  BY <1>3 DEF PathOf
<1> HIDE DEF body
<1>5. \A i \in 0 .. K : f[i] = body(i)
  BY <1>4
<1>6. 0 \in 0 .. K /\ \A i \in 1 .. K : i \in 0 .. K /\ i # 0
  OBVIOUS
<1>7. ASSUME NEW name \in named, NEW visiting \in SUBSET DOMAIN targets, NEW order \in Seq(named)
      PROVE  /\ f[0][name][visiting][order] = [order |-> order, fail |-> "cycle"]
             /\ \A i \in 1 .. K : f[i][name][visiting][order] = Visit(f[i - 1], targets, name, visiting, order)
  <2>1. f[0][name][visiting][order] = [order |-> order, fail |-> "cycle"]
    <3>1. f[0] = Layer(f, 0, targets, named)
      BY <1>5, <1>6 DEF body
    <3> QED
      BY <3>1 DEF Layer
  <2>2. ASSUME NEW i \in 1 .. K
        PROVE  f[i][name][visiting][order] = Visit(f[i - 1], targets, name, visiting, order)
    <3>1. f[i] = Layer(f, i, targets, named)
      BY <1>5, <1>6 DEF body
    <3>2. i # 0
      BY <1>6
    <3> QED
      BY <3>1, <3>2 DEF Layer
  <2> QED
    BY <2>1, <2>2
<1>8. PathTo(f, targets, entry)
  BY <1>1, <1>2, <1>3, <1>7 DEF PathTo
<1> QED
  BY <1>8

LEMMA ToposortListed ==
  ASSUME NEW targets, NEW entry, Graph(targets)
  PROVE  Listing(targets, Named(targets, entry), {entry}, {}, <<>>, toposort(targets, entry))
<1>1. PICK f : PathTo(f, targets, entry)
  BY ToposortIs DEF Graph
<1>2. PICK K \in Nat : K = Cardinality(DOMAIN targets) + 1
  BY FS_CardinalityType DEF Graph
<1>3. PICK named : named = Named(targets, entry)
  OBVIOUS
<1> DEFINE Good(i) == i =< K => ListingEach(f[i], targets, named)
           S == {i \in Nat : Good(i)}
<1>4. 0 \in S
  <2>1. \A name \in named, visiting \in SUBSET DOMAIN targets, order \in Seq(named) :
          f[0][name][visiting][order] = [order |-> order, fail |-> "cycle"]
    BY <1>1, <1>3 DEF PathTo
  <2>2. "cycle" # None
    BY NoneAssumption
  <2>3. ASSUME NEW name \in named, NEW visiting \in SUBSET DOMAIN targets, NEW order \in Seq(named)
        PROVE  f[0][name][visiting][order].fail # None
    <3>1. f[0][name][visiting][order] = [order |-> order, fail |-> "cycle"]
      BY <2>1
    <3> QED
      BY <2>2, <3>1
  <2>4. ListingEach(f[0], targets, named)
    BY <2>3 DEF ListingEach, Listing
  <2> QED
    BY <2>4
<1>5. ASSUME NEW i \in Nat, i \in S
      PROVE  i + 1 \in S
  <2> SUFFICES ASSUME i + 1 =< K
               PROVE  ListingEach(f[i + 1], targets, named)
    OBVIOUS
  <2>1. ListingEach(f[i], targets, named)
    BY <1>2, <1>5
  <2>2. i + 1 \in 1 .. K /\ (i + 1) - 1 = i
    BY <1>2
  <2>3. \A t \in DOMAIN targets : Range(targets[t].deps) \subseteq named
    BY <1>3 DEF Named
  <2> SUFFICES ASSUME NEW name \in named, NEW visiting \in SUBSET DOMAIN targets, NEW order \in Seq(named),
                      Ordered(targets, named, visiting, order)
               PROVE  Listing(targets, named, {name}, visiting, order, f[i + 1][name][visiting][order])
    BY DEF ListingEach
  <2>4. f[i + 1][name][visiting][order] = Visit(f[i], targets, name, visiting, order)
    BY <1>1, <1>2, <1>3, <2>2 DEF PathTo
  <2>5. Listing(targets, named, {name}, visiting, order, Visit(f[i], targets, name, visiting, order))
    BY <2>1, <2>3, VisitListed
  <2> QED
    BY <2>4, <2>5
<1> HIDE DEF Good
<1>6. Good(K)
  BY <1>2, <1>4, <1>5, Counting
<1>7. ListingEach(f[K], targets, named)
  BY <1>2, <1>6 DEF Good
<1>8. entry \in named /\ {} \in SUBSET DOMAIN targets /\ <<>> \in Seq(named)
  BY <1>3 DEF Named
<1>9. Ordered(targets, named, {}, <<>>)
  BY DEF Ordered, IsInjective
<1>10. Listing(targets, named, {entry}, {}, <<>>, f[K][entry][{}][<<>>])
  BY <1>7, <1>8, <1>9 DEF ListingEach
<1> QED
  BY <1>1, <1>2, <1>3, <1>10 DEF PathTo


-----------------------------------------------------------------------------
(* Lists of ops and what stands in their blocks.                           *)

\* What stands in the blocks of a list, depth by depth.
NestedBy(f, n, ops) ==
  f = [i \in 0 .. n |-> IF i = 0 THEN Own(ops) ELSE InBlocks(f[i - 1])]

LEMMA NestedByExists ==
  ASSUME NEW n \in Nat, NEW ops
  PROVE  \E f : NestedBy(f, n, ops)
<1> DEFINE Next1(r, i) == InBlocks(r)
           base == Own(ops)
           Eq(f, m) == f = [i \in 0 .. m |-> IF i = 0 THEN base ELSE Next1(f[i - 1], i)]
           S == {m \in Nat : \E f : Eq(f, m)}
<1>0. \A f : Eq(f, n) => NestedBy(f, n, ops)
  BY DEF NestedBy
<1> HIDE DEF base, Next1
<1>1. 0 \in S
  <2> DEFINE f == [i \in 0 .. 0 |-> base]
  <2>1. Eq(f, 0)
    <3>1. \A i \in 0 .. 0 : i = 0
      OBVIOUS
    <3> QED
      BY <3>1
  <2> HIDE DEF f, Eq
  <2> QED
    BY <2>1
<1>2. ASSUME NEW m \in Nat, m \in S
      PROVE  m + 1 \in S
  <2>1. PICK f : Eq(f, m)
    BY <1>2
  <2> DEFINE g == [i \in 0 .. m + 1 |-> IF i = m + 1 THEN Next1(f[m], m + 1) ELSE f[i]]
  <2>2. \A i \in 0 .. m : f[i] = IF i = 0 THEN base ELSE Next1(f[i - 1], i)
    BY <2>1
  <2>3. \A i \in 0 .. m + 1 : g[i] = IF i = 0 THEN base ELSE Next1(g[i - 1], i)
    <3> SUFFICES ASSUME NEW i \in 0 .. m + 1
                 PROVE  g[i] = IF i = 0 THEN base ELSE Next1(g[i - 1], i)
      OBVIOUS
    <3>1. CASE i = m + 1
      <4>1. g[i - 1] = f[m] /\ i # 0
        BY <3>1
      <4> QED
        BY <3>1, <4>1
    <3>2. CASE i # m + 1
      <4>1. i \in 0 .. m /\ (i # 0 => i - 1 \in 0 .. m /\ i - 1 # m + 1)
        BY <3>2
      <4>2. i # 0 => g[i - 1] = f[i - 1]
        BY <4>1
      <4> QED
        BY <2>2, <3>2, <4>1, <4>2
    <3> QED
      BY <3>1, <3>2
  <2>4. Eq(g, m + 1)
    BY <2>3
  <2> HIDE DEF g, Eq
  <2> QED
    BY <2>4
<1>3. n \in S
  BY <1>1, <1>2, Counting
<1>4. PICK f : Eq(f, n)
  BY <1>3
<1> HIDE DEF Eq
<1> QED
  BY <1>0, <1>4

LEMMA NestedBySteps ==
  ASSUME NEW n \in Nat, NEW ops, NEW f, NestedBy(f, n, ops)
  PROVE  f[0] = Own(ops) /\ \A i \in 1 .. n : f[i] = InBlocks(f[i - 1])
<1> DEFINE body(i) == IF i = 0 THEN Own(ops) ELSE InBlocks(f[i - 1])
<1>1. f = [i \in 0 .. n |-> body(i)]
  BY DEF NestedBy
<1> HIDE DEF body
<1>2. \A i \in 0 .. n : f[i] = body(i)
  BY <1>1
<1>3. 0 \in 0 .. n /\ \A i \in 1 .. n : i \in 0 .. n /\ i # 0
  OBVIOUS
<1>4. body(0) = Own(ops)
  BY DEF body
<1>5. \A i \in 1 .. n : body(i) = InBlocks(f[i - 1])
  BY <1>3 DEF body
<1> QED
  BY <1>2, <1>3, <1>4, <1>5

LEMMA NestedIs ==
  ASSUME NEW ops
  PROVE  Nested(ops)[0] = Own(ops) /\ \A n \in 1 .. MaxNesting : Nested(ops)[n] = InBlocks(Nested(ops)[n - 1])
<1>1. PICK n \in Nat : n = MaxNesting
  BY NestingAssumption
<1>2. NestedBy(Nested(ops), n, ops)
  <2> DEFINE g == CHOOSE f : NestedBy(f, n, ops)
  <2>1. NestedBy(g, n, ops)
    BY NestedByExists
  <2>2. Nested(ops) = g
    BY <1>1 DEF Nested, NestedBy
  <2> HIDE DEF g
  <2> QED
    BY <2>1, <2>2
<1>3. PICK f : f = Nested(ops)
  OBVIOUS
<1>4. f[0] = Own(ops) /\ \A i \in 1 .. n : f[i] = InBlocks(f[i - 1])
  BY <1>2, <1>3, NestedBySteps
<1> QED
  BY <1>1, <1>3, <1>4

\* A set of ops that has what stands in the blocks of its ops as well.
Hereditary(K) == \A o \in K : WellFormed(o) /\ \A j \in DOMAIN o.blocks : o.blocks[j].ops \in Seq(K)

LEMMA Elements ==
  ASSUME NEW X, NEW s \in Seq(X)
  PROVE  Own(s) \subseteq X /\ s \in Seq(Own(s)) /\ DOMAIN s = 1 .. Len(s) /\ Len(s) \in Nat
BY DEF Own

LEMMA WalkedIsHereditary ==
  ASSUME NEW ops, OpList(ops)
  PROVE  Hereditary(walkOps(ops)) /\ Own(ops) \subseteq walkOps(ops) /\ ops \in Seq(walkOps(ops))
<1>1. PICK W : W = walkOps(ops)
  OBVIOUS
<1>2. \A n \in 0 .. MaxNesting : Nested(ops)[n] \subseteq W
  BY <1>1 DEF walkOps
<1>3. 0 \in 0 .. MaxNesting
  BY NestingAssumption
<1>4. Own(ops) \subseteq W
  BY <1>2, <1>3, NestedIs
<1>5. ops \in Seq(W)
  <2>1. ops \in Seq(Own(ops))
    BY DEF OpList
  <2> QED
    BY <1>4, <2>1, SeqMonotonic
<1>6. ASSUME NEW o \in W, NEW j \in DOMAIN o.blocks
      PROVE  o.blocks[j].ops \in Seq(W)
  <2>1. WellFormed(o)
    BY <1>1 DEF OpList
  <2>2. PICK n \in 0 .. MaxNesting : o \in Nested(ops)[n]
    BY <1>1 DEF walkOps
  <2>3. n # MaxNesting
    <3> SUFFICES ASSUME n = MaxNesting PROVE FALSE
      OBVIOUS
    <3>1. o.blocks = <<>>
      BY <2>2 DEF OpList, Shallow
    <3> QED
      BY <1>6, <3>1
  <2>4. n + 1 \in 1 .. MaxNesting /\ n + 1 \in 0 .. MaxNesting /\ (n + 1) - 1 = n
    BY <2>3, NestingAssumption
  <2>5. Nested(ops)[n + 1] = InBlocks(Nested(ops)[n])
    BY <2>4, NestedIs
  <2>6. Own(o.blocks[j].ops) \subseteq InBlocks(Nested(ops)[n])
    BY <1>6, <2>2 DEF InBlocks
  <2>7. Own(o.blocks[j].ops) \subseteq W
    BY <1>2, <2>4, <2>5, <2>6
  <2>8. o.blocks[j].ops \in Seq(Own(o.blocks[j].ops))
    BY <1>6, <2>1 DEF WellFormed
  <2> QED
    BY <2>7, <2>8, SeqMonotonic
<1>7. \A o \in W : WellFormed(o)
  BY <1>1 DEF OpList
<1> QED
  BY <1>1, <1>4, <1>5, <1>6, <1>7 DEF Hereditary

\* What stands in the blocks of a list stands in any such set with its ops.
LEMMA WalkedWithin ==
  ASSUME NEW S, NEW ops \in Seq(S), \A o \in S : \A j \in DOMAIN o.blocks : o.blocks[j].ops \in Seq(S)
  PROVE  walkOps(ops) \subseteq S
<1>1. PICK m \in Nat : m = MaxNesting
  BY NestingAssumption
<1> DEFINE Good(n) == n =< m => Nested(ops)[n] \subseteq S
           N == {n \in Nat : Good(n)}
<1>2. 0 \in N
  BY NestedIs, Elements
<1>3. ASSUME NEW n \in Nat, n \in N
      PROVE  n + 1 \in N
  <2> SUFFICES ASSUME n + 1 =< m, NEW o \in Nested(ops)[n + 1] PROVE o \in S
    OBVIOUS
  <2>1. n + 1 \in 1 .. m /\ (n + 1) - 1 = n
    OBVIOUS
  <2>2. o \in InBlocks(Nested(ops)[n])
    BY <1>1, <2>1, NestedIs
  <2>3. PICK p \in Nested(ops)[n] : \E j \in DOMAIN p.blocks : o \in Own(p.blocks[j].ops)
    BY <2>2 DEF InBlocks
  <2>4. p \in S
    BY <1>3, <2>3
  <2>5. PICK j \in DOMAIN p.blocks : o \in Own(p.blocks[j].ops)
    BY <2>3
  <2>6. p.blocks[j].ops \in Seq(S)
    BY <2>4
  <2> QED
    BY <2>5, <2>6, Elements
<1> HIDE DEF Good
<1>4. \A n \in Nat : Good(n)
  BY <1>2, <1>3, Counting
<1>5. \A n \in 0 .. m : Nested(ops)[n] \subseteq S
  BY <1>4 DEF Good
<1> QED
  BY <1>1, <1>5 DEF walkOps

\* The lists the inlining starts from.
Roots == ListsOf(skill.targets) \cup UNION {ListsOf(env.skills[name].targets) : name \in DOMAIN env.skills}

\* The lists of ops, depth by depth.
ListsBy(f, n, roots) ==
  f = [i \in 0 .. n |-> IF i = 0 THEN roots ELSE UNION {BlocksOf(ops) : ops \in f[i - 1]}]

LEMMA ListsByExists ==
  ASSUME NEW n \in Nat, NEW roots
  PROVE  \E f : ListsBy(f, n, roots)
<1> DEFINE Next1(r, i) == UNION {BlocksOf(ops) : ops \in r}
           base == roots
           Eq(f, m) == f = [i \in 0 .. m |-> IF i = 0 THEN base ELSE Next1(f[i - 1], i)]
           S == {m \in Nat : \E f : Eq(f, m)}
<1>0. \A f : Eq(f, n) => ListsBy(f, n, roots)
  BY DEF ListsBy
<1> HIDE DEF base, Next1
<1>1. 0 \in S
  <2> DEFINE f == [i \in 0 .. 0 |-> base]
  <2>1. Eq(f, 0)
    <3>1. \A i \in 0 .. 0 : i = 0
      OBVIOUS
    <3> QED
      BY <3>1
  <2> HIDE DEF f, Eq
  <2> QED
    BY <2>1
<1>2. ASSUME NEW m \in Nat, m \in S
      PROVE  m + 1 \in S
  <2>1. PICK f : Eq(f, m)
    BY <1>2
  <2> DEFINE g == [i \in 0 .. m + 1 |-> IF i = m + 1 THEN Next1(f[m], m + 1) ELSE f[i]]
  <2>2. \A i \in 0 .. m : f[i] = IF i = 0 THEN base ELSE Next1(f[i - 1], i)
    BY <2>1
  <2>3. \A i \in 0 .. m + 1 : g[i] = IF i = 0 THEN base ELSE Next1(g[i - 1], i)
    <3> SUFFICES ASSUME NEW i \in 0 .. m + 1
                 PROVE  g[i] = IF i = 0 THEN base ELSE Next1(g[i - 1], i)
      OBVIOUS
    <3>1. CASE i = m + 1
      <4>1. g[i - 1] = f[m] /\ i # 0
        BY <3>1
      <4> QED
        BY <3>1, <4>1
    <3>2. CASE i # m + 1
      <4>1. i \in 0 .. m /\ (i # 0 => i - 1 \in 0 .. m /\ i - 1 # m + 1)
        BY <3>2
      <4>2. i # 0 => g[i - 1] = f[i - 1]
        BY <4>1
      <4> QED
        BY <2>2, <3>2, <4>1, <4>2
    <3> QED
      BY <3>1, <3>2
  <2>4. Eq(g, m + 1)
    BY <2>3
  <2> HIDE DEF g, Eq
  <2> QED
    BY <2>4
<1>3. n \in S
  BY <1>1, <1>2, Counting
<1>4. PICK f : Eq(f, n)
  BY <1>3
<1> HIDE DEF Eq
<1> QED
  BY <1>0, <1>4

LEMMA ListsBySteps ==
  ASSUME NEW n \in Nat, NEW roots, NEW f, ListsBy(f, n, roots)
  PROVE  f[0] = roots /\ \A i \in 1 .. n : f[i] = UNION {BlocksOf(ops) : ops \in f[i - 1]}
<1> DEFINE body(i) == IF i = 0 THEN roots ELSE UNION {BlocksOf(ops) : ops \in f[i - 1]}
<1>1. f = [i \in 0 .. n |-> body(i)]
  BY DEF ListsBy
<1> HIDE DEF body
<1>2. \A i \in 0 .. n : f[i] = body(i)
  BY <1>1
<1>3. 0 \in 0 .. n /\ \A i \in 1 .. n : i \in 0 .. n /\ i # 0
  OBVIOUS
<1>4. body(0) = roots
  BY DEF body
<1>5. \A i \in 1 .. n : body(i) = UNION {BlocksOf(ops) : ops \in f[i - 1]}
  BY <1>3 DEF body
<1> QED
  BY <1>2, <1>3, <1>4, <1>5

LEMMA OpListsAre ==
  \E f : /\ f[0] = Roots /\ \A n \in 1 .. MaxNesting : f[n] = UNION {BlocksOf(ops) : ops \in f[n - 1]}
         /\ OpLists = UNION {f[n] : n \in 0 .. MaxNesting}
<1>1. PICK n \in Nat : n = MaxNesting
  BY NestingAssumption
<1>2. PICK roots : roots = Roots
  OBVIOUS
<1>3. PICK f : ListsBy(f, n, roots) /\ OpLists = UNION {f[k] : k \in 0 .. n}
  <2> DEFINE g == CHOOSE f : ListsBy(f, n, roots)
  <2>1. ListsBy(g, n, roots)
    BY ListsByExists
  <2>2. OpLists = UNION {g[k] : k \in 0 .. n}
    BY <1>1, <1>2 DEF OpLists, ListsBy, Roots
  <2> HIDE DEF g
  <2> QED
    BY <2>1, <2>2
<1>4. f[0] = roots /\ \A i \in 1 .. n : f[i] = UNION {BlocksOf(ops) : ops \in f[i - 1]}
  BY <1>3, ListsBySteps
<1> QED
  BY <1>1, <1>2, <1>3, <1>4

\* Every list the inlining may come to is one of OpLists.
LEMMA OpListsAreClosed ==
  ASSUME \A ops \in Roots : OpList(ops)
  PROVE  /\ Roots \subseteq OpLists
         /\ \A ops \in OpLists : \A o \in Own(ops) : \A j \in DOMAIN o.blocks : o.blocks[j].ops \in OpLists
<1>1. PICK f : /\ f[0] = Roots /\ \A n \in 1 .. MaxNesting : f[n] = UNION {BlocksOf(ops) : ops \in f[n - 1]}
               /\ OpLists = UNION {f[n] : n \in 0 .. MaxNesting}
  BY OpListsAre
<1>2. PICK m \in Nat : m = MaxNesting
  BY NestingAssumption
<1> DEFINE Good(n) == n =< m => \A ops \in f[n] : \E root \in Roots : Own(ops) \subseteq Nested(root)[n]
           N == {n \in Nat : Good(n)}
<1>3. 0 \in N
  BY <1>1, NestedIs
<1>4. ASSUME NEW n \in Nat, n \in N
      PROVE  n + 1 \in N
  <2> SUFFICES ASSUME n + 1 =< m, NEW ops \in f[n + 1]
               PROVE  \E root \in Roots : Own(ops) \subseteq Nested(root)[n + 1]
    OBVIOUS
  <2>1. n + 1 \in 1 .. m /\ (n + 1) - 1 = n
    OBVIOUS
  <2>2. PICK above \in f[n] : ops \in BlocksOf(above)
    BY <1>1, <1>2, <2>1
  <2>3. PICK o \in Own(above) : \E j \in DOMAIN o.blocks : ops = o.blocks[j].ops
    BY <2>2 DEF BlocksOf
  <2>4. PICK root \in Roots : Own(above) \subseteq Nested(root)[n]
    BY <1>4
  <2>5. Own(ops) \subseteq InBlocks(Nested(root)[n])
    BY <2>3, <2>4 DEF InBlocks
  <2>6. Nested(root)[n + 1] = InBlocks(Nested(root)[n])
    BY <1>2, <2>1, NestedIs
  <2> QED
    BY <2>5, <2>6
<1> HIDE DEF Good
<1>5. \A n \in Nat : Good(n)
  BY <1>3, <1>4, Counting
<1>6. Roots \subseteq OpLists
  <2>1. 0 \in 0 .. MaxNesting
    BY NestingAssumption
  <2> QED
    BY <1>1, <2>1
<1>7. ASSUME NEW ops \in OpLists, NEW o \in Own(ops), NEW j \in DOMAIN o.blocks
      PROVE  o.blocks[j].ops \in OpLists
  <2>1. PICK n \in 0 .. m : ops \in f[n]
    BY <1>1, <1>2
  <2>2. n # m
    <3> SUFFICES ASSUME n = m PROVE FALSE
      OBVIOUS
    <3>1. PICK root \in Roots : Own(ops) \subseteq Nested(root)[m]
      BY <1>5, <2>1 DEF Good
    <3>2. o.blocks = <<>>
      BY <1>2, <1>7, <3>1 DEF OpList, Shallow
    <3> QED
      BY <1>7, <3>2
  <2>3. n + 1 \in 1 .. m /\ n + 1 \in 0 .. m /\ (n + 1) - 1 = n
    BY <2>2
  <2>4. o.blocks[j].ops \in BlocksOf(ops)
    BY <1>7 DEF BlocksOf
  <2>5. o.blocks[j].ops \in f[n + 1]
    BY <1>1, <1>2, <2>1, <2>3, <2>4
  <2> QED
    BY <1>1, <1>2, <2>3, <2>5
<1> QED
  BY <1>6, <1>7


-----------------------------------------------------------------------------
(* The emits of a data skill.                                              *)

\* The emits among the first ops of a list.
EmitsBy(f, n, ops) ==
  f = [i \in 0 .. n |-> IF i = 0 THEN <<>> ELSE (IF ops[i].kind = "emit" THEN Append(f[i - 1], ops[i]) ELSE f[i - 1])]

LEMMA EmitsByExists ==
  ASSUME NEW n \in Nat, NEW ops
  PROVE  \E f : EmitsBy(f, n, ops)
<1> DEFINE Next1(r, i) == (IF ops[i].kind = "emit" THEN Append(r, ops[i]) ELSE r)
           base == <<>>
           Eq(f, m) == f = [i \in 0 .. m |-> IF i = 0 THEN base ELSE Next1(f[i - 1], i)]
           S == {m \in Nat : \E f : Eq(f, m)}
<1>0. \A f : Eq(f, n) => EmitsBy(f, n, ops)
  BY DEF EmitsBy
<1> HIDE DEF base, Next1
<1>1. 0 \in S
  <2> DEFINE f == [i \in 0 .. 0 |-> base]
  <2>1. Eq(f, 0)
    <3>1. \A i \in 0 .. 0 : i = 0
      OBVIOUS
    <3> QED
      BY <3>1
  <2> HIDE DEF f, Eq
  <2> QED
    BY <2>1
<1>2. ASSUME NEW m \in Nat, m \in S
      PROVE  m + 1 \in S
  <2>1. PICK f : Eq(f, m)
    BY <1>2
  <2> DEFINE g == [i \in 0 .. m + 1 |-> IF i = m + 1 THEN Next1(f[m], m + 1) ELSE f[i]]
  <2>2. \A i \in 0 .. m : f[i] = IF i = 0 THEN base ELSE Next1(f[i - 1], i)
    BY <2>1
  <2>3. \A i \in 0 .. m + 1 : g[i] = IF i = 0 THEN base ELSE Next1(g[i - 1], i)
    <3> SUFFICES ASSUME NEW i \in 0 .. m + 1
                 PROVE  g[i] = IF i = 0 THEN base ELSE Next1(g[i - 1], i)
      OBVIOUS
    <3>1. CASE i = m + 1
      <4>1. g[i - 1] = f[m] /\ i # 0
        BY <3>1
      <4> QED
        BY <3>1, <4>1
    <3>2. CASE i # m + 1
      <4>1. i \in 0 .. m /\ (i # 0 => i - 1 \in 0 .. m /\ i - 1 # m + 1)
        BY <3>2
      <4>2. i # 0 => g[i - 1] = f[i - 1]
        BY <4>1
      <4> QED
        BY <2>2, <3>2, <4>1, <4>2
    <3> QED
      BY <3>1, <3>2
  <2>4. Eq(g, m + 1)
    BY <2>3
  <2> HIDE DEF g, Eq
  <2> QED
    BY <2>4
<1>3. n \in S
  BY <1>1, <1>2, Counting
<1>4. PICK f : Eq(f, n)
  BY <1>3
<1> HIDE DEF Eq
<1> QED
  BY <1>0, <1>4

LEMMA EmitsBySteps ==
  ASSUME NEW n \in Nat, NEW ops, NEW f, EmitsBy(f, n, ops)
  PROVE  f[0] = <<>> /\ \A i \in 1 .. n : f[i] = (IF ops[i].kind = "emit" THEN Append(f[i - 1], ops[i]) ELSE f[i - 1])
<1> DEFINE body(i) == IF i = 0 THEN <<>> ELSE (IF ops[i].kind = "emit" THEN Append(f[i - 1], ops[i]) ELSE f[i - 1])
<1>1. f = [i \in 0 .. n |-> body(i)]
  BY DEF EmitsBy
<1> HIDE DEF body
<1>2. \A i \in 0 .. n : f[i] = body(i)
  BY <1>1
<1>3. 0 \in 0 .. n /\ \A i \in 1 .. n : i \in 0 .. n /\ i # 0
  OBVIOUS
<1>4. body(0) = <<>>
  BY DEF body
<1>5. \A i \in 1 .. n : body(i) = (IF ops[i].kind = "emit" THEN Append(f[i - 1], ops[i]) ELSE f[i - 1])
  BY <1>3 DEF body
<1> QED
  BY <1>2, <1>3, <1>4, <1>5

LEMMA EmitsAmongAre ==
  ASSUME NEW X, NEW ops \in Seq(X)
  PROVE  EmitsAmong(ops) \in Seq({o \in X : o.kind = "emit"})
<1>1. PICK n \in Nat : n = Len(ops)
  OBVIOUS
<1>2. PICK f : EmitsBy(f, n, ops) /\ EmitsAmong(ops) = f[n]
  <2> DEFINE g == CHOOSE f : EmitsBy(f, n, ops)
  <2>1. EmitsBy(g, n, ops)
    BY EmitsByExists
  <2>2. EmitsAmong(ops) = g[n]
    BY <1>1 DEF EmitsAmong, EmitsBy
  <2> HIDE DEF g
  <2> QED
    BY <2>1, <2>2
<1>3. f[0] = <<>> /\ \A i \in 1 .. n : f[i] = (IF ops[i].kind = "emit" THEN Append(f[i - 1], ops[i]) ELSE f[i - 1])
  BY <1>2, EmitsBySteps
<1>4. PICK E : E = {o \in X : o.kind = "emit"}
  OBVIOUS
<1> DEFINE Good(i) == i =< n => f[i] \in Seq(E)
           N == {i \in Nat : Good(i)}
<1>5. 0 \in N
  <2>1. f[0] \in Seq(E)
    <3>1. f[0] = <<>>
      BY <1>3
    <3> QED
      BY <3>1
  <2> QED
    BY <2>1
<1>6. ASSUME NEW i \in Nat, i \in N
      PROVE  i + 1 \in N
  <2> SUFFICES ASSUME i + 1 =< n PROVE f[i + 1] \in Seq(E)
    OBVIOUS
  <2>1. i + 1 \in 1 .. n /\ (i + 1) - 1 = i
    OBVIOUS
  <2>2. f[i + 1] = (IF ops[i + 1].kind = "emit" THEN Append(f[i], ops[i + 1]) ELSE f[i])
    BY <1>3, <2>1
  <2>3. f[i] \in Seq(E)
    BY <1>6
  <2>4. ops[i + 1] \in X
    BY <1>1, <2>1
  <2> QED
    BY <1>4, <2>2, <2>3, <2>4
<1> HIDE DEF Good
<1>7. Good(n)
  BY <1>5, <1>6, Counting
<1>8. f[n] \in Seq(E)
  BY <1>7 DEF Good
<1> QED
  BY <1>2, <1>4, <1>8

WithEmits(emits, d, order, i) == emits \o EmitsAmong(d.targets[order[i]].ops)

\* The emits of the first targets of an order.
SortedEmitsBy(f, n, d, order) ==
  f = [i \in 0 .. n |-> IF i = 0 THEN <<>> ELSE WithEmits(f[i - 1], d, order, i)]

LEMMA SortedEmitsByExists ==
  ASSUME NEW n \in Nat, NEW d, NEW order
  PROVE  \E f : SortedEmitsBy(f, n, d, order)
<1> DEFINE Next1(r, i) == WithEmits(r, d, order, i)
           base == <<>>
           Eq(f, m) == f = [i \in 0 .. m |-> IF i = 0 THEN base ELSE Next1(f[i - 1], i)]
           S == {m \in Nat : \E f : Eq(f, m)}
<1>0. \A f : Eq(f, n) => SortedEmitsBy(f, n, d, order)
  BY DEF SortedEmitsBy
<1> HIDE DEF base, Next1
<1>1. 0 \in S
  <2> DEFINE f == [i \in 0 .. 0 |-> base]
  <2>1. Eq(f, 0)
    <3>1. \A i \in 0 .. 0 : i = 0
      OBVIOUS
    <3> QED
      BY <3>1
  <2> HIDE DEF f, Eq
  <2> QED
    BY <2>1
<1>2. ASSUME NEW m \in Nat, m \in S
      PROVE  m + 1 \in S
  <2>1. PICK f : Eq(f, m)
    BY <1>2
  <2> DEFINE g == [i \in 0 .. m + 1 |-> IF i = m + 1 THEN Next1(f[m], m + 1) ELSE f[i]]
  <2>2. \A i \in 0 .. m : f[i] = IF i = 0 THEN base ELSE Next1(f[i - 1], i)
    BY <2>1
  <2>3. \A i \in 0 .. m + 1 : g[i] = IF i = 0 THEN base ELSE Next1(g[i - 1], i)
    <3> SUFFICES ASSUME NEW i \in 0 .. m + 1
                 PROVE  g[i] = IF i = 0 THEN base ELSE Next1(g[i - 1], i)
      OBVIOUS
    <3>1. CASE i = m + 1
      <4>1. g[i - 1] = f[m] /\ i # 0
        BY <3>1
      <4> QED
        BY <3>1, <4>1
    <3>2. CASE i # m + 1
      <4>1. i \in 0 .. m /\ (i # 0 => i - 1 \in 0 .. m /\ i - 1 # m + 1)
        BY <3>2
      <4>2. i # 0 => g[i - 1] = f[i - 1]
        BY <4>1
      <4> QED
        BY <2>2, <3>2, <4>1, <4>2
    <3> QED
      BY <3>1, <3>2
  <2>4. Eq(g, m + 1)
    BY <2>3
  <2> HIDE DEF g, Eq
  <2> QED
    BY <2>4
<1>3. n \in S
  BY <1>1, <1>2, Counting
<1>4. PICK f : Eq(f, n)
  BY <1>3
<1> HIDE DEF Eq
<1> QED
  BY <1>0, <1>4

LEMMA SortedEmitsBySteps ==
  ASSUME NEW n \in Nat, NEW d, NEW order, NEW f, SortedEmitsBy(f, n, d, order)
  PROVE  f[0] = <<>> /\ \A i \in 1 .. n : f[i] = WithEmits(f[i - 1], d, order, i)
<1> DEFINE body(i) == IF i = 0 THEN <<>> ELSE WithEmits(f[i - 1], d, order, i)
<1>1. f = [i \in 0 .. n |-> body(i)]
  BY DEF SortedEmitsBy
<1> HIDE DEF body
<1>2. \A i \in 0 .. n : f[i] = body(i)
  BY <1>1
<1>3. 0 \in 0 .. n /\ \A i \in 1 .. n : i \in 0 .. n /\ i # 0
  OBVIOUS
<1>4. body(0) = <<>>
  BY DEF body
<1>5. \A i \in 1 .. n : body(i) = WithEmits(f[i - 1], d, order, i)
  BY <1>3 DEF body
<1> QED
  BY <1>2, <1>3, <1>4, <1>5

LEMMA EmitsOfAre ==
  ASSUME NEW X, NEW d, \A t \in DOMAIN d.targets : d.targets[t].ops \in Seq(X),
         NEW sorted, sorted.fail = None => sorted.order \in Seq(DOMAIN d.targets)
  PROVE  EmitsOf(d, sorted).ops \in Seq({o \in X : o.kind = "emit"})
<1>1. PICK E : E = {o \in X : o.kind = "emit"}
  OBVIOUS
<1>2. CASE sorted.fail # None
  <2>1. EmitsOf(d, sorted).ops = <<>>
    BY <1>2 DEF EmitsOf
  <2> QED
    BY <2>1
<1>3. CASE sorted.fail = None
  <2>1. PICK order : order = sorted.order
    OBVIOUS
  <2>2. order \in Seq(DOMAIN d.targets)
    BY <1>3, <2>1
  <2>3. PICK n \in Nat : n = Len(order)
    BY <2>2
  <2>4. PICK f : SortedEmitsBy(f, n, d, order) /\ EmitsOf(d, sorted).ops = f[n]
    <3> DEFINE g == CHOOSE f : SortedEmitsBy(f, n, d, order)
    <3>1. SortedEmitsBy(g, n, d, order)
      BY SortedEmitsByExists
    <3>2. EmitsOf(d, sorted).ops = g[n]
      BY <1>3, <2>1, <2>3 DEF EmitsOf, SortedEmitsBy, WithEmits
    <3> HIDE DEF g
    <3> QED
      BY <3>1, <3>2
  <2>5. f[0] = <<>> /\ \A i \in 1 .. n : f[i] = WithEmits(f[i - 1], d, order, i)
    <3>1. SortedEmitsBy(f, n, d, order)
      BY <2>4
    <3> QED
      BY <3>1, SortedEmitsBySteps
  <2> DEFINE Good(i) == i =< n => f[i] \in Seq(E)
             N == {i \in Nat : Good(i)}
  <2>6. 0 \in N
    <3>1. f[0] \in Seq(E)
      <4>1. f[0] = <<>>
        BY <2>5
      <4> QED
        BY <4>1
    <3> QED
      BY <3>1
  <2>7. ASSUME NEW i \in Nat, i \in N
        PROVE  i + 1 \in N
    <3> SUFFICES ASSUME i + 1 =< n PROVE f[i + 1] \in Seq(E)
      OBVIOUS
    <3>1. i + 1 \in 1 .. n /\ (i + 1) - 1 = i
      OBVIOUS
    <3>2. f[i + 1] = f[i] \o EmitsAmong(d.targets[order[i + 1]].ops)
      BY <2>5, <3>1 DEF WithEmits
    <3>3. f[i] \in Seq(E)
      BY <2>7
    <3>4. order[i + 1] \in DOMAIN d.targets
      BY <2>2, <2>3, <3>1
    <3>5. d.targets[order[i + 1]].ops \in Seq(X)
      BY <3>4
    <3>6. EmitsAmong(d.targets[order[i + 1]].ops) \in Seq(E)
      BY <1>1, <3>5, EmitsAmongAre
    <3> QED
      BY <3>2, <3>3, <3>6
  <2> HIDE DEF Good
  <2>8. Good(n)
    BY <2>6, <2>7, Counting
  <2>9. f[n] \in Seq(E)
    BY <2>8 DEF Good
  <2> QED
    BY <1>1, <2>4, <2>9
<1> QED
  BY <1>2, <1>3

LEMMA DataSkillEmitsAre ==
  ASSUME NEW X, NEW d, Graph(d.targets), \A t \in DOMAIN d.targets : d.targets[t].ops \in Seq(X)
  PROVE  dataSkillEmitOps(d).ops \in Seq({o \in X : o.kind = "emit"})
<1>1. CASE d.entry = None
  <2>1. dataSkillEmitOps(d).ops = <<>>
    BY <1>1 DEF dataSkillEmitOps
  <2> QED
    BY <2>1
<1>2. CASE d.entry # None
  <2>1. PICK sorted : sorted = toposort(d.targets, d.entry)
    OBVIOUS
  <2>2. dataSkillEmitOps(d) = EmitsOf(d, sorted)
    BY <1>2, <2>1 DEF dataSkillEmitOps
  <2>3. sorted.fail = None => sorted.order \in Seq(DOMAIN d.targets)
    <3> SUFFICES ASSUME sorted.fail = None PROVE sorted.order \in Seq(DOMAIN d.targets)
      OBVIOUS
    <3>1. Listing(d.targets, Named(d.targets, d.entry), {d.entry}, {}, <<>>, sorted)
      BY <2>1, ToposortListed
    <3>2. sorted.order \in Seq(Named(d.targets, d.entry) \cap DOMAIN d.targets)
      BY <3>1 DEF Listing, Ordered
    <3> QED
      BY <3>2, SeqMonotonic
  <2> QED
    BY <2>2, <2>3, EmitsOfAre
<1> QED
  BY <1>1, <1>2

-----------------------------------------------------------------------------
(* Inlining: what the lists of a skill become.                             *)

\* An op of the text itself, or the content of a data skill in its place.
SameBut(o, k) ==
  \/ o = k
  \/ /\ o = [k EXCEPT !.blocks = o.blocks] /\ DOMAIN o.blocks = DOMAIN k.blocks
     /\ \A j \in DOMAIN o.blocks : o.blocks[j].cond = k.blocks[j].cond
Content1(o) ==
  /\ o.kind \in {"emit", "$set"} /\ DOMAIN o.blocks = {} /\ o.val # Absent
  /\ o.kind = "$set" => o.val = "text"
Kin(o, K) == Content1(o) \/ \E k \in K : SameBut(o, k)

\* No reference to a data skill that could have been taken in.
Settled(o) == o.kind = "inline" => ~(Loadable(o.skill) /\ env.skills[o.skill].type = "data")
Grown(S, K, fail) ==
  \A o \in S : /\ Kin(o, K) /\ (fail = None => Settled(o))
               /\ \A j \in DOMAIN o.blocks : o.blocks[j].ops \in Seq(S)

\* A list made of ops, of which all stand in blocks of ops of K.
Made(r, ops, K) == \E S : r.ops \in Seq({o \in S : Kin(o, Own(ops))}) /\ Grown(S, K, r.fail)

\* Data skills that stand on their own approval.
Standing == {name \in DOMAIN env.skills : env.skills[name].type = "data" /\ env.skills[name].approved}

MadeEach(deeper) ==
  \A ops \in OpLists, chain \in SUBSET Chained :
    /\ deeper[ops][chain].inlined \subseteq Standing
    /\ \A K : Hereditary(K) /\ ops \in Seq(K) => Made(deeper[ops][chain], ops, K)

\* The skills on the shelf and the skill itself, as they were parsed.
AllParsed ==
  /\ Parsed(skill) /\ \A name \in DOMAIN env.skills : Parsed(env.skills[name])
  /\ IsFiniteSet(DOMAIN env.skills)

LEMMA KinGrows ==
  ASSUME NEW o, NEW K, NEW L, K \subseteq L, Kin(o, K)
  PROVE  Kin(o, L)
BY DEF Kin

LEMMA GrownTogether ==
  ASSUME NEW S, NEW T, NEW K, NEW e, NEW f, NEW g, Grown(S, K, e), Grown(T, K, f), g = None => e = None /\ f = None
  PROVE  Grown(S \cup T, K, g)
<1> SUFFICES ASSUME NEW o \in S \cup T
             PROVE  /\ Kin(o, K) /\ (g = None => Settled(o))
                    /\ \A j \in DOMAIN o.blocks : o.blocks[j].ops \in Seq(S \cup T)
  BY DEF Grown
<1>1. CASE o \in S
  <2>1. Kin(o, K) /\ (g = None => Settled(o)) /\ \A j \in DOMAIN o.blocks : o.blocks[j].ops \in Seq(S)
    BY <1>1 DEF Grown
  <2> QED
    BY <2>1, SeqMonotonic
<1>2. CASE o \in T
  <2>1. Kin(o, K) /\ (g = None => Settled(o)) /\ \A j \in DOMAIN o.blocks : o.blocks[j].ops \in Seq(T)
    BY <1>2 DEF Grown
  <2> QED
    BY <2>1, SeqMonotonic
<1> QED
  BY <1>1, <1>2

\* An op left where it was.
LEMMA LeftIsMade ==
  ASSUME NEW op, WellFormed(op), op.kind = "inline", NEW why,
         why = None => Settled(op), NEW K, op \in K
  PROVE  Left(op, why).inlined = {} /\ Made(Left(op, why), <<op>>, K)
<1>1. op.blocks = <<>>
  BY DEF WellFormed
<1>2. Grown({op}, K, why)
  BY <1>1 DEF Grown, Kin, SameBut
<1>3. Left(op, why).ops = <<op>> /\ Left(op, why).fail = why /\ Left(op, why).inlined = {}
  BY DEF Left
<1>4. Own(<<op>>) = {op}
  BY DEF Own
<1>5. <<op>> \in Seq({o \in {op} : Kin(o, {op})})
  BY DEF Kin, SameBut
<1> QED
  BY <1>2, <1>3, <1>4, <1>5 DEF Made

\* An op with blocks that have been gone through.
LEMMA BlocksAreMade ==
  ASSUME NEW deeper, MadeEach(deeper), NEW op, WellFormed(op), op.kind # "inline",
         \A j \in DOMAIN op.blocks : op.blocks[j].ops \in OpLists,
         NEW chain \in SUBSET Chained, NEW K, Hereditary(K), op \in K
  PROVE  LET r == inlineOp(deeper, op, chain) IN r.inlined \subseteq Standing /\ Made(r, <<op>>, K)
<1>1. PICK bs : bs = [j \in DOMAIN op.blocks |-> deeper[op.blocks[j].ops][chain]]
  OBVIOUS
<1>2. inlineOp(deeper, op, chain) = WithBlocks(op, bs)
  BY <1>1 DEF inlineOp
<1>3. \A j \in DOMAIN op.blocks : bs[j].inlined \subseteq Standing /\ Made(bs[j], op.blocks[j].ops, K)
  BY <1>1 DEF MadeEach, Hereditary
<1>4. DOMAIN bs = DOMAIN op.blocks
  BY <1>1
<1>5. PICK new : new = [j \in DOMAIN bs |-> [op.blocks[j] EXCEPT !.ops = bs[j].ops]]
  OBVIOUS
<1>6. PICK p : p = [op EXCEPT !.blocks = new]
  OBVIOUS
<1>7. PICK fails : fails = {bs[j].fail : j \in DOMAIN bs} \ {None}
  OBVIOUS
<1>8. PICK fail : fail = OneOf(fails)
  OBVIOUS
<1>9. WithBlocks(op, bs) = [ops |-> <<p>>, inlined |-> UNION {bs[j].inlined : j \in DOMAIN bs}, fail |-> fail]
  BY <1>5, <1>6, <1>7, <1>8 DEF WithBlocks
<1>10. fail = None => \A j \in DOMAIN bs : bs[j].fail = None
  <2>1. CASE fails = {}
    BY <1>7, <2>1
  <2>2. CASE fails # {}
    <3>1. OneOf(fails) \in fails
      BY <2>2 DEF OneOf
    <3> QED
      BY <1>7, <1>8, <3>1
  <2> QED
    BY <2>1, <2>2
<1> DEFINE SS(j) == CHOOSE S : bs[j].ops \in Seq({o \in S : Kin(o, Own(op.blocks[j].ops))}) /\ Grown(S, K, bs[j].fail)
<1>11. \A j \in DOMAIN bs : bs[j].ops \in Seq({o \in SS(j) : Kin(o, Own(op.blocks[j].ops))}) /\ Grown(SS(j), K, bs[j].fail)
  BY <1>3, <1>4 DEF Made
<1>12. \A j \in DOMAIN bs : bs[j].ops \in Seq(SS(j))
  <2> SUFFICES ASSUME NEW j \in DOMAIN bs PROVE bs[j].ops \in Seq(SS(j))
    OBVIOUS
  <2> HIDE DEF SS
  <2>1. bs[j].ops \in Seq({o \in SS(j) : Kin(o, Own(op.blocks[j].ops))})
    BY <1>11
  <2> QED
    BY <2>1, SeqMonotonic
<1> HIDE DEF SS
<1>13. PICK S : S = {p} \cup UNION {SS(j) : j \in DOMAIN bs}
  OBVIOUS
<1>14. p.blocks = new /\ p.kind = op.kind
  BY <1>6 DEF WellFormed, NoOp
<1>15. \A j \in DOMAIN op.blocks : new[j].ops = bs[j].ops /\ new[j].cond = op.blocks[j].cond
  BY <1>4, <1>5 DEF WellFormed
<1>16. DOMAIN new = DOMAIN op.blocks
  BY <1>4, <1>5
<1>17. SameBut(p, op)
  BY <1>6, <1>14, <1>15, <1>16 DEF SameBut
<1>18. Grown(S, K, fail)
  <2> SUFFICES ASSUME NEW o \in S
               PROVE  /\ Kin(o, K) /\ (fail = None => Settled(o))
                      /\ \A j \in DOMAIN o.blocks : o.blocks[j].ops \in Seq(S)
    BY DEF Grown
  <2>1. CASE o = p
    <3>1. Kin(o, K)
      BY <1>17, <2>1 DEF Kin
    <3>2. Settled(o)
      BY <1>14, <2>1 DEF Settled
    <3>3. ASSUME NEW j \in DOMAIN o.blocks
          PROVE  o.blocks[j].ops \in Seq(S)
      <4>1. j \in DOMAIN bs /\ o.blocks[j].ops = bs[j].ops
        BY <1>4, <1>14, <1>15, <1>16, <2>1, <3>3
      <4>2. SS(j) \subseteq S
        BY <1>13, <4>1
      <4>3. bs[j].ops \in Seq(SS(j))
        BY <1>12, <4>1
      <4> QED
        BY <4>1, <4>2, <4>3, SeqMonotonic
    <3> QED
      BY <3>1, <3>2, <3>3
  <2>2. CASE o # p
    <3>1. PICK i \in DOMAIN bs : o \in SS(i)
      BY <1>13, <2>2
    <3>2. Grown(SS(i), K, bs[i].fail)
      BY <1>11
    <3>3. /\ Kin(o, K) /\ (bs[i].fail = None => Settled(o))
          /\ \A j \in DOMAIN o.blocks : o.blocks[j].ops \in Seq(SS(i))
      BY <3>1, <3>2 DEF Grown
    <3>4. SS(i) \subseteq S
      BY <1>13
    <3> QED
      BY <1>10, <3>3, <3>4, SeqMonotonic
  <2> QED
    BY <2>1, <2>2
<1>19. <<p>> \in Seq({o \in S : Kin(o, Own(<<op>>))})
  <2>1. op \in Own(<<op>>)
    BY DEF Own
  <2>2. Kin(p, Own(<<op>>))
    BY <1>17, <2>1 DEF Kin
  <2> QED
    BY <1>13, <2>2
<1>20. PICK r : r = inlineOp(deeper, op, chain)
  OBVIOUS
<1>21. r.ops = <<p>> /\ r.fail = fail /\ r.inlined = UNION {bs[j].inlined : j \in DOMAIN bs}
  BY <1>2, <1>9, <1>20
<1>22. r.inlined \subseteq Standing
  BY <1>3, <1>4, <1>21
<1>23. Made(r, <<op>>, K)
  BY <1>18, <1>19, <1>21 DEF Made
<1> QED
  BY <1>20, <1>22, <1>23


\* ops is what the list src has become.
Became(ops, src, K, fail) == \E S : ops \in Seq({o \in S : Kin(o, Own(src))}) /\ Grown(S, K, fail)

LEMMA BecameUnless ==
  ASSUME NEW ops, NEW src, NEW K, NEW f, NEW g, Became(ops, src, K, f), g = None => f = None
  PROVE  Became(ops, src, K, g)
<1>1. PICK S : ops \in Seq({o \in S : Kin(o, Own(src))}) /\ Grown(S, K, f)
  BY DEF Became
<1>2. Grown(S, K, g)
  BY <1>1 DEF Grown
<1> QED
  BY <1>1, <1>2 DEF Became

\* A text with its data skills taken in: the same targets, their lists made
\* of their ops.
TargetsBecame(now, text, fail) ==
  /\ DOMAIN now.targets = DOMAIN text.targets /\ now.entry = text.entry
  /\ \A t \in DOMAIN text.targets :
       /\ now.targets[t].deps = text.targets[t].deps
       /\ Became(now.targets[t].ops, text.targets[t].ops, walkOps(text.targets[t].ops), fail)
       /\ Became(now.targets[t].orelse, text.targets[t].orelse, walkOps(text.targets[t].orelse), fail)

LEMMA ParsedIsGraph ==
  ASSUME NEW text, Parsed(text)
  PROVE  Graph(text.targets)
<1>1. \A t \in DOMAIN text.targets : text.targets[t].deps \in Seq(STRING)
  BY DEF Parsed
<1>2. ASSUME NEW s \in Seq(STRING) PROVE s \in Seq(Range(s))
  BY DEF Range
<1> QED
  BY <1>1, <1>2 DEF Graph, Parsed

LEMMA TargetsAreMade ==
  ASSUME NEW deeper, MadeEach(deeper), NEW text, Parsed(text), ListsOf(text.targets) \subseteq OpLists,
         NEW chain \in SUBSET Chained
  PROVE  LET r == inlineDataSkills(deeper, text, chain)
         IN r.inlined \subseteq Standing /\ TargetsBecame(r.data, text, r.fail)
<1>1. PICK T : T = text.targets
  OBVIOUS
<1>2. PICK main : main = [t \in DOMAIN T |-> deeper[T[t].ops][chain]]
  OBVIOUS
<1>3. PICK orelse : orelse = [t \in DOMAIN T |-> deeper[T[t].orelse][chain]]
  OBVIOUS
<1>4. PICK fails : fails = ({main[t].fail : t \in DOMAIN main} \cup {orelse[t].fail : t \in DOMAIN main}) \ {None}
  OBVIOUS
<1>5. PICK new : new = [t \in DOMAIN main |-> [T[t] EXCEPT !.ops = main[t].ops, !.orelse = orelse[t].ops]]
  OBVIOUS
<1>6. PICK r : r = inlineDataSkills(deeper, text, chain)
  OBVIOUS
<1>7. r = WithTargets(text, main, orelse)
  BY <1>1, <1>2, <1>3, <1>6 DEF inlineDataSkills
<1>8. WithTargets(text, main, orelse) =
        [data |-> [text EXCEPT !.targets = new],
         inlined |-> UNION {main[t].inlined \cup orelse[t].inlined : t \in DOMAIN main}, fail |-> OneOf(fails)]
  BY <1>1, <1>4, <1>5 DEF WithTargets
<1>9. /\ r.data = [text EXCEPT !.targets = new] /\ r.fail = OneOf(fails)
      /\ r.inlined = UNION {main[t].inlined \cup orelse[t].inlined : t \in DOMAIN main}
  BY <1>7, <1>8
<1>10. DOMAIN main = DOMAIN T /\ DOMAIN new = DOMAIN T
  BY <1>2, <1>5
<1>11. r.data.targets = new /\ r.data.entry = text.entry
  BY <1>9 DEF Parsed
<1>12. r.fail = None => \A t \in DOMAIN T : main[t].fail = None /\ orelse[t].fail = None
  <2>1. CASE fails = {}
    BY <1>4, <1>10, <2>1
  <2>2. CASE fails # {}
    <3>1. OneOf(fails) \in fails
      BY <2>2 DEF OneOf
    <3> QED
      BY <1>4, <1>9, <3>1
  <2> QED
    BY <2>1, <2>2
<1>13. ASSUME NEW t \in DOMAIN T
       PROVE  /\ main[t].inlined \subseteq Standing /\ Made(main[t], T[t].ops, walkOps(T[t].ops))
              /\ orelse[t].inlined \subseteq Standing /\ Made(orelse[t], T[t].orelse, walkOps(T[t].orelse))
              /\ new[t].deps = T[t].deps /\ new[t].ops = main[t].ops /\ new[t].orelse = orelse[t].ops
  <2>1. T[t].ops \in OpLists /\ T[t].orelse \in OpLists
    BY <1>1 DEF ListsOf
  <2>2. OpList(T[t].ops) /\ OpList(T[t].orelse) /\ DOMAIN T[t] = {"deps", "ops", "orelse"}
    BY <1>1 DEF Parsed
  <2>3. main[t] = deeper[T[t].ops][chain] /\ orelse[t] = deeper[T[t].orelse][chain]
    BY <1>2, <1>3
  <2>4. Hereditary(walkOps(T[t].ops)) /\ T[t].ops \in Seq(walkOps(T[t].ops))
    BY <2>2, WalkedIsHereditary
  <2>5. Hereditary(walkOps(T[t].orelse)) /\ T[t].orelse \in Seq(walkOps(T[t].orelse))
    BY <2>2, WalkedIsHereditary
  <2>6. main[t].inlined \subseteq Standing /\ Made(main[t], T[t].ops, walkOps(T[t].ops))
    BY <2>1, <2>3, <2>4 DEF MadeEach
  <2>7. orelse[t].inlined \subseteq Standing /\ Made(orelse[t], T[t].orelse, walkOps(T[t].orelse))
    BY <2>1, <2>3, <2>5 DEF MadeEach
  <2>8. new[t] = [T[t] EXCEPT !.ops = main[t].ops, !.orelse = orelse[t].ops]
    BY <1>5, <1>10
  <2>9. new[t].deps = T[t].deps /\ new[t].ops = main[t].ops /\ new[t].orelse = orelse[t].ops
    BY <2>2, <2>8
  <2> QED
    BY <2>6, <2>7, <2>9
<1>14. r.inlined \subseteq Standing
  BY <1>9, <1>10, <1>13
<1>15. ASSUME NEW t \in DOMAIN T
       PROVE  /\ Became(new[t].ops, T[t].ops, walkOps(T[t].ops), r.fail)
              /\ Became(new[t].orelse, T[t].orelse, walkOps(T[t].orelse), r.fail)
  <2>1. Became(main[t].ops, T[t].ops, walkOps(T[t].ops), main[t].fail)
    BY <1>13 DEF Made, Became
  <2>2. Became(orelse[t].ops, T[t].orelse, walkOps(T[t].orelse), orelse[t].fail)
    BY <1>13 DEF Made, Became
  <2>3. Became(main[t].ops, T[t].ops, walkOps(T[t].ops), r.fail)
    BY <1>12, <2>1, BecameUnless
  <2>4. Became(orelse[t].ops, T[t].orelse, walkOps(T[t].orelse), r.fail)
    BY <1>12, <2>2, BecameUnless
  <2> QED
    BY <1>13, <2>3, <2>4
<1>16. TargetsBecame(r.data, text, r.fail)
  BY <1>1, <1>10, <1>11, <1>13, <1>15 DEF TargetsBecame
<1> QED
  BY <1>6, <1>14, <1>16

\* What a data skill says stands in the place of the reference.
LEMMA ContentIsMade ==
  ASSUME NEW deeper, MadeEach(deeper), NEW op, WellFormed(op), op.kind = "inline", AllParsed,
         Roots \subseteq OpLists, Loadable(op.skill), env.skills[op.skill].type = "data", Approved(op.skill),
         NEW chain \in SUBSET Chained, NEW K
  PROVE  LET r == Baking(op, inlineDataSkills(deeper, env.skills[op.skill], chain \cup {op.skill}))
         IN r.inlined \subseteq Standing /\ Made(r, <<op>>, K)
<1>1. op.skill \in DOMAIN env.skills
  BY DEF Loadable, Known
<1>2. PICK text : text = env.skills[op.skill]
  OBVIOUS
<1>3. Parsed(text)
  BY <1>1, <1>2 DEF AllParsed
<1>4. ListsOf(text.targets) \subseteq OpLists
  BY <1>1, <1>2 DEF Roots
<1>5. chain \cup {op.skill} \in SUBSET Chained
  BY <1>1 DEF Chained
<1>6. PICK d : d = inlineDataSkills(deeper, text, chain \cup {op.skill})
  OBVIOUS
<1>7. d.inlined \subseteq Standing /\ TargetsBecame(d.data, text, d.fail)
  BY <1>3, <1>4, <1>5, <1>6, TargetsAreMade
<1>8. PICK now : now = d.data
  OBVIOUS
<1>9. Graph(now.targets)
  <2>1. Graph(text.targets)
    BY <1>3, ParsedIsGraph
  <2> QED
    BY <1>7, <1>8, <2>1 DEF Graph, TargetsBecame
<1>10. PICK X : X = UNION {Own(now.targets[t].ops) : t \in DOMAIN now.targets}
  OBVIOUS
<1>11. ASSUME NEW t \in DOMAIN now.targets
       PROVE  /\ now.targets[t].ops \in Seq(X)
              /\ \A o \in Own(now.targets[t].ops) : Kin(o, walkOps(text.targets[t].ops)) /\ Hereditary(walkOps(text.targets[t].ops))
  <2>1. t \in DOMAIN text.targets /\ Became(now.targets[t].ops, text.targets[t].ops, walkOps(text.targets[t].ops), d.fail)
    BY <1>7, <1>8 DEF TargetsBecame
  <2>2. PICK S : /\ now.targets[t].ops \in Seq({o \in S : Kin(o, Own(text.targets[t].ops))})
                 /\ Grown(S, walkOps(text.targets[t].ops), d.fail)
    BY <2>1 DEF Became
  <2>3. now.targets[t].ops \in Seq(S)
    BY <2>2, SeqMonotonic
  <2>4. Own(now.targets[t].ops) \subseteq S /\ now.targets[t].ops \in Seq(Own(now.targets[t].ops))
    BY <2>3, Elements
  <2>5. Own(now.targets[t].ops) \subseteq X
    BY <1>10
  <2>6. now.targets[t].ops \in Seq(X)
    BY <2>4, <2>5, SeqMonotonic
  <2>7. OpList(text.targets[t].ops)
    BY <1>3, <2>1 DEF Parsed
  <2>8. Hereditary(walkOps(text.targets[t].ops))
    BY <2>7, WalkedIsHereditary
  <2> QED
    BY <2>2, <2>4, <2>6, <2>8 DEF Grown
<1>12. PICK emits : emits = dataSkillEmitOps(now)
  OBVIOUS
<1>13. emits.ops \in Seq({o \in X : o.kind = "emit"})
  BY <1>9, <1>11, <1>12, DataSkillEmitsAre
<1>14. ASSUME NEW o \in X, o.kind = "emit"
       PROVE  Content1(o)
  <2>1. PICK t \in DOMAIN now.targets : o \in Own(now.targets[t].ops)
    BY <1>10
  <2>2. PICK W : W = walkOps(text.targets[t].ops)
    OBVIOUS
  <2>3. Kin(o, W) /\ Hereditary(W)
    BY <1>11, <2>1, <2>2
  <2>4. CASE \E k \in W : SameBut(o, k)
    <3>1. PICK k \in W : SameBut(o, k)
      BY <2>4
    <3>2. WellFormed(k)
      BY <2>3 DEF Hereditary
    <3>3. o.kind = k.kind /\ o.val = k.val /\ DOMAIN o.blocks = DOMAIN k.blocks
      <4>1. CASE o = k
        BY <4>1
      <4>2. CASE o = [k EXCEPT !.blocks = o.blocks] /\ DOMAIN o.blocks = DOMAIN k.blocks
        <5>1. PICK b : b = o.blocks
          OBVIOUS
        <5>2. o = [k EXCEPT !.blocks = b] /\ DOMAIN k = DOMAIN NoOp
          BY <3>2, <4>2, <5>1 DEF WellFormed
        <5>3. o.kind = k.kind /\ o.val = k.val
          BY <5>2 DEF NoOp
        <5> QED
          BY <4>2, <5>3
      <4> QED
        BY <3>1, <4>1, <4>2 DEF SameBut
    <3>4. k.blocks = <<>> /\ k.val # Absent
      BY <1>14, <3>2, <3>3 DEF WellFormed
    <3> QED
      BY <1>14, <3>3, <3>4 DEF Content1
  <2> QED
    BY <2>3, <2>4 DEF Kin
<1>15. PICK C : C = dataSkillContent(op, emits.ops)
  OBVIOUS
<1>16. PICK S : S = {o \in X : o.kind = "emit"} \cup Own(C)
  OBVIOUS
<1>17. C \in Seq(S) /\ \A o \in S : Content1(o)
  <2>1. CASE op.bind = None
    <3>1. C = emits.ops
      BY <1>15, <2>1 DEF dataSkillContent
    <3>2. Own(C) \subseteq {o \in X : o.kind = "emit"}
      BY <1>13, <3>1, Elements
    <3>3. S = {o \in X : o.kind = "emit"}
      BY <1>16, <3>2
    <3> QED
      BY <1>13, <1>14, <3>1, <3>3
  <2>2. CASE op.bind # None
    <3>1. PICK R : R = UNION {emits.ops[i].refs : i \in DOMAIN emits.ops}
      OBVIOUS
    <3>2. PICK new : new = [NoOp EXCEPT !.kind = "$set", !.set = op.bind, !.val = "text", !.refs = R]
      OBVIOUS
    <3>3. C = <<new>>
      BY <1>15, <2>2, <3>1, <3>2 DEF dataSkillContent
    <3>4. Own(C) = {new}
      BY <3>3 DEF Own
    <3>5. new.kind = "$set" /\ new.val = "text" /\ new.blocks = <<>>
      BY <3>2 DEF NoOp
    <3>6. Content1(new)
      BY <3>5 DEF Content1, Absent
    <3> QED
      BY <1>14, <1>16, <3>3, <3>4, <3>6
  <2> QED
    BY <2>1, <2>2
<1>18. PICK r : r = Baking(op, d)
  OBVIOUS
<1>19. r.ops = C /\ r.inlined = {op.skill} \cup d.inlined
  BY <1>8, <1>12, <1>15, <1>18 DEF Baking, Content
<1>20. r.inlined \subseteq Standing
  <2>1. op.skill \in Standing
    BY <1>1 DEF Standing, Approved
  <2> QED
    BY <1>7, <1>19, <2>1
<1>21. Grown(S, K, r.fail)
  BY <1>17 DEF Grown, Kin, Settled, Content1
<1>22. r.ops \in Seq({o \in S : Kin(o, Own(<<op>>))})
  <2>1. S = {o \in S : Kin(o, Own(<<op>>))}
    BY <1>17 DEF Kin
  <2> QED
    BY <1>17, <1>19, <2>1
<1>23. Made(r, <<op>>, K)
  BY <1>21, <1>22 DEF Made
<1> QED
  BY <1>2, <1>6, <1>18, <1>20, <1>23

\* Every op, whatever it is.
LEMMA OpIsMade ==
  ASSUME NEW deeper, MadeEach(deeper), AllParsed, Roots \subseteq OpLists,
         NEW K, Hereditary(K), NEW op \in K, \A j \in DOMAIN op.blocks : op.blocks[j].ops \in OpLists,
         NEW chain \in SUBSET Chained
  PROVE  LET r == inlineOp(deeper, op, chain) IN r.inlined \subseteq Standing /\ Made(r, <<op>>, K)
<1>1. WellFormed(op)
  BY DEF Hereditary
<1>2. CASE op.kind # "inline"
  BY <1>1, <1>2, BlocksAreMade
<1>3. CASE op.kind = "inline" /\ op.skill \in chain
  <2>1. inlineOp(deeper, op, chain) = Left(op, "reference loop")
    BY <1>3 DEF inlineOp
  <2>2. "reference loop" # None
    BY NoneAssumption
  <2>3. Left(op, "reference loop").inlined = {} /\ Made(Left(op, "reference loop"), <<op>>, K)
    BY <1>1, <1>3, <2>2, LeftIsMade
  <2> QED
    BY <2>1, <2>3
<1>4. CASE op.kind = "inline" /\ op.skill \notin chain
  <2>1. CASE ~Loadable(op.skill) \/ env.skills[op.skill].type # "data"
    <3>1. inlineOp(deeper, op, chain) = Left(op, None)
      BY <1>4, <2>1 DEF inlineOp
    <3>2. Settled(op)
      BY <2>1 DEF Settled
    <3>3. Left(op, None).inlined = {} /\ Made(Left(op, None), <<op>>, K)
      BY <1>1, <1>4, <3>2, LeftIsMade
    <3> QED
      BY <3>1, <3>3
  <2>2. CASE Loadable(op.skill) /\ env.skills[op.skill].type = "data" /\ ~Approved(op.skill)
    <3>1. inlineOp(deeper, op, chain) = Left(op, "not approved")
      BY <1>4, <2>2 DEF inlineOp
    <3>2. "not approved" # None
      BY NoneAssumption
    <3>3. Left(op, "not approved").inlined = {} /\ Made(Left(op, "not approved"), <<op>>, K)
      BY <1>1, <1>4, <3>2, LeftIsMade
    <3> QED
      BY <3>1, <3>3
  <2>3. CASE Loadable(op.skill) /\ env.skills[op.skill].type = "data" /\ Approved(op.skill)
    <3>1. inlineOp(deeper, op, chain)
            = Baking(op, inlineDataSkills(deeper, env.skills[op.skill], chain \cup {op.skill}))
      BY <1>4, <2>3 DEF inlineOp
    <3>2. PICK r : r = Baking(op, inlineDataSkills(deeper, env.skills[op.skill], chain \cup {op.skill}))
      OBVIOUS
    <3>3. r.inlined \subseteq Standing /\ Made(r, <<op>>, K)
      BY <1>1, <1>4, <2>3, <3>2, ContentIsMade
    <3> QED
      BY <3>1, <3>2, <3>3
  <2> QED
    BY <2>1, <2>2, <2>3
<1> QED
  BY <1>2, <1>3, <1>4


\* The first ops of a list, one after the other; made is what each becomes.
JoinedBy(f, n, made) ==
  f = [i \in 0 .. n |-> IF i = 0 THEN [ops |-> <<>>, inlined |-> {}, fail |-> None] ELSE (IF f[i - 1].fail # None THEN f[i - 1] ELSE Joined(f[i - 1], made[i]))]

LEMMA JoinedByExists ==
  ASSUME NEW n \in Nat, NEW made
  PROVE  \E f : JoinedBy(f, n, made)
<1> DEFINE Next1(r, i) == (IF r.fail # None THEN r ELSE Joined(r, made[i]))
           base == [ops |-> <<>>, inlined |-> {}, fail |-> None]
           Eq(f, m) == f = [i \in 0 .. m |-> IF i = 0 THEN base ELSE Next1(f[i - 1], i)]
           S == {m \in Nat : \E f : Eq(f, m)}
<1>0. \A f : Eq(f, n) => JoinedBy(f, n, made)
  BY DEF JoinedBy
<1> HIDE DEF base, Next1
<1>1. 0 \in S
  <2> DEFINE f == [i \in 0 .. 0 |-> base]
  <2>1. Eq(f, 0)
    <3>1. \A i \in 0 .. 0 : i = 0
      OBVIOUS
    <3> QED
      BY <3>1
  <2> HIDE DEF f, Eq
  <2> QED
    BY <2>1
<1>2. ASSUME NEW m \in Nat, m \in S
      PROVE  m + 1 \in S
  <2>1. PICK f : Eq(f, m)
    BY <1>2
  <2> DEFINE g == [i \in 0 .. m + 1 |-> IF i = m + 1 THEN Next1(f[m], m + 1) ELSE f[i]]
  <2>2. \A i \in 0 .. m : f[i] = IF i = 0 THEN base ELSE Next1(f[i - 1], i)
    BY <2>1
  <2>3. \A i \in 0 .. m + 1 : g[i] = IF i = 0 THEN base ELSE Next1(g[i - 1], i)
    <3> SUFFICES ASSUME NEW i \in 0 .. m + 1
                 PROVE  g[i] = IF i = 0 THEN base ELSE Next1(g[i - 1], i)
      OBVIOUS
    <3>1. CASE i = m + 1
      <4>1. g[i - 1] = f[m] /\ i # 0
        BY <3>1
      <4> QED
        BY <3>1, <4>1
    <3>2. CASE i # m + 1
      <4>1. i \in 0 .. m /\ (i # 0 => i - 1 \in 0 .. m /\ i - 1 # m + 1)
        BY <3>2
      <4>2. i # 0 => g[i - 1] = f[i - 1]
        BY <4>1
      <4> QED
        BY <2>2, <3>2, <4>1, <4>2
    <3> QED
      BY <3>1, <3>2
  <2>4. Eq(g, m + 1)
    BY <2>3
  <2> HIDE DEF g, Eq
  <2> QED
    BY <2>4
<1>3. n \in S
  BY <1>1, <1>2, Counting
<1>4. PICK f : Eq(f, n)
  BY <1>3
<1> HIDE DEF Eq
<1> QED
  BY <1>0, <1>4

LEMMA JoinedBySteps ==
  ASSUME NEW n \in Nat, NEW made, NEW f, JoinedBy(f, n, made)
  PROVE  f[0] = [ops |-> <<>>, inlined |-> {}, fail |-> None] /\ \A i \in 1 .. n : f[i] = (IF f[i - 1].fail # None THEN f[i - 1] ELSE Joined(f[i - 1], made[i]))
<1> DEFINE body(i) == IF i = 0 THEN [ops |-> <<>>, inlined |-> {}, fail |-> None] ELSE (IF f[i - 1].fail # None THEN f[i - 1] ELSE Joined(f[i - 1], made[i]))
<1>1. f = [i \in 0 .. n |-> body(i)]
  BY DEF JoinedBy
<1> HIDE DEF body
<1>2. \A i \in 0 .. n : f[i] = body(i)
  BY <1>1
<1>3. 0 \in 0 .. n /\ \A i \in 1 .. n : i \in 0 .. n /\ i # 0
  OBVIOUS
<1>4. body(0) = [ops |-> <<>>, inlined |-> {}, fail |-> None]
  BY DEF body
<1>5. \A i \in 1 .. n : body(i) = (IF f[i - 1].fail # None THEN f[i - 1] ELSE Joined(f[i - 1], made[i]))
  BY <1>3 DEF body
<1> QED
  BY <1>2, <1>3, <1>4, <1>5

LEMMA OpsAreMade ==
  ASSUME NEW deeper, MadeEach(deeper), AllParsed, \A roots \in Roots : OpList(roots),
         NEW K, Hereditary(K), NEW ops \in OpLists, ops \in Seq(K), NEW chain \in SUBSET Chained
  PROVE  LET r == inlineOps(deeper, ops, chain) IN r.inlined \subseteq Standing /\ Made(r, ops, K)
<1>1. PICK n \in Nat : n = Len(ops)
  OBVIOUS
<1>2. PICK made : made = [i \in 1 .. n |-> inlineOp(deeper, ops[i], chain)]
  OBVIOUS
<1>3. PICK f : /\ f[0] = [ops |-> <<>>, inlined |-> {}, fail |-> None]
               /\ \A i \in 1 .. n : f[i] = (IF f[i - 1].fail # None THEN f[i - 1] ELSE Joined(f[i - 1], made[i]))
               /\ inlineOps(deeper, ops, chain) = f[n]
  <2> DEFINE g == CHOOSE f : f = [i \in 0 .. n |->
                     IF i = 0 THEN [ops |-> <<>>, inlined |-> {}, fail |-> None]
                     ELSE IF f[i - 1].fail # None THEN f[i - 1]
                     ELSE Joined(f[i - 1], inlineOp(deeper, ops[i], chain))]
  <2>1. inlineOps(deeper, ops, chain) = g[n]
    BY <1>1 DEF inlineOps
  <2>2. \A f : JoinedBy(f, n, made) => f = [i \in 0 .. n |->
                     IF i = 0 THEN [ops |-> <<>>, inlined |-> {}, fail |-> None]
                     ELSE IF f[i - 1].fail # None THEN f[i - 1]
                     ELSE Joined(f[i - 1], inlineOp(deeper, ops[i], chain))]
    <3> SUFFICES ASSUME NEW f, JoinedBy(f, n, made)
                 PROVE  f = [i \in 0 .. n |->
                     IF i = 0 THEN [ops |-> <<>>, inlined |-> {}, fail |-> None]
                     ELSE IF f[i - 1].fail # None THEN f[i - 1]
                     ELSE Joined(f[i - 1], inlineOp(deeper, ops[i], chain))]
      OBVIOUS
    <3> DEFINE a(i) == IF i = 0 THEN [ops |-> <<>>, inlined |-> {}, fail |-> None]
                       ELSE IF f[i - 1].fail # None THEN f[i - 1] ELSE Joined(f[i - 1], made[i])
               b(i) == IF i = 0 THEN [ops |-> <<>>, inlined |-> {}, fail |-> None]
                       ELSE IF f[i - 1].fail # None THEN f[i - 1]
                       ELSE Joined(f[i - 1], inlineOp(deeper, ops[i], chain))
    <3>1. f = [i \in 0 .. n |-> a(i)]
      BY DEF JoinedBy
    <3>2. \A i \in 0 .. n : i # 0 => made[i] = inlineOp(deeper, ops[i], chain)
      BY <1>2
    <3>3. \A i \in 0 .. n : a(i) = b(i)
      BY <3>2
    <3>4. f = [i \in 0 .. n |-> b(i)]
      <4> HIDE DEF a, b
      <4> QED
        BY <3>1, <3>3
    <3> QED
      BY <3>4
  <2>3. PICK h : JoinedBy(h, n, made)
    BY JoinedByExists
  <2>4. g = [i \in 0 .. n |->
                     IF i = 0 THEN [ops |-> <<>>, inlined |-> {}, fail |-> None]
                     ELSE IF g[i - 1].fail # None THEN g[i - 1]
                     ELSE Joined(g[i - 1], inlineOp(deeper, ops[i], chain))]
    BY <2>2, <2>3
  <2> HIDE DEF g
  <2> DEFINE b(i) == IF i = 0 THEN [ops |-> <<>>, inlined |-> {}, fail |-> None]
                     ELSE IF g[i - 1].fail # None THEN g[i - 1]
                     ELSE Joined(g[i - 1], inlineOp(deeper, ops[i], chain))
  <2>5. g = [i \in 0 .. n |-> b(i)]
    BY <2>4
  <2> HIDE DEF b
  <2>6. \A i \in 0 .. n : g[i] = b(i)
    BY <2>5
  <2>7. 0 \in 0 .. n /\ \A i \in 1 .. n : i \in 0 .. n /\ i # 0
    OBVIOUS
  <2>8. g[0] = [ops |-> <<>>, inlined |-> {}, fail |-> None]
    BY <2>6, <2>7 DEF b
  <2>9. \A i \in 1 .. n : g[i] = (IF g[i - 1].fail # None THEN g[i - 1] ELSE Joined(g[i - 1], made[i]))
    <3> SUFFICES ASSUME NEW i \in 1 .. n
                 PROVE  g[i] = (IF g[i - 1].fail # None THEN g[i - 1] ELSE Joined(g[i - 1], made[i]))
      OBVIOUS
    <3>1. g[i] = b(i) /\ i # 0
      BY <2>6, <2>7
    <3>2. made[i] = inlineOp(deeper, ops[i], chain)
      BY <1>2
    <3> QED
      BY <3>1, <3>2 DEF b
  <2> QED
    BY <2>1, <2>8, <2>9
<1> DEFINE Part(r) == r.inlined \subseteq Standing /\ Made(r, ops, K)
           Good(i) == i =< n => Part(f[i])
           N == {i \in Nat : Good(i)}
<1>4. 0 \in N
  <2>1. f[0].ops = <<>> /\ f[0].inlined = {} /\ f[0].fail = None
    BY <1>3
  <2>2. <<>> \in Seq({o \in {} : Kin(o, Own(ops))}) /\ Grown({}, K, None)
    BY DEF Grown
  <2>3. Made(f[0], ops, K)
    BY <2>1, <2>2 DEF Made
  <2> QED
    BY <2>1, <2>3
<1>5. ASSUME NEW i \in Nat, i \in N
      PROVE  i + 1 \in N
  <2> SUFFICES ASSUME i + 1 =< n PROVE Part(f[i + 1])
    OBVIOUS
  <2>1. i + 1 \in 1 .. n /\ (i + 1) - 1 = i
    OBVIOUS
  <2>2. Part(f[i])
    BY <1>5, <2>1
  <2>3. f[i + 1] = (IF f[i].fail # None THEN f[i] ELSE Joined(f[i], made[i + 1]))
    BY <1>3, <2>1
  <2>4. CASE f[i].fail # None
    BY <2>2, <2>3, <2>4
  <2>5. CASE f[i].fail = None
    <3>1. PICK op : op = ops[i + 1]
      OBVIOUS
    <3>2. op \in K /\ op \in Own(ops)
      <4>1. i + 1 \in DOMAIN ops
        BY <1>1, <2>1
      <4> QED
        BY <3>1, <4>1 DEF Own
    <3>3. \A j \in DOMAIN op.blocks : op.blocks[j].ops \in OpLists
      BY <3>2, OpListsAreClosed
    <3>4. Roots \subseteq OpLists
      BY OpListsAreClosed
    <3>5. PICK r : r = inlineOp(deeper, op, chain)
      OBVIOUS
    <3>6. r.inlined \subseteq Standing /\ Made(r, <<op>>, K)
      BY <3>2, <3>3, <3>4, <3>5, OpIsMade
    <3>7. made[i + 1] = r
      BY <1>2, <2>1, <3>1, <3>5
    <3>8. PICK S : f[i].ops \in Seq({o \in S : Kin(o, Own(ops))}) /\ Grown(S, K, f[i].fail)
      BY <2>2 DEF Made
    <3>9. PICK T : r.ops \in Seq({o \in T : Kin(o, Own(<<op>>))}) /\ Grown(T, K, r.fail)
      BY <3>6 DEF Made
    <3>10. Own(<<op>>) \subseteq Own(ops)
      BY <3>2 DEF Own
    <3>11. {o \in T : Kin(o, Own(<<op>>))} \subseteq {o \in S \cup T : Kin(o, Own(ops))}
      BY <3>10, KinGrows
    <3>12. r.ops \in Seq({o \in S \cup T : Kin(o, Own(ops))})
      BY <3>9, <3>11, SeqMonotonic
    <3>13. f[i].ops \in Seq({o \in S \cup T : Kin(o, Own(ops))})
      <4>1. {o \in S : Kin(o, Own(ops))} \subseteq {o \in S \cup T : Kin(o, Own(ops))}
        OBVIOUS
      <4> QED
        BY <3>8, <4>1, SeqMonotonic
    <3>14. Grown(S \cup T, K, r.fail)
      BY <2>5, <3>8, <3>9, GrownTogether
    <3>15. /\ f[i + 1].ops = f[i].ops \o r.ops /\ f[i + 1].fail = r.fail
           /\ f[i + 1].inlined = f[i].inlined \cup r.inlined
      <4>1. PICK here : here = f[i]
        OBVIOUS
      <4>2. Joined(here, r).ops = here.ops \o r.ops /\ Joined(here, r).fail = r.fail
        BY DEF Joined
      <4>3. Joined(here, r).inlined = here.inlined \cup r.inlined
        BY DEF Joined
      <4>4. f[i + 1] = Joined(here, r)
        BY <2>3, <2>5, <3>7, <4>1
      <4> QED
        BY <4>1, <4>2, <4>3, <4>4
    <3>16. f[i + 1].ops \in Seq({o \in S \cup T : Kin(o, Own(ops))})
      BY <3>12, <3>13, <3>15
    <3>17. Made(f[i + 1], ops, K)
      BY <3>14, <3>15, <3>16 DEF Made
    <3> QED
      BY <2>2, <3>6, <3>15, <3>17
  <2> QED
    BY <2>4, <2>5
<1> HIDE DEF Good
<1>6. Good(n)
  BY <1>4, <1>5, Counting
<1>7. Part(f[n])
  BY <1>6 DEF Good
<1> QED
  BY <1>3, <1>7

\* The inlining by how many lists further in it may go.
InliningLayer(f, n, lists, chains) ==
  [ops \in lists |-> [chain \in chains |->
     IF n = 0 THEN [ops |-> ops, inlined |-> {}, fail |-> "reference loop"]
     ELSE inlineOps(f[n - 1], ops, chain)]]
InliningBy(f, n, lists, chains) == f = [i \in 0 .. n |-> InliningLayer(f, i, lists, chains)]

LEMMA InliningByExists ==
  ASSUME NEW n \in Nat, NEW lists, NEW chains
  PROVE  \E f : InliningBy(f, n, lists, chains)
<1> DEFINE Next1(r) == [ops \in lists |-> [chain \in chains |-> inlineOps(r, ops, chain)]]
           base == [ops \in lists |-> [chain \in chains |-> [ops |-> ops, inlined |-> {}, fail |-> "reference loop"]]]
           body(f, i) == InliningLayer(f, i, lists, chains)
           Eq(f, m) == f = [i \in 0 .. m |-> body(f, i)]
           S == {m \in Nat : \E f : Eq(f, m)}
<1>0. \A f, i : body(f, i) = IF i = 0 THEN base ELSE Next1(f[i - 1])
  <2> SUFFICES ASSUME NEW f, NEW i PROVE body(f, i) = IF i = 0 THEN base ELSE Next1(f[i - 1])
    OBVIOUS
  <2>1. CASE i = 0
    BY <2>1 DEF InliningLayer
  <2>2. CASE i # 0
    BY <2>2 DEF InliningLayer
  <2> QED
    BY <2>1, <2>2
<1> HIDE DEF body, base, Next1
<1>1. 0 \in S
  <2> DEFINE f == [i \in 0 .. 0 |-> base]
  <2>1. \A i \in 0 .. 0 : i = 0
    OBVIOUS
  <2>2. \A i \in 0 .. 0 : body(f, i) = base
    BY <1>0, <2>1
  <2>3. Eq(f, 0)
    BY <2>2
  <2> HIDE DEF f, Eq
  <2> QED
    BY <2>3
<1>2. ASSUME NEW m \in Nat, m \in S
      PROVE  m + 1 \in S
  <2>1. PICK f : Eq(f, m)
    BY <1>2
  <2> DEFINE g == [i \in 0 .. m + 1 |-> IF i = m + 1 THEN Next1(f[m]) ELSE f[i]]
  <2>2. \A i \in 0 .. m : f[i] = IF i = 0 THEN base ELSE Next1(f[i - 1])
    BY <1>0, <2>1
  <2>3. \A i \in 0 .. m + 1 : g[i] = IF i = 0 THEN base ELSE Next1(g[i - 1])
    <3> SUFFICES ASSUME NEW i \in 0 .. m + 1
                 PROVE  g[i] = IF i = 0 THEN base ELSE Next1(g[i - 1])
      OBVIOUS
    <3>1. CASE i = m + 1
      <4>1. g[i - 1] = f[m] /\ i # 0
        BY <3>1
      <4> QED
        BY <3>1, <4>1
    <3>2. CASE i # m + 1
      <4>1. i \in 0 .. m /\ (i # 0 => i - 1 \in 0 .. m /\ i - 1 # m + 1)
        BY <3>2
      <4>2. i # 0 => g[i - 1] = f[i - 1]
        BY <4>1
      <4> QED
        BY <2>2, <3>2, <4>1, <4>2
    <3> QED
      BY <3>1, <3>2
  <2>4. Eq(g, m + 1)
    <3>1. g = [i \in 0 .. m + 1 |-> g[i]]
      OBVIOUS
    <3> HIDE DEF g
    <3>2. \A i \in 0 .. m + 1 : g[i] = body(g, i)
      BY <1>0, <2>3
    <3> QED
      BY <3>1, <3>2
  <2> HIDE DEF g, Eq
  <2> QED
    BY <2>4
<1>3. n \in S
  BY <1>1, <1>2, Counting
<1>4. PICK f : Eq(f, n)
  BY <1>3
<1>5. InliningBy(f, n, lists, chains)
  BY <1>4 DEF InliningBy, body
<1> QED
  BY <1>5

\* However deep the inlining goes.
LEMMA InliningIsMade ==
  ASSUME AllParsed, \A root \in Roots : OpList(root)
  PROVE  MadeEach(Inlining)
<1>1. PICK n \in Nat : n = Lists
  <2>1. IsFiniteSet(Chained)
    <3>1. IsFiniteSet({skill.name})
      BY FS_Singleton
    <3>2. IsFiniteSet(DOMAIN env.skills)
      BY DEF AllParsed
    <3> QED
      BY <3>1, <3>2, FS_Union DEF Chained
  <2>2. Cardinality(Chained) \in Nat
    BY <2>1, FS_CardinalityType
  <2>3. MaxNesting + 1 \in Nat
    BY NestingAssumption
  <2>4. \A a, b \in Nat : a * b \in Nat
    OBVIOUS
  <2>5. Lists \in Nat
    BY <2>2, <2>3, <2>4 DEF Lists
  <2> QED
    BY <2>5
<1>2. PICK chains : chains = SUBSET Chained
  OBVIOUS
<1>3. PICK lists : lists = OpLists
  OBVIOUS
<1>4. PICK f : InliningBy(f, n, lists, chains) /\ Inlining = f[n]
  <2> DEFINE g == CHOOSE f : InliningBy(f, n, lists, chains)
  <2>1. InliningBy(g, n, lists, chains)
    BY InliningByExists
  <2>2. Inlining = g[n]
    <3>1. Inlining = (CHOOSE f : InliningBy(f, Lists, OpLists, SUBSET Chained))[Lists]
      BY DEF Inlining, InliningBy, InliningLayer
    <3> QED
      BY <1>1, <1>2, <1>3, <3>1
  <2> HIDE DEF g
  <2> QED
    BY <2>1, <2>2
<1>5. \A i \in 0 .. n : \A ops \in lists : \A chain \in chains :
        f[i][ops][chain] = IF i = 0 THEN [ops |-> ops, inlined |-> {}, fail |-> "reference loop"]
                           ELSE inlineOps(f[i - 1], ops, chain)
  <2> DEFINE value(i, x, y) == IF i = 0 THEN [ops |-> x, inlined |-> {}, fail |-> "reference loop"]
                               ELSE inlineOps(f[i - 1], x, y)
             layer(i) == [x \in lists |-> [y \in chains |-> value(i, x, y)]]
  <2>1. f = [i \in 0 .. n |-> layer(i)]
    BY <1>4 DEF InliningBy, InliningLayer
  <2> HIDE DEF layer
  <2>2. \A i \in 0 .. n : f[i] = layer(i)
    BY <2>1
  <2> HIDE DEF value
  <2>3. ASSUME NEW i \in 0 .. n, NEW ops \in lists, NEW chain \in chains
        PROVE  f[i][ops][chain] = value(i, ops, chain)
    <3>1. f[i] = [x \in lists |-> [y \in chains |-> value(i, x, y)]]
      BY <2>2 DEF layer
    <3>2. f[i][ops] = [y \in chains |-> value(i, ops, y)]
      BY <3>1
    <3> QED
      BY <3>2
  <2> QED
    BY <2>3 DEF value
<1> DEFINE Good(i) == i =< n => MadeEach(f[i])
           N == {i \in Nat : Good(i)}
<1>6. 0 \in N
  <2>1. 0 \in 0 .. n
    OBVIOUS
  <2>2. "reference loop" # None
    BY NoneAssumption
  <2>3. ASSUME NEW ops \in OpLists, NEW chain \in SUBSET Chained
        PROVE  /\ f[0][ops][chain].inlined \subseteq Standing
               /\ \A K : Hereditary(K) /\ ops \in Seq(K) => Made(f[0][ops][chain], ops, K)
    <3>1. f[0][ops][chain] = [ops |-> ops, inlined |-> {}, fail |-> "reference loop"]
      <4>1. ops \in lists /\ chain \in chains
        BY <1>2, <1>3
      <4> QED
        BY <1>5, <2>1, <4>1
    <3>2. PICK r : r = f[0][ops][chain]
      OBVIOUS
    <3>3. r.ops = ops /\ r.inlined = {} /\ r.fail = "reference loop"
      <4>1. r = [ops |-> ops, inlined |-> {}, fail |-> "reference loop"]
        BY <3>1, <3>2
      <4> QED
        BY <4>1
    <3>4. ASSUME NEW K, Hereditary(K), ops \in Seq(K)
          PROVE  Made(r, ops, K)
      <4>1. Own(ops) \subseteq K /\ ops \in Seq(Own(ops))
        BY <3>4, Elements
      <4>2. Own(ops) \subseteq {o \in K : Kin(o, Own(ops))}
        BY <4>1 DEF Kin, SameBut
      <4>3. ops \in Seq({o \in K : Kin(o, Own(ops))})
        BY <4>1, <4>2, SeqMonotonic
      <4>4. Grown(K, K, r.fail)
        BY <2>2, <3>3, <3>4 DEF Grown, Kin, SameBut, Hereditary
      <4> QED
        BY <3>3, <4>3, <4>4 DEF Made
    <3> QED
      BY <3>2, <3>3, <3>4
  <2>4. MadeEach(f[0])
    BY <2>3 DEF MadeEach
  <2> QED
    BY <2>4
<1>7. ASSUME NEW i \in Nat, i \in N
      PROVE  i + 1 \in N
  <2> SUFFICES ASSUME i + 1 =< n PROVE MadeEach(f[i + 1])
    OBVIOUS
  <2>1. MadeEach(f[i])
    BY <1>7
  <2>2. i + 1 \in 0 .. n /\ (i + 1) - 1 = i /\ i + 1 # 0
    OBVIOUS
  <2>3. ASSUME NEW ops \in OpLists, NEW chain \in SUBSET Chained
        PROVE  /\ f[i + 1][ops][chain].inlined \subseteq Standing
               /\ \A K : Hereditary(K) /\ ops \in Seq(K) => Made(f[i + 1][ops][chain], ops, K)
    <3>1. f[i + 1][ops][chain] = inlineOps(f[i], ops, chain)
      <4>1. ops \in lists /\ chain \in chains
        BY <1>2, <1>3
      <4> QED
        BY <1>5, <2>2, <4>1
    <3>2. PICK g : g = f[i]
      OBVIOUS
    <3>3. PICK r : r = inlineOps(g, ops, chain)
      OBVIOUS
    <3>4. ASSUME NEW K, Hereditary(K), ops \in Seq(K)
          PROVE  r.inlined \subseteq Standing /\ Made(r, ops, K)
      BY <2>1, <3>2, <3>3, <3>4, OpsAreMade
    <3>5. \E K : Hereditary(K) /\ ops \in Seq(K)
      <4>1. PICK h : /\ h[0] = Roots /\ \A k \in 1 .. MaxNesting : h[k] = UNION {BlocksOf(x) : x \in h[k - 1]}
                     /\ OpLists = UNION {h[k] : k \in 0 .. MaxNesting}
        BY OpListsAre
      <4>2. PICK K : K = UNION {walkOps(root) : root \in Roots}
        OBVIOUS
      <4>3. \A o \in K : WellFormed(o) /\ \A j \in DOMAIN o.blocks : o.blocks[j].ops \in Seq(K)
        <5> SUFFICES ASSUME NEW o \in K PROVE WellFormed(o) /\ \A j \in DOMAIN o.blocks : o.blocks[j].ops \in Seq(K)
          OBVIOUS
        <5>1. PICK root \in Roots : o \in walkOps(root)
          BY <4>2
        <5>2. Hereditary(walkOps(root))
          BY WalkedIsHereditary
        <5>3. walkOps(root) \subseteq K
          BY <4>2
        <5> QED
          BY <5>1, <5>2, <5>3, SeqMonotonic DEF Hereditary
      <4>4. Hereditary(K)
        BY <4>3 DEF Hereditary
      <4>5. PICK m \in Nat : m = MaxNesting
        BY NestingAssumption
      <4> DEFINE In(k) == k =< m => \A x \in h[k] : x \in Seq(K)
                 M == {k \in Nat : In(k)}
      <4>6. 0 \in M
        <5> SUFFICES ASSUME NEW x \in Roots PROVE x \in Seq(K)
          BY <4>1
        <5>1. x \in Seq(walkOps(x))
          BY WalkedIsHereditary
        <5>2. walkOps(x) \subseteq K
          BY <4>2
        <5> QED
          BY <5>1, <5>2, SeqMonotonic
      <4>7. ASSUME NEW k \in Nat, k \in M
            PROVE  k + 1 \in M
        <5> SUFFICES ASSUME k + 1 =< m, NEW x \in h[k + 1] PROVE x \in Seq(K)
          OBVIOUS
        <5>1. k + 1 \in 1 .. m /\ (k + 1) - 1 = k
          OBVIOUS
        <5>2. PICK above \in h[k] : x \in BlocksOf(above)
          BY <4>1, <4>5, <5>1
        <5>3. above \in Seq(K)
          BY <4>7, <5>2
        <5>4. PICK p \in Own(above) : \E j \in DOMAIN p.blocks : x = p.blocks[j].ops
          BY <5>2 DEF BlocksOf
        <5>5. p \in K
          BY <5>3, <5>4, Elements
        <5> QED
          BY <4>3, <5>4, <5>5
      <4> HIDE DEF In
      <4>8. \A k \in Nat : In(k)
        BY <4>6, <4>7, Counting
      <4>9. PICK k \in 0 .. m : ops \in h[k]
        BY <4>1, <4>5
      <4>10. ops \in Seq(K)
        BY <4>8, <4>9 DEF In
      <4> QED
        BY <4>4, <4>10
    <3> QED
      BY <3>1, <3>2, <3>3, <3>4, <3>5
  <2> QED
    BY <2>3 DEF MadeEach
<1> HIDE DEF Good
<1>8. Good(n)
  BY <1>6, <1>7, Counting
<1>9. MadeEach(f[n])
  BY <1>8 DEF Good
<1> QED
  BY <1>4, <1>9

LEMMA RootsAreLists ==
  ASSUME AllParsed
  PROVE  \A root \in Roots : OpList(root)
BY DEF AllParsed, Roots, ListsOf, Parsed

\* The skill that compile() goes on with.
LEMMA BakedIsMade ==
  ASSUME AllParsed
  PROVE  /\ Baked.inlined \subseteq Standing
         /\ TargetsBecame(Baked.data, skill, IF PreflightEnv.store = "none" THEN "reference loop" ELSE Baked.fail)
<1>1. CASE PreflightEnv.store = "none"
  <2>1. Baked.data = skill /\ Baked.inlined = {}
    BY <1>1 DEF Baked
  <2>2. ASSUME NEW ops, OpList(ops)
        PROVE  Became(ops, ops, walkOps(ops), "reference loop")
    <3>1. PICK K : K = walkOps(ops)
      OBVIOUS
    <3>2. Hereditary(K) /\ Own(ops) \subseteq K /\ ops \in Seq(Own(ops))
      BY <2>2, <3>1, WalkedIsHereditary DEF OpList
    <3>3. Own(ops) \subseteq {o \in K : Kin(o, Own(ops))}
      BY <3>2 DEF Kin, SameBut
    <3>4. ops \in Seq({o \in K : Kin(o, Own(ops))})
      BY <3>2, <3>3, SeqMonotonic
    <3>5. "reference loop" # None
      BY NoneAssumption
    <3>6. Grown(K, K, "reference loop")
      BY <3>2, <3>5 DEF Grown, Kin, SameBut, Hereditary
    <3> QED
      BY <3>1, <3>4, <3>6 DEF Became
  <2>3. \A t \in DOMAIN skill.targets : OpList(skill.targets[t].ops) /\ OpList(skill.targets[t].orelse)
    BY DEF AllParsed, Parsed
  <2>4. TargetsBecame(skill, skill, "reference loop")
    BY <2>2, <2>3 DEF TargetsBecame
  <2> QED
    BY <1>1, <2>1, <2>4
<1>2. CASE PreflightEnv.store # "none"
  <2>1. PICK chain : chain = {skill.name}
    OBVIOUS
  <2>2. chain \in SUBSET Chained
    BY <2>1 DEF Chained
  <2>3. PICK r : r = inlineDataSkills(Inlining, skill, chain)
    OBVIOUS
  <2>4. Baked = r
    BY <1>2, <2>1, <2>3 DEF Baked
  <2>5. MadeEach(Inlining)
    BY RootsAreLists, InliningIsMade
  <2>6. ListsOf(skill.targets) \subseteq OpLists
    BY RootsAreLists, OpListsAreClosed DEF Roots
  <2>7. Parsed(skill)
    BY DEF AllParsed
  <2>8. r.inlined \subseteq Standing /\ TargetsBecame(r.data, skill, r.fail)
    BY <2>2, <2>3, <2>5, <2>6, <2>7, TargetsAreMade
  <2> QED
    BY <1>2, <2>4, <2>8
<1> QED
  BY <1>1, <1>2

-----------------------------------------------------------------------------
(* The plan of a run.                                                      *)

\* The case a behaviour starts from is its case to the end.
OneCase == \E c \in Cases : skill = c.skill /\ env = c.env

\* From compile() on the order is the one the targets have been given.
Laid ==
  phase \in {"compiled", "running", "ended"} => Order.fail = None /\ plan.order = Order.order

LEMMA ParsedCase ==
  ASSUME OneCase
  PROVE  AllParsed /\ Wired(env) /\ \A v \in DOMAIN skill.vars : skill.vars[v] # Absent
BY CasesAssumption DEF OneCase, AllParsed

LEMMA GraphOfCase ==
  ASSUME OneCase
  PROVE  Graph(skill.targets)
BY ParsedCase, ParsedIsGraph DEF AllParsed

LEMMA OrderFollows ==
  ASSUME OneCase, Targets # {}, Order.fail = None
  PROVE  /\ Range(Order.order) = Reached({skill.entry}) /\ IsInjective(Order.order)
         /\ \A i \in DOMAIN Order.order : \A d \in Range(skill.targets[Order.order[i]].deps) :
              \E j \in 1..(i - 1) : Order.order[j] = d
<1>1. PICK targets : targets = skill.targets
  OBVIOUS
<1>2. PICK entry : entry = skill.entry
  OBVIOUS
<1>3. Order = toposort(targets, entry)
  BY <1>1, <1>2 DEF Order
<1>4. PICK r : r = Order
  OBVIOUS
<1>5. PICK o : o = r.order
  OBVIOUS
<1>6. Listing(targets, Named(targets, entry), {entry}, {}, <<>>, r)
  BY <1>1, <1>3, <1>4, GraphOfCase, ToposortListed
<1>7. PICK U : U = Named(targets, entry)
  OBVIOUS
<1>8. /\ Ordered(targets, U, {}, o)
      /\ entry \in Range(o)
      /\ \A S : ClosedOver(targets, S) /\ entry \in S => Range(o) \subseteq Range(<<>>) \cup S
  BY <1>4, <1>5, <1>6, <1>7 DEF Listing
<1>9. Range(<<>>) = {}
  BY DEF Range
<1>10. o \in Seq(U \cap DOMAIN targets)
  BY <1>8 DEF Ordered
<1>11. Range(o) \subseteq U \cap DOMAIN targets
  BY <1>10 DEF Range
<1>12. U = {skill.entry} \cup Needs(Targets)
  BY <1>1, <1>2, <1>7 DEF Named, Needs, Targets
<1>13. ASSUME NEW S PROVE Closed(S) <=> ClosedOver(targets, S)
  BY <1>1 DEF Closed, ClosedOver, Needs, Targets
<1>14. Range(o) \subseteq Reached({skill.entry})
  <2> SUFFICES ASSUME NEW t \in Range(o), NEW S \in SUBSET U, skill.entry \in S, Closed(S)
               PROVE  t \in S
    BY <1>11, <1>12 DEF Reached
  <2> QED
    BY <1>2, <1>8, <1>9, <1>13
<1>15. Reached({skill.entry}) \subseteq Range(o)
  <2>1. ClosedOver(targets, Range(o))
    <3> SUFFICES ASSUME NEW t \in Range(o), NEW d \in Range(targets[t].deps) PROVE d \in Range(o)
      BY DEF ClosedOver
    <3>1. PICK i \in DOMAIN o : o[i] = t
      BY DEF Range
    <3>2. PICK j \in 1..(i - 1) : o[j] = d
      BY <1>8, <3>1 DEF Ordered
    <3>3. j \in DOMAIN o
      BY <1>10, <3>1, <3>2
    <3> QED
      BY <3>2, <3>3 DEF Range
  <2> QED
    BY <1>2, <1>8, <1>11, <1>12, <1>13, <2>1 DEF Reached
<1>16. IsInjective(o) /\ \A i \in DOMAIN o : \A d \in Range(targets[o[i]].deps) : \E j \in 1..(i - 1) : o[j] = d
  BY <1>8 DEF Ordered
<1>17. Order.order = o
  BY <1>4, <1>5
<1>18. Range(o) = Reached({skill.entry})
  BY <1>14, <1>15
<1> QED
  BY <1>1, <1>16, <1>17, <1>18

\* A step keeps the case, and the plan but for compile()'s own.
LEMMA Moves ==
  ASSUME Next
  PROVE  /\ UNCHANGED <<skill, env>>
         /\ \/ Compile
            \/ UNCHANGED plan /\ phase' = phase
            \/ UNCHANGED plan /\ phase = "compiled" /\ phase' = "running"
            \/ UNCHANGED plan /\ phase = "running" /\ phase' = "ended"
<1> USE DEF Running, AtOp, Cleared, Throw, Bind, Fail, NextTarget
<1>1. CASE LintSkill
  BY <1>1 DEF LintSkill
<1>2. CASE Compile
  BY <1>2 DEF Compile
<1>3. CASE Start
  BY <1>3 DEF Start
<1>4. CASE TargetDone
  BY <1>4 DEF TargetDone
<1>5. CASE End
  BY <1>5 DEF End
<1>6. CASE Ops
  BY <1>6 DEF Ops, Refuse, Set, Accumulate, Emit, Call, Shell, FileRead, FileWrite, Notify
<1>7. CASE Blocks
  BY <1>7 DEF Blocks, Branch, Enter, Loop, Item, EndLoop
<1>8. CASE Stopped
  BY <1>8 DEF Stopped, state
<1> QED
  BY <1>1, <1>2, <1>3, <1>4, <1>5, <1>6, <1>7, <1>8 DEF Next


\* The plan is what compile() made of the case.
Planned ==
  phase \in {"compiled", "running", "ended"} =>
    plan.targets = Baked.data.targets /\ plan.inlined = Baked.inlined /\ Baked.fail = None

LEMMA BakedStays ==
  ASSUME UNCHANGED <<skill, env>>
  PROVE  Baked' = Baked
BY DEF Baked, PreflightEnv, Inlining, inlineOps, inlineOp, inlineDataSkills, Loadable, StoreUp, Known, Baking,
       Approved, Lists, Chained, OpLists

\* What holds of a run from its beginning to its end.
RunInv == OneCase /\ Laid /\ Planned

LEMMA RunInvKept ==
  ASSUME RunInv, [Next]_state
  PROVE  RunInv'
<1> USE DEF RunInv
<1>1. UNCHANGED <<skill, env>>
  BY Moves DEF state
<1>2. OneCase'
  BY <1>1 DEF OneCase
<1>3. Order' = Order
  BY <1>1 DEF Order, Targets
<1>4. Baked' = Baked
  BY <1>1, BakedStays
<1>5. CASE Compile
  <2>1. phase' \in {"compiled", "refused"}
    BY <1>5 DEF Compile
  <2>2. phase' = "compiled" => compileFailure = None
    BY <1>5 DEF Compile
  <2>3. phase' = "compiled" =>
          plan'.order = Order.order /\ plan'.targets = Baked.data.targets /\ plan'.inlined = Baked.inlined
    BY <1>5 DEF Compile
  <2>4. compileFailure = None => Order.fail = None /\ Baked.fail = None
    BY NoneAssumption DEF compileFailure
  <2> QED
    BY <1>2, <1>3, <1>4, <2>1, <2>2, <2>3, <2>4 DEF Laid, Planned
<1>6. CASE UNCHANGED plan /\ (phase' = phase \/ phase = "compiled" \/ phase = "running")
  <2>1. phase' \in {"compiled", "running", "ended"} =>
          (Order.fail = None /\ plan.order = Order.order) \/ phase' = phase
    BY <1>6 DEF Laid
  <2>2. phase' \in {"compiled", "running", "ended"} => Order.fail = None /\ plan.order = Order.order
    BY <1>6, <2>1 DEF Laid
  <2>3. phase' \in {"compiled", "running", "ended"} =>
          plan.targets = Baked.data.targets /\ plan.inlined = Baked.inlined /\ Baked.fail = None
    BY <1>6 DEF Planned
  <2> QED
    BY <1>2, <1>3, <1>4, <1>6, <2>2, <2>3 DEF Laid, Planned
<1> QED
  BY <1>5, <1>6, Moves DEF state

LEMMA RunInvHolds == Spec => []RunInv
<1>1. Init => RunInv
  BY DEF Init, RunInv, OneCase, Laid, Planned
<1>2. RunInv /\ [Next]_state => RunInv'
  BY RunInvKept
<1> QED
  BY <1>1, <1>2, PTL DEF Spec

\* A run carries out what its entry needs and nothing else, each target once
\* and after the targets it depends on, for every skill (compile.ts:517).
THEOREM OrderIsSound == Spec => []OrderSound
<1>1. RunInv => OrderSound
  BY OrderFollows DEF RunInv, Laid, OrderSound
<1> QED
  BY <1>1, RunInvHolds, PTL

\* Where a list came to its end, no reference to a data skill is left in it.
LEMMA BecameIsSettled ==
  ASSUME NEW ops, NEW src, NEW K, Became(ops, src, K, None)
  PROVE  \A op \in walkOps(ops) : Settled(op)
<1>1. PICK S : ops \in Seq({o \in S : Kin(o, Own(src))}) /\ Grown(S, K, None)
  BY DEF Became
<1>2. ops \in Seq(S)
  <2>1. {o \in S : Kin(o, Own(src))} \subseteq S
    OBVIOUS
  <2> QED
    BY <1>1, <2>1, SeqMonotonic
<1>3. \A o \in S : \A j \in DOMAIN o.blocks : o.blocks[j].ops \in Seq(S)
  BY <1>1 DEF Grown
<1>4. walkOps(ops) \subseteq S
  BY <1>2, <1>3, WalkedWithin
<1> QED
  BY <1>1, <1>4 DEF Grown

\* Text of another skill gets into a run only on that skill's own approval,
\* at any depth of blocks and however skills name each other, and a run with
\* a store keeps no reference to a data skill (compile.ts:413).
THEOREM InlinedAreApproved == Spec => []InlinedStands
<1>1. RunInv => InlinedStands
  <2> SUFFICES ASSUME OneCase, Planned, phase \in {"compiled", "running", "ended"}
               PROVE  /\ \A n \in plan.inlined : env.skills[n].type = "data" /\ env.skills[n].approved
                      /\ env.entry # "trigger" =>
                           \A t \in DOMAIN plan.targets :
                             \A op \in walkOps(plan.targets[t].ops) \cup walkOps(plan.targets[t].orelse) : Settled(op)
    BY DEF RunInv, InlinedStands, Settled
  <2>1. AllParsed /\ Wired(env)
    BY ParsedCase
  <2>2. PICK b : b = Baked
    OBVIOUS
  <2>3. plan.targets = b.data.targets /\ plan.inlined = b.inlined /\ b.fail = None
    BY <2>2 DEF Planned
  <2>4. b.inlined \subseteq Standing
    BY <2>1, <2>2, BakedIsMade
  <2>5. \A n \in plan.inlined : env.skills[n].type = "data" /\ env.skills[n].approved
    BY <2>3, <2>4 DEF Standing
  <2>6. ASSUME env.entry # "trigger", NEW t \in DOMAIN plan.targets,
               NEW op \in walkOps(plan.targets[t].ops) \cup walkOps(plan.targets[t].orelse)
        PROVE  Settled(op)
    <3>1. CASE env.store = "none"
      BY <3>1 DEF Settled, Loadable, StoreUp
    <3>2. CASE env.store # "none"
      <4>1. PreflightEnv.store = env.store
        BY <2>1, <2>6 DEF PreflightEnv, Wired
      <4>2. TargetsBecame(b.data, skill, None)
        BY <2>1, <2>2, <2>3, <3>2, <4>1, BakedIsMade
      <4>3. /\ Became(b.data.targets[t].ops, skill.targets[t].ops, walkOps(skill.targets[t].ops), None)
            /\ Became(b.data.targets[t].orelse, skill.targets[t].orelse, walkOps(skill.targets[t].orelse), None)
        BY <2>3, <4>2 DEF TargetsBecame
      <4>4. \A o \in walkOps(b.data.targets[t].ops) \cup walkOps(b.data.targets[t].orelse) : Settled(o)
        BY <4>3, BecameIsSettled
      <4> QED
        BY <2>3, <4>4
    <3> QED
      BY <3>1, <3>2
  <2> QED
    BY <2>5, <2>6
<1> QED
  BY <1>1, RunInvHolds, PTL
-----------------------------------------------------------------------------
(* Conditions.                                                             *)

LEMMA Least ==
  ASSUME NEW S \in SUBSET Nat, S # {}
  PROVE  \E i \in S : \A k \in S : i =< k
<1> SUFFICES ASSUME \A i \in S : \E k \in S : k < i PROVE FALSE
  OBVIOUS
<1> DEFINE N == {n \in Nat : \A k \in S : n =< k}
<1>1. 0 \in N
  OBVIOUS
<1>2. ASSUME NEW n \in Nat, n \in N PROVE n + 1 \in N
  BY <1>2
<1>3. PICK i \in S : TRUE
  OBVIOUS
<1>4. i + 1 \in N
  BY <1>1, <1>2, Counting
<1> QED
  BY <1>4

LEMMA Greatest ==
  ASSUME NEW n \in Nat, NEW hits \in SUBSET (1 .. n), hits # {}
  PROVE  Rightmost(hits) \in hits /\ \A j \in hits : j =< Rightmost(hits)
<1>1. \E i \in {n - j : j \in hits} : \A k \in {n - j : j \in hits} : i =< k
  <2>1. PICK S : S = {n - j : j \in hits}
    OBVIOUS
  <2>2. \A j \in hits : n - j \in Nat
    OBVIOUS
  <2>4. S \subseteq Nat /\ S # {}
    BY <2>1, <2>2
  <2>3. \E i \in S : \A k \in S : i =< k
    BY <2>4, Least
  <2> QED
    BY <2>1, <2>3
<1>2. PICK i \in hits : \A k \in hits : n - i =< n - k
  BY <1>1
<1>3. \A k \in hits : k =< i
  BY <1>2
<1> QED
  BY <1>3 DEF Rightmost

\* Where both descents cut a text, and what is left of it.
LEMMA Cut ==
  ASSUME NEW T, NEW s \in Seq(T), NEW tok, NEW i, i = findOuterToken(s, tok)
  PROVE  \/ i = 0 /\ \A j \in 2 .. Len(s) - 1 : ~(s[j] = tok /\ DepthAt(s)[j] = 0)
         \/ /\ i \in 2 .. Len(s) - 1 /\ s[i] = tok /\ DepthAt(s)[i] = 0
            /\ \A j \in 2 .. Len(s) - 1 : s[j] = tok /\ DepthAt(s)[j] = 0 => j =< i
<1>1. PICK n \in Nat : n = Len(s)
  OBVIOUS
<1>2. PICK hits : hits = {j \in 2 .. n - 1 : s[j] = tok /\ DepthAt(s)[j] = 0}
  OBVIOUS
<1>3. i = Rightmost(hits)
  BY <1>1, <1>2 DEF findOuterToken
<1>4. CASE hits = {}
  BY <1>1, <1>2, <1>3, <1>4 DEF Rightmost
<1>5. CASE hits # {}
  <2>1. hits \in SUBSET (1 .. n)
    BY <1>2
  <2>2. i \in hits /\ \A j \in hits : j =< i
    BY <1>3, <1>5, <2>1, Greatest
  <2> QED
    BY <1>1, <1>2, <2>2
<1> QED
  BY <1>4, <1>5

LEMMA Pieces ==
  ASSUME NEW T, NEW s \in Seq(T), NEW i \in 1 .. Len(s)
  PROVE  /\ Before(s, i) \in Seq(T) /\ Len(Before(s, i)) = i - 1
         /\ After(s, i) \in Seq(T) /\ Len(After(s, i)) = Len(s) - i
         /\ \A j \in 1 .. i - 1 : Before(s, i)[j] = s[j]
         /\ \A j \in 1 .. Len(s) - i : After(s, i)[j] = s[i + j]
<1>1. /\ SubSeq(s, 1, i - 1) \in Seq(T) /\ Len(SubSeq(s, 1, i - 1)) = i - 1
      /\ \A j \in 1 .. i - 1 : SubSeq(s, 1, i - 1)[j] = s[j]
  OBVIOUS
<1>2. SubSeq(s, i + 1, Len(s)) \in Seq(T) /\ Len(SubSeq(s, i + 1, Len(s))) = Len(s) - i
  OBVIOUS
<1>3. \A j \in 1 .. Len(s) - i : SubSeq(s, i + 1, Len(s))[j] = s[i + j]
  OBVIOUS
<1> QED
  BY <1>1, <1>2, <1>3 DEF Before, After

LEMMA Stripped ==
  ASSUME NEW T, NEW s \in Seq(T)
  PROVE  stripOuterParens(s) \in Seq(T) /\ Len(stripOuterParens(s)) =< Len(s)
<1>1. CASE Len(s) >= 2
  <2>1. SubSeq(s, 2, Len(s) - 1) = [i \in 1 .. Len(s) - 2 |-> s[i + 1]]
    BY <1>1
  <2>2. Len(s) - 2 \in Nat /\ \A i \in 1 .. Len(s) - 2 : s[i + 1] \in T
    BY <1>1
  <2>4. PICK m \in Nat : m = Len(s) - 2
    BY <2>2
  <2>5. PICK z : z = [i \in 1 .. m |-> s[i + 1]]
    OBVIOUS
  <2>6. z \in Seq(T) /\ Len(z) = m
    BY <2>2, <2>4, <2>5
  <2>3. SubSeq(s, 2, Len(s) - 1) \in Seq(T) /\ Len(SubSeq(s, 2, Len(s) - 1)) = Len(s) - 2
    BY <2>1, <2>4, <2>5, <2>6
  <2> QED
    BY <2>3 DEF stripOuterParens
<1>2. CASE ~(Len(s) >= 2)
  BY <1>2 DEF stripOuterParens
<1> QED
  BY <1>1, <1>2

\* What the runtime reads in texts, by how many turns it may take.
EvalBy(f, n, texts, vs) ==
  f = [i \in 0 .. n |-> IF i = 0 THEN [s \in texts |-> "invalid"] ELSE [s \in texts |-> evalText(f[i - 1], stripOuterParens(s), vs)]]

LEMMA EvalByExists ==
  ASSUME NEW n \in Nat, NEW texts, NEW vs
  PROVE  \E f : EvalBy(f, n, texts, vs)
<1> DEFINE Next1(r, i) == [s \in texts |-> evalText(r, stripOuterParens(s), vs)]
           base == [s \in texts |-> "invalid"]
           Eq(f, m) == f = [i \in 0 .. m |-> IF i = 0 THEN base ELSE Next1(f[i - 1], i)]
           S == {m \in Nat : \E f : Eq(f, m)}
<1>0. \A f : Eq(f, n) => EvalBy(f, n, texts, vs)
  BY DEF EvalBy
<1> HIDE DEF base, Next1
<1>1. 0 \in S
  <2> DEFINE f == [i \in 0 .. 0 |-> base]
  <2>1. Eq(f, 0)
    <3>1. \A i \in 0 .. 0 : i = 0
      OBVIOUS
    <3> QED
      BY <3>1
  <2> HIDE DEF f, Eq
  <2> QED
    BY <2>1
<1>2. ASSUME NEW m \in Nat, m \in S
      PROVE  m + 1 \in S
  <2>1. PICK f : Eq(f, m)
    BY <1>2
  <2> DEFINE g == [i \in 0 .. m + 1 |-> IF i = m + 1 THEN Next1(f[m], m + 1) ELSE f[i]]
  <2>2. \A i \in 0 .. m : f[i] = IF i = 0 THEN base ELSE Next1(f[i - 1], i)
    BY <2>1
  <2>3. \A i \in 0 .. m + 1 : g[i] = IF i = 0 THEN base ELSE Next1(g[i - 1], i)
    <3> SUFFICES ASSUME NEW i \in 0 .. m + 1
                 PROVE  g[i] = IF i = 0 THEN base ELSE Next1(g[i - 1], i)
      OBVIOUS
    <3>1. CASE i = m + 1
      <4>1. g[i - 1] = f[m] /\ i # 0
        BY <3>1
      <4> QED
        BY <3>1, <4>1
    <3>2. CASE i # m + 1
      <4>1. i \in 0 .. m /\ (i # 0 => i - 1 \in 0 .. m /\ i - 1 # m + 1)
        BY <3>2
      <4>2. i # 0 => g[i - 1] = f[i - 1]
        BY <4>1
      <4> QED
        BY <2>2, <3>2, <4>1, <4>2
    <3> QED
      BY <3>1, <3>2
  <2>4. Eq(g, m + 1)
    BY <2>3
  <2> HIDE DEF g, Eq
  <2> QED
    BY <2>4
<1>3. n \in S
  BY <1>1, <1>2, Counting
<1>4. PICK f : Eq(f, n)
  BY <1>3
<1> HIDE DEF Eq
<1> QED
  BY <1>0, <1>4

LEMMA EvalBySteps ==
  ASSUME NEW n \in Nat, NEW texts, NEW vs, NEW f, EvalBy(f, n, texts, vs)
  PROVE  f[0] = [s \in texts |-> "invalid"] /\ \A i \in 1 .. n : f[i] = [s \in texts |-> evalText(f[i - 1], stripOuterParens(s), vs)]
<1> DEFINE body(i) == IF i = 0 THEN [s \in texts |-> "invalid"] ELSE [s \in texts |-> evalText(f[i - 1], stripOuterParens(s), vs)]
<1>1. f = [i \in 0 .. n |-> body(i)]
  BY DEF EvalBy
<1> HIDE DEF body
<1>2. \A i \in 0 .. n : f[i] = body(i)
  BY <1>1
<1>3. 0 \in 0 .. n /\ \A i \in 1 .. n : i \in 0 .. n /\ i # 0
  OBVIOUS
<1>4. body(0) = [s \in texts |-> "invalid"]
  BY DEF body
<1>5. \A i \in 1 .. n : body(i) = [s \in texts |-> evalText(f[i - 1], stripOuterParens(s), vs)]
  BY <1>3 DEF body
<1> QED
  BY <1>2, <1>3, <1>4, <1>5

LEMMA EvalIs ==
  ASSUME NEW c \in Seq(Token), NEW vs
  PROVE  \E f : EvalBy(f, Len(c), Seq(Token), vs) /\ evalCondition(c, vs) = f[Len(c)][c]
<1> DEFINE g == CHOOSE f : EvalBy(f, Len(c), Seq(Token), vs)
<1>1. Len(c) \in Nat
  OBVIOUS
<1>2. EvalBy(g, Len(c), Seq(Token), vs)
  BY <1>1, EvalByExists
<1>3. evalCondition(c, vs) = g[Len(c)][c]
  BY DEF evalCondition, EvalBy
<1> QED
  BY <1>2, <1>3

Reads == {"true", "false", "unresolved", "mismatch", "invalid"}

LEMMA SimpleReads ==
  ASSUME NEW name \in DOMAIN Simple, NEW vs
  PROVE  evalSimpleCondition(name, vs) \in Reads \ {"invalid"}
<1>1. Simple[name].shape \in {"truthy", "eq", "ne", "lt", "in"}
  BY ShapeAssumption
<1> QED
  BY <1>1, SMTT(30) DEF evalSimpleCondition, Reads, Bool

LEMMA TextReads ==
  ASSUME NEW eval, NEW vs, \A s \in Seq(Token) : eval[s] \in Reads, NEW s \in Seq(Token)
  PROVE  evalText(eval, s, vs) \in Reads
<1>1. PICK or : or = findOuterToken(s, "or")
  OBVIOUS
<1>2. PICK and : and = findOuterToken(s, "and")
  OBVIOUS
<1>3. or = 0 \/ or \in 2 .. Len(s) - 1
  BY <1>1, Cut
<1>4. and = 0 \/ and \in 2 .. Len(s) - 1
  BY <1>2, Cut
<1>5. ASSUME NEW i \in 2 .. Len(s) - 1 PROVE eval[Before(s, i)] \in Reads /\ eval[After(s, i)] \in Reads
  <2>1. i \in 1 .. Len(s)
    OBVIOUS
  <2>2. Before(s, i) \in Seq(Token) /\ After(s, i) \in Seq(Token)
    BY <2>1, Pieces
  <2> QED
    BY <2>2
<1>6. evalText(eval, s, vs) = evalAt(eval, s, or, and, vs)
  BY <1>1, <1>2 DEF evalText
<1>7. CASE or > 0
  BY <1>3, <1>5, <1>6, <1>7 DEF evalAt, ShortCircuit
<1>8. CASE or = 0 /\ and > 0
  BY <1>4, <1>5, <1>6, <1>8 DEF evalAt, ShortCircuit
<1>9. CASE or = 0 /\ and = 0 /\ Len(s) > 1
  <2>1. Tail(s) \in Seq(Token)
    BY <1>9
  <2>2. eval[Tail(s)] \in Reads
    BY <2>1
  <2>3. evalText(eval, s, vs) = IF s[1] = "not" THEN Negate(eval[Tail(s)]) ELSE "invalid"
    BY <1>6, <1>9 DEF evalAt
  <2> QED
    BY <2>2, <2>3 DEF Negate, Reads
<1>10. CASE or = 0 /\ and = 0 /\ ~(Len(s) > 1)
  <2>1. evalText(eval, s, vs) = IF s # <<>> /\ s[1] \in DOMAIN Simple THEN evalSimpleCondition(s[1], vs) ELSE "invalid"
    BY <1>6, <1>10 DEF evalAt
  <2> QED
    BY <2>1, SimpleReads DEF Reads
<1> QED
  BY <1>3, <1>4, <1>7, <1>8, <1>9, <1>10

LEMMA ReadsOf ==
  ASSUME NEW c \in Seq(Token), NEW vs
  PROVE  evalCondition(c, vs) \in Reads
<1>1. PICK n \in Nat : n = Len(c)
  OBVIOUS
<1>2. PICK f : EvalBy(f, n, Seq(Token), vs) /\ evalCondition(c, vs) = f[n][c]
  BY <1>1, EvalIs
<1>3. /\ f[0] = [s \in Seq(Token) |-> "invalid"]
      /\ \A i \in 1 .. n : f[i] = [s \in Seq(Token) |-> evalText(f[i - 1], stripOuterParens(s), vs)]
  BY <1>2, EvalBySteps
<1> DEFINE Good(i) == i =< n => \A s \in Seq(Token) : f[i][s] \in Reads
           N == {i \in Nat : Good(i)}
<1>4. 0 \in N
  BY <1>3 DEF Reads
<1>5. ASSUME NEW i \in Nat, i \in N
      PROVE  i + 1 \in N
  <2> SUFFICES ASSUME i + 1 =< n, NEW s \in Seq(Token) PROVE f[i + 1][s] \in Reads
    OBVIOUS
  <2>1. i + 1 \in 1 .. n /\ (i + 1) - 1 = i
    OBVIOUS
  <2>2. PICK e : e = f[i]
    OBVIOUS
  <2>3. f[i + 1] = [x \in Seq(Token) |-> evalText(e, stripOuterParens(x), vs)]
    BY <1>3, <2>1, <2>2
  <2>4. f[i + 1][s] = evalText(e, stripOuterParens(s), vs)
    BY <2>3
  <2>5. \A x \in Seq(Token) : e[x] \in Reads
    BY <1>5, <2>2
  <2>6. stripOuterParens(s) \in Seq(Token)
    BY Stripped
  <2> QED
    BY <2>4, <2>5, <2>6, TextReads
<1> HIDE DEF Good
<1>6. Good(n)
  BY <1>4, <1>5, Counting
<1> QED
  BY <1>1, <1>2, <1>6 DEF Good

-----------------------------------------------------------------------------
(* What a run has before it, and the values it has.                        *)

\* Ops that stand in blocks of one another, each the twin of one of K or of
\* what a data skill gave.
Family(S, K) == \A o \in S : Kin(o, K) /\ \A j \in DOMAIN o.blocks : o.blocks[j].ops \in Seq(S)

\* One item of todo: an op of a target, or what a loop has put there.
Source(t, p) == IF p = "ops" THEN skill.targets[t].ops ELSE skill.targets[t].orelse
OfTarget(x, t, p) ==
  \E S : x.op \in S /\ Family(S, walkOps(Source(t, p))) /\ (~x.deep => Kin(x.op, Own(Source(t, p))))
Given == Inputs \cup DOMAIN Ambient
Entry(x, p) ==
  \/ x.op.kind = "item"
  \/ x.op.kind = "end" /\ Given \subseteq x.keep
  \/ x.op.kind \notin {"item", "end"} /\ \E t \in Targets : OfTarget(x, t, p)
Queue(q, p) == \E X : q \in Seq(X) /\ \A x \in X : Entry(x, p)

LEMMA QueueEmpty ==
  ASSUME NEW p
  PROVE  Queue(<<>>, p)
<1>1. PICK X : X = {}
  OBVIOUS
<1>2. <<>> \in Seq(X) /\ \A x \in X : Entry(x, p)
  BY <1>1
<1> QED
  BY <1>2 DEF Queue

LEMMA QueueJoined ==
  ASSUME NEW q, NEW r, NEW p, Queue(q, p), Queue(r, p)
  PROVE  Queue(q \o r, p)
<1>1. PICK X : q \in Seq(X) /\ \A x \in X : Entry(x, p)
  BY DEF Queue
<1>2. PICK Y : r \in Seq(Y) /\ \A y \in Y : Entry(y, p)
  BY DEF Queue
<1>3. PICK Z : Z = X \cup Y
  OBVIOUS
<1>4. q \in Seq(Z) /\ r \in Seq(Z)
  BY <1>1, <1>2, <1>3, SeqMonotonic
<1>5. q \o r \in Seq(Z)
  BY <1>4
<1>6. \A z \in Z : Entry(z, p)
  BY <1>1, <1>2, <1>3
<1> QED
  BY <1>5, <1>6 DEF Queue

LEMMA QueueTail ==
  ASSUME NEW q, NEW p, Queue(q, p), q # <<>>
  PROVE  Entry(Head(q), p) /\ Queue(Tail(q), p)
<1>1. PICK X : q \in Seq(X) /\ \A x \in X : Entry(x, p)
  BY DEF Queue
<1>2. Head(q) \in X /\ Tail(q) \in Seq(X)
  BY <1>1
<1> QED
  BY <1>1, <1>2 DEF Queue

LEMMA TwinOf ==
  ASSUME NEW o, NEW k, WellFormed(k), SameBut(o, k)
  PROVE  /\ o.kind = k.kind /\ o.con = k.con /\ o.tool = k.tool /\ o.refs = k.refs /\ o.set = k.set
         /\ o.val = k.val /\ o.fallback = k.fallback /\ o.approved = k.approved /\ o.unsafe = k.unsafe
         /\ o.secrets = k.secrets
         /\ DOMAIN o.blocks = DOMAIN k.blocks /\ \A j \in DOMAIN o.blocks : o.blocks[j].cond = k.blocks[j].cond
<1>1. CASE o = k
  BY <1>1
<1>2. CASE o = [k EXCEPT !.blocks = o.blocks]
  <2>1. {"kind", "con", "tool", "refs", "set", "val", "fallback", "approved", "unsafe", "secrets"} \subseteq DOMAIN k
    BY DEF WellFormed, NoOp
  <2>2. PICK b : b = o.blocks
    OBVIOUS
  <2>3. o = [k EXCEPT !.blocks = b]
    BY <1>2, <2>2
  <2>4. /\ o.kind = k.kind /\ o.con = k.con /\ o.tool = k.tool /\ o.refs = k.refs /\ o.set = k.set
        /\ o.val = k.val /\ o.fallback = k.fallback /\ o.approved = k.approved /\ o.unsafe = k.unsafe
        /\ o.secrets = k.secrets
    BY <2>1, <2>3
  <2> QED
    BY <2>4 DEF SameBut
<1> QED
  BY <1>1, <1>2 DEF SameBut

\* What the ops of a list are, and the ops in their blocks.
LEMMA SourceOps ==
  ASSUME OneCase, NEW t \in Targets, NEW p
  PROVE  OpList(Source(t, p)) /\ \A k \in walkOps(Source(t, p)) : WellFormed(k)
<1>1. AllParsed
  BY ParsedCase
<1>2. OpList(skill.targets[t].ops) /\ OpList(skill.targets[t].orelse)
  BY <1>1 DEF AllParsed, Parsed, Targets
<1>3. OpList(Source(t, p))
  BY <1>2 DEF Source
<1> QED
  BY <1>3 DEF OpList

\* An op of a target is what a data skill gave, or twin of one of the text.
LEMMA OpOfTarget ==
  ASSUME OneCase, NEW x, NEW t \in Targets, NEW p, OfTarget(x, t, p)
  PROVE  \/ Content1(x.op)
         \/ \E k \in walkOps(Source(t, p)) : WellFormed(k) /\ SameBut(x.op, k)
<1>1. PICK S : x.op \in S /\ Family(S, walkOps(Source(t, p)))
  BY DEF OfTarget
<1>2. Kin(x.op, walkOps(Source(t, p)))
  BY <1>1 DEF Family
<1> QED
  BY <1>2, SourceOps DEF Kin

\* The lists of a target's ops as a run takes them up.
LEMMA ItemsQueue ==
  ASSUME OneCase, NEW t \in Targets, NEW p, NEW S, NEW ops, NEW deep,
         Family(S, walkOps(Source(t, p))), ops \in Seq(S),
         ~deep => ops \in Seq({o \in S : Kin(o, Own(Source(t, p)))})
  PROVE  Queue(Items(ops, deep), p)
<1>1. PICK E : ops \in Seq(E) /\ E \subseteq S /\ (~deep => E \subseteq {o \in S : Kin(o, Own(Source(t, p)))})
  <2>1. CASE deep
    BY <2>1
  <2>2. CASE ~deep
    <3>1. {o \in S : Kin(o, Own(Source(t, p)))} \subseteq S
      OBVIOUS
    <3> QED
      BY <2>2, <3>1
  <2> QED
    BY <2>1, <2>2
<1>2. PICK X : X = {[op |-> o, deep |-> deep, keep |-> {}] : o \in E}
  OBVIOUS
<1>3. Items(ops, deep) \in Seq(X)
  <2>1. PICK n \in Nat : DOMAIN ops = 1 .. n /\ \A i \in 1 .. n : ops[i] \in E
    <3>1. Len(ops) \in Nat /\ DOMAIN ops = 1 .. Len(ops) /\ \A i \in 1 .. Len(ops) : ops[i] \in E
      BY <1>1
    <3> QED
      BY <3>1
  <2>2. Items(ops, deep) = [i \in 1 .. n |-> [op |-> ops[i], deep |-> deep, keep |-> {}]]
    BY <2>1 DEF Items
  <2>3. \A i \in 1 .. n : [op |-> ops[i], deep |-> deep, keep |-> {}] \in X
    BY <1>2, <2>1
  <2> DEFINE it(i) == [op |-> ops[i], deep |-> deep, keep |-> {}]
  <2>4. Items(ops, deep) = [i \in 1 .. n |-> it(i)] /\ \A i \in 1 .. n : it(i) \in X
    BY <2>2, <2>3
  <2> HIDE DEF it
  <2>5. [i \in 1 .. n |-> it(i)] \in Seq(X)
    BY <2>4
  <2> QED
    BY <2>4, <2>5
<1>4. ASSUME NEW x \in X PROVE Entry(x, p)
  <2>1. PICK o \in E : x = [op |-> o, deep |-> deep, keep |-> {}]
    BY <1>2
  <2>2. x.op = o /\ x.deep = deep
    BY <2>1
  <2>3. o \in S /\ (~x.deep => Kin(x.op, Own(Source(t, p))))
    BY <1>1, <2>2
  <2>4. OfTarget(x, t, p)
    BY <2>2, <2>3 DEF OfTarget
  <2>5. x.op.kind \notin {"item", "end"}
    <3>1. CASE Content1(x.op)
      BY <3>1 DEF Content1
    <3>2. CASE \E k \in walkOps(Source(t, p)) : WellFormed(k) /\ SameBut(x.op, k)
      <4>1. PICK k \in walkOps(Source(t, p)) : WellFormed(k) /\ SameBut(x.op, k)
        BY <3>2
      <4>2. x.op.kind = k.kind
        BY <4>1, TwinOf
      <4> QED
        BY <4>1, <4>2 DEF WellFormed
    <3> QED
      BY <2>4, <3>1, <3>2, OpOfTarget
  <2> QED
    BY <2>4, <2>5 DEF Entry
<1> QED
  BY <1>3, <1>4 DEF Queue

LEMMA BecameQueue ==
  ASSUME OneCase, NEW t \in Targets, NEW p, NEW ops, NEW fail,
         Became(ops, Source(t, p), walkOps(Source(t, p)), fail)
  PROVE  Queue(Items(ops, FALSE), p)
<1>1. PICK S : ops \in Seq({o \in S : Kin(o, Own(Source(t, p)))}) /\ Grown(S, walkOps(Source(t, p)), fail)
  BY DEF Became
<1>2. Family(S, walkOps(Source(t, p)))
  BY <1>1 DEF Grown, Family
<1>3. ops \in Seq(S)
  <2>1. {o \in S : Kin(o, Own(Source(t, p)))} \subseteq S
    OBVIOUS
  <2> QED
    BY <1>1, <2>1, SeqMonotonic
<1> QED
  BY <1>1, <1>2, <1>3, ItemsQueue

\* The order names targets only.
LEMMA OrderOfTargets ==
  ASSUME OneCase, Order.fail = None
  PROVE  Order.order \in Seq(Targets)
<1>1. CASE Targets = {}
  <2>1. Order.order = <<>>
    BY <1>1 DEF Order
  <2>2. <<>> \in Seq(Targets)
    OBVIOUS
  <2> QED
    BY <2>1, <2>2
<1>2. CASE Targets # {}
  <2>1. PICK targets : targets = skill.targets
    OBVIOUS
  <2>2. PICK r : r = toposort(targets, skill.entry)
    OBVIOUS
  <2>3. Order = r
    BY <1>2, <2>1, <2>2 DEF Order
  <2>4. Listing(targets, Named(targets, skill.entry), {skill.entry}, {}, <<>>, r)
    BY <2>1, <2>2, <2>3, GraphOfCase, ToposortListed
  <2>5. PICK U : U = Named(targets, skill.entry)
    OBVIOUS
  <2>6. Ordered(targets, U, {}, r.order)
    BY <2>3, <2>4, <2>5 DEF Listing
  <2>7. r.order \in Seq(U \cap DOMAIN targets)
    BY <2>6 DEF Ordered
  <2>8. U \cap DOMAIN targets \subseteq Targets
    BY <2>1 DEF Targets
  <2> QED
    BY <2>3, <2>7, <2>8, SeqMonotonic
<1> QED
  BY <1>1, <1>2

\* The ops of a target of the plan, and those of its else block.
LEMMA PlanQueue ==
  ASSUME RunInv, phase \in {"compiled", "running", "ended"}, NEW i
  PROVE  Queue(OpsOf(i), "ops") /\ (i \in DOMAIN plan.order => Queue(ElseOf(i), "else"))
<1>1. OneCase /\ Order.fail = None /\ plan.order = Order.order /\ plan.targets = Baked.data.targets
  BY DEF RunInv, Laid, Planned
<1>2. AllParsed
  BY <1>1, ParsedCase
<1>3. CASE i \notin DOMAIN plan.order
  BY <1>3, QueueEmpty DEF OpsOf
<1>4. CASE i \in DOMAIN plan.order
  <2>1. plan.order \in Seq(Targets)
    BY <1>1, OrderOfTargets
  <2>2. PICK t \in Targets : t = plan.order[i]
    BY <1>4, <2>1
  <2>3. PICK fail : TargetsBecame(Baked.data, skill, fail)
    BY <1>2, BakedIsMade
  <2>4. /\ Became(plan.targets[t].ops, skill.targets[t].ops, walkOps(skill.targets[t].ops), fail)
        /\ Became(plan.targets[t].orelse, skill.targets[t].orelse, walkOps(skill.targets[t].orelse), fail)
    BY <1>1, <2>3 DEF TargetsBecame, Targets
  <2>5. Source(t, "ops") = skill.targets[t].ops /\ Source(t, "else") = skill.targets[t].orelse
    BY DEF Source
  <2>6. Queue(Items(plan.targets[t].ops, FALSE), "ops")
    BY <1>1, <2>4, <2>5, BecameQueue
  <2>7. Queue(Items(plan.targets[t].orelse, FALSE), "else")
    BY <1>1, <2>4, <2>5, BecameQueue
  <2> QED
    BY <1>4, <2>2, <2>6, <2>7 DEF OpsOf, ElseOf
<1> QED
  BY <1>3, <1>4

\* The rounds of a loop, one after the other.
RoundsBy(f, n, round) ==
  f = [i \in 0 .. n |-> IF i = 0 THEN <<>> ELSE (f[i - 1] \o round)]

LEMMA RoundsByExists ==
  ASSUME NEW n \in Nat, NEW round
  PROVE  \E f : RoundsBy(f, n, round)
<1> DEFINE Next1(r, i) == (r \o round)
           base == <<>>
           Eq(f, m) == f = [i \in 0 .. m |-> IF i = 0 THEN base ELSE Next1(f[i - 1], i)]
           S == {m \in Nat : \E f : Eq(f, m)}
<1>0. \A f : Eq(f, n) => RoundsBy(f, n, round)
  BY DEF RoundsBy
<1> HIDE DEF base, Next1
<1>1. 0 \in S
  <2> DEFINE f == [i \in 0 .. 0 |-> base]
  <2>1. Eq(f, 0)
    <3>1. \A i \in 0 .. 0 : i = 0
      OBVIOUS
    <3> QED
      BY <3>1
  <2> HIDE DEF f, Eq
  <2> QED
    BY <2>1
<1>2. ASSUME NEW m \in Nat, m \in S
      PROVE  m + 1 \in S
  <2>1. PICK f : Eq(f, m)
    BY <1>2
  <2> DEFINE g == [i \in 0 .. m + 1 |-> IF i = m + 1 THEN Next1(f[m], m + 1) ELSE f[i]]
  <2>2. \A i \in 0 .. m : f[i] = IF i = 0 THEN base ELSE Next1(f[i - 1], i)
    BY <2>1
  <2>3. \A i \in 0 .. m + 1 : g[i] = IF i = 0 THEN base ELSE Next1(g[i - 1], i)
    <3> SUFFICES ASSUME NEW i \in 0 .. m + 1
                 PROVE  g[i] = IF i = 0 THEN base ELSE Next1(g[i - 1], i)
      OBVIOUS
    <3>1. CASE i = m + 1
      <4>1. g[i - 1] = f[m] /\ i # 0
        BY <3>1
      <4> QED
        BY <3>1, <4>1
    <3>2. CASE i # m + 1
      <4>1. i \in 0 .. m /\ (i # 0 => i - 1 \in 0 .. m /\ i - 1 # m + 1)
        BY <3>2
      <4>2. i # 0 => g[i - 1] = f[i - 1]
        BY <4>1
      <4> QED
        BY <2>2, <3>2, <4>1, <4>2
    <3> QED
      BY <3>1, <3>2
  <2>4. Eq(g, m + 1)
    BY <2>3
  <2> HIDE DEF g, Eq
  <2> QED
    BY <2>4
<1>3. n \in S
  BY <1>1, <1>2, Counting
<1>4. PICK f : Eq(f, n)
  BY <1>3
<1> HIDE DEF Eq
<1> QED
  BY <1>0, <1>4

LEMMA RoundsBySteps ==
  ASSUME NEW n \in Nat, NEW round, NEW f, RoundsBy(f, n, round)
  PROVE  f[0] = <<>> /\ \A i \in 1 .. n : f[i] = (f[i - 1] \o round)
<1> DEFINE body(i) == IF i = 0 THEN <<>> ELSE (f[i - 1] \o round)
<1>1. f = [i \in 0 .. n |-> body(i)]
  BY DEF RoundsBy
<1> HIDE DEF body
<1>2. \A i \in 0 .. n : f[i] = body(i)
  BY <1>1
<1>3. 0 \in 0 .. n /\ \A i \in 1 .. n : i \in 0 .. n /\ i # 0
  OBVIOUS
<1>4. body(0) = <<>>
  BY DEF body
<1>5. \A i \in 1 .. n : body(i) = (f[i - 1] \o round)
  BY <1>3 DEF body
<1> QED
  BY <1>2, <1>3, <1>4, <1>5

LEMMA RoundsQueue ==
  ASSUME NEW round, NEW n \in Nat, NEW p, Queue(round, p)
  PROVE  Queue(Rounds(round, n), p)
<1>1. PICK f : RoundsBy(f, n, round) /\ Rounds(round, n) = f[n]
  <2> DEFINE g == CHOOSE f : RoundsBy(f, n, round)
  <2>1. RoundsBy(g, n, round)
    BY RoundsByExists
  <2>2. Rounds(round, n) = g[n]
    BY DEF Rounds, RoundsBy
  <2> HIDE DEF g
  <2> QED
    BY <2>1, <2>2
<1>2. f[0] = <<>> /\ \A i \in 1 .. n : f[i] = (f[i - 1] \o round)
  BY <1>1, RoundsBySteps
<1> DEFINE Good(i) == i =< n => Queue(f[i], p)
           N == {i \in Nat : Good(i)}
<1>3. 0 \in N
  BY <1>2, QueueEmpty
<1>4. ASSUME NEW i \in Nat, i \in N PROVE i + 1 \in N
  <2> SUFFICES ASSUME i + 1 =< n PROVE Queue(f[i + 1], p)
    OBVIOUS
  <2>1. i + 1 \in 1 .. n /\ (i + 1) - 1 = i
    OBVIOUS
  <2>2. f[i + 1] = f[i] \o round
    BY <1>2, <2>1
  <2>3. Queue(f[i], p)
    BY <1>4
  <2>4. Queue(f[i] \o round, p)
    BY <2>3, QueueJoined
  <2> QED
    BY <2>2, <2>4
<1> HIDE DEF Good
<1>5. Good(n)
  BY <1>3, <1>4, Counting
<1> QED
  BY <1>1, <1>5 DEF Good

-----------------------------------------------------------------------------
(* What lint_skill has passed.                                             *)

\* The rules on calls, shell ops, secrets and names, none of which reports.
Ruled ==
  /\ ~unknown_connector /\ ~unwired_primary_connector /\ ~disallowed_tool /\ ~unknown_tool_on_connector
  /\ ~shell_binary_not_allowed("api") /\ ~unsafe_shell_disabled /\ ~secret_undeclared /\ ~secret_use_only
  /\ ~undeclared_var
Confirmed == unconfirmed_mutation => "unconfirmed-mutation" \in warned
Linted == clean => Ruled /\ Confirmed

LEMMA WalkStays ==
  ASSUME UNCHANGED <<skill, env>>
  PROVE  /\ Targets' = Targets /\ AllWalked' = AllWalked /\ AllElse' = AllElse
         /\ \A t : Top(t)' = Top(t) /\ Walked(t)' = Walked(t)
BY DEF Targets, AllWalked, AllElse, Top, Walked, InElse

LEMMA RuledStays ==
  ASSUME UNCHANGED <<skill, env>>
  PROVE  Ruled' = Ruled /\ unconfirmed_mutation' = unconfirmed_mutation
<1>1. /\ Targets' = Targets /\ AllWalked' = AllWalked /\ AllElse' = AllElse
      /\ \A t : Top(t)' = Top(t) /\ Walked(t)' = Walked(t)
  BY WalkStays
<1>2. unconfirmed_mutation' = unconfirmed_mutation
  BY DEF unconfirmed_mutation, Unconfirmed, classifyMutation, authorizationGranted, Targets, Top
<1>3. unknown_connector' = unknown_connector /\ disallowed_tool' = disallowed_tool
  BY DEF unknown_connector, disallowed_tool, HasRegistry, Qualified, Connectors, Allowed, AllWalked, Targets, Walked
<1>4. unknown_tool_on_connector' = unknown_tool_on_connector
  BY DEF unknown_tool_on_connector, HasRegistry, Qualified, Connectors, Allowed, Static, AllWalked, Targets, Walked
<1>5. unwired_primary_connector' = unwired_primary_connector
  BY DEF unwired_primary_connector, HasRegistry, Unwired, Connectors, Targets, Walked
<1>6. shell_binary_not_allowed("api")' = shell_binary_not_allowed("api")
  BY DEF shell_binary_not_allowed, AllWalked, Targets, Walked
<1>7. unsafe_shell_disabled' = unsafe_shell_disabled
  BY DEF unsafe_shell_disabled, AllWalked, Targets, Walked
<1>8. secret_undeclared' = secret_undeclared /\ secret_use_only' = secret_use_only
  BY DEF secret_undeclared, secret_use_only, AllWalked, AllElse, Targets, Walked, InElse
<1>9. undeclared_var' = undeclared_var
  BY DEF undeclared_var, Declared, Inputs, Bound, AllWalked, AllElse, Targets, Walked, InElse, Top
<1> QED
  BY <1>2, <1>3, <1>4, <1>5, <1>6, <1>7, <1>8, <1>9 DEF Ruled

LEMMA CleanIsRuled ==
  ASSUME Errors("api") = {}
  PROVE  Ruled
<1>1. unknown_connector => "unknown-connector" \in Errors("api")
  BY DEF Errors, Report
<1>2. unwired_primary_connector => "unwired-primary-connector" \in Errors("api")
  BY DEF Errors, Report
<1>3. disallowed_tool => "disallowed-tool" \in Errors("api")
  BY DEF Errors, Report
<1>4. unknown_tool_on_connector => "unknown-tool-on-connector" \in Errors("api")
  BY DEF Errors, Report
<1>5. shell_binary_not_allowed("api") => "shell-binary-not-allowed" \in Errors("api")
  BY DEF Errors, Report
<1>6. unsafe_shell_disabled => "unsafe-shell-disabled" \in Errors("api")
  BY DEF Errors, Report
<1>7. secret_undeclared => "secret-undeclared" \in Errors("api")
  BY DEF Errors, Report
<1>8. secret_use_only => "secret-use-only" \in Errors("api")
  BY DEF Errors, Report
<1>9. undeclared_var => "undeclared-var" \in Errors("api")
  BY DEF Errors, Report
<1> QED
  BY <1>1, <1>2, <1>3, <1>4, <1>5, <1>6, <1>7, <1>8, <1>9 DEF Ruled

LEMMA WarnedIsConfirmed ==
  ASSUME unconfirmed_mutation
  PROVE  "unconfirmed-mutation" \in Warnings("api")
BY DEF Warnings, Report
-----------------------------------------------------------------------------
(* Why an op is refused.                                                   *)

LEMMA FirstIs ==
  ASSUME NEW checks, DOMAIN checks \subseteq Nat
  PROVE  \/ \E i \in DOMAIN checks : checks[i].on /\ FirstOf(checks) = checks[i].why
         \/ FirstOf(checks) = None /\ \A i \in DOMAIN checks : ~checks[i].on
<1>1. PICK on : on = {i \in DOMAIN checks : checks[i].on}
  OBVIOUS
<1>2. CASE on = {}
  BY <1>1, <1>2 DEF FirstOf
<1>3. CASE on # {}
  <2>1. on \in SUBSET Nat
    BY <1>1
  <2>2. \E i \in on : \A j \in on : i =< j
    BY <1>3, <2>1, Least
  <2>3. PICK i \in on : i = CHOOSE k \in on : \A j \in on : k =< j
    BY <2>2
  <2>4. FirstOf(checks) = checks[i].why
    BY <1>1, <1>3, <2>3 DEF FirstOf
  <2>5. i \in DOMAIN checks /\ checks[i].on
    BY <1>1, <2>3
  <2> QED
    BY <2>4, <2>5
<1> QED
  BY <1>2, <1>3

LEMMA TenLong ==
  ASSUME NEW a1, NEW a2, NEW a3, NEW a4, NEW a5, NEW a6, NEW a7, NEW a8, NEW a9, NEW a10
  PROVE  DOMAIN <<a1, a2, a3, a4, a5, a6, a7, a8, a9, a10>> = 1 .. 10
OBVIOUS

LEMMA ThrownIs ==
  ASSUME NEW op
  PROVE  \/ Thrown(op) = "mutation" /\ Unconfirmed(op)
         \/ Thrown(op) = "secret" /\ op.kind = "$" /\ ~(op.secrets \subseteq skill.secretRequires)
         \/ Thrown(op) = "unresolved" /\ Unresolved(Substituted(op)) # {}
         \/ Thrown(op) = "tool" /\ op.kind = "$" /\ op.con \in Connectors /\ ~validateQualifiedDispatch(op)
         \/ Thrown(op) \in {"missing skill", "uninitialized", "filter", "path", "encoding", "not appendable"}
         \/ Thrown(op) = None /\ Unresolved(Substituted(op)) = {}
<1>1. PICK mutation \in BOOLEAN : mutation = (Unconfirmed(op))
  BY DEF Unconfirmed
<1>2. PICK secret \in BOOLEAN : secret = (op.kind = "$" /\ ~(op.secrets \subseteq skill.secretRequires))
  OBVIOUS
<1>3. PICK unresolved \in BOOLEAN : unresolved = (Unresolved(Substituted(op)) # {})
  OBVIOUS
<1>4. PICK tool \in BOOLEAN : tool = (op.kind = "$" /\ op.con \in Connectors /\ ~validateQualifiedDispatch(op))
  OBVIOUS
<1>5. /\ \E x \in BOOLEAN : x = (op.kind = "inline")
      /\ \E x \in BOOLEAN : x = (op.kind = "$append" /\ op.set \notin DOMAIN vars)
      /\ \E x \in BOOLEAN : x = Unfilterable(Substituted(op))
      /\ \E x \in BOOLEAN : x = (op.kind \in {"file_read", "file_write"} /\ ~env.fs)
      /\ \E x \in BOOLEAN : x = (op.kind = "file_read" /\ "encoding" \in op.marks)
      /\ \E x \in BOOLEAN : x = (op.kind = "$append" /\ ValueOf(op.set, vars) \in {"obj", "null"})
  BY DEF Unfilterable
<1>12. PICK a \in BOOLEAN : a = (op.kind = "inline")
  BY <1>5
<1>13. PICK b \in BOOLEAN : b = (op.kind = "$append" /\ op.set \notin DOMAIN vars)
  BY <1>5
<1>14. PICK c \in BOOLEAN : c = Unfilterable(Substituted(op))
  BY <1>5
<1>15. PICK d \in BOOLEAN : d = (op.kind \in {"file_read", "file_write"} /\ ~env.fs)
  BY <1>5
<1>16. PICK e \in BOOLEAN : e = (op.kind = "file_read" /\ "encoding" \in op.marks)
  BY <1>5
<1>17. PICK g \in BOOLEAN : g = (op.kind = "$append" /\ ValueOf(op.set, vars) \in {"obj", "null"})
  BY <1>5
<1>6. PICK checks : checks = << [why |-> "mutation", on |-> mutation], [why |-> "secret", on |-> secret],
                                [why |-> "missing skill", on |-> a], [why |-> "uninitialized", on |-> b],
                                [why |-> "unresolved", on |-> unresolved], [why |-> "filter", on |-> c],
                                [why |-> "tool", on |-> tool], [why |-> "path", on |-> d],
                                [why |-> "encoding", on |-> e], [why |-> "not appendable", on |-> g] >>
  OBVIOUS
<1>18. DOMAIN checks = 1 .. 10
  BY <1>6, TenLong
<1>7. DOMAIN checks = 1 .. 10 /\ DOMAIN checks \subseteq Nat
  BY <1>18
<1>8. /\ checks[1].why = "mutation" /\ checks[1].on = mutation /\ checks[2].why = "secret" /\ checks[2].on = secret
      /\ checks[5].why = "unresolved" /\ checks[5].on = unresolved /\ checks[7].why = "tool" /\ checks[7].on = tool
      /\ checks[3].why = "missing skill" /\ checks[4].why = "uninitialized" /\ checks[6].why = "filter"
      /\ checks[8].why = "path" /\ checks[9].why = "encoding" /\ checks[10].why = "not appendable"
  BY <1>6
<1>9. Thrown(op) = FirstOf(checks)
  BY <1>1, <1>2, <1>3, <1>4, <1>6, <1>12, <1>13, <1>14, <1>15, <1>16, <1>17 DEF Thrown
<1>10. CASE \E i \in DOMAIN checks : checks[i].on /\ FirstOf(checks) = checks[i].why
  <2>1. PICK i \in 1 .. 10 : checks[i].on /\ Thrown(op) = checks[i].why
    BY <1>7, <1>9, <1>10
  <2>2. i = 1 \/ i = 2 \/ i = 3 \/ i = 4 \/ i = 5 \/ i = 6 \/ i = 7 \/ i = 8 \/ i = 9 \/ i = 10
    OBVIOUS
  <2>3. CASE i = 1
    BY <1>1, <1>8, <2>1, <2>3
  <2>4. CASE i = 2
    BY <1>2, <1>8, <2>1, <2>4
  <2>5. CASE i = 3
    BY <1>8, <2>1, <2>5
  <2>6. CASE i = 4
    BY <1>8, <2>1, <2>6
  <2>7. CASE i = 5
    BY <1>3, <1>8, <2>1, <2>7
  <2>8. CASE i = 6
    BY <1>8, <2>1, <2>8
  <2>9. CASE i = 7
    BY <1>4, <1>8, <2>1, <2>9
  <2>10. CASE i = 8
    BY <1>8, <2>1, <2>10
  <2>11. CASE i = 9
    BY <1>8, <2>1, <2>11
  <2>12. CASE i = 10
    BY <1>8, <2>1, <2>12
  <2> QED
    BY <2>2, <2>3, <2>4, <2>5, <2>6, <2>7, <2>8, <2>9, <2>10, <2>11, <2>12
<1>11. CASE FirstOf(checks) = None /\ \A i \in DOMAIN checks : ~checks[i].on
  <2>1. 5 \in DOMAIN checks
    BY <1>7
  <2>2. ~checks[5].on
    BY <1>11, <2>1
  <2>3. ~unresolved
    BY <1>8, <2>2
  <2> QED
    BY <1>3, <1>9, <1>11, <2>3
<1> QED
  BY <1>7, <1>10, <1>11, FirstIs

LEMMA CaughtIs ==
  ASSUME NEW op
  PROVE  \/ Caught(op) = "secret" /\ op.kind = "shell" /\ ~(op.secrets \subseteq skill.secretRequires)
         \/ Caught(op) = "unsafe" /\ op.kind = "shell" /\ op.unsafe /\ env.unsafeShell # "on"
         \/ Caught(op) = "binary" /\ op.kind = "shell" /\ ~isBinaryAllowed(op)
         \/ Caught(op) = "connector" /\ op.kind = "$" /\ ~Intrinsic(op) /\ Connector(op) \notin Connectors
         \/ Caught(op) = None
<1>1. PICK secret \in BOOLEAN : secret = (op.kind = "shell" /\ ~(op.secrets \subseteq skill.secretRequires))
  OBVIOUS
<1>2. PICK unsafe : unsafe = (op.kind = "shell" /\ op.unsafe /\ env.unsafeShell # "on")
  OBVIOUS
<1>3. PICK binary \in BOOLEAN : binary = (op.kind = "shell" /\ ~isBinaryAllowed(op))
  OBVIOUS
<1>4. PICK connector \in BOOLEAN : connector = (op.kind = "$" /\ ~Intrinsic(op) /\ Connector(op) \notin Connectors)
  OBVIOUS
<1>5. PICK checks : checks = << [why |-> "secret", on |-> secret], [why |-> "unsafe", on |-> unsafe],
                                [why |-> "binary", on |-> binary], [why |-> "connector", on |-> connector] >>
  OBVIOUS
<1>6. Caught(op) = FirstOf(checks)
  BY <1>1, <1>2, <1>3, <1>4, <1>5 DEF Caught
<1>7. DOMAIN checks = 1 .. 4 /\ DOMAIN checks \subseteq Nat
  BY <1>5
<1>8. /\ checks[1].why = "secret" /\ checks[1].on = secret /\ checks[2].why = "unsafe" /\ checks[2].on = unsafe
      /\ checks[3].why = "binary" /\ checks[3].on = binary /\ checks[4].why = "connector" /\ checks[4].on = connector
  BY <1>5
<1>9. CASE \E i \in DOMAIN checks : checks[i].on /\ FirstOf(checks) = checks[i].why
  <2>1. PICK i \in 1 .. 4 : checks[i].on /\ Caught(op) = checks[i].why
    BY <1>6, <1>7, <1>9
  <2>2. i = 1 \/ i = 2 \/ i = 3 \/ i = 4
    OBVIOUS
  <2> QED
    BY <1>1, <1>2, <1>3, <1>4, <1>8, <2>1, <2>2
<1>10. CASE FirstOf(checks) = None
  BY <1>6, <1>10
<1> QED
  BY <1>7, <1>9, <1>10, FirstIs
-----------------------------------------------------------------------------
(* What a refusal says of lint.                                            *)

Checked(x) ==
  /\ x.why # "secret"
  /\ x.why \in {"connector", "tool", "unsafe"} => x.part = "else"
  /\ x.why = "binary" => x.part = "else" \/ env.shellAllowlist = None \/ Binary(x.op) = None
  /\ x.why = "mutation" /\ ~x.deep /\ x.part = "ops" => "unconfirmed-mutation" \in warned
Explained(x) ==
  x.why = "unresolved" =>
    /\ x.names \cap Given = {} \/ \E r \in x.op.refs : r.field # None
    /\ /\ clean /\ x.part = "ops" /\ x.op \in UNION {Top(t) : t \in Targets}
       /\ ~(x.op.kind = "shell" /\ x.op.unsafe) /\ \A r \in x.op.refs : r.field = None
       => x.names \cap {r.var : r \in {q \in x.op.refs : q.filter # "fallback"}} \subseteq Bound \cup {"ERROR_CONTEXT"}
Refusal(why, names) == [op |-> Op, why |-> why, names |-> names, part |-> part, deep |-> Deep]
Sound(why, names) == (clean => Checked(Refusal(why, names))) /\ Explained(Refusal(why, names))

\* Whoever has a value to begin with has one, and keeps it.
GivenValues == \A v \in Given : v \in DOMAIN vars /\ vars[v] # Absent

\* An op is about to be carried out.
Ready ==
  /\ RunInv /\ phase = "running" /\ todo # <<>> /\ part \in {"ops", "else"} /\ Queue(todo, part)
  /\ GivenValues /\ Linted /\ skill.errors = {}

LEMMA NamesExplained ==
  ASSUME clean => Ruled, NEW x, (\A r \in x.op.refs : r.field = None) => x.names \cap Given = {}
  PROVE  Explained(x)
<1> SUFFICES ASSUME Ruled, x.op \in UNION {Top(t) : t \in Targets}, ~(x.op.kind = "shell" /\ x.op.unsafe),
                    \A r \in x.op.refs : r.field = None, NEW q \in x.op.refs, q.filter # "fallback", q.var \in x.names
             PROVE  q.var \in Bound \cup {"ERROR_CONTEXT"}
  BY DEF Explained
<1>1. PICK t \in Targets : x.op \in Top(t)
  OBVIOUS
<1>2. q.var \in AMBIENT_VARS \cup Declared
  BY <1>1 DEF Ruled, undeclared_var
<1>3. q.var \notin Inputs /\ q.var \notin DOMAIN Ambient
  BY DEF Given
<1>4. DOMAIN Ambient = {"NOW", "USER", "TRIGGER_TYPE", "SESSION_CONTEXT", "TRIGGER_PAYLOAD"}
  BY DEF Ambient
<1> QED
  BY <1>2, <1>3, <1>4 DEF AMBIENT_VARS, Declared

LEMMA UnresolvedNames ==
  ASSUME GivenValues, NEW refs, \A r \in refs : r.field = None
  PROVE  Unresolved(refs) \cap Given = {}
<1> SUFFICES ASSUME NEW v \in Unresolved(refs), v \in Given PROVE FALSE
  OBVIOUS
<1>1. PICK r \in refs : v = r.var /\ resolveRef(r) = Absent
  BY DEF Unresolved
<1>2. resolveRef(r) = ValueOf(v, vars)
  BY <1>1 DEF resolveRef
<1> QED
  BY <1>1, <1>2 DEF GivenValues, ValueOf

LEMMA OpEntry ==
  ASSUME Ready
  PROVE  Entry(Head(todo), part) /\ Queue(Tail(todo), part) /\ OneCase /\ Wired(env) /\ AllParsed
<1>1. OneCase
  BY DEF Ready, RunInv
<1> QED
  BY <1>1, QueueTail, ParsedCase DEF Ready

\* An op of the text, wherever it stands.
LEMMA OpTwin ==
  ASSUME Ready, Op.kind \notin {"item", "end", "emit", "$set"}
  PROVE  /\ \E t \in Targets : \E k \in walkOps(Source(t, part)) : WellFormed(k) /\ SameBut(Op, k)
         /\ ~Deep => \E t \in Targets : \E k \in Own(Source(t, part)) : WellFormed(k) /\ SameBut(Op, k)
<1>1. PICK t \in Targets : OfTarget(Head(todo), t, part)
  BY OpEntry DEF Entry, Op
<1>2. OneCase
  BY OpEntry
<1>3. ~Content1(Op)
  BY DEF Content1
<1>4. \E k \in walkOps(Source(t, part)) : WellFormed(k) /\ SameBut(Op, k)
  BY <1>1, <1>2, <1>3, OpOfTarget DEF Op
<1>5. ~Deep => Kin(Op, Own(Source(t, part)))
  BY <1>1 DEF OfTarget, Op, Deep
<1>6. \A k \in Own(Source(t, part)) : WellFormed(k)
  BY <1>2, SourceOps, WalkedIsHereditary
<1>7. ~Deep => \E k \in Own(Source(t, part)) : WellFormed(k) /\ SameBut(Op, k)
  BY <1>3, <1>5, <1>6 DEF Kin
<1> QED
  BY <1>4, <1>7

LEMMA TwinWalked ==
  ASSUME Ready, Op.kind \notin {"item", "end", "emit", "$set"}
  PROVE  /\ part = "ops" => \E t \in Targets : \E k \in Walked(t) : k \in AllWalked /\ WellFormed(k) /\ SameBut(Op, k)
         /\ part = "else" => \E k \in AllElse : WellFormed(k) /\ SameBut(Op, k)
<1>1. PICK t \in Targets : \E k \in walkOps(Source(t, part)) : WellFormed(k) /\ SameBut(Op, k)
  BY OpTwin
<1>2. part = "ops" => walkOps(Source(t, part)) = Walked(t) /\ Walked(t) \subseteq AllWalked
  BY DEF Source, Walked, AllWalked
<1>3. part = "else" => walkOps(Source(t, part)) = InElse(t) /\ InElse(t) \subseteq AllElse
  BY DEF Source, InElse, AllElse
<1> QED
  BY <1>1, <1>2, <1>3

\* No op asks for a secret that the skill has not declared.
LEMMA SecretsDeclared ==
  ASSUME Ready, clean, Op.kind \in {"$", "shell"}
  PROVE  Op.secrets \subseteq skill.secretRequires
<1>1. Ruled
  BY DEF Ready, Linted
<1>2. CASE part = "ops"
  <2>1. PICK k \in AllWalked : WellFormed(k) /\ SameBut(Op, k)
    BY <1>2, TwinWalked
  <2>2. Op.secrets = k.secrets
    BY <2>1, TwinOf
  <2>3. k.secrets \subseteq skill.secretRequires
    BY <1>1, <2>1 DEF Ruled, secret_undeclared
  <2> QED
    BY <2>2, <2>3
<1>3. CASE part = "else"
  <2>1. PICK k \in AllElse : WellFormed(k) /\ SameBut(Op, k)
    BY <1>3, TwinWalked
  <2>2. Op.secrets = k.secrets
    BY <2>1, TwinOf
  <2>3. k.secrets = {}
    BY <1>1, <2>1 DEF Ruled, secret_use_only
  <2> QED
    BY <2>2, <2>3
<1> QED
  BY <1>2, <1>3 DEF Ready

\* A call with a connector's name goes to one that offers the tool.
LEMMA ToolOffered ==
  ASSUME Ready, clean, part = "ops", Op.kind = "$", Op.con \in Connectors
  PROVE  validateQualifiedDispatch(Op)
<1>1. PICK k \in AllWalked : WellFormed(k) /\ SameBut(Op, k)
  BY TwinWalked
<1>2. Op.kind = k.kind /\ Op.con = k.con /\ Op.tool = k.tool
  BY <1>1, TwinOf
<1>3. env.registry = TRUE /\ None \notin Connectors
  BY OpEntry DEF Wired, Connectors
<1>4. k \in Qualified
  BY <1>1, <1>2, <1>3 DEF Qualified, Calls
<1>5. Allowed(k.con, k.tool)
  BY <1>2, <1>3, <1>4 DEF Ready, Linted, Ruled, disallowed_tool, HasRegistry
<1>6. Static(k.con) = {None} \/ k.tool \in Static(k.con)
  BY <1>2, <1>3, <1>4, <1>5 DEF Ready, Linted, Ruled, unknown_tool_on_connector, HasRegistry
<1> QED
  BY <1>2, <1>5, <1>6 DEF validateQualifiedDispatch, Allowed, Static

\* A call finds its connector, or has a fallback.
LEMMA ConnectorKnown ==
  ASSUME Ready, clean, part = "ops", Op.kind = "$", ~Intrinsic(Op), ~Op.fallback
  PROVE  Connector(Op) \in Connectors
<1>1. PICK t \in Targets : \E k \in Walked(t) : k \in AllWalked /\ WellFormed(k) /\ SameBut(Op, k)
  BY TwinWalked
<1>2. PICK k \in Walked(t) : k \in AllWalked /\ WellFormed(k) /\ SameBut(Op, k)
  BY <1>1
<1>3. Op.kind = k.kind /\ Op.con = k.con /\ Op.tool = k.tool /\ Op.fallback = k.fallback
  BY <1>2, TwinOf
<1>4. env.registry = TRUE
  BY OpEntry DEF Wired
<1>5. Ruled
  BY DEF Ready, Linted
<1>6. CASE Op.con = None
  <2>1. k.tool \notin BARE_FORM_INTRINSICS
    BY <1>3, <1>6 DEF Intrinsic
  <2>2. k.tool \notin Connectors => k \in Unwired(t)
    BY <1>2, <1>3, <1>6, <2>1 DEF Unwired, Calls
  <2>3. k.tool \in Connectors
    BY <1>3, <1>4, <1>5, <2>2 DEF Ruled, unwired_primary_connector, HasRegistry
  <2> QED
    BY <1>3, <1>6, <2>3 DEF Connector
<1>7. CASE Op.con # None
  <2>1. k \in Qualified
    BY <1>2, <1>3, <1>7 DEF Qualified, Calls
  <2>2. k.con \in Connectors
    BY <1>4, <1>5, <2>1 DEF Ruled, unknown_connector, HasRegistry
  <2> QED
    BY <1>3, <1>7, <2>2 DEF Connector
<1> QED
  BY <1>6, <1>7

\* A shell op is one the host runs, if it lists binaries and the op names one.
LEMMA ShellAllowed ==
  ASSUME Ready, clean, part = "ops", Op.kind = "shell"
  PROVE  /\ isBinaryAllowed(Op) \/ env.shellAllowlist = None \/ Binary(Op) = None
         /\ Op.unsafe => env.unsafeShell = "on"
<1>1. PICK k \in AllWalked : WellFormed(k) /\ SameBut(Op, k)
  BY TwinWalked
<1>2. Op.kind = k.kind /\ Op.unsafe = k.unsafe /\ Op.tool = k.tool
  BY <1>1, TwinOf
<1>3. Ruled
  BY DEF Ready, Linted
<1>4. k \in Shells(AllWalked)
  BY <1>1, <1>2 DEF Shells
<1>5. env.shellAllowlist = None \/ Binary(k) \in env.shellAllowlist \cup {None}
  BY <1>3, <1>4 DEF Ruled, shell_binary_not_allowed
<1>6. Binary(Op) = Binary(k)
  BY <1>2 DEF Binary, firstShellToken
<1>7. k.unsafe => env.unsafeShell # "off"
  BY <1>3, <1>4 DEF Ruled, unsafe_shell_disabled, Unsafe
<1>8. env.unsafeShell \in {"on", "off"}
  BY OpEntry DEF Wired
<1> QED
  BY <1>2, <1>5, <1>6, <1>7, <1>8 DEF isBinaryAllowed

\* Of a mutation at the top of a target lint has warned.
LEMMA MutationWarned ==
  ASSUME Ready, clean, part = "ops", ~Deep, Unconfirmed(Op)
  PROVE  "unconfirmed-mutation" \in warned
<1>1. Op.kind \in {"file_write", "$"}
  BY DEF Unconfirmed, classifyMutation
<1>2. PICK t \in Targets : \E k \in Own(Source(t, part)) : WellFormed(k) /\ SameBut(Op, k)
  BY <1>1, OpTwin
<1>3. PICK k \in Own(Source(t, part)) : WellFormed(k) /\ SameBut(Op, k)
  BY <1>2
<1>4. k \in Top(t)
  BY <1>3 DEF Source, Top
<1>5. Op.kind = k.kind /\ Op.tool = k.tool /\ Op.approved = k.approved
  BY <1>3, TwinOf
<1>6. Unconfirmed(k)
  BY <1>5 DEF Unconfirmed, classifyMutation, authorizationGranted
<1> QED
  BY <1>4, <1>6 DEF Ready, Linted, Confirmed, unconfirmed_mutation

LEMMA RefusalIs ==
  ASSUME NEW why, NEW names
  PROVE  /\ Refusal(why, names).op = Op /\ Refusal(why, names).why = why /\ Refusal(why, names).names = names
         /\ Refusal(why, names).part = part /\ Refusal(why, names).deep = Deep
BY DEF Refusal

LEMMA OtherSound ==
  ASSUME NEW names, NEW why, why \notin {"secret", "connector", "tool", "binary", "unsafe", "mutation", "unresolved"}
  PROVE  Sound(why, names)
BY RefusalIs DEF Sound, Checked, Explained

LEMMA ThrownSound ==
  ASSUME Ready, Thrown(Op) # None
  PROVE  Sound(Thrown(Op), Unresolved(Substituted(Op)))
<1>1. PICK names : names = Unresolved(Substituted(Op))
  OBVIOUS
<1>2. CASE Thrown(Op) = "mutation" /\ Unconfirmed(Op)
  BY <1>2, MutationWarned, RefusalIs DEF Sound, Checked, Explained
<1>3. CASE Thrown(Op) = "secret" /\ Op.kind = "$" /\ ~(Op.secrets \subseteq skill.secretRequires)
  <2>1. ~clean
    BY <1>3, SecretsDeclared
  <2> QED
    BY <1>3, <2>1, RefusalIs DEF Sound, Explained
<1>4. CASE Thrown(Op) = "unresolved"
  <2>1. Substituted(Op) \subseteq Op.refs
    BY DEF Substituted
  <2>2. (\A r \in Op.refs : r.field = None) => names \cap Given = {}
    BY <1>1, <2>1, UnresolvedNames DEF Ready
  <2>3. clean => Ruled
    BY DEF Ready, Linted
  <2>4. Explained(Refusal("unresolved", names))
    BY <2>2, <2>3, RefusalIs, NamesExplained
  <2> QED
    BY <1>1, <1>4, <2>4, RefusalIs DEF Sound, Checked
<1>5. CASE Thrown(Op) = "tool" /\ Op.kind = "$" /\ Op.con \in Connectors /\ ~validateQualifiedDispatch(Op)
  <2>1. clean => part = "else"
    BY <1>5, ToolOffered DEF Ready
  <2> QED
    BY <1>5, <2>1, RefusalIs DEF Sound, Checked, Explained
<1>6. CASE Thrown(Op) \in {"missing skill", "uninitialized", "filter", "path", "encoding", "not appendable"}
  BY <1>6, OtherSound
<1> QED
  BY <1>2, <1>3, <1>4, <1>5, <1>6, ThrownIs

LEMMA CaughtSound ==
  ASSUME Ready, Caught(Op) # None, ~Op.fallback
  PROVE  Sound(Caught(Op), {})
<1>1. CASE Caught(Op) = "secret" /\ Op.kind = "shell" /\ ~(Op.secrets \subseteq skill.secretRequires)
  <2>1. ~clean
    BY <1>1, SecretsDeclared
  <2> QED
    BY <1>1, <2>1, RefusalIs DEF Sound, Explained
<1>2. CASE Caught(Op) = "unsafe" /\ Op.kind = "shell" /\ Op.unsafe /\ env.unsafeShell # "on"
  <2>1. clean => part = "else"
    BY <1>2, ShellAllowed DEF Ready
  <2> QED
    BY <1>2, <2>1, RefusalIs DEF Sound, Checked, Explained
<1>3. CASE Caught(Op) = "binary" /\ Op.kind = "shell" /\ ~isBinaryAllowed(Op)
  <2>1. clean => part = "else" \/ env.shellAllowlist = None \/ Binary(Op) = None
    BY <1>3, ShellAllowed DEF Ready
  <2> QED
    BY <1>3, <2>1, RefusalIs DEF Sound, Checked, Explained
<1>4. CASE Caught(Op) = "connector" /\ Op.kind = "$" /\ ~Intrinsic(Op) /\ Connector(Op) \notin Connectors
  <2>1. clean => part = "else"
    BY <1>4, ConnectorKnown DEF Ready
  <2> QED
    BY <1>4, <2>1, RefusalIs DEF Sound, Checked, Explained
<1> QED
  BY <1>1, <1>2, <1>3, <1>4, CaughtIs

\* Of a binary that is a reference lint has said nothing.
LEMMA ReferenceSound ==
  ASSUME Binary(Op) = None
  PROVE  Sound("binary", {})
BY RefusalIs DEF Sound, Checked, Explained

-----------------------------------------------------------------------------
(* What a step does with the values and with what is left to do.           *)

Fallen(why, names) == Sound(why, names) /\ Throw(why, names)
Bound1(value) == value # Absent /\ \E name : Bind(name, value)
Went == (\E why, names : Fallen(why, names)) \/ (\E value : Bound1(value))

LEMMA FailWent ==
  ASSUME Ready, NEW why, Fail(why),
         \/ why = "failed"
         \/ why = Caught(Op) /\ why # None
         \/ why = "binary" /\ Binary(Op) = None
  PROVE  Went
<1>1. CASE Op.fallback
  <2>1. Bind(Op.bind, "text")
    BY <1>1 DEF Fail
  <2>2. Bound1("text")
    BY <2>1 DEF Bound1, Absent
  <2> QED
    BY <2>2 DEF Went
<1>2. CASE ~Op.fallback
  <2>1. Throw(why, {})
    BY <1>2 DEF Fail
  <2>2. Sound(why, {})
    BY <1>2, CaughtSound, OtherSound, ReferenceSound
  <2> QED
    BY <2>1, <2>2 DEF Went, Fallen
<1> QED
  BY <1>1, <1>2

LEMMA BindWent ==
  ASSUME NEW name, NEW value, value # Absent, Bind(name, value)
  PROVE  Went
BY DEF Went, Bound1

LEMMA ThrowWent ==
  ASSUME NEW why, NEW names, Throw(why, names),
         why \notin {"secret", "connector", "tool", "binary", "unsafe", "mutation", "unresolved"}
  PROVE  Went
BY OtherSound DEF Went, Fallen

\* What $set binds is a value.
LEMMA SetValueIs ==
  ASSUME Ready, Op.kind = "$set", Thrown(Op) = None
  PROVE  SetValue(Op) # Absent
<1>1. PICK t \in Targets : OfTarget(Head(todo), t, part)
  BY OpEntry DEF Entry, Op
<1>2. Content1(Op) \/ \E k \in walkOps(Source(t, part)) : WellFormed(k) /\ SameBut(Op, k)
  BY <1>1, OpEntry, OpOfTarget DEF Op
<1>3. Op.val # Absent /\ (Op.val = "ref" => Op.refs # {})
  <2>1. CASE Content1(Op)
    BY <2>1 DEF Content1
  <2>2. CASE \E k \in walkOps(Source(t, part)) : WellFormed(k) /\ SameBut(Op, k)
    <3>1. PICK k \in walkOps(Source(t, part)) : WellFormed(k) /\ SameBut(Op, k)
      BY <2>2
    <3>2. Op.kind = k.kind /\ Op.val = k.val /\ Op.refs = k.refs
      BY <3>1, TwinOf
    <3> QED
      BY <3>1, <3>2 DEF WellFormed
  <2> QED
    BY <1>2, <2>1, <2>2
<1>4. CASE Op.val = "ref"
  <2>1. PICK r \in Op.refs : r = CHOOSE q \in Op.refs : TRUE
    BY <1>3, <1>4
  <2>2. SetValue(Op) = substituted(r)
    BY <1>4, <2>1 DEF SetValue
  <2>3. Unresolved(Substituted(Op)) = {}
    BY ThrownIs, NoneAssumption
  <2>4. Substituted(Op) = Op.refs
    BY DEF Substituted
  <2>5. r.filter = "fallback" \/ resolveRef(r) # Absent
    BY <2>1, <2>3, <2>4 DEF Unresolved
  <2> QED
    BY <2>2, <2>5 DEF substituted, Missing, Absent
<1>5. CASE Op.val # "ref"
  <2>1. SetValue(Op) = Coerced(Op.val)
    BY <1>5 DEF SetValue
  <2> QED
    BY <1>3, <2>1 DEF Coerced, Absent
<1> QED
  BY <1>4, <1>5

LEMMA OpsWent ==
  ASSUME Ready, Ops
  PROVE  Went
<1>1. CASE Refuse
  BY <1>1, ThrownSound DEF Refuse, Went, Fallen
<1>2. CASE Set
  BY <1>2, SetValueIs, BindWent DEF Set, Cleared
<1>3. CASE Accumulate
  <2>1. PICK value \in {"list", "text"} : Bind(Op.set, value)
    BY <1>3 DEF Accumulate
  <2> QED
    BY <2>1, BindWent DEF Absent
<1>4. CASE Emit
  BY <1>4, BindWent DEF Emit, Absent
<1>5. CASE Call
  <2>1. CASE Caught(Op) # None /\ Fail(Caught(Op))
    BY <2>1, FailWent
  <2>2. CASE Fail("failed")
    BY <2>2, FailWent
  <2>3. CASE Throw("isError", {})
    BY <2>3, ThrowWent
  <2>4. CASE \E v \in IF Op.tool = "execute_skill" THEN {"obj"} ELSE env.answers :
               Bind(Op.bind, IF Op.fallback /\ ~Intrinsic(Op) /\ Missing(v) THEN "text" ELSE v)
    <3>1. PICK v : /\ v \in {"obj"} \cup env.answers
                   /\ Bind(Op.bind, IF Op.fallback /\ ~Intrinsic(Op) /\ Missing(v) THEN "text" ELSE v)
      BY <2>4
    <3>2. PICK value : value = (IF Op.fallback /\ ~Intrinsic(Op) /\ Missing(v) THEN "text" ELSE v)
      OBVIOUS
    <3>3. v # Absent
      BY <3>1, OpEntry DEF Wired, Absent
    <3>4. value # Absent
      BY <3>2, <3>3 DEF Absent
    <3>5. Bind(Op.bind, value)
      BY <3>1, <3>2
    <3> QED
      BY <3>4, <3>5, BindWent
  <2> QED
    BY <1>5, <2>1, <2>2, <2>3, <2>4 DEF Call
<1>6. CASE Shell
  <2>1. CASE Caught(Op) # None /\ Fail(Caught(Op))
    BY <2>1, FailWent
  <2>2. CASE Fail("failed")
    BY <2>2, FailWent
  <2>3. CASE \E v \in {"text", "empty"} : Bind(Op.bind, IF Op.fallback THEN "text" ELSE v)
    <3>1. PICK v \in {"text", "empty"} : Bind(Op.bind, IF Op.fallback THEN "text" ELSE v)
      BY <2>3
    <3>2. PICK value : value = (IF Op.fallback THEN "text" ELSE v)
      OBVIOUS
    <3>3. value # Absent /\ Bind(Op.bind, value)
      BY <3>1, <3>2 DEF Absent
    <3> QED
      BY <3>3, BindWent
  <2>4. CASE Binary(Op) = None /\ Fail("binary")
    BY <2>4, FailWent
  <2> QED
    BY <1>6, <2>1, <2>2, <2>3, <2>4 DEF Shell
<1>7. CASE FileRead
  <2>1. CASE Fail("failed")
    BY <2>1, FailWent
  <2>2. CASE \E v \in {"text", "empty"} : Bind(Op.bind, v)
    BY <2>2, BindWent DEF Absent
  <2> QED
    BY <1>7, <2>1, <2>2 DEF FileRead
<1>8. CASE FileWrite
  BY <1>8, ThrowWent, BindWent DEF FileWrite, Absent
<1>9. CASE Notify
  BY <1>9, BindWent DEF Notify, Absent
<1> QED
  BY <1>1, <1>2, <1>3, <1>4, <1>5, <1>6, <1>7, <1>8, <1>9 DEF Ops

\* The blocks of an op in the text are those of the parser.
LEMMA BlocksOfOp ==
  ASSUME Ready, Op.kind \in {"if", "foreach"}
  PROVE  /\ \A j \in DOMAIN Op.blocks : Queue(Items(Op.blocks[j].ops, TRUE), part)
         /\ DOMAIN Op.blocks \subseteq Nat /\ 0 \notin DOMAIN Op.blocks
         /\ Op.kind = "foreach" => DOMAIN Op.blocks = {1}
         /\ \A j \in DOMAIN Op.blocks : Op.blocks[j].cond = <<>> \/ Op.blocks[j].cond \in Seq(Token)
         /\ \A j \in DOMAIN Op.blocks : Accepted(Op.blocks[j].cond)
<1>1. PICK t \in Targets : OfTarget(Head(todo), t, part)
  BY OpEntry DEF Entry, Op
<1>2. PICK S : Op \in S /\ Family(S, walkOps(Source(t, part)))
  BY <1>1 DEF OfTarget, Op
<1>3. OneCase
  BY OpEntry
<1>4. ASSUME NEW j \in DOMAIN Op.blocks PROVE Queue(Items(Op.blocks[j].ops, TRUE), part)
  <2>1. Op.blocks[j].ops \in Seq(S)
    BY <1>2 DEF Family
  <2> QED
    BY <1>2, <1>3, <2>1, ItemsQueue
<1>5. PICK k \in walkOps(Source(t, part)) : WellFormed(k) /\ SameBut(Op, k)
  BY <1>1, <1>3, OpOfTarget DEF Op, Content1
<1>6. /\ Op.kind = k.kind /\ DOMAIN Op.blocks = DOMAIN k.blocks
      /\ \A j \in DOMAIN Op.blocks : Op.blocks[j].cond = k.blocks[j].cond
  BY <1>5, TwinOf
<1>7. DOMAIN k.blocks \subseteq Nat /\ 0 \notin DOMAIN k.blocks
  <2>1. k.blocks \in Seq(Own(k.blocks))
    BY <1>5 DEF WellFormed
  <2>2. DOMAIN k.blocks = 1 .. Len(k.blocks) /\ Len(k.blocks) \in Nat
    BY <2>1
  <2> QED
    BY <2>2
<1>8. Op.kind = "foreach" => DOMAIN Op.blocks = {1}
  BY <1>5, <1>6 DEF WellFormed
<1>9. ConditionsAccepted(skill)
  BY <1>3, CasesAssumption DEF OneCase, Ready
<1>10. k \in walkOps(skill.targets[t].ops) \cup walkOps(skill.targets[t].orelse)
  BY <1>5 DEF Source
<1>11. \A j \in DOMAIN k.blocks : Accepted(k.blocks[j].cond)
  BY <1>9, <1>10 DEF ConditionsAccepted, Targets
<1>12. \A j \in DOMAIN Op.blocks : Accepted(Op.blocks[j].cond)
  BY <1>6, <1>11
<1>13. \A j \in DOMAIN Op.blocks : Op.blocks[j].cond = <<>> \/ Op.blocks[j].cond \in Seq(Token)
  BY <1>12 DEF Accepted
<1> QED
  BY <1>4, <1>6, <1>7, <1>8, <1>12, <1>13

\* The branch taken is one of the op's, and what its condition reads as.
LEMMA OutcomeIs ==
  ASSUME Ready, Op.kind = "if"
  PROVE  \/ Outcome(Op).branch = 0 /\ Outcome(Op).reads = "false"
         \/ Outcome(Op).branch \in DOMAIN Op.blocks /\ Outcome(Op).branch # 0 /\ Outcome(Op).reads \in Reads
<1> DEFINE reading(j) == IF Op.blocks[j].cond = <<>> THEN "true" ELSE evalCondition(Op.blocks[j].cond, vars)
<1>1. PICK reads : reads = [j \in DOMAIN Op.blocks |-> reading(j)]
  OBVIOUS
<1>2. \A j \in DOMAIN Op.blocks : reading(j) \in Reads
  BY BlocksOfOp, ReadsOf DEF Reads
<1>3. Outcome(Op) = Reading(reads)
  BY <1>1 DEF Outcome
<1> HIDE DEF reading
<1>4. DOMAIN reads = DOMAIN Op.blocks /\ \A j \in DOMAIN reads : reads[j] \in Reads
  BY <1>1, <1>2
<1>5. PICK stops : stops = {j \in DOMAIN reads : reads[j] # "false"}
  OBVIOUS
<1>6. Outcome(Op) = FirstStop(reads, stops)
  BY <1>3, <1>5 DEF Reading
<1>7. CASE stops = {}
  BY <1>6, <1>7 DEF FirstStop
<1>8. CASE stops # {}
  <2>1. stops \in SUBSET Nat
    BY <1>4, <1>5, BlocksOfOp
  <2>2. \E i \in stops : \A k \in stops : i =< k
    BY <1>8, <2>1, Least
  <2>3. PICK j \in stops : j = CHOOSE i \in stops : \A k \in stops : i =< k
    BY <2>2
  <2>4. FirstStop(reads, stops) = [branch |-> j, reads |-> reads[j]]
    BY <1>8, <2>3 DEF FirstStop
  <2>5. Outcome(Op).branch = j /\ Outcome(Op).reads = reads[j]
    BY <1>6, <2>4
  <2>6. j \in DOMAIN reads
    BY <1>5, <2>3
  <2>7. j # 0
    BY <1>4, <2>6, BlocksOfOp
  <2> QED
    BY <1>4, <2>5, <2>6, <2>7
<1> QED
  BY <1>7, <1>8

\* A branch or a loop puts ops of the same target first.
Ahead(q) == Queue(q, part) /\ todo' = q /\ UNCHANGED <<phase, at, part, vars, refused>>

LEMMA BranchWent ==
  ASSUME Ready, Branch
  PROVE  Went \/ \E q : Ahead(q)
<1>1. Op.kind = "if" /\ Enter(Outcome(Op))
  BY DEF Branch, Cleared
<1>2. PICK o : o = Outcome(Op)
  OBVIOUS
<1>3. Enter(o)
  BY <1>1, <1>2
<1>4. CASE o.branch = 0
  <2>1. o.reads = "false"
    BY <1>1, <1>2, <1>4, OutcomeIs
  <2>2. Bind(None, "text")
    BY <1>3, <1>4, <2>1 DEF Enter
  <2> QED
    BY <2>2, BindWent DEF Absent
<1>5. CASE o.branch # 0 /\ o.reads = "true"
  <2>1. PICK q : q = Items(Op.blocks[o.branch].ops, TRUE) \o Tail(todo)
    OBVIOUS
  <2>2. todo' = q /\ UNCHANGED <<phase, at, part, vars, refused>>
    BY <1>3, <1>5, <2>1 DEF Enter
  <2>3. o.branch \in DOMAIN Op.blocks
    BY <1>1, <1>2, <1>5, OutcomeIs
  <2>4. Queue(Items(Op.blocks[o.branch].ops, TRUE), part)
    BY <1>1, <2>3, BlocksOfOp
  <2>5. Queue(q, part)
    BY <2>1, <2>4, OpEntry, QueueJoined
  <2> QED
    BY <2>2, <2>5 DEF Ahead
<1>6. CASE o.branch # 0 /\ o.reads # "true"
  <2>1. PICK names : names = IF o.reads = "unresolved" THEN AskedUnbound(Op) ELSE {}
    OBVIOUS
  <2>2. Throw(o.reads, names)
    BY <1>3, <1>6, <2>1 DEF Enter
  <2>3. o.reads \in Reads
    BY <1>1, <1>2, <1>6, OutcomeIs
  <2>4. CASE o.reads = "unresolved"
    <3>5. names = AskedUnbound(Op)
      BY <2>1, <2>4
    <3>6. AskedUnbound(Op) \cap DOMAIN vars = {}
      BY DEF AskedUnbound
    <3>7. Given \subseteq DOMAIN vars
      BY DEF Ready, GivenValues
    <3>1. names \cap Given = {}
      BY <3>5, <3>6, <3>7
    <3>2. clean => Ruled
      BY DEF Ready, Linted
    <3>3. Explained(Refusal("unresolved", names))
      BY <3>1, <3>2, RefusalIs, NamesExplained
    <3>4. Sound("unresolved", names)
      BY <3>3, RefusalIs DEF Sound, Checked
    <3> QED
      BY <2>2, <2>4, <3>4 DEF Went, Fallen
  <2>5. CASE o.reads # "unresolved"
    BY <2>2, <2>3, <2>5, ThrowWent DEF Reads
  <2> QED
    BY <2>4, <2>5
<1> QED
  BY <1>4, <1>5, <1>6

LEMMA LoopWent ==
  ASSUME Ready, Loop
  PROVE  \E q : Ahead(q)
<1>1. Op.kind = "foreach"
  BY DEF Loop, Cleared
<1>2. PICK item : item = [op |-> [Op EXCEPT !.kind = "item", !.refs = {}], deep |-> TRUE, keep |-> {}]
  OBVIOUS
<1>3. PICK last : last = [op |-> [Op EXCEPT !.kind = "end", !.refs = {}], deep |-> TRUE, keep |-> DOMAIN vars]
  OBVIOUS
<1>4. "kind" \in DOMAIN Op
  <2>1. PICK t \in Targets : \E k \in walkOps(Source(t, part)) : WellFormed(k) /\ SameBut(Op, k)
    BY <1>1, OpTwin
  <2>2. PICK k \in walkOps(Source(t, part)) : WellFormed(k) /\ SameBut(Op, k)
    BY <2>1
  <2>3. "kind" \in DOMAIN k
    BY <2>2 DEF WellFormed, NoOp
  <2> QED
    BY <2>2, <2>3 DEF SameBut
<1>5. item.op.kind = "item" /\ last.op.kind = "end" /\ last.keep = DOMAIN vars
  BY <1>2, <1>3, <1>4
<1>6. Entry(item, part) /\ Entry(last, part)
  BY <1>5 DEF Entry, Ready, GivenValues
<1>7. ASSUME NEW x, Entry(x, part) PROVE Queue(<<x>>, part)
  <2>1. PICK X : X = {x}
    OBVIOUS
  <2>2. <<x>> \in Seq(X) /\ \A y \in X : Entry(y, part)
    BY <1>7, <2>1
  <2> QED
    BY <2>2 DEF Queue
<1>8. Queue(Items(Op.blocks[1].ops, TRUE), part)
  BY <1>1, BlocksOfOp
<1>9. PICK round : round = <<item>> \o Items(Op.blocks[1].ops, TRUE)
  OBVIOUS
<1>10. Queue(round, part)
  BY <1>6, <1>7, <1>8, <1>9, QueueJoined
<1>11. PICK n \in resolveListExpr(Op) : /\ todo' = Rounds(round, n) \o <<last>> \o Tail(todo)
                                       /\ UNCHANGED <<phase, at, part, vars, refused>>
  BY <1>2, <1>3, <1>9 DEF Loop
<1>12. n \in Nat
  <2>1. 1 .. MaxItems \subseteq Nat
    BY ItemsAssumption
  <2> QED
    BY <2>1 DEF resolveListExpr
<1>13. Queue(Rounds(round, n), part)
  BY <1>10, <1>12, RoundsQueue
<1>14. Queue(<<last>>, part)
  BY <1>6, <1>7
<1>15. Queue(Rounds(round, n) \o <<last>>, part)
  BY <1>13, <1>14, QueueJoined
<1>16. Queue(Rounds(round, n) \o <<last>> \o Tail(todo), part)
  BY <1>15, OpEntry, QueueJoined
<1> QED
  BY <1>11, <1>16 DEF Ahead

-----------------------------------------------------------------------------
(* The whole of a run.                                                     *)

\* Before a run nothing is refused, and nothing is ahead.
Fresh == phase \in {"written", "compiled", "refused"} => at = 1 /\ part = "ops" /\ todo = <<>> /\ refused = {}
Following ==
  /\ part \in {"ops", "else"} /\ Queue(todo, part)
  /\ todo # <<>> => phase = "running" /\ at \in DOMAIN plan.order
Kept1 == phase \in {"compiled", "running", "ended"} => GivenValues /\ skill.errors = {}
Agreeing == (clean => \A x \in refused : Checked(x)) /\ \A x \in refused : Explained(x)
WholeInv == RunInv /\ Linted /\ Fresh /\ Following /\ Kept1 /\ Agreeing

\* The values a run starts with.
LEMMA CompiledValues ==
  ASSUME OneCase, Compile, phase' = "compiled"
  PROVE  skill.errors = {} /\ \A v \in Given : v \in DOMAIN vars' /\ vars'[v] # Absent
<1>1. compileFailure = None
  BY DEF Compile
<1>2. skill.errors = {} /\ MissingInputs = {}
  BY <1>1, NoneAssumption DEF compileFailure
<1>3. Inputs \subseteq Resolved
  BY <1>2 DEF MissingInputs
<1>4. Wired(env) /\ \A v \in DOMAIN skill.vars : skill.vars[v] # Absent
  BY ParsedCase
<1> DEFINE value(v) == IF v \in Resolved THEN Initial(v) ELSE Ambient[v]
<1>5. vars' = [v \in Resolved \cup DOMAIN Ambient |-> value(v)]
  BY <1>1 DEF Compile
<1>6. ASSUME NEW v \in Resolved PROVE Initial(v) # Absent
  <2>1. CASE v \in DOMAIN env.inputs
    BY <1>4, <2>1 DEF Initial, Wired
  <2>2. CASE v \notin DOMAIN env.inputs /\ v \in Required
    BY <2>2 DEF Initial, Absent
  <2>3. CASE v \notin DOMAIN env.inputs /\ v \notin Required
    <3>1. v \in DOMAIN skill.vars
      BY <2>3 DEF Resolved, Defaulted
    <3> QED
      BY <1>4, <2>3, <3>1 DEF Initial, Coerced, Absent
  <2> QED
    BY <2>1, <2>2, <2>3
<1>7. \A v \in DOMAIN Ambient : Ambient[v] # Absent
  BY DEF Ambient, Absent
<1>8. \A v \in Resolved \cup DOMAIN Ambient : value(v) # Absent
  BY <1>6, <1>7
<1> HIDE DEF value
<1>9. \A v \in Resolved \cup DOMAIN Ambient : v \in DOMAIN vars' /\ vars'[v] # Absent
  BY <1>5, <1>8
<1> QED
  BY <1>2, <1>3, <1>9 DEF Given

LEMMA GivenStays ==
  ASSUME UNCHANGED <<skill, env>>
  PROVE  Given' = Given
BY DEF Given, Inputs, Ambient

\* What is ahead stays so while a part of a target is gone through.
LEMMA QueueStays ==
  ASSUME UNCHANGED <<skill, env>>, NEW q, NEW p, Queue(q, p)
  PROVE  Queue(q, p)'
<1>1. PICK X : q \in Seq(X) /\ \A x \in X : Entry(x, p)
  BY DEF Queue
<1>2. ASSUME NEW x \in X PROVE Entry(x, p)'
  <2>1. Entry(x, p)
    BY <1>1
  <2>2. Given' = Given /\ Targets' = Targets
    BY GivenStays DEF Targets
  <2>3. ASSUME NEW t, OfTarget(x, t, p) PROVE OfTarget(x, t, p)'
    BY <2>3 DEF OfTarget, Source
  <2> QED
    BY <2>1, <2>2, <2>3 DEF Entry
<1> QED
  BY <1>1, <1>2 DEF Queue

LEMMA TodoStays ==
  ASSUME UNCHANGED <<skill, env>>, NEW q, NEW p, Queue(q, p), todo' = q, part' = p
  PROVE  Queue(todo, part)'
<1>1. Queue(q, p)'
  BY QueueStays
<1>2. Queue(q, p)' => Queue(todo, part)'
  BY DEF Queue
<1> QED
  BY <1>1, <1>2

LEMMA ExplainedStays ==
  ASSUME UNCHANGED <<skill, env, clean, warned>>, NEW x
  PROVE  Checked(x)' = Checked(x) /\ Explained(x)' = Explained(x)
<1>1. Given' = Given /\ Targets' = Targets /\ Bound' = Bound
  BY GivenStays DEF Targets, Bound, AllWalked, AllElse, Walked, InElse
<1>2. (UNION {Top(t) : t \in Targets})' = UNION {Top(t) : t \in Targets}
  BY DEF Targets, Top
<1> QED
  BY <1>1, <1>2 DEF Checked, Explained, Binary, firstShellToken

LEMMA LintedStays ==
  ASSUME UNCHANGED <<skill, env, clean, warned>>, Linted
  PROVE  Linted'
<1>1. Ruled' = Ruled /\ unconfirmed_mutation' = unconfirmed_mutation
  BY RuledStays
<1> QED
  BY <1>1 DEF Linted, Confirmed

\* An op thrown out of its target, and one carried out.
LEMMA FallenKeeps ==
  ASSUME Ready, Running, at \in DOMAIN plan.order, Agreeing, NEW why, NEW names, Fallen(why, names)
  PROVE  Following' /\ GivenValues' /\ Agreeing'
<1>1. UNCHANGED <<skill, env, clean, warned, plan, phase, vars>>
  BY DEF Running, Fallen, Throw
<1>2. PICK x : x = Refusal(why, names)
  OBVIOUS
<1>3. refused' = refused \cup {x}
  BY <1>2 DEF Fallen, Throw, Refusal
<1>4. (clean => Checked(x)) /\ Explained(x)
  BY <1>2 DEF Fallen, Sound
<1>5. Agreeing'
  <2>1. \A y \in refused' : (clean => Checked(y)) /\ Explained(y)
    BY <1>3, <1>4 DEF Agreeing
  <2>2. \A y : Checked(y)' = Checked(y) /\ Explained(y)' = Explained(y)
    BY <1>1, ExplainedStays
  <2> QED
    BY <1>1, <2>1, <2>2 DEF Agreeing
<1>6. GivenValues'
  BY <1>1, GivenStays DEF Ready, GivenValues
<1>7. ASSUME NEW i PROVE Queue(OpsOf(i), "ops") /\ (i \in DOMAIN plan.order => Queue(ElseOf(i), "else"))
  BY PlanQueue DEF Ready
<1>8. phase = "running"
  BY DEF Ready
<1>9. CASE NextTarget
  <2>1. PICK i : i = at + 1
    OBVIOUS
  <2>2. at' = i /\ part' = "ops" /\ todo' = OpsOf(i)
    BY <1>9, <2>1 DEF NextTarget
  <2>3. PICK q : q = OpsOf(i)
    OBVIOUS
  <2>4. Queue(q, "ops")
    BY <1>7, <2>3
  <2>5. q # <<>> => i \in DOMAIN plan.order
    BY <2>3 DEF OpsOf
  <2>6. todo' = q
    BY <2>2, <2>3
  <2>7. Queue(todo, part)'
    BY <1>1, <2>2, <2>4, <2>6, TodoStays
  <2> QED
    BY <1>1, <1>5, <1>6, <1>8, <2>2, <2>5, <2>6, <2>7 DEF Following
<1>10. CASE part' = "else" /\ todo' = ElseOf(at) /\ UNCHANGED at
  <2>1. PICK q : q = ElseOf(at)
    OBVIOUS
  <2>2. Queue(q, "else")
    BY <1>7, <2>1
  <2>3. todo' = q
    BY <1>10, <2>1
  <2>4. Queue(todo, part)'
    BY <1>1, <1>10, <2>2, <2>3, TodoStays
  <2> QED
    BY <1>1, <1>5, <1>6, <1>8, <1>10, <2>3, <2>4 DEF Following
<1>11. CASE todo' = <<>> /\ UNCHANGED part
  <2>1. PICK p : p = part
    OBVIOUS
  <2>2. Queue(<<>>, p)
    BY QueueEmpty
  <2>3. Queue(todo, part)'
    BY <1>1, <1>11, <2>1, <2>2, TodoStays
  <2> QED
    BY <1>1, <1>5, <1>6, <1>11, <2>3 DEF Following, Ready
<1> QED
  BY <1>9, <1>10, <1>11 DEF Fallen, Throw

LEMMA AheadKeeps ==
  ASSUME Ready, Running, at \in DOMAIN plan.order, Agreeing, NEW q, Queue(q, part),
         todo' = q, UNCHANGED <<phase, at, part, refused>>, GivenValues'
  PROVE  Following' /\ GivenValues' /\ Agreeing'
<1>1. UNCHANGED <<skill, env, clean, warned, plan>>
  BY DEF Running
<1>2. Agreeing'
  <2>1. \A y : Checked(y)' = Checked(y) /\ Explained(y)' = Explained(y)
    BY <1>1, ExplainedStays
  <2> QED
    BY <1>1, <2>1 DEF Agreeing
<1>3. PICK p : p = part
  OBVIOUS
<1>4. Queue(todo, part)'
  BY <1>1, <1>3, TodoStays
<1> QED
  BY <1>1, <1>2, <1>4 DEF Following, Ready

LEMMA BoundKeeps ==
  ASSUME Ready, Running, at \in DOMAIN plan.order, Agreeing, NEW value, Bound1(value)
  PROVE  Following' /\ GivenValues' /\ Agreeing'
<1>1. UNCHANGED <<skill, env>>
  BY DEF Running
<1>2. PICK name : Bind(name, value)
  BY DEF Bound1
<1>3. todo' = Tail(todo) /\ UNCHANGED <<phase, at, part, refused>>
  BY <1>2 DEF Bind
<1>4. \A v \in DOMAIN vars : v \in DOMAIN vars' /\ vars'[v] \in {value, vars[v]}
  BY <1>2 DEF Bind
<1>5. GivenValues'
  BY <1>1, <1>4, GivenStays DEF GivenValues, Ready, Bound1
<1>6. Queue(Tail(todo), part)
  BY OpEntry
<1> QED
  BY <1>3, <1>5, <1>6, AheadKeeps

LEMMA EndKeeps ==
  ASSUME Ready, Running, at \in DOMAIN plan.order, Agreeing, EndLoop
  PROVE  Following' /\ GivenValues' /\ Agreeing'
<1>1. UNCHANGED <<skill, env>>
  BY DEF Running
<1>2. todo' = Tail(todo) /\ UNCHANGED <<phase, at, part, refused>> /\ vars' = Kept(Head(todo).keep)
  BY DEF EndLoop
<1>3. Given \subseteq Head(todo).keep
  BY OpEntry DEF EndLoop, Cleared, Entry, Op
<1>4. PICK names : names = Head(todo).keep
  OBVIOUS
<1>5. vars' = [n \in names |-> vars[n]]
  BY <1>2, <1>4 DEF Kept
<1>6. \A v \in Given : v \in DOMAIN vars' /\ vars'[v] = vars[v]
  BY <1>3, <1>4, <1>5
<1>7. GivenValues'
  BY <1>1, <1>6, GivenStays DEF GivenValues, Ready
<1>8. Queue(Tail(todo), part)
  BY OpEntry
<1> QED
  BY <1>2, <1>7, <1>8, AheadKeeps

\* Whatever op a run carries out.
LEMMA OpKeeps ==
  ASSUME WholeInv, Ops \/ Blocks
  PROVE  WholeInv'
<1>1. AtOp
  BY DEF Ops, Blocks, Refuse, Set, Accumulate, Emit, Call, Shell, FileRead, FileWrite, Notify, Branch, Loop, Item,
         EndLoop, Cleared
<1>2. phase = "running" /\ todo # <<>> /\ Running
  BY <1>1 DEF AtOp, Running
<1>3. Ready /\ at \in DOMAIN plan.order /\ Agreeing
  BY <1>2 DEF WholeInv, Ready, Following, Kept1
<1>4. Went => Following' /\ GivenValues' /\ Agreeing'
  BY <1>2, <1>3, FallenKeeps, BoundKeeps DEF Went
<1>5. (\E q : Ahead(q)) => Following' /\ GivenValues' /\ Agreeing'
  <2> SUFFICES ASSUME NEW q, Ahead(q) PROVE Following' /\ GivenValues' /\ Agreeing'
    OBVIOUS
  <2>1. GivenValues'
    BY <1>2, <1>3, GivenStays DEF Ahead, Running, GivenValues, Ready
  <2> QED
    BY <1>2, <1>3, <2>1, AheadKeeps DEF Ahead
<1>6. Following' /\ GivenValues' /\ Agreeing'
  <2>1. CASE Ops
    BY <1>3, <1>4, <2>1, OpsWent
  <2>2. CASE Branch
    BY <1>3, <1>4, <1>5, <2>2, BranchWent
  <2>3. CASE Loop
    BY <1>3, <1>5, <2>3, LoopWent
  <2>4. CASE Item
    BY <1>4, <2>4, BindWent DEF Item, Absent
  <2>5. CASE EndLoop
    BY <1>2, <1>3, <2>5, EndKeeps
  <2> QED
    BY <2>1, <2>2, <2>3, <2>4, <2>5 DEF Blocks
<1>12. RunInv'
  BY RunInvKept DEF WholeInv, Next
<1>13. UNCHANGED <<skill, env, clean, warned, plan>>
  BY <1>2 DEF Running
<1>14. Linted'
  BY <1>13, LintedStays DEF WholeInv
<1>15. phase' = "running"
  <2>1. Went => phase' = phase
    BY DEF Went, Fallen, Bound1, Throw, Bind
  <2>2. (\E q : Ahead(q)) => phase' = phase
    BY DEF Ahead
  <2>3. CASE Ops
    BY <1>2, <1>3, <2>1, <2>3, OpsWent
  <2>4. CASE Branch
    BY <1>2, <1>3, <2>1, <2>2, <2>4, BranchWent
  <2>5. CASE Loop
    BY <1>2, <1>3, <2>2, <2>5, LoopWent
  <2>6. CASE Item
    BY <1>2, <2>6 DEF Item, Bind
  <2>7. CASE EndLoop
    BY <1>2, <2>7 DEF EndLoop
  <2> QED
    BY <2>3, <2>4, <2>5, <2>6, <2>7 DEF Blocks
<1>16. Fresh' /\ Kept1'
  BY <1>3, <1>6, <1>13, <1>15 DEF Fresh, Kept1, Ready
<1> QED
  BY <1>6, <1>12, <1>14, <1>16 DEF WholeInv

LEMMA LintKeeps ==
  ASSUME WholeInv, LintSkill
  PROVE  Linted' /\ Following' /\ Kept1' /\ Fresh' /\ Agreeing'
<1>1. UNCHANGED <<skill, env, phase, plan, at, part, todo, vars, refused>> /\ phase = "written"
  BY DEF LintSkill
<1>2. clean' => Ruled'
  BY <1>1, CleanIsRuled, RuledStays DEF LintSkill
<1>3. Confirmed'
  BY <1>1, WarnedIsConfirmed, RuledStays DEF LintSkill, Confirmed
<1>4. todo = <<>> /\ part = "ops" /\ refused = {} /\ at = 1
  BY <1>1 DEF WholeInv, Fresh
<1>5. Queue(todo, part)'
  BY <1>1, <1>4, QueueEmpty, TodoStays
<1> QED
  BY <1>1, <1>2, <1>3, <1>4, <1>5 DEF Linted, Following, Kept1, Fresh, Agreeing

LEMMA CompileKeeps ==
  ASSUME WholeInv, Compile
  PROVE  Linted' /\ Following' /\ Kept1' /\ Fresh' /\ Agreeing'
<1>1. UNCHANGED <<skill, env, clean, warned, at, part, todo, refused>> /\ phase = "written"
  BY DEF Compile
<1>2. phase' \in {"compiled", "refused"}
  BY DEF Compile
<1>3. todo = <<>> /\ part = "ops" /\ refused = {} /\ at = 1
  BY <1>1 DEF WholeInv, Fresh
<1>4. Queue(todo, part)'
  BY <1>1, <1>3, QueueEmpty, TodoStays
<1>5. Linted'
  BY <1>1, LintedStays DEF WholeInv
<1>6. CASE phase' = "compiled"
  <2>1. skill.errors = {} /\ \A v \in Given : v \in DOMAIN vars' /\ vars'[v] # Absent
    BY <1>6, CompiledValues DEF WholeInv, RunInv
  <2>2. GivenValues'
    BY <1>1, <2>1, GivenStays DEF GivenValues
  <2> QED
    BY <1>1, <1>2, <1>3, <1>4, <1>5, <2>1, <2>2 DEF Following, Kept1, Fresh, Agreeing
<1>7. CASE phase' = "refused"
  BY <1>1, <1>3, <1>4, <1>5, <1>7 DEF Following, Kept1, Fresh, Agreeing
<1> QED
  BY <1>2, <1>6, <1>7

LEMMA StartKeeps ==
  ASSUME WholeInv, Start
  PROVE  Linted' /\ Following' /\ Kept1' /\ Fresh' /\ Agreeing'
<1>1. UNCHANGED <<skill, env, clean, warned, plan, at, part, vars, refused>> /\ phase = "compiled" /\ phase' = "running"
  BY DEF Start
<1>2. part = "ops" /\ refused = {} /\ at = 1
  BY <1>1 DEF WholeInv, Fresh
<1>3. PICK q : q = OpsOf(1)
  OBVIOUS
<1>4. Queue(q, "ops") /\ (q # <<>> => 1 \in DOMAIN plan.order)
  BY <1>1, <1>3, PlanQueue DEF WholeInv, OpsOf
<1>5. todo' = q
  BY <1>3 DEF Start
<1>6. Queue(todo, part)'
  BY <1>1, <1>2, <1>4, <1>5, TodoStays
<1>7. GivenValues'
  BY <1>1, GivenStays DEF WholeInv, Kept1, GivenValues
<1>8. Linted'
  BY <1>1, LintedStays DEF WholeInv
<1> QED
  BY <1>1, <1>2, <1>4, <1>5, <1>6, <1>7, <1>8 DEF Following, Kept1, Fresh, Agreeing, WholeInv

\* The end of a target and of the run, and whatever leaves a run as it is.
LEMMA StillAgreeing ==
  ASSUME Agreeing, UNCHANGED <<skill, env, clean, warned, refused>>
  PROVE  Agreeing'
<1>1. \A y : Checked(y)' = Checked(y) /\ Explained(y)' = Explained(y)
  BY ExplainedStays
<1> QED
  BY <1>1 DEF Agreeing

LEMMA TargetKeeps ==
  ASSUME WholeInv, TargetDone
  PROVE  Linted' /\ Following' /\ Kept1' /\ Fresh' /\ Agreeing'
<1>1. UNCHANGED <<skill, env, clean, warned, plan, phase, vars, refused>> /\ phase = "running"
  BY DEF TargetDone, Running
<1>2. PICK i : i = at + 1
  OBVIOUS
<1>3. PICK q : q = OpsOf(i)
  OBVIOUS
<1>4. Queue(q, "ops") /\ (q # <<>> => i \in DOMAIN plan.order)
  BY <1>1, <1>3, PlanQueue DEF WholeInv, OpsOf
<1>5. todo' = q /\ at' = i /\ part' = "ops"
  BY <1>2, <1>3 DEF TargetDone, NextTarget
<1>6. Queue(todo, part)'
  BY <1>1, <1>4, <1>5, TodoStays
<1>7. GivenValues'
  BY <1>1, GivenStays DEF WholeInv, Kept1, GivenValues
<1>8. Linted'
  BY <1>1, LintedStays DEF WholeInv
<1>9. Agreeing'
  BY <1>1, StillAgreeing DEF WholeInv
<1> QED
  BY <1>1, <1>4, <1>5, <1>6, <1>7, <1>8, <1>9 DEF Following, Kept1, Fresh, WholeInv

LEMMA EndedKeeps ==
  ASSUME WholeInv, UNCHANGED <<skill, env, clean, warned, plan, at, part, todo, vars, refused>>,
         phase' = phase \/ (phase = "running" /\ phase' = "ended" /\ todo = <<>>)
  PROVE  Linted' /\ Following' /\ Kept1' /\ Fresh' /\ Agreeing'
<1>1. PICK q : q = todo
  OBVIOUS
<1>2. PICK p : p = part
  OBVIOUS
<1>3. Queue(todo, part)'
  BY <1>1, <1>2, TodoStays DEF WholeInv, Following
<1>4. GivenValues => GivenValues'
  BY GivenStays DEF GivenValues
<1>5. Linted' /\ Agreeing'
  BY LintedStays, StillAgreeing DEF WholeInv
<1> QED
  BY <1>3, <1>4, <1>5 DEF Following, Kept1, Fresh, WholeInv

LEMMA WholeInvHolds == Spec => []WholeInv
<1>1. Init => WholeInv
  <2> SUFFICES ASSUME Init PROVE WholeInv
    OBVIOUS
  <2>1. RunInv
    BY DEF Init, RunInv, OneCase, Laid, Planned
  <2>2. Following
    BY QueueEmpty DEF Init, Following
  <2> QED
    BY <2>1, <2>2 DEF Init, WholeInv, Linted, Fresh, Kept1, Agreeing
<1>2. WholeInv /\ [Next]_state => WholeInv'
  <2> SUFFICES ASSUME WholeInv, [Next]_state PROVE WholeInv'
    OBVIOUS
  <2>1. RunInv'
    BY RunInvKept DEF WholeInv
  <2>2. CASE LintSkill
    BY <2>1, <2>2, LintKeeps DEF WholeInv
  <2>3. CASE Compile
    BY <2>1, <2>3, CompileKeeps DEF WholeInv
  <2>4. CASE Start
    BY <2>1, <2>4, StartKeeps DEF WholeInv
  <2>5. CASE TargetDone
    BY <2>1, <2>5, TargetKeeps DEF WholeInv
  <2>6. CASE End
    <3>1. Linted' /\ Following' /\ Kept1' /\ Fresh' /\ Agreeing'
      BY <2>6, EndedKeeps DEF End
    <3> QED
      BY <2>1, <3>1 DEF WholeInv
  <2>7. CASE Ops \/ Blocks
    BY <2>7, OpKeeps
  <2>8. CASE Stopped \/ UNCHANGED state
    <3>1. Linted' /\ Following' /\ Kept1' /\ Fresh' /\ Agreeing'
      BY <2>8, EndedKeeps DEF Stopped, state
    <3> QED
      BY <2>1, <3>1 DEF WholeInv
  <2> QED
    BY <2>2, <2>3, <2>4, <2>5, <2>6, <2>7, <2>8 DEF Next
<1> QED
  BY <1>1, <1>2, PTL DEF Spec

\* Lint and runtime agree on what may be called, run and spliced, for every
\* skill and every installation bootstrap() wires: of a skill lint_skill has
\* passed no op outside an else block is refused for its connector, tool or
\* shell policy, nor for a binary it names that the operator's list could be
\* asked about, none at all for a secret, and of a mutation at the top of a
\* target lint has warned (dispatch-validate.ts:1, lint.ts:2249, 2340).
THEOREM DispatchIsChecked == Spec => []DispatchChecked
<1>1. WholeInv => DispatchChecked
  BY DEF WholeInv, Agreeing, Checked, DispatchChecked
<1> QED
  BY <1>1, WholeInvHolds, PTL

\* A variable that turns out unbound is never an input, whatever blocks, loops
\* and failures came before; at the top of a target lint has passed, it is a
\* name an op of the skill would have bound, or ERROR_CONTEXT (runtime.ts:2580).
THEOREM UnboundIsExplained == Spec => []UnboundExplained
<1>1. WholeInv => UnboundExplained
  BY DEF WholeInv, Agreeing, Explained, UnboundExplained, Given
<1> QED
  BY <1>1, WholeInvHolds, PTL

-----------------------------------------------------------------------------
(* What conditions mean.                                                   *)

\* The parentheses a token opens or closes.
Deeper(d, x) == IF x = "(" THEN d + 1 ELSE IF x = ")" /\ d > 0 THEN d - 1 ELSE d

\* Depths, token by token.
DepthBy(f, n, c) ==
  f = [i \in 0 .. n |-> IF i = 0 THEN 0 ELSE IF c[i] = "(" THEN f[i - 1] + 1 ELSE IF c[i] = ")" /\ f[i - 1] > 0 THEN f[i - 1] - 1 ELSE f[i - 1]]

LEMMA DepthByExists ==
  ASSUME NEW n \in Nat, NEW c
  PROVE  \E f : DepthBy(f, n, c)
<1> DEFINE Next1(r, i) == IF c[i] = "(" THEN r + 1 ELSE IF c[i] = ")" /\ r > 0 THEN r - 1 ELSE r
           base == 0
           Eq(f, m) == f = [i \in 0 .. m |-> IF i = 0 THEN base ELSE Next1(f[i - 1], i)]
           S == {m \in Nat : \E f : Eq(f, m)}
<1>0. \A f : Eq(f, n) => DepthBy(f, n, c)
  BY DEF DepthBy
<1> HIDE DEF base, Next1
<1>1. 0 \in S
  <2> DEFINE f == [i \in 0 .. 0 |-> base]
  <2>1. Eq(f, 0)
    <3>1. \A i \in 0 .. 0 : i = 0
      OBVIOUS
    <3> QED
      BY <3>1
  <2> HIDE DEF f, Eq
  <2> QED
    BY <2>1
<1>2. ASSUME NEW m \in Nat, m \in S
      PROVE  m + 1 \in S
  <2>1. PICK f : Eq(f, m)
    BY <1>2
  <2> DEFINE g == [i \in 0 .. m + 1 |-> IF i = m + 1 THEN Next1(f[m], m + 1) ELSE f[i]]
  <2>2. \A i \in 0 .. m : f[i] = IF i = 0 THEN base ELSE Next1(f[i - 1], i)
    BY <2>1
  <2>3. \A i \in 0 .. m + 1 : g[i] = IF i = 0 THEN base ELSE Next1(g[i - 1], i)
    <3> SUFFICES ASSUME NEW i \in 0 .. m + 1
                 PROVE  g[i] = IF i = 0 THEN base ELSE Next1(g[i - 1], i)
      OBVIOUS
    <3>1. CASE i = m + 1
      <4>1. g[i - 1] = f[m] /\ i # 0
        BY <3>1
      <4> QED
        BY <3>1, <4>1
    <3>2. CASE i # m + 1
      <4>1. i \in 0 .. m /\ (i # 0 => i - 1 \in 0 .. m /\ i - 1 # m + 1)
        BY <3>2
      <4>2. i # 0 => g[i - 1] = f[i - 1]
        BY <4>1
      <4> QED
        BY <2>2, <3>2, <4>1, <4>2
    <3> QED
      BY <3>1, <3>2
  <2>4. Eq(g, m + 1)
    BY <2>3
  <2> HIDE DEF g, Eq
  <2> QED
    BY <2>4
<1>3. n \in S
  BY <1>1, <1>2, Counting
<1>4. PICK f : Eq(f, n)
  BY <1>3
<1> HIDE DEF Eq
<1> QED
  BY <1>0, <1>4

LEMMA DepthBySteps ==
  ASSUME NEW n \in Nat, NEW c, NEW f, DepthBy(f, n, c)
  PROVE  f[0] = 0 /\ \A i \in 1 .. n : f[i] = IF c[i] = "(" THEN f[i - 1] + 1 ELSE IF c[i] = ")" /\ f[i - 1] > 0 THEN f[i - 1] - 1 ELSE f[i - 1]
<1> DEFINE body(i) == IF i = 0 THEN 0 ELSE IF c[i] = "(" THEN f[i - 1] + 1 ELSE IF c[i] = ")" /\ f[i - 1] > 0 THEN f[i - 1] - 1 ELSE f[i - 1]
<1>1. f = [i \in 0 .. n |-> body(i)]
  BY DEF DepthBy
<1> HIDE DEF body
<1>2. \A i \in 0 .. n : f[i] = body(i)
  BY <1>1
<1>3. 0 \in 0 .. n /\ \A i \in 1 .. n : i \in 0 .. n /\ i # 0
  OBVIOUS
<1>4. body(0) = 0
  BY DEF body
<1>5. \A i \in 1 .. n : body(i) = IF c[i] = "(" THEN f[i - 1] + 1 ELSE IF c[i] = ")" /\ f[i - 1] > 0 THEN f[i - 1] - 1 ELSE f[i - 1]
  BY <1>3 DEF body
<1> QED
  BY <1>2, <1>3, <1>4, <1>5

LEMMA DepthIs ==
  ASSUME NEW T, NEW s \in Seq(T)
  PROVE  /\ DepthAt(s)[0] = 0
         /\ \A i \in 1 .. Len(s) : DepthAt(s)[i] = Deeper(DepthAt(s)[i - 1], s[i])
         /\ \A i \in 0 .. Len(s) : DepthAt(s)[i] \in Nat
<1>1. PICK n \in Nat : n = Len(s)
  OBVIOUS
<1>2. PICK f : DepthBy(f, n, s) /\ DepthAt(s) = f
  <2> DEFINE g == CHOOSE f : DepthBy(f, Len(s), s)
  <2>1. DepthBy(g, n, s)
    BY <1>1, DepthByExists
  <2>2. DepthAt(s) = g
    BY DEF DepthAt, DepthBy
  <2> HIDE DEF g
  <2> QED
    BY <2>1, <2>2
<1>3. /\ f[0] = 0
      /\ \A i \in 1 .. n : f[i] = IF s[i] = "(" THEN f[i - 1] + 1 ELSE IF s[i] = ")" /\ f[i - 1] > 0 THEN f[i - 1] - 1 ELSE f[i - 1]
  BY <1>2, DepthBySteps
<1>4. \A i \in 1 .. n : f[i] = Deeper(f[i - 1], s[i])
  BY <1>3 DEF Deeper
<1> DEFINE N == {i \in Nat : i =< n => f[i] \in Nat}
<1>5. 0 \in N
  BY <1>3
<1>6. ASSUME NEW i \in Nat, i \in N
      PROVE  i + 1 \in N
  <2> SUFFICES ASSUME i + 1 =< n PROVE f[i + 1] \in Nat
    OBVIOUS
  <2>1. i + 1 \in 1 .. n /\ (i + 1) - 1 = i /\ f[i] \in Nat
    BY <1>6
  <2>2. f[i + 1] = Deeper(f[i], s[i + 1])
    BY <1>4, <2>1
  <2> QED
    BY <2>1, <2>2 DEF Deeper
<1>7. \A i \in Nat : i \in N
  BY <1>5, <1>6, Counting
<1>8. \A i \in 0 .. n : f[i] \in Nat
  BY <1>7
<1> QED
  BY <1>1, <1>2, <1>3, <1>4, <1>8

\* A text that closes what it opens, and no more.
Balanced(s) == /\ DepthAt(s)[Len(s)] = 0
               /\ \A j \in 1 .. Len(s) : s[j] = ")" => DepthAt(s)[j - 1] > 0

\* Where a token stands outside all parentheses.
Outer(s, tok) == {j \in 1 .. Len(s) : s[j] = tok /\ DepthAt(s)[j] = 0}

\* A balanced piece of a text adds its own depths to those around it.
Piece(s, p, a) == a + Len(p) =< Len(s) /\ \A j \in 1 .. Len(p) : p[j] = s[a + j]
Shifted(s, p, a) == \A j \in 0 .. Len(p) : DepthAt(s)[a + j] = DepthAt(s)[a] + DepthAt(p)[j]

LEMMA Shift ==
  ASSUME NEW T, NEW s \in Seq(T), NEW p \in Seq(T), NEW a \in Nat, Piece(s, p, a), Balanced(p)
  PROVE  Shifted(s, p, a)
<1>0. a + Len(p) =< Len(s) /\ \A j \in 1 .. Len(p) : p[j] = s[a + j]
  BY DEF Piece
<1>1. PICK n \in Nat : n = Len(p)
  OBVIOUS
<1>2. PICK f : f = DepthAt(s)
  OBVIOUS
<1>3. PICK g : g = DepthAt(p)
  OBVIOUS
<1>4. /\ g[0] = 0 /\ \A i \in 1 .. n : g[i] = Deeper(g[i - 1], p[i])
      /\ \A i \in 0 .. n : g[i] \in Nat
  BY <1>1, <1>3, DepthIs
<1>5. /\ \A i \in 1 .. Len(s) : f[i] = Deeper(f[i - 1], s[i])
      /\ \A i \in 0 .. Len(s) : f[i] \in Nat
  BY <1>2, DepthIs
<1>6. \A i \in 1 .. n : p[i] = ")" => g[i - 1] > 0
  BY <1>1, <1>3 DEF Balanced
<1> DEFINE N == {i \in Nat : i =< n => f[a + i] = f[a] + g[i]}
<1>7. 0 \in N
  <2>1. a \in 0 .. Len(s)
    BY <1>0, <1>1
  <2> QED
    BY <1>4, <1>5, <2>1
<1>8. ASSUME NEW i \in Nat, i \in N
      PROVE  i + 1 \in N
  <2> SUFFICES ASSUME i + 1 =< n PROVE f[a + (i + 1)] = f[a] + g[i + 1]
    OBVIOUS
  <2>1. PICK k : k = i + 1
    OBVIOUS
  <2>2. k \in 1 .. n /\ k - 1 = i /\ i \in 0 .. n
    BY <2>1
  <2>3. a + k \in 1 .. Len(s) /\ (a + k) - 1 = a + i /\ a \in 0 .. Len(s)
    BY <1>0, <1>1, <2>1
  <2>4. g[k] = Deeper(g[i], p[k]) /\ g[i] \in Nat /\ (p[k] = ")" => g[i] > 0)
    BY <1>4, <1>6, <2>2
  <2>5. f[a + k] = Deeper(f[a + i], s[a + k]) /\ f[a] \in Nat
    BY <1>5, <2>3
  <2>6. p[k] = s[a + k]
    BY <1>0, <1>1, <2>2
  <2>7. f[a + i] = f[a] + g[i]
    BY <1>8, <2>2
  <2>8. f[a + k] = f[a] + g[k]
    BY <2>4, <2>5, <2>6, <2>7 DEF Deeper
  <2> QED
    BY <2>1, <2>8
<1>9. \A i \in Nat : i \in N
  BY <1>7, <1>8, Counting
<1>10. \A i \in 0 .. n : f[a + i] = f[a] + g[i]
  BY <1>9
<1> QED
  BY <1>1, <1>2, <1>3, <1>10 DEF Shifted

\* A text cut at an `or` or an `and`, with a balanced first part.
LEMMA CutDepth ==
  ASSUME NEW T, NEW s \in Seq(T), NEW i \in 2 .. Len(s) - 1, s[i] \in {"or", "and"}, Balanced(Before(s, i))
  PROVE  /\ DepthAt(s)[i] = 0
         /\ \A j \in 1 .. i - 1 : DepthAt(s)[j] = DepthAt(Before(s, i))[j]
<1>0. i \in 1 .. Len(s)
  OBVIOUS
<1>1. PICK p : p = Before(s, i)
  OBVIOUS
<1>2. p \in Seq(T) /\ Len(p) = i - 1 /\ \A j \in 1 .. i - 1 : p[j] = s[j]
  BY <1>0, <1>1, Pieces
<1>3. \A j \in 1 .. Len(p) : p[j] = s[0 + j]
  BY <1>2
<1>4. Balanced(p) /\ 0 + Len(p) =< Len(s)
  BY <1>1, <1>2
<1>5. \A j \in 0 .. Len(p) : DepthAt(s)[0 + j] = DepthAt(s)[0] + DepthAt(p)[j]
  <2>1. Piece(s, p, 0)
    BY <1>3, <1>4 DEF Piece
  <2>2. Shifted(s, p, 0)
    BY <1>2, <1>4, <2>1, Shift
  <2> QED
    BY <2>2 DEF Shifted
<1>6. DepthAt(s)[0] = 0 /\ \A j \in 0 .. Len(p) : DepthAt(p)[j] \in Nat
  BY <1>2, DepthIs
<1>7. \A j \in 0 .. i - 1 : DepthAt(s)[j] = DepthAt(p)[j]
  <2> SUFFICES ASSUME NEW j \in 0 .. i - 1 PROVE DepthAt(s)[j] = DepthAt(p)[j]
    OBVIOUS
  <2>1. j \in 0 .. Len(p) /\ 0 + j = j
    BY <1>2
  <2>2. DepthAt(s)[j] = 0 + DepthAt(p)[j] /\ DepthAt(p)[j] \in Nat
    BY <1>5, <1>6, <2>1
  <2> QED
    BY <2>2
<1>8. DepthAt(p)[i - 1] = 0
  BY <1>2, <1>4 DEF Balanced
<1>9. i \in 1 .. Len(s) /\ i - 1 \in 0 .. i - 1
  OBVIOUS
<1>10. DepthAt(s)[i - 1] = 0
  BY <1>7, <1>8, <1>9
<1>11. DepthAt(s)[i] = Deeper(0, s[i])
  BY <1>9, <1>10, DepthIs
<1> QED
  BY <1>1, <1>7, <1>11 DEF Deeper

\* With both parts balanced: what is outside in a part is outside in the whole.
LEMMA CutOuter ==
  ASSUME NEW T, NEW s \in Seq(T), NEW i \in 2 .. Len(s) - 1, s[i] \in {"or", "and"},
         DepthAt(s)[i] = 0, Balanced(After(s, i)), NEW tok
  PROVE  /\ \A j \in 0 .. Len(s) - i : DepthAt(s)[i + j] = DepthAt(After(s, i))[j]
         /\ \A j \in 1 .. Len(s) - i : i + j \in Outer(s, tok) <=> j \in Outer(After(s, i), tok)
<1>0. i \in 1 .. Len(s)
  OBVIOUS
<1>1. PICK p : p = After(s, i)
  OBVIOUS
<1>2. p \in Seq(T) /\ Len(p) = Len(s) - i /\ \A j \in 1 .. Len(s) - i : p[j] = s[i + j]
  <2>1. /\ After(s, i) \in Seq(T) /\ Len(After(s, i)) = Len(s) - i
        /\ \A j \in 1 .. Len(s) - i : After(s, i)[j] = s[i + j]
    BY <1>0, Pieces
  <2> QED
    BY <1>1, <2>1
<1>3. i \in Nat /\ i + Len(p) =< Len(s) /\ \A j \in 1 .. Len(p) : p[j] = s[i + j]
  BY <1>2
<1>4. Balanced(p)
  BY <1>1
<1>5. \A j \in 0 .. Len(p) : DepthAt(s)[i + j] = DepthAt(s)[i] + DepthAt(p)[j]
  <2>1. Piece(s, p, i) /\ i \in Nat
    BY <1>3 DEF Piece
  <2>2. Shifted(s, p, i)
    BY <1>2, <1>4, <2>1, Shift
  <2> QED
    BY <2>2 DEF Shifted
<1>6. \A j \in 0 .. Len(p) : DepthAt(p)[j] \in Nat
  BY <1>2, DepthIs
<1>7. \A j \in 0 .. Len(p) : DepthAt(s)[i + j] = DepthAt(p)[j]
  BY <1>5, <1>6
<1>8. ASSUME NEW j \in 1 .. Len(p) PROVE i + j \in Outer(s, tok) <=> j \in Outer(p, tok)
  <2>1. i + j \in 1 .. Len(s) /\ j \in 0 .. Len(p)
    BY <1>2
  <2>2. s[i + j] = p[j] /\ DepthAt(s)[i + j] = DepthAt(p)[j]
    BY <1>3, <1>7, <2>1
  <2> QED
    BY <2>1, <2>2 DEF Outer
<1> QED
  BY <1>1, <1>2, <1>7, <1>8

\* Two balanced parts make a balanced whole.
LEMMA CutBalanced ==
  ASSUME NEW T, NEW s \in Seq(T), NEW i \in 2 .. Len(s) - 1, s[i] \in {"or", "and"},
         Balanced(Before(s, i)), Balanced(After(s, i))
  PROVE  Balanced(s)
<1>1. DepthAt(s)[i] = 0 /\ \A j \in 1 .. i - 1 : DepthAt(s)[j] = DepthAt(Before(s, i))[j]
  BY CutDepth
<1>2. \A j \in 0 .. Len(s) - i : DepthAt(s)[i + j] = DepthAt(After(s, i))[j]
  BY <1>1, CutOuter
<1>3. PICK p : p = Before(s, i)
  OBVIOUS
<1>4. PICK q : q = After(s, i)
  OBVIOUS
<1>5. /\ p \in Seq(T) /\ Len(p) = i - 1 /\ \A j \in 1 .. i - 1 : p[j] = s[j]
      /\ q \in Seq(T) /\ Len(q) = Len(s) - i /\ \A j \in 1 .. Len(s) - i : q[j] = s[i + j]
  <2>1. i \in 1 .. Len(s)
    OBVIOUS
  <2> QED
    BY <1>3, <1>4, <2>1, Pieces
<1>6. DepthAt(s)[Len(s)] = 0
  <2>1. i + (Len(s) - i) = Len(s) /\ Len(s) - i \in 0 .. Len(s) - i
    OBVIOUS
  <2>2. DepthAt(s)[Len(s)] = DepthAt(q)[Len(s) - i]
    BY <1>2, <1>4, <2>1
  <2> QED
    BY <1>4, <1>5, <2>2 DEF Balanced
<1>7. ASSUME NEW j \in 1 .. Len(s), s[j] = ")" PROVE DepthAt(s)[j - 1] > 0
  <2>1. j # i
    BY <1>7
  <2>2. CASE j < i
    <3>1. j \in 1 .. Len(p) /\ p[j] = ")"
      BY <1>5, <1>7, <2>2
    <3>2. DepthAt(p)[j - 1] > 0
      BY <1>3, <3>1 DEF Balanced
    <3>3. CASE j = 1
      BY <1>5, <3>2, <3>3, DepthIs
    <3>4. CASE j # 1
      <4>1. j - 1 \in 1 .. i - 1
        BY <2>2, <3>4
      <4> QED
        BY <1>1, <1>3, <3>2, <4>1
    <3> QED
      BY <3>3, <3>4
  <2>3. CASE j > i
    <3>1. PICK k : k = j - i
      OBVIOUS
    <3>2. k \in 1 .. Len(s) - i /\ i + k = j /\ k - 1 \in 0 .. Len(s) - i /\ i + (k - 1) = j - 1
      BY <2>3, <3>1
    <3>3. k \in 1 .. Len(q) /\ q[k] = ")"
      BY <1>5, <1>7, <3>2
    <3>4. DepthAt(q)[k - 1] > 0
      BY <1>4, <3>3 DEF Balanced
    <3>5. DepthAt(s)[j - 1] = DepthAt(q)[k - 1]
      BY <1>2, <1>4, <3>2
    <3> QED
      BY <3>4, <3>5
  <2> QED
    BY <2>1, <2>2, <2>3
<1> QED
  BY <1>6, <1>7 DEF Balanced


\* A negated text, and a text in parentheses.
LEMMA Negated ==
  ASSUME NEW T, NEW s \in Seq(T), Len(s) > 1, s[1] = "not", Balanced(Tail(s))
  PROVE  /\ Balanced(s)
         /\ \A j \in 1 .. Len(s) - 1 : DepthAt(s)[1 + j] = DepthAt(Tail(s))[j]
<1>1. PICK p : p = Tail(s)
  OBVIOUS
<1>2. p \in Seq(T) /\ Len(p) = Len(s) - 1 /\ \A j \in 1 .. Len(p) : p[j] = s[1 + j]
  <2>1. s # <<>>
    OBVIOUS
  <2>2. Tail(s) \in Seq(T) /\ Len(Tail(s)) = Len(s) - 1
    BY <2>1
  <2>3. \A j \in 1 .. Len(s) - 1 : Tail(s)[j] = s[1 + j]
    BY <2>1
  <2> QED
    BY <1>1, <2>2, <2>3
<1>3. Balanced(p) /\ 1 + Len(p) =< Len(s)
  BY <1>1, <1>2
<1>4. \A j \in 0 .. Len(p) : DepthAt(s)[1 + j] = DepthAt(s)[1] + DepthAt(p)[j]
  <2>1. Piece(s, p, 1)
    BY <1>2, <1>3 DEF Piece
  <2>2. Shifted(s, p, 1)
    BY <1>2, <1>3, <2>1, Shift
  <2> QED
    BY <2>2 DEF Shifted
<1>5. PICK f : f = DepthAt(s)
  OBVIOUS
<1>6. PICK g : g = DepthAt(p)
  OBVIOUS
<1>7. f[0] = 0 /\ f[1] = Deeper(f[0], s[1]) /\ \A j \in 0 .. Len(p) : g[j] \in Nat
  <2>1. 1 \in 1 .. Len(s) /\ 1 - 1 = 0
    OBVIOUS
  <2> QED
    BY <1>2, <1>5, <1>6, <2>1, DepthIs
<1>8. f[1] = 0
  BY <1>7 DEF Deeper
<1>9. \A j \in 0 .. Len(p) : f[1 + j] = g[j]
  BY <1>4, <1>5, <1>6, <1>7, <1>8
<1>10. g[Len(p)] = 0 /\ \A j \in 1 .. Len(p) : p[j] = ")" => g[j - 1] > 0
  BY <1>3, <1>6 DEF Balanced
<1>11. f[Len(s)] = 0
  <2>1. Len(p) \in 0 .. Len(p) /\ 1 + Len(p) = Len(s)
    BY <1>2
  <2> QED
    BY <1>9, <1>10, <2>1
<1>12. ASSUME NEW j \in 1 .. Len(s), s[j] = ")" PROVE f[j - 1] > 0
  <2>1. j # 1
    BY <1>12
  <2>2. PICK k : k = j - 1
    OBVIOUS
  <2>3. k \in 1 .. Len(p) /\ 1 + k = j /\ k - 1 \in 0 .. Len(p) /\ 1 + (k - 1) = j - 1
    BY <1>2, <2>1, <2>2
  <2>4. p[k] = ")"
    BY <1>2, <1>12, <2>3
  <2>5. g[k - 1] > 0 /\ f[1 + (k - 1)] = g[k - 1]
    BY <1>9, <1>10, <2>3, <2>4
  <2> QED
    BY <2>3, <2>5
<1>13. Balanced(s)
  BY <1>5, <1>11, <1>12 DEF Balanced
<1> QED
  BY <1>1, <1>2, <1>5, <1>6, <1>9, <1>13

Inside(s) == SubSeq(s, 2, Len(s) - 1)

LEMMA InsideOf ==
  ASSUME NEW T, NEW s \in Seq(T), Len(s) > 2
  PROVE  /\ Inside(s) \in Seq(T) /\ Len(Inside(s)) = Len(s) - 2
         /\ \A j \in 1 .. Len(s) - 2 : Inside(s)[j] = s[1 + j]
<1>1. SubSeq(s, 2, Len(s) - 1) \in Seq(T) /\ Len(SubSeq(s, 2, Len(s) - 1)) = Len(s) - 2
  OBVIOUS
<1>2. \A j \in 1 .. Len(s) - 2 : SubSeq(s, 2, Len(s) - 1)[j] = s[1 + j]
  OBVIOUS
<1> QED
  BY <1>1, <1>2 DEF Inside

LEMMA Wrapped ==
  ASSUME NEW T, NEW s \in Seq(T), Len(s) > 2, s[1] = "(", s[Len(s)] = ")", Balanced(Inside(s))
  PROVE  Balanced(s) /\ \A j \in 1 .. Len(s) - 1 : DepthAt(s)[j] > 0
<1>1. PICK p : p = Inside(s)
  OBVIOUS
<1>2. p \in Seq(T) /\ Len(p) = Len(s) - 2 /\ \A j \in 1 .. Len(p) : p[j] = s[1 + j]
  BY <1>1, InsideOf
<1>3. Balanced(p) /\ 1 + Len(p) =< Len(s)
  BY <1>1, <1>2
<1>4. \A j \in 0 .. Len(p) : DepthAt(s)[1 + j] = DepthAt(s)[1] + DepthAt(p)[j]
  <2>1. Piece(s, p, 1)
    BY <1>2, <1>3 DEF Piece
  <2>2. Shifted(s, p, 1)
    BY <1>2, <1>3, <2>1, Shift
  <2> QED
    BY <2>2 DEF Shifted
<1>5. PICK f : f = DepthAt(s)
  OBVIOUS
<1>6. PICK g : g = DepthAt(p)
  OBVIOUS
<1>7. f[0] = 0 /\ f[1] = Deeper(f[0], s[1]) /\ \A j \in 0 .. Len(p) : g[j] \in Nat
  <2>1. 1 \in 1 .. Len(s) /\ 1 - 1 = 0
    OBVIOUS
  <2> QED
    BY <1>2, <1>5, <1>6, <2>1, DepthIs
<1>8. f[1] = 1
  BY <1>7 DEF Deeper
<1>9. \A j \in 0 .. Len(p) : f[1 + j] = 1 + g[j]
  BY <1>4, <1>5, <1>6, <1>8
<1>10. g[Len(p)] = 0
  BY <1>3, <1>6 DEF Balanced
<1>11. \A j \in 1 .. Len(s) - 1 : f[j] > 0
  <2> SUFFICES ASSUME NEW j \in 1 .. Len(s) - 1 PROVE f[j] > 0
    OBVIOUS
  <2>1. PICK k : k = j - 1
    OBVIOUS
  <2>2. k \in 0 .. Len(p) /\ 1 + k = j
    BY <1>2, <2>1
  <2>3. f[1 + k] = 1 + g[k] /\ g[k] \in Nat
    BY <1>7, <1>9, <2>2
  <2> QED
    BY <2>2, <2>3
<1>12. PICK m : m = Len(s) - 1
  OBVIOUS
<1>13. m + 1 = Len(s) /\ m + 1 \in 1 .. Len(s) /\ (m + 1) - 1 = m /\ 1 + Len(p) = m /\ Len(p) \in 0 .. Len(p)
  BY <1>2, <1>12
<1>14. f[m] = 1
  BY <1>9, <1>10, <1>13
<1>15. f[m + 1] = Deeper(f[m], s[m + 1])
  BY <1>5, <1>13, DepthIs
<1>16. f[Len(s)] = 0
  BY <1>13, <1>14, <1>15 DEF Deeper
<1>17. ASSUME NEW j \in 1 .. Len(s), s[j] = ")" PROVE f[j - 1] > 0
  <2>1. j # 1
    BY <1>17
  <2>2. j - 1 \in 1 .. Len(s) - 1
    BY <2>1
  <2> QED
    BY <1>11, <2>2
<1> QED
  BY <1>5, <1>11, <1>16, <1>17 DEF Balanced

-----------------------------------------------------------------------------
(* The readings of a text: where they may be cut.                          *)

\* A text with a reading closes its parentheses; one an `and` may join has
\* no `or` outside them, one a `not` may stand before no `and` either.
Readings(m) == m.not \subseteq m.and /\ m.and \subseteq m.or /\ m.or \subseteq BOOLEAN
Shape(s, m) == /\ m.or # {} => Balanced(s)
               /\ m.and # {} => Outer(s, "or") = {}
               /\ m.not # {} => Outer(s, "and") = {}
Table(M) == \A s \in Seq(Token) : Readings(M[s]) /\ Shape(s, M[s])
Of(M, s, vs) == [not |-> NotMeaning(M, s, vs), and |-> AndMeaning(M, s, vs), or |-> OrMeaning(M, s, vs)]

LEMMA OneToken ==
  ASSUME NEW s \in Seq(Token), Len(s) = 1, s[1] \in DOMAIN Simple
  PROVE  Balanced(s) /\ Outer(s, "or") = {} /\ Outer(s, "and") = {}
<1>1. s[1] \notin Connectives
  BY TokenAssumption
<1>2. s[1] \notin {"(", ")", "or", "and"}
  BY <1>1 DEF Connectives
<1>3. \A j \in 1 .. Len(s) : j = 1
  OBVIOUS
<1>4. DepthAt(s)[0] = 0 /\ DepthAt(s)[1] = Deeper(DepthAt(s)[0], s[1])
  <2>1. 1 \in 1 .. Len(s) /\ 1 - 1 = 0
    OBVIOUS
  <2> QED
    BY <2>1, DepthIs
<1>5. DepthAt(s)[1] = 0
  BY <1>2, <1>4 DEF Deeper
<1> QED
  BY <1>2, <1>3, <1>5 DEF Balanced, Outer

LEMMA NotShape ==
  ASSUME NEW M, Table(M), NEW s \in Seq(Token), NEW vs, NotMeaning(M, s, vs) # {}
  PROVE  /\ NotMeaning(M, s, vs) \subseteq BOOLEAN /\ Balanced(s)
         /\ Outer(s, "or") = {} /\ Outer(s, "and") = {}
<1>1. CASE Len(s) = 1 /\ s[1] \in DOMAIN Simple
  <2>1. NotMeaning(M, s, vs) = {evalSimpleCondition(s[1], vs) = "true"}
    BY <1>1 DEF NotMeaning
  <2>2. (evalSimpleCondition(s[1], vs) = "true") \in BOOLEAN
    OBVIOUS
  <2>3. NotMeaning(M, s, vs) \subseteq BOOLEAN
    BY <2>1, <2>2
  <2> QED
    BY <1>1, <2>3, OneToken
<1>2. CASE Len(s) > 1 /\ s[1] = "not"
  <2>1. NotMeaning(M, s, vs) = {~x : x \in M[Tail(s)].not}
    BY <1>2 DEF NotMeaning
  <2>2. PICK p : p = Tail(s)
    OBVIOUS
  <2>3. s # <<>>
    BY <1>2
  <2>4. p \in Seq(Token) /\ Len(p) = Len(s) - 1 /\ \A j \in 1 .. Len(s) - 1 : p[j] = s[1 + j]
    <3>1. Tail(s) \in Seq(Token) /\ Len(Tail(s)) = Len(s) - 1
      BY <2>3
    <3>2. \A j \in 1 .. Len(s) - 1 : Tail(s)[j] = s[1 + j]
      BY <2>3
    <3> QED
      BY <2>2, <3>1, <3>2
  <2>5. PICK m : m = M[p]
    OBVIOUS
  <2>6. m.not # {}
    BY <2>1, <2>2, <2>5
  <2>7. Readings(m) /\ Shape(p, m)
    BY <2>4, <2>5 DEF Table
  <2>8. Balanced(p) /\ Outer(p, "or") = {} /\ Outer(p, "and") = {}
    BY <2>6, <2>7 DEF Readings, Shape
  <2>9. Balanced(s) /\ \A j \in 1 .. Len(s) - 1 : DepthAt(s)[1 + j] = DepthAt(p)[j]
    BY <1>2, <2>2, <2>8, Negated
  <2>10. ASSUME NEW tok \in {"or", "and"}, NEW j \in Outer(s, tok) PROVE FALSE
    <3>1. j \in 1 .. Len(s) /\ s[j] = tok /\ DepthAt(s)[j] = 0
      BY DEF Outer
    <3>2. j # 1
      BY <1>2, <3>1
    <3>3. PICK k : k = j - 1
      OBVIOUS
    <3>4. k \in 1 .. Len(s) - 1 /\ 1 + k = j
      BY <3>1, <3>2, <3>3
    <3>5. p[k] = tok /\ DepthAt(p)[k] = 0 /\ k \in 1 .. Len(p)
      BY <2>4, <2>9, <3>1, <3>4
    <3>6. k \in Outer(p, tok)
      BY <3>5 DEF Outer
    <3> QED
      BY <2>8, <3>6
  <2>11. NotMeaning(M, s, vs) \subseteq BOOLEAN
    BY <2>1
  <2> QED
    BY <2>9, <2>10, <2>11
<1>3. CASE /\ ~(Len(s) = 1 /\ s[1] \in DOMAIN Simple) /\ ~(Len(s) > 1 /\ s[1] = "not")
           /\ Len(s) > 2 /\ s[1] = "(" /\ s[Len(s)] = ")"
  <2>1. NotMeaning(M, s, vs) = M[Inside(s)].or
    BY <1>3 DEF NotMeaning, Inside
  <2>2. PICK p : p = Inside(s)
    OBVIOUS
  <2>3. p \in Seq(Token)
    BY <1>3, <2>2, InsideOf
  <2>4. PICK m : m = M[p]
    OBVIOUS
  <2>5. Readings(m) /\ Shape(p, m)
    BY <2>3, <2>4 DEF Table
  <2>6. m.or # {}
    BY <2>1, <2>2, <2>4
  <2>7. Balanced(p) /\ m.or \subseteq BOOLEAN
    BY <2>5, <2>6 DEF Readings, Shape
  <2>8. Balanced(s) /\ \A j \in 1 .. Len(s) - 1 : DepthAt(s)[j] > 0
    BY <1>3, <2>2, <2>7, Wrapped
  <2>9. ASSUME NEW tok \in {"or", "and"}, NEW j \in Outer(s, tok) PROVE FALSE
    <3>1. j \in 1 .. Len(s) /\ s[j] = tok /\ DepthAt(s)[j] = 0
      BY DEF Outer
    <3>2. j # Len(s)
      BY <1>3, <3>1
    <3>3. j \in 1 .. Len(s) - 1
      BY <3>1, <3>2
    <3>4. DepthAt(s)[j] > 0
      BY <2>8, <3>3
    <3> QED
      BY <3>1, <3>4
  <2> QED
    BY <2>1, <2>2, <2>4, <2>7, <2>8, <2>9
<1>4. CASE /\ ~(Len(s) = 1 /\ s[1] \in DOMAIN Simple) /\ ~(Len(s) > 1 /\ s[1] = "not")
           /\ ~(Len(s) > 2 /\ s[1] = "(" /\ s[Len(s)] = ")")
  BY <1>4 DEF NotMeaning
<1> QED
  BY <1>1, <1>2, <1>3, <1>4

\* The readings of a text cut at i.
Ands(X, Y) == {x /\ y : x \in X, y \in Y}
Ors(X, Y) == {x \/ y : x \in X, y \in Y}
AndAt(M, s, i) == Ands(M[Before(s, i)].and, M[After(s, i)].not)
OrAt(M, s, i) == Ors(M[Before(s, i)].or, M[After(s, i)].and)

LEMMA AndAtShape ==
  ASSUME NEW M, Table(M), NEW s \in Seq(Token), NEW i \in 2 .. Len(s) - 1, s[i] = "and", AndAt(M, s, i) # {}
  PROVE  /\ AndAt(M, s, i) \subseteq BOOLEAN /\ Balanced(s)
         /\ Balanced(Before(s, i)) /\ Balanced(After(s, i)) /\ i \in Outer(s, "and")
         /\ Outer(s, "or") = {} /\ \A j \in Outer(s, "and") : j =< i
<1>0. i \in 1 .. Len(s)
  OBVIOUS
<1>1. PICK p : p = Before(s, i)
  OBVIOUS
<1>2. PICK q : q = After(s, i)
  OBVIOUS
<1>3. /\ p \in Seq(Token) /\ Len(p) = i - 1 /\ q \in Seq(Token) /\ Len(q) = Len(s) - i
      /\ \A j \in 1 .. i - 1 : p[j] = s[j]
  BY <1>0, <1>1, <1>2, Pieces
<1>4. Readings(M[p]) /\ Shape(p, M[p]) /\ Readings(M[q]) /\ Shape(q, M[q])
  BY <1>3 DEF Table
<1>5. M[p].and # {} /\ M[q].not # {}
  BY <1>1, <1>2 DEF AndAt, Ands
<1>6. Balanced(p) /\ Outer(p, "or") = {} /\ Balanced(q) /\ Outer(q, "or") = {} /\ Outer(q, "and") = {}
  BY <1>4, <1>5 DEF Readings, Shape
<1>7. Balanced(s)
  BY <1>1, <1>2, <1>6, CutBalanced
<1>8. DepthAt(s)[i] = 0 /\ \A j \in 1 .. i - 1 : DepthAt(s)[j] = DepthAt(p)[j]
  BY <1>1, <1>6, CutDepth
<1>9. i \in Outer(s, "and")
  BY <1>0, <1>8 DEF Outer
<1>10. ASSUME NEW tok, NEW j \in 1 .. Len(s) - i PROVE i + j \in Outer(s, tok) <=> j \in Outer(q, tok)
  BY <1>2, <1>6, <1>8, CutOuter
<1>11. ASSUME NEW tok \in {"or", "and"}, NEW j \in Outer(s, tok), j > i PROVE FALSE
  <2>1. PICK k : k = j - i
    OBVIOUS
  <2>2. j \in 1 .. Len(s)
    BY DEF Outer
  <2>3. k \in 1 .. Len(s) - i /\ i + k = j
    BY <1>11, <2>1, <2>2
  <2>4. k \in Outer(q, tok)
    BY <1>10, <2>3
  <2> QED
    BY <1>6, <2>4
<1>12. ASSUME NEW j \in Outer(s, "or"), j < i PROVE FALSE
  <2>1. j \in 1 .. i - 1 /\ s[j] = "or" /\ DepthAt(s)[j] = 0
    BY <1>12 DEF Outer
  <2>2. j \in 1 .. Len(p) /\ p[j] = "or" /\ DepthAt(p)[j] = 0
    BY <1>3, <1>8, <2>1
  <2>3. j \in Outer(p, "or")
    BY <2>2 DEF Outer
  <2> QED
    BY <1>6, <2>3
<1>13. \A tok : Outer(s, tok) \subseteq 1 .. Len(s)
  BY DEF Outer
<1>14. Outer(s, "or") = {}
  <2> SUFFICES ASSUME NEW j \in Outer(s, "or") PROVE FALSE
    OBVIOUS
  <2>1. j \in 1 .. Len(s) /\ s[j] = "or"
    BY DEF Outer
  <2>2. j # i
    BY <2>1
  <2> QED
    BY <1>11, <1>12, <2>1, <2>2
<1>15. \A j \in Outer(s, "and") : j =< i
  <2> SUFFICES ASSUME NEW j \in Outer(s, "and"), ~(j =< i) PROVE FALSE
    OBVIOUS
  <2>1. j > i
    BY <1>13
  <2> QED
    BY <1>11, <2>1
<1>16. AndAt(M, s, i) \subseteq BOOLEAN
  <2> SUFFICES ASSUME NEW z \in AndAt(M, s, i) PROVE z \in BOOLEAN
    OBVIOUS
  <2>1. PICK x \in M[p].and, y \in M[q].not : z = (x /\ y)
    BY <1>1, <1>2 DEF AndAt, Ands
  <2>2. (x /\ y) \in BOOLEAN
    OBVIOUS
  <2> QED
    BY <2>1, <2>2
<1> QED
  BY <1>1, <1>2, <1>6, <1>7, <1>9, <1>14, <1>15, <1>16

LEMMA OrAtShape ==
  ASSUME NEW M, Table(M), NEW s \in Seq(Token), NEW i \in 2 .. Len(s) - 1, s[i] = "or", OrAt(M, s, i) # {}
  PROVE  /\ OrAt(M, s, i) \subseteq BOOLEAN /\ Balanced(s)
         /\ Balanced(Before(s, i)) /\ Balanced(After(s, i))
         /\ i \in Outer(s, "or") /\ \A j \in Outer(s, "or") : j =< i
<1>0. i \in 1 .. Len(s)
  OBVIOUS
<1>1. PICK p : p = Before(s, i)
  OBVIOUS
<1>2. PICK q : q = After(s, i)
  OBVIOUS
<1>3. p \in Seq(Token) /\ Len(p) = i - 1 /\ q \in Seq(Token) /\ Len(q) = Len(s) - i
  BY <1>0, <1>1, <1>2, Pieces
<1>4. Readings(M[p]) /\ Shape(p, M[p]) /\ Readings(M[q]) /\ Shape(q, M[q])
  BY <1>3 DEF Table
<1>5. M[p].or # {} /\ M[q].and # {}
  BY <1>1, <1>2 DEF OrAt, Ors
<1>6. Balanced(p) /\ Balanced(q) /\ Outer(q, "or") = {}
  BY <1>4, <1>5 DEF Readings, Shape
<1>7. Balanced(s)
  BY <1>1, <1>2, <1>6, CutBalanced
<1>8. DepthAt(s)[i] = 0
  BY <1>1, <1>6, CutDepth
<1>9. i \in Outer(s, "or")
  BY <1>0, <1>8 DEF Outer
<1>10. ASSUME NEW j \in 1 .. Len(s) - i PROVE i + j \in Outer(s, "or") <=> j \in Outer(q, "or")
  BY <1>2, <1>6, <1>8, CutOuter
<1>11. \A j \in Outer(s, "or") : j =< i
  <2> SUFFICES ASSUME NEW j \in Outer(s, "or"), ~(j =< i) PROVE FALSE
    OBVIOUS
  <2>1. PICK k : k = j - i
    OBVIOUS
  <2>2. j \in 1 .. Len(s)
    BY DEF Outer
  <2>3. k \in 1 .. Len(s) - i /\ i + k = j
    BY <2>1, <2>2
  <2>4. k \in Outer(q, "or")
    BY <1>10, <2>3
  <2> QED
    BY <1>6, <2>4
<1>12. OrAt(M, s, i) \subseteq BOOLEAN
  <2> SUFFICES ASSUME NEW z \in OrAt(M, s, i) PROVE z \in BOOLEAN
    OBVIOUS
  <2>1. PICK x \in M[p].or, y \in M[q].and : z = (x \/ y)
    BY <1>1, <1>2 DEF OrAt, Ors
  <2>2. (x \/ y) \in BOOLEAN
    OBVIOUS
  <2> QED
    BY <2>1, <2>2
<1> QED
  BY <1>1, <1>2, <1>6, <1>7, <1>9, <1>11, <1>12

LEMMA AndReadings ==
  ASSUME NEW M, NEW s \in Seq(Token), NEW vs, NEW x
  PROVE  x \in AndMeaning(M, s, vs) <=>
           (\/ x \in NotMeaning(M, s, vs)
            \/ \E i \in 2 .. Len(s) - 1 : s[i] = "and" /\ x \in AndAt(M, s, i))
BY DEF AndMeaning, AndAt, Ands

LEMMA OrReadings ==
  ASSUME NEW M, NEW s \in Seq(Token), NEW vs, NEW x
  PROVE  x \in OrMeaning(M, s, vs) <=>
           (\/ x \in AndMeaning(M, s, vs)
            \/ \E i \in 2 .. Len(s) - 1 : s[i] = "or" /\ x \in OrAt(M, s, i))
BY DEF OrMeaning, OrAt, Ors

LEMMA AndShape ==
  ASSUME NEW M, Table(M), NEW s \in Seq(Token), NEW vs, AndMeaning(M, s, vs) # {}
  PROVE  AndMeaning(M, s, vs) \subseteq BOOLEAN /\ Balanced(s) /\ Outer(s, "or") = {}
<1>1. ASSUME NEW x \in AndMeaning(M, s, vs) PROVE x \in BOOLEAN /\ Balanced(s) /\ Outer(s, "or") = {}
  <2>1. CASE x \in NotMeaning(M, s, vs)
    BY <2>1, NotShape
  <2>2. CASE x \notin NotMeaning(M, s, vs)
    <3>1. PICK i \in 2 .. Len(s) - 1 : s[i] = "and" /\ x \in AndAt(M, s, i)
      BY <2>2, AndReadings
    <3> QED
      BY <3>1, AndAtShape
  <2> QED
    BY <2>1, <2>2
<1> QED
  BY <1>1

LEMMA OrShape ==
  ASSUME NEW M, Table(M), NEW s \in Seq(Token), NEW vs, OrMeaning(M, s, vs) # {}
  PROVE  OrMeaning(M, s, vs) \subseteq BOOLEAN /\ Balanced(s)
<1>1. ASSUME NEW x \in OrMeaning(M, s, vs) PROVE x \in BOOLEAN /\ Balanced(s)
  <2>1. CASE x \in AndMeaning(M, s, vs)
    BY <2>1, AndShape
  <2>2. CASE x \notin AndMeaning(M, s, vs)
    <3>1. PICK i \in 2 .. Len(s) - 1 : s[i] = "or" /\ x \in OrAt(M, s, i)
      BY <2>2, OrReadings
    <3> QED
      BY <3>1, OrAtShape
  <2> QED
    BY <2>1, <2>2
<1> QED
  BY <1>1

LEMMA ShapeOf ==
  ASSUME NEW M, Table(M), NEW s \in Seq(Token), NEW vs
  PROVE  Readings(Of(M, s, vs)) /\ Shape(s, Of(M, s, vs))
<1>1. NotMeaning(M, s, vs) \subseteq AndMeaning(M, s, vs)
  BY AndReadings
<1>2. AndMeaning(M, s, vs) \subseteq OrMeaning(M, s, vs)
  BY OrReadings
<1>3. OrMeaning(M, s, vs) # {} => OrMeaning(M, s, vs) \subseteq BOOLEAN /\ Balanced(s)
  BY OrShape
<1>4. AndMeaning(M, s, vs) # {} => Outer(s, "or") = {}
  BY AndShape
<1>5. NotMeaning(M, s, vs) # {} => Outer(s, "and") = {}
  BY NotShape
<1> QED
  BY <1>1, <1>2, <1>3, <1>4, <1>5 DEF Readings, Shape, Of

\* A value read agrees with readings.
Value(e, X) == /\ X # {} /\ X \subseteq BOOLEAN /\ e # "invalid"
               /\ e = "true" => X = {TRUE}
               /\ e = "false" => X = {FALSE}

LEMMA OrValue ==
  ASSUME NEW a, NEW b, NEW X, NEW Y, Value(a, X), Value(b, Y)
  PROVE  Value(ShortCircuit(a, "false", b), Ors(X, Y))
<1>1. PICK Z : Z = Ors(X, Y)
  OBVIOUS
<1>2. X # {} /\ Y # {} /\ X \subseteq BOOLEAN /\ Y \subseteq BOOLEAN
  BY DEF Value
<1>3. Z # {} /\ Z \subseteq BOOLEAN
  <2>1. PICK x \in X, y \in Y : TRUE
    BY <1>2
  <2>2. (x \/ y) \in Z
    BY <1>1 DEF Ors
  <2>3. ASSUME NEW z \in Z PROVE z \in BOOLEAN
    <3>1. PICK u \in X, v \in Y : z = (u \/ v)
      BY <1>1 DEF Ors
    <3>2. (u \/ v) \in BOOLEAN
      OBVIOUS
    <3> QED
      BY <3>1, <3>2
  <2> QED
    BY <2>2, <2>3
<1>4. CASE a = "false"
  <2>1. X = {FALSE}
    BY <1>4 DEF Value
  <2>2. ASSUME NEW z \in Z PROVE z \in Y
    <3>1. PICK u \in X, v \in Y : z = (u \/ v)
      BY <1>1 DEF Ors
    <3>2. u = FALSE /\ v \in BOOLEAN
      BY <1>2, <2>1
    <3>3. (u \/ v) = v
      BY <3>2
    <3> QED
      BY <3>1, <3>3
  <2>3. Z \subseteq Y
    BY <2>2
  <2>4. ShortCircuit(a, "false", b) = b
    BY <1>4 DEF ShortCircuit
  <2>5. b # "invalid" /\ (b = "true" => Z = {TRUE}) /\ (b = "false" => Z = {FALSE})
    BY <1>3, <2>3 DEF Value
  <2>6. Value(b, Z)
    BY <1>3, <2>5 DEF Value
  <2> QED
    BY <1>1, <2>4, <2>6
<1>5. CASE a # "false"
  <2>1. ShortCircuit(a, "false", b) = a /\ a # "invalid"
    BY <1>5 DEF ShortCircuit, Value
  <2>2. CASE a = "true"
    <3>1. X = {TRUE}
      BY <2>2 DEF Value
    <3>2. ASSUME NEW z \in Z PROVE z = TRUE
      <4>1. PICK u \in X, v \in Y : z = (u \/ v)
        BY <1>1 DEF Ors
      <4>2. u = TRUE
        BY <3>1
      <4>3. (u \/ v) = TRUE
        BY <4>2
      <4> QED
        BY <4>1, <4>3
    <3>3. Z = {TRUE}
      BY <1>3, <3>2
    <3>4. Value(a, Z)
      BY <1>3, <2>1, <2>2, <3>3 DEF Value
    <3> QED
      BY <1>1, <2>1, <3>4
  <2>3. CASE a # "true"
    <3>1. Value(a, Z)
      BY <1>3, <1>5, <2>1, <2>3 DEF Value
    <3> QED
      BY <1>1, <2>1, <3>1
  <2> QED
    BY <2>2, <2>3
<1> QED
  BY <1>4, <1>5

LEMMA AndValue ==
  ASSUME NEW a, NEW b, NEW X, NEW Y, Value(a, X), Value(b, Y)
  PROVE  Value(ShortCircuit(a, "true", b), Ands(X, Y))
<1>1. PICK Z : Z = Ands(X, Y)
  OBVIOUS
<1>2. X # {} /\ Y # {} /\ X \subseteq BOOLEAN /\ Y \subseteq BOOLEAN
  BY DEF Value
<1>3. Z # {} /\ Z \subseteq BOOLEAN
  <2>1. PICK x \in X, y \in Y : TRUE
    BY <1>2
  <2>2. (x /\ y) \in Z
    BY <1>1 DEF Ands
  <2>3. ASSUME NEW z \in Z PROVE z \in BOOLEAN
    <3>1. PICK u \in X, v \in Y : z = (u /\ v)
      BY <1>1 DEF Ands
    <3>2. (u /\ v) \in BOOLEAN
      OBVIOUS
    <3> QED
      BY <3>1, <3>2
  <2> QED
    BY <2>2, <2>3
<1>4. CASE a = "true"
  <2>1. X = {TRUE}
    BY <1>4 DEF Value
  <2>2. ASSUME NEW z \in Z PROVE z \in Y
    <3>1. PICK u \in X, v \in Y : z = (u /\ v)
      BY <1>1 DEF Ands
    <3>2. u = TRUE /\ v \in BOOLEAN
      BY <1>2, <2>1
    <3>3. (u /\ v) = v
      BY <3>2
    <3> QED
      BY <3>1, <3>3
  <2>3. Z \subseteq Y
    BY <2>2
  <2>4. ShortCircuit(a, "true", b) = b
    BY <1>4 DEF ShortCircuit
  <2>5. b # "invalid" /\ (b = "true" => Z = {TRUE}) /\ (b = "false" => Z = {FALSE})
    BY <1>3, <2>3 DEF Value
  <2>6. Value(b, Z)
    BY <1>3, <2>5 DEF Value
  <2> QED
    BY <1>1, <2>4, <2>6
<1>5. CASE a # "true"
  <2>1. ShortCircuit(a, "true", b) = a /\ a # "invalid"
    BY <1>5 DEF ShortCircuit, Value
  <2>2. CASE a = "false"
    <3>1. X = {FALSE}
      BY <2>2 DEF Value
    <3>2. ASSUME NEW z \in Z PROVE z = FALSE
      <4>1. PICK u \in X, v \in Y : z = (u /\ v)
        BY <1>1 DEF Ands
      <4>2. u = FALSE
        BY <3>1
      <4>3. (u /\ v) = FALSE
        BY <4>2
      <4> QED
        BY <4>1, <4>3
    <3>3. Z = {FALSE}
      BY <1>3, <3>2
    <3>4. Value(a, Z)
      BY <1>3, <2>1, <2>2, <3>3 DEF Value
    <3> QED
      BY <1>1, <2>1, <3>4
  <2>3. CASE a # "false"
    <3>1. Value(a, Z)
      BY <1>3, <1>5, <2>1, <2>3 DEF Value
    <3> QED
      BY <1>1, <2>1, <3>1
  <2> QED
    BY <2>2, <2>3
<1> QED
  BY <1>4, <1>5

LEMMA NotValue ==
  ASSUME NEW a, NEW X, Value(a, X)
  PROVE  Value(Negate(a), {~x : x \in X})
<1>1. PICK Z : Z = {~x : x \in X}
  OBVIOUS
<1>2. X # {} /\ X \subseteq BOOLEAN /\ a # "invalid"
  BY DEF Value
<1>3. Z # {} /\ Z \subseteq BOOLEAN
  BY <1>1, <1>2
<1>4. CASE a = "true"
  <2>1. X = {TRUE} /\ Negate(a) = "false"
    BY <1>4 DEF Value, Negate
  <2>2. \A z \in Z : z = FALSE
    BY <1>1, <2>1
  <2>3. Z = {FALSE}
    BY <1>3, <2>2
  <2> QED
    BY <1>1, <1>3, <2>1, <2>3 DEF Value
<1>5. CASE a = "false"
  <2>1. X = {FALSE} /\ Negate(a) = "true"
    BY <1>5 DEF Value, Negate
  <2>2. \A z \in Z : z = TRUE
    BY <1>1, <2>1
  <2>3. Z = {TRUE}
    BY <1>3, <2>2
  <2> QED
    BY <1>1, <1>3, <2>1, <2>3 DEF Value
<1>6. CASE a # "true" /\ a # "false"
  <2>1. Negate(a) = a
    BY <1>6 DEF Negate
  <2> QED
    BY <1>1, <1>2, <1>3, <1>6, <2>1 DEF Value
<1> QED
  BY <1>4, <1>5, <1>6

\* The cut the descents make is the only one that gives readings.
LEMMA OrCut ==
  ASSUME NEW M, Table(M), NEW s \in Seq(Token), NEW vs, NEW i, i = findOuterToken(s, "or"), i # 0
  PROVE  OrMeaning(M, s, vs) = OrAt(M, s, i)
<1>1. /\ i \in 2 .. Len(s) - 1 /\ s[i] = "or" /\ DepthAt(s)[i] = 0
      /\ \A j \in 2 .. Len(s) - 1 : s[j] = "or" /\ DepthAt(s)[j] = 0 => j =< i
  BY Cut
<1>2. i \in Outer(s, "or")
  BY <1>1 DEF Outer
<1>3. AndMeaning(M, s, vs) = {}
  BY <1>2, AndShape
<1>4. ASSUME NEW j \in 2 .. Len(s) - 1, s[j] = "or", OrAt(M, s, j) # {} PROVE j = i
  <2>1. j \in Outer(s, "or") /\ \A k \in Outer(s, "or") : k =< j
    BY <1>4, OrAtShape
  <2>2. DepthAt(s)[j] = 0
    BY <2>1 DEF Outer
  <2>3. j =< i /\ i =< j
    BY <1>1, <1>2, <1>4, <2>1, <2>2
  <2> QED
    BY <1>1, <2>3
<1>5. ASSUME NEW x PROVE x \in OrMeaning(M, s, vs) <=> x \in OrAt(M, s, i)
  <2>1. CASE x \in OrMeaning(M, s, vs)
    <3>1. PICK j \in 2 .. Len(s) - 1 : s[j] = "or" /\ x \in OrAt(M, s, j)
      BY <1>3, <2>1, OrReadings
    <3>2. j = i
      BY <1>4, <3>1
    <3> QED
      BY <2>1, <3>1, <3>2
  <2>2. CASE x \in OrAt(M, s, i)
    <3>1. x \in OrMeaning(M, s, vs)
      BY <1>1, <2>2, OrReadings
    <3> QED
      BY <2>2, <3>1
  <2> QED
    BY <2>1, <2>2
<1> QED
  BY <1>5

LEMMA NoOrCut ==
  ASSUME NEW M, Table(M), NEW s \in Seq(Token), NEW vs, findOuterToken(s, "or") = 0
  PROVE  OrMeaning(M, s, vs) = AndMeaning(M, s, vs)
<1>1. \A j \in 2 .. Len(s) - 1 : ~(s[j] = "or" /\ DepthAt(s)[j] = 0)
  BY Cut
<1>2. ASSUME NEW j \in 2 .. Len(s) - 1, s[j] = "or", OrAt(M, s, j) # {} PROVE FALSE
  <2>1. j \in Outer(s, "or")
    BY <1>2, OrAtShape
  <2> QED
    BY <1>1, <2>1 DEF Outer
<1>3. ASSUME NEW x PROVE x \in OrMeaning(M, s, vs) <=> x \in AndMeaning(M, s, vs)
  <2>1. ASSUME NEW j \in 2 .. Len(s) - 1, s[j] = "or" PROVE x \notin OrAt(M, s, j)
    BY <1>2, <2>1
  <2> QED
    BY <2>1, OrReadings
<1> QED
  BY <1>3

LEMMA AndCut ==
  ASSUME NEW M, Table(M), NEW s \in Seq(Token), NEW vs, NEW i, i = findOuterToken(s, "and"), i # 0
  PROVE  AndMeaning(M, s, vs) = AndAt(M, s, i)
<1>1. /\ i \in 2 .. Len(s) - 1 /\ s[i] = "and" /\ DepthAt(s)[i] = 0
      /\ \A j \in 2 .. Len(s) - 1 : s[j] = "and" /\ DepthAt(s)[j] = 0 => j =< i
  BY Cut
<1>2. i \in Outer(s, "and")
  BY <1>1 DEF Outer
<1>3. NotMeaning(M, s, vs) = {}
  BY <1>2, NotShape
<1>4. ASSUME NEW j \in 2 .. Len(s) - 1, s[j] = "and", AndAt(M, s, j) # {} PROVE j = i
  <2>1. j \in Outer(s, "and") /\ \A k \in Outer(s, "and") : k =< j
    BY <1>4, AndAtShape
  <2>2. DepthAt(s)[j] = 0
    BY <2>1 DEF Outer
  <2>3. j =< i /\ i =< j
    BY <1>1, <1>2, <1>4, <2>1, <2>2
  <2> QED
    BY <1>1, <2>3
<1>5. ASSUME NEW x PROVE x \in AndMeaning(M, s, vs) <=> x \in AndAt(M, s, i)
  <2>1. CASE x \in AndMeaning(M, s, vs)
    <3>1. PICK j \in 2 .. Len(s) - 1 : s[j] = "and" /\ x \in AndAt(M, s, j)
      BY <1>3, <2>1, AndReadings
    <3>2. j = i
      BY <1>4, <3>1
    <3> QED
      BY <2>1, <3>1, <3>2
  <2>2. CASE x \in AndAt(M, s, i)
    <3>1. x \in AndMeaning(M, s, vs)
      BY <1>1, <2>2, AndReadings
    <3> QED
      BY <2>2, <3>1
  <2> QED
    BY <2>1, <2>2
<1> QED
  BY <1>5

LEMMA NoAndCut ==
  ASSUME NEW M, Table(M), NEW s \in Seq(Token), NEW vs, findOuterToken(s, "and") = 0
  PROVE  AndMeaning(M, s, vs) = NotMeaning(M, s, vs)
<1>1. \A j \in 2 .. Len(s) - 1 : ~(s[j] = "and" /\ DepthAt(s)[j] = 0)
  BY Cut
<1>2. ASSUME NEW j \in 2 .. Len(s) - 1, s[j] = "and", AndAt(M, s, j) # {} PROVE FALSE
  <2>1. j \in Outer(s, "and")
    BY <1>2, AndAtShape
  <2> QED
    BY <1>1, <2>1 DEF Outer
<1>3. ASSUME NEW x PROVE x \in AndMeaning(M, s, vs) <=> x \in NotMeaning(M, s, vs)
  <2>1. ASSUME NEW j \in 2 .. Len(s) - 1, s[j] = "and" PROVE x \notin AndAt(M, s, j)
    BY <1>2, <2>1
  <2> QED
    BY <2>1, AndReadings
<1> QED
  BY <1>3

\* Cuts of the parts are cuts of the whole.
LEMMA AfterCut ==
  ASSUME NEW s \in Seq(Token), NEW i \in 2 .. Len(s) - 1, s[i] \in {"or", "and"}, DepthAt(s)[i] = 0,
         Balanced(After(s, i)), NEW tok, findOuterToken(After(s, i), tok) # 0
  PROVE  findOuterToken(s, tok) > i
<1>0. i \in 1 .. Len(s)
  OBVIOUS
<1>1. PICK p : p = After(s, i)
  OBVIOUS
<1>2. p \in Seq(Token) /\ Len(p) = Len(s) - i /\ \A j \in 1 .. Len(s) - i : p[j] = s[i + j]
  <2>1. /\ After(s, i) \in Seq(Token) /\ Len(After(s, i)) = Len(s) - i
        /\ \A j \in 1 .. Len(s) - i : After(s, i)[j] = s[i + j]
    BY <1>0, Pieces
  <2> QED
    BY <1>1, <2>1
<1>3. PICK k : k = findOuterToken(p, tok) /\ k # 0
  BY <1>1
<1>4. k \in 2 .. Len(p) - 1 /\ p[k] = tok /\ DepthAt(p)[k] = 0
  BY <1>2, <1>3, Cut
<1>5. \A j \in 0 .. Len(s) - i : DepthAt(s)[i + j] = DepthAt(p)[j]
  BY <1>1, CutOuter
<1>6. k \in 1 .. Len(s) - i /\ k \in 0 .. Len(s) - i /\ i + k \in 2 .. Len(s) - 1 /\ i + k > i
  BY <1>2, <1>4
<1>7. s[i + k] = tok /\ DepthAt(s)[i + k] = 0
  BY <1>2, <1>4, <1>5, <1>6
<1>8. PICK f : f = findOuterToken(s, tok)
  OBVIOUS
<1>9. \/ f = 0 /\ \A j \in 2 .. Len(s) - 1 : ~(s[j] = tok /\ DepthAt(s)[j] = 0)
      \/ f \in 2 .. Len(s) - 1 /\ \A j \in 2 .. Len(s) - 1 : s[j] = tok /\ DepthAt(s)[j] = 0 => j =< f
  BY <1>8, Cut
<1> QED
  BY <1>6, <1>7, <1>8, <1>9

LEMMA BeforeCut ==
  ASSUME NEW s \in Seq(Token), NEW i \in 2 .. Len(s) - 1, s[i] \in {"or", "and"},
         Balanced(Before(s, i)), NEW tok, findOuterToken(Before(s, i), tok) # 0
  PROVE  findOuterToken(s, tok) # 0
<1>0. i \in 1 .. Len(s)
  OBVIOUS
<1>1. PICK p : p = Before(s, i)
  OBVIOUS
<1>2. p \in Seq(Token) /\ Len(p) = i - 1 /\ \A j \in 1 .. i - 1 : p[j] = s[j]
  BY <1>0, <1>1, Pieces
<1>3. PICK k : k = findOuterToken(p, tok) /\ k # 0
  BY <1>1
<1>4. k \in 2 .. Len(p) - 1 /\ p[k] = tok /\ DepthAt(p)[k] = 0
  BY <1>2, <1>3, Cut
<1>5. \A j \in 1 .. i - 1 : DepthAt(s)[j] = DepthAt(p)[j]
  BY <1>1, CutDepth
<1>6. k \in 1 .. i - 1 /\ k \in 2 .. Len(s) - 1
  BY <1>2, <1>4
<1>7. s[k] = tok /\ DepthAt(s)[k] = 0
  BY <1>2, <1>4, <1>5, <1>6
<1>8. PICK f : f = findOuterToken(s, tok)
  OBVIOUS
<1>9. \/ f = 0 /\ \A j \in 2 .. Len(s) - 1 : ~(s[j] = tok /\ DepthAt(s)[j] = 0)
      \/ f \in 2 .. Len(s) - 1
  BY <1>8, Cut
<1> QED
  BY <1>6, <1>7, <1>8, <1>9

LEMMA TailCut ==
  ASSUME NEW s \in Seq(Token), Len(s) > 1, s[1] = "not", Balanced(Tail(s)), NEW tok,
         findOuterToken(Tail(s), tok) # 0
  PROVE  findOuterToken(s, tok) # 0
<1>1. PICK p : p = Tail(s)
  OBVIOUS
<1>2. p \in Seq(Token) /\ Len(p) = Len(s) - 1 /\ \A j \in 1 .. Len(s) - 1 : p[j] = s[1 + j]
  <2>1. s # <<>>
    OBVIOUS
  <2>2. Tail(s) \in Seq(Token) /\ Len(Tail(s)) = Len(s) - 1
    BY <2>1
  <2>3. \A j \in 1 .. Len(s) - 1 : Tail(s)[j] = s[1 + j]
    BY <2>1
  <2> QED
    BY <1>1, <2>2, <2>3
<1>3. PICK k : k = findOuterToken(p, tok) /\ k # 0
  BY <1>1
<1>4. k \in 2 .. Len(p) - 1 /\ p[k] = tok /\ DepthAt(p)[k] = 0
  BY <1>2, <1>3, Cut
<1>5. \A j \in 1 .. Len(s) - 1 : DepthAt(s)[1 + j] = DepthAt(p)[j]
  BY <1>1, Negated
<1>6. k \in 1 .. Len(s) - 1 /\ 1 + k \in 2 .. Len(s) - 1
  BY <1>2, <1>4
<1>7. s[1 + k] = tok /\ DepthAt(s)[1 + k] = 0
  BY <1>2, <1>4, <1>5, <1>6
<1>8. PICK f : f = findOuterToken(s, tok)
  OBVIOUS
<1>9. \/ f = 0 /\ \A j \in 2 .. Len(s) - 1 : ~(s[j] = tok /\ DepthAt(s)[j] = 0)
      \/ f \in 2 .. Len(s) - 1
  BY <1>8, Cut
<1> QED
  BY <1>6, <1>7, <1>8, <1>9

\* What the descent of the runtime reads agrees with the readings.
Agrees(s, e, m) ==
  /\ Value(e, m.or)
  /\ findOuterToken(s, "or") = 0 => m.and = m.or
  /\ findOuterToken(s, "or") = 0 /\ findOuterToken(s, "and") = 0 => m.not = m.or

\* One turn of the three descents over a text.
LEMMA TextAgrees ==
  ASSUME NEW V, NEW E, NEW M, Table(M), NEW s \in Seq(Token), NEW vs, NEW d, ValidText(V, s, d),
         \A p \in Seq(Token) : Len(p) < Len(s) /\ V[p][d] => Agrees(p, E[p], M[p])
  PROVE  Agrees(s, evalText(E, s, vs), Of(M, s, vs))
<1>1. PICK or : or = findOuterToken(s, "or")
  OBVIOUS
<1>2. PICK and : and = findOuterToken(s, "and")
  OBVIOUS
<1>3. or = 0 \/ (or \in 2 .. Len(s) - 1 /\ s[or] = "or" /\ DepthAt(s)[or] = 0)
  BY <1>1, Cut
<1>4. and = 0 \/ (and \in 2 .. Len(s) - 1 /\ s[and] = "and" /\ DepthAt(s)[and] = 0)
  BY <1>2, Cut
<1>5. evalText(E, s, vs) = evalAt(E, s, or, and, vs) /\ ValidAt(V, s, or, and, d)
  BY <1>1, <1>2 DEF evalText, ValidText
<1>6. ASSUME NEW i \in 2 .. Len(s) - 1, V[Before(s, i)][d], V[After(s, i)][d]
      PROVE  /\ Agrees(Before(s, i), E[Before(s, i)], M[Before(s, i)])
             /\ Agrees(After(s, i), E[After(s, i)], M[After(s, i)])
             /\ Balanced(Before(s, i)) /\ Balanced(After(s, i))
  <2>1. i \in 1 .. Len(s)
    OBVIOUS
  <2>2. PICK p : p = Before(s, i)
    OBVIOUS
  <2>3. PICK q : q = After(s, i)
    OBVIOUS
  <2>4. p \in Seq(Token) /\ Len(p) = i - 1 /\ q \in Seq(Token) /\ Len(q) = Len(s) - i
    BY <2>1, <2>2, <2>3, Pieces
  <2>5. Len(p) < Len(s) /\ Len(q) < Len(s)
    BY <2>4
  <2>6. V[p][d] /\ V[q][d]
    BY <1>6, <2>2, <2>3
  <2>7. Agrees(p, E[p], M[p]) /\ Agrees(q, E[q], M[q])
    BY <2>4, <2>5, <2>6
  <2>8. M[p].or # {} /\ M[q].or # {}
    BY <2>7 DEF Agrees, Value
  <2>9. Shape(p, M[p]) /\ Shape(q, M[q])
    BY <2>4 DEF Table
  <2>10. Balanced(p) /\ Balanced(q)
    BY <2>8, <2>9 DEF Shape
  <2> QED
    BY <2>2, <2>3, <2>7, <2>10
<1>7. CASE or # 0
  <2>1. or \in 2 .. Len(s) - 1 /\ s[or] = "or" /\ DepthAt(s)[or] = 0 /\ or > 0
    BY <1>3, <1>7
  <2>2. PICK p : p = Before(s, or)
    OBVIOUS
  <2>3. PICK q : q = After(s, or)
    OBVIOUS
  <2>4. V[p][d] /\ V[q][d]
    BY <1>5, <2>1, <2>2, <2>3 DEF ValidAt
  <2>5. Agrees(p, E[p], M[p]) /\ Agrees(q, E[q], M[q]) /\ Balanced(q)
    BY <1>6, <2>1, <2>2, <2>3, <2>4
  <2>6. findOuterToken(q, "or") = 0
    <3>1. findOuterToken(q, "or") # 0 => or > or
      BY <1>1, <2>1, <2>3, <2>5, AfterCut
    <3> QED
      BY <2>1, <3>1
  <2>7. Value(E[p], M[p].or) /\ Value(E[q], M[q].and)
    BY <2>5, <2>6 DEF Agrees
  <2>8. Value(ShortCircuit(E[p], "false", E[q]), Ors(M[p].or, M[q].and))
    BY <2>7, OrValue
  <2>9. OrMeaning(M, s, vs) = Ors(M[p].or, M[q].and)
    BY <1>1, <1>7, <2>2, <2>3, OrCut DEF OrAt
  <2>10. evalText(E, s, vs) = ShortCircuit(E[p], "false", E[q])
    BY <1>5, <2>1, <2>2, <2>3 DEF evalAt
  <2>11. Of(M, s, vs).or = OrMeaning(M, s, vs)
    BY DEF Of
  <2> QED
    BY <1>1, <1>7, <2>8, <2>9, <2>10, <2>11 DEF Agrees
<1>8. CASE or = 0 /\ and # 0
  <2>1. and \in 2 .. Len(s) - 1 /\ s[and] = "and" /\ DepthAt(s)[and] = 0 /\ and > 0
    BY <1>4, <1>8
  <2>2. PICK p : p = Before(s, and)
    OBVIOUS
  <2>3. PICK q : q = After(s, and)
    OBVIOUS
  <2>4. V[p][d] /\ V[q][d]
    BY <1>5, <1>8, <2>1, <2>2, <2>3 DEF ValidAt
  <2>5. Agrees(p, E[p], M[p]) /\ Agrees(q, E[q], M[q]) /\ Balanced(p) /\ Balanced(q)
    BY <1>6, <2>1, <2>2, <2>3, <2>4
  <2>6. findOuterToken(q, "or") = 0 /\ findOuterToken(q, "and") = 0
    <3>1. findOuterToken(q, "or") # 0 => or > and
      BY <1>1, <2>1, <2>3, <2>5, AfterCut
    <3>2. findOuterToken(q, "and") # 0 => and > and
      BY <1>2, <2>1, <2>3, <2>5, AfterCut
    <3> QED
      BY <1>8, <2>1, <3>1, <3>2
  <2>7. findOuterToken(p, "or") = 0
    BY <1>1, <1>8, <2>1, <2>2, <2>5, BeforeCut
  <2>8. Value(E[p], M[p].and) /\ Value(E[q], M[q].not)
    BY <2>5, <2>6, <2>7 DEF Agrees
  <2>9. Value(ShortCircuit(E[p], "true", E[q]), Ands(M[p].and, M[q].not))
    BY <2>8, AndValue
  <2>10. AndMeaning(M, s, vs) = Ands(M[p].and, M[q].not)
    BY <1>2, <1>8, <2>2, <2>3, AndCut DEF AndAt
  <2>11. evalText(E, s, vs) = ShortCircuit(E[p], "true", E[q])
    BY <1>5, <1>8, <2>1, <2>2, <2>3 DEF evalAt
  <2>12. OrMeaning(M, s, vs) = AndMeaning(M, s, vs)
    BY <1>1, <1>8, NoOrCut
  <2>13. Of(M, s, vs).or = OrMeaning(M, s, vs) /\ Of(M, s, vs).and = AndMeaning(M, s, vs)
    BY DEF Of
  <2> QED
    BY <1>2, <1>8, <2>9, <2>10, <2>11, <2>12, <2>13 DEF Agrees
<1>9. CASE or = 0 /\ and = 0
  <2>1. OrMeaning(M, s, vs) = NotMeaning(M, s, vs) /\ AndMeaning(M, s, vs) = NotMeaning(M, s, vs)
    BY <1>1, <1>2, <1>9, NoOrCut, NoAndCut
  <2>2. Of(M, s, vs).or = NotMeaning(M, s, vs) /\ Of(M, s, vs).and = NotMeaning(M, s, vs) /\ Of(M, s, vs).not = NotMeaning(M, s, vs)
    BY <2>1 DEF Of
  <2>3. Value(evalText(E, s, vs), NotMeaning(M, s, vs))
    <3>1. CASE Len(s) > 1
      <4>1. PICK p : p = Tail(s)
        OBVIOUS
      <4>2. s[1] = "not" /\ V[p][d]
        BY <1>5, <1>9, <3>1, <4>1 DEF ValidAt
      <4>3. p \in Seq(Token) /\ Len(p) < Len(s)
        <5>1. s # <<>>
          BY <3>1
        <5>2. Tail(s) \in Seq(Token) /\ Len(Tail(s)) = Len(s) - 1
          BY <5>1
        <5> QED
          BY <4>1, <5>2
      <4>4. Agrees(p, E[p], M[p])
        BY <4>2, <4>3
      <4>5. Balanced(p)
        <5>1. M[p].or # {} /\ Shape(p, M[p])
          BY <4>3, <4>4 DEF Table, Agrees, Value
        <5> QED
          BY <5>1 DEF Shape
      <4>6. findOuterToken(p, "or") = 0 /\ findOuterToken(p, "and") = 0
        BY <1>1, <1>2, <1>9, <3>1, <4>1, <4>2, <4>5, TailCut
      <4>7. Value(E[p], M[p].not)
        BY <4>4, <4>6 DEF Agrees
      <4>8. Value(Negate(E[p]), {~x : x \in M[p].not})
        BY <4>7, NotValue
      <4>9. evalText(E, s, vs) = Negate(E[p])
        BY <1>5, <1>9, <3>1, <4>1, <4>2 DEF evalAt
      <4>10. NotMeaning(M, s, vs) = {~x : x \in M[p].not}
        BY <3>1, <4>1, <4>2 DEF NotMeaning
      <4> QED
        BY <4>8, <4>9, <4>10
    <3>2. CASE ~(Len(s) > 1)
      <4>1. s # <<>> /\ s[1] \in DOMAIN Simple
        BY <1>5, <1>9, <3>2 DEF ValidAt
      <4>2. Len(s) = 1
        <5>1. PICK k : k = Len(s)
          OBVIOUS
        <5>2. k \in Nat /\ k # 0
          BY <4>1, <5>1, EmptySeq
        <5>3. ~(k > 1)
          BY <3>2, <5>1
        <5>4. k = 1
          BY <5>2, <5>3
        <5> QED
          BY <5>1, <5>4
      <4>3. PICK e : e = evalSimpleCondition(s[1], vs)
        OBVIOUS
      <4>4. e \in Reads \ {"invalid"}
        BY <4>1, <4>3, SimpleReads
      <4>5. evalText(E, s, vs) = e
        BY <1>5, <1>9, <3>2, <4>1, <4>3 DEF evalAt
      <4>6. NotMeaning(M, s, vs) = {e = "true"}
        BY <4>1, <4>2, <4>3 DEF NotMeaning
      <4>7. (e = "true") \in BOOLEAN
        OBVIOUS
      <4>8. Value(e, {e = "true"})
        <5>1. CASE e = "true"
          <6>1. (e = "true") = TRUE
            BY <5>1
          <6> QED
            BY <5>1, <6>1 DEF Value
        <5>2. CASE e # "true"
          <6>1. (e = "true") = FALSE
            BY <5>2
          <6> QED
            BY <4>4, <5>2, <6>1 DEF Value
        <5> QED
          BY <5>1, <5>2
      <4> QED
        BY <4>5, <4>6, <4>8
    <3> QED
      BY <3>1, <3>2
  <2> QED
    BY <2>2, <2>3 DEF Agrees
<1> QED
  BY <1>7, <1>8, <1>9

\* Parentheses around a whole text change nothing.
LEMMA StripAgrees ==
  ASSUME NEW M, Table(M), NEW s \in Seq(Token), NEW vs, NEW e, NEW t, t = stripOuterParens(s), t # s, Len(t) > 0,
         Agrees(t, e, M[t])
  PROVE  Agrees(s, e, Of(M, s, vs))
<1>1. /\ Len(s) >= 2 /\ s[1] = "(" /\ s[Len(s)] = ")" /\ \A j \in 1 .. Len(s) - 1 : DepthAt(s)[j] > 0
      /\ t = Inside(s)
  BY DEF stripOuterParens, Inside
<1>2. Len(s) > 2
  <2>0. PICK k \in Nat : k = Len(s)
    OBVIOUS
  <2>1. SUFFICES ASSUME k = 2 PROVE FALSE
    <3>1. k >= 2
      BY <1>1, <2>0
    <3>2. k # 2 => k > 2
      BY <3>1
    <3> QED
      BY <2>0, <3>2
  <2>2. SubSeq(s, 2, 1) = <<>>
    OBVIOUS
  <2>3. t = <<>>
    BY <1>1, <2>0, <2>1, <2>2 DEF Inside
  <2> QED
    BY <2>3
<1>3. NotMeaning(M, s, vs) = M[t].or
  BY <1>1, <1>2 DEF NotMeaning, Inside
<1>4. ASSUME NEW tok PROVE findOuterToken(s, tok) = 0
  <2>1. PICK f : f = findOuterToken(s, tok)
    OBVIOUS
  <2>2. f = 0 \/ (f \in 2 .. Len(s) - 1 /\ DepthAt(s)[f] = 0)
    BY <2>1, Cut
  <2>3. f \in 2 .. Len(s) - 1 => f \in 1 .. Len(s) - 1
    OBVIOUS
  <2> QED
    BY <1>1, <2>1, <2>2, <2>3
<1>5. OrMeaning(M, s, vs) = M[t].or /\ AndMeaning(M, s, vs) = M[t].or
  BY <1>3, <1>4, NoOrCut, NoAndCut
<1>6. Value(e, M[t].or)
  BY DEF Agrees
<1>7. PICK m : m = Of(M, s, vs)
  OBVIOUS
<1>8. m.or = M[t].or /\ m.and = M[t].or /\ m.not = M[t].or
  BY <1>3, <1>5, <1>7 DEF Of
<1>9. Agrees(s, e, m)
  BY <1>6, <1>8 DEF Agrees
<1> QED
  BY <1>7, <1>9

\* A text, stripped of one pair of parentheses or not.
LEMMA TurnAgrees ==
  ASSUME NEW V, NEW E, NEW M, Table(M), NEW s \in Seq(Token), NEW vs, NEW d, NEW t, t = stripOuterParens(s),
         ValidText(V, t, d),
         t = s => \A p \in Seq(Token) : Len(p) < Len(s) /\ V[p][d] => Agrees(p, E[p], M[p]),
         NEW L, Table(L), t # s => M[t] = Of(L, t, vs),
         t # s => \A p \in Seq(Token) : Len(p) < Len(t) /\ V[p][d] => Agrees(p, E[p], L[p])
  PROVE  Agrees(s, evalText(E, t, vs), Of(M, s, vs))
<1>1. t \in Seq(Token)
  BY Stripped
<1>2. CASE t = s
  <2>1. ValidText(V, s, d)
    BY <1>2
  <2>2. \A p \in Seq(Token) : Len(p) < Len(s) /\ V[p][d] => Agrees(p, E[p], M[p])
    BY <1>2
  <2>3. Agrees(s, evalText(E, s, vs), Of(M, s, vs))
    BY <2>1, <2>2, TextAgrees
  <2> QED
    BY <1>2, <2>3
<1>3. CASE t # s
  <2>1. Agrees(t, evalText(E, t, vs), Of(L, t, vs))
    BY <1>1, <1>3, TextAgrees
  <2>2. Agrees(t, evalText(E, t, vs), M[t])
    BY <1>3, <2>1
  <2>3. t # <<>>
    <3>1. SUFFICES ASSUME t = <<>> PROVE FALSE
      OBVIOUS
    <3>2. PICK or : or = findOuterToken(t, "or")
      OBVIOUS
    <3>3. PICK and : and = findOuterToken(t, "and")
      OBVIOUS
    <3>4. Len(t) = 0
      BY <3>1
    <3>5. or = 0 /\ and = 0
      <4>1. or = 0 \/ or \in 2 .. Len(t) - 1
        BY <1>1, <3>2, Cut
      <4>2. and = 0 \/ and \in 2 .. Len(t) - 1
        BY <1>1, <3>3, Cut
      <4> QED
        BY <3>4, <4>1, <4>2
    <3>6. ~ValidAt(V, t, 0, 0, d)
      BY <3>1, <3>4 DEF ValidAt
    <3> QED
      BY <3>2, <3>3, <3>5, <3>6 DEF ValidText
  <2>4. Len(t) > 0
    BY <1>1, <2>3, EmptySeq
  <2> QED
    BY <1>3, <2>2, <2>4, StripAgrees
<1> QED
  BY <1>2, <1>3


Unread == [not |-> {}, and |-> {}, or |-> {}]

\* What the parser says of texts, by how many turns it may take.
ValidBy(f, n) ==
  f = [i \in 0 .. n |-> IF i = 0 THEN [s \in Seq(Token) |-> [d \in Nat |-> FALSE]] ELSE [s \in Seq(Token) |-> [d \in Nat |-> d =< MaxDepth /\ ValidText(f[i - 1], stripOuterParens(s), d + 1)]]]

LEMMA ValidByExists ==
  ASSUME NEW n \in Nat
  PROVE  \E f : ValidBy(f, n)
<1> DEFINE Next1(r, i) == [s \in Seq(Token) |-> [d \in Nat |-> d =< MaxDepth /\ ValidText(r, stripOuterParens(s), d + 1)]]
           base == [s \in Seq(Token) |-> [d \in Nat |-> FALSE]]
           Eq(f, m) == f = [i \in 0 .. m |-> IF i = 0 THEN base ELSE Next1(f[i - 1], i)]
           S == {m \in Nat : \E f : Eq(f, m)}
<1>0. \A f : Eq(f, n) => ValidBy(f, n)
  BY DEF ValidBy
<1> HIDE DEF base, Next1
<1>1. 0 \in S
  <2> DEFINE f == [i \in 0 .. 0 |-> base]
  <2>1. Eq(f, 0)
    <3>1. \A i \in 0 .. 0 : i = 0
      OBVIOUS
    <3> QED
      BY <3>1
  <2> HIDE DEF f, Eq
  <2> QED
    BY <2>1
<1>2. ASSUME NEW m \in Nat, m \in S
      PROVE  m + 1 \in S
  <2>1. PICK f : Eq(f, m)
    BY <1>2
  <2> DEFINE g == [i \in 0 .. m + 1 |-> IF i = m + 1 THEN Next1(f[m], m + 1) ELSE f[i]]
  <2>2. \A i \in 0 .. m : f[i] = IF i = 0 THEN base ELSE Next1(f[i - 1], i)
    BY <2>1
  <2>3. \A i \in 0 .. m + 1 : g[i] = IF i = 0 THEN base ELSE Next1(g[i - 1], i)
    <3> SUFFICES ASSUME NEW i \in 0 .. m + 1
                 PROVE  g[i] = IF i = 0 THEN base ELSE Next1(g[i - 1], i)
      OBVIOUS
    <3>1. CASE i = m + 1
      <4>1. g[i - 1] = f[m] /\ i # 0
        BY <3>1
      <4> QED
        BY <3>1, <4>1
    <3>2. CASE i # m + 1
      <4>1. i \in 0 .. m /\ (i # 0 => i - 1 \in 0 .. m /\ i - 1 # m + 1)
        BY <3>2
      <4>2. i # 0 => g[i - 1] = f[i - 1]
        BY <4>1
      <4> QED
        BY <2>2, <3>2, <4>1, <4>2
    <3> QED
      BY <3>1, <3>2
  <2>4. Eq(g, m + 1)
    BY <2>3
  <2> HIDE DEF g, Eq
  <2> QED
    BY <2>4
<1>3. n \in S
  BY <1>1, <1>2, Counting
<1>4. PICK f : Eq(f, n)
  BY <1>3
<1> HIDE DEF Eq
<1> QED
  BY <1>0, <1>4

LEMMA ValidBySteps ==
  ASSUME NEW n \in Nat, NEW f, ValidBy(f, n)
  PROVE  f[0] = [s \in Seq(Token) |-> [d \in Nat |-> FALSE]] /\ \A i \in 1 .. n : f[i] = [s \in Seq(Token) |-> [d \in Nat |-> d =< MaxDepth /\ ValidText(f[i - 1], stripOuterParens(s), d + 1)]]
<1> DEFINE body(i) == IF i = 0 THEN [s \in Seq(Token) |-> [d \in Nat |-> FALSE]] ELSE [s \in Seq(Token) |-> [d \in Nat |-> d =< MaxDepth /\ ValidText(f[i - 1], stripOuterParens(s), d + 1)]]
<1>1. f = [i \in 0 .. n |-> body(i)]
  BY DEF ValidBy
<1> HIDE DEF body
<1>2. \A i \in 0 .. n : f[i] = body(i)
  BY <1>1
<1>3. 0 \in 0 .. n /\ \A i \in 1 .. n : i \in 0 .. n /\ i # 0
  OBVIOUS
<1>4. body(0) = [s \in Seq(Token) |-> [d \in Nat |-> FALSE]]
  BY DEF body
<1>5. \A i \in 1 .. n : body(i) = [s \in Seq(Token) |-> [d \in Nat |-> d =< MaxDepth /\ ValidText(f[i - 1], stripOuterParens(s), d + 1)]]
  BY <1>3 DEF body
<1> QED
  BY <1>2, <1>3, <1>4, <1>5

\* The readings of texts, by how many parts within parts.
MeansBy(f, n, vs) ==
  f = [i \in 0 .. n |-> IF i = 0 THEN [s \in Seq(Token) |-> Unread] ELSE [s \in Seq(Token) |-> Of(f[i - 1], s, vs)]]

LEMMA MeansByExists ==
  ASSUME NEW n \in Nat, NEW vs
  PROVE  \E f : MeansBy(f, n, vs)
<1> DEFINE Next1(r, i) == [s \in Seq(Token) |-> Of(r, s, vs)]
           base == [s \in Seq(Token) |-> Unread]
           Eq(f, m) == f = [i \in 0 .. m |-> IF i = 0 THEN base ELSE Next1(f[i - 1], i)]
           S == {m \in Nat : \E f : Eq(f, m)}
<1>0. \A f : Eq(f, n) => MeansBy(f, n, vs)
  BY DEF MeansBy
<1> HIDE DEF base, Next1
<1>1. 0 \in S
  <2> DEFINE f == [i \in 0 .. 0 |-> base]
  <2>1. Eq(f, 0)
    <3>1. \A i \in 0 .. 0 : i = 0
      OBVIOUS
    <3> QED
      BY <3>1
  <2> HIDE DEF f, Eq
  <2> QED
    BY <2>1
<1>2. ASSUME NEW m \in Nat, m \in S
      PROVE  m + 1 \in S
  <2>1. PICK f : Eq(f, m)
    BY <1>2
  <2> DEFINE g == [i \in 0 .. m + 1 |-> IF i = m + 1 THEN Next1(f[m], m + 1) ELSE f[i]]
  <2>2. \A i \in 0 .. m : f[i] = IF i = 0 THEN base ELSE Next1(f[i - 1], i)
    BY <2>1
  <2>3. \A i \in 0 .. m + 1 : g[i] = IF i = 0 THEN base ELSE Next1(g[i - 1], i)
    <3> SUFFICES ASSUME NEW i \in 0 .. m + 1
                 PROVE  g[i] = IF i = 0 THEN base ELSE Next1(g[i - 1], i)
      OBVIOUS
    <3>1. CASE i = m + 1
      <4>1. g[i - 1] = f[m] /\ i # 0
        BY <3>1
      <4> QED
        BY <3>1, <4>1
    <3>2. CASE i # m + 1
      <4>1. i \in 0 .. m /\ (i # 0 => i - 1 \in 0 .. m /\ i - 1 # m + 1)
        BY <3>2
      <4>2. i # 0 => g[i - 1] = f[i - 1]
        BY <4>1
      <4> QED
        BY <2>2, <3>2, <4>1, <4>2
    <3> QED
      BY <3>1, <3>2
  <2>4. Eq(g, m + 1)
    BY <2>3
  <2> HIDE DEF g, Eq
  <2> QED
    BY <2>4
<1>3. n \in S
  BY <1>1, <1>2, Counting
<1>4. PICK f : Eq(f, n)
  BY <1>3
<1> HIDE DEF Eq
<1> QED
  BY <1>0, <1>4

LEMMA MeansBySteps ==
  ASSUME NEW n \in Nat, NEW vs, NEW f, MeansBy(f, n, vs)
  PROVE  f[0] = [s \in Seq(Token) |-> Unread] /\ \A i \in 1 .. n : f[i] = [s \in Seq(Token) |-> Of(f[i - 1], s, vs)]
<1> DEFINE body(i) == IF i = 0 THEN [s \in Seq(Token) |-> Unread] ELSE [s \in Seq(Token) |-> Of(f[i - 1], s, vs)]
<1>1. f = [i \in 0 .. n |-> body(i)]
  BY DEF MeansBy
<1> HIDE DEF body
<1>2. \A i \in 0 .. n : f[i] = body(i)
  BY <1>1
<1>3. 0 \in 0 .. n /\ \A i \in 1 .. n : i \in 0 .. n /\ i # 0
  OBVIOUS
<1>4. body(0) = [s \in Seq(Token) |-> Unread]
  BY DEF body
<1>5. \A i \in 1 .. n : body(i) = [s \in Seq(Token) |-> Of(f[i - 1], s, vs)]
  BY <1>3 DEF body
<1> QED
  BY <1>2, <1>3, <1>4, <1>5

LEMMA EvalSteps ==
  ASSUME NEW n \in Nat, NEW vs, NEW E, EvalBy(E, n, Seq(Token), vs)
  PROVE  /\ E[0] = [s \in Seq(Token) |-> "invalid"]
         /\ \A i \in 1 .. n : E[i] = [s \in Seq(Token) |-> evalText(E[i - 1], stripOuterParens(s), vs)]
<1>1. PICK T : T = Seq(Token)
  OBVIOUS
<1>2. EvalBy(E, n, T, vs)
  BY <1>1
<1>3. /\ E[0] = [s \in T |-> "invalid"]
      /\ \A i \in 1 .. n : E[i] = [s \in T |-> evalText(E[i - 1], stripOuterParens(s), vs)]
  BY <1>2, EvalBySteps
<1> QED
  BY <1>1, <1>3

LEMMA MeansSteps ==
  ASSUME NEW n \in Nat, NEW vs, NEW M, MeansBy(M, n, vs)
  PROVE  /\ M[0] = [s \in Seq(Token) |-> Unread]
         /\ \A i \in 1 .. n : M[i] = [s \in Seq(Token) |-> Of(M[i - 1], s, vs)]
BY MeansBySteps

LEMMA StripsTwo ==
  ASSUME NEW s \in Seq(Token), stripOuterParens(s) # s
  PROVE  /\ Len(s) >= 2 /\ stripOuterParens(s) \in Seq(Token)
         /\ Len(stripOuterParens(s)) =< Len(s) - 2
<1>1. Len(s) >= 2 /\ stripOuterParens(s) = SubSeq(s, 2, Len(s) - 1)
  BY DEF stripOuterParens
<1>2. stripOuterParens(s) \in Seq(Token)
  BY Stripped
<1>3. CASE Len(s) = 2
  <2>1. SubSeq(s, 2, 1) = <<>>
    OBVIOUS
  <2>2. stripOuterParens(s) = <<>>
    BY <1>1, <1>3, <2>1
  <2> QED
    BY <1>1, <1>2, <1>3, <2>2
<1>4. CASE Len(s) > 2
  BY <1>1, <1>2, <1>4, InsideOf DEF Inside
<1> QED
  BY <1>1, <1>3, <1>4

LEMMA ValidIs ==
  ASSUME NEW c \in Seq(Token)
  PROVE  \E f : ValidBy(f, Len(c)) /\ validateCondition(c) = f[Len(c)][c][0]
<1> DEFINE g == CHOOSE f : ValidBy(f, Len(c))
<1>1. Len(c) \in Nat
  OBVIOUS
<1>2. ValidBy(g, Len(c))
  BY <1>1, ValidByExists
<1>3. validateCondition(c) = g[Len(c)][c][0]
  BY DEF validateCondition, Valid, ValidBy
<1> QED
  BY <1>2, <1>3

LEMMA MeansIs ==
  ASSUME NEW c \in Seq(Token), NEW vs
  PROVE  \E f : MeansBy(f, Len(c), vs) /\ Meaning(c, vs) = f[Len(c)][c].or
<1> DEFINE g == CHOOSE f : MeansBy(f, Len(c), vs)
<1>1. Len(c) \in Nat
  OBVIOUS
<1>2. MeansBy(g, Len(c), vs)
  BY <1>1, MeansByExists
<1>3. Meaning(c, vs) = g[Len(c)][c].or
  BY DEF Meaning, MeansBy, Of, Unread
<1> QED
  BY <1>2, <1>3

LEMMA MeansTable ==
  ASSUME NEW n \in Nat, NEW f, NEW vs, MeansBy(f, n, vs)
  PROVE  \A i \in 0 .. n : Table(f[i])
<1>0. /\ f[0] = [s \in Seq(Token) |-> Unread]
      /\ \A i \in 1 .. n : f[i] = [s \in Seq(Token) |-> Of(f[i - 1], s, vs)]
  BY MeansSteps
<1> DEFINE Good(i) == i =< n => Table(f[i])
           N == {i \in Nat : Good(i)}
<1>1. 0 \in N
  BY <1>0 DEF Table, Readings, Shape, Unread
<1>2. ASSUME NEW i \in Nat, i \in N
      PROVE  i + 1 \in N
  <2> SUFFICES ASSUME i + 1 =< n PROVE Table(f[i + 1])
    OBVIOUS
  <2>1. i + 1 \in 1 .. n /\ (i + 1) - 1 = i
    OBVIOUS
  <2>2. PICK M : M = f[i]
    OBVIOUS
  <2>3. f[i + 1] = [s \in Seq(Token) |-> Of(M, s, vs)]
    BY <1>0, <2>1, <2>2
  <2>4. Table(M)
    BY <1>2, <2>2
  <2>5. \A s \in Seq(Token) : Readings(Of(M, s, vs)) /\ Shape(s, Of(M, s, vs))
    BY <2>4, ShapeOf
  <2> QED
    BY <2>3, <2>5 DEF Table
<1> HIDE DEF Good
<1>3. \A i \in Nat : i \in N
  BY <1>1, <1>2, Counting
<1> QED
  BY <1>3 DEF Good

\* What is accepted is read, and as the grammar says.
LEMMA DescentsAgree ==
  ASSUME NEW c \in Seq(Token), NEW vs, validateCondition(c)
  PROVE  Value(evalCondition(c, vs), Meaning(c, vs))
<1>1. PICK n \in Nat : n = Len(c)
  OBVIOUS
<1>2. PICK V : ValidBy(V, n) /\ validateCondition(c) = V[n][c][0]
  BY <1>1, ValidIs
<1>3. PICK E : EvalBy(E, n, Seq(Token), vs) /\ evalCondition(c, vs) = E[n][c]
  BY <1>1, EvalIs
<1>4. PICK M : MeansBy(M, n, vs) /\ Meaning(c, vs) = M[n][c].or
  BY <1>1, MeansIs
<1>5. /\ V[0] = [s \in Seq(Token) |-> [d \in Nat |-> FALSE]]
      /\ \A i \in 1 .. n : V[i] = [s \in Seq(Token) |-> [d \in Nat |-> d =< MaxDepth /\ ValidText(V[i - 1], stripOuterParens(s), d + 1)]]
  BY <1>2, ValidBySteps
<1>6. /\ E[0] = [s \in Seq(Token) |-> "invalid"]
      /\ \A i \in 1 .. n : E[i] = [s \in Seq(Token) |-> evalText(E[i - 1], stripOuterParens(s), vs)]
  BY <1>3, EvalSteps
<1>7. /\ M[0] = [s \in Seq(Token) |-> Unread]
      /\ \A i \in 1 .. n : M[i] = [s \in Seq(Token) |-> Of(M[i - 1], s, vs)]
  BY <1>4, MeansSteps
<1>8. \A i \in 0 .. n : Table(M[i])
  BY <1>4, MeansTable
<1>9. ASSUME NEW i \in 1 .. n, NEW s \in Seq(Token), NEW d \in Nat
      PROVE  V[i][s][d] <=> (d =< MaxDepth /\ ValidText(V[i - 1], stripOuterParens(s), d + 1))
  <2>1. PICK v : v = V[i - 1]
    OBVIOUS
  <2> DEFINE row(x) == [y \in Nat |-> y =< MaxDepth /\ ValidText(v, stripOuterParens(x), y + 1)]
  <2>2. V[i] = [x \in Seq(Token) |-> row(x)]
    BY <1>5, <2>1
  <2> HIDE DEF row
  <2>3. V[i][s] = row(s)
    BY <2>2
  <2>4. row(s)[d] <=> (d =< MaxDepth /\ ValidText(v, stripOuterParens(s), d + 1))
    BY DEF row
  <2> QED
    BY <2>1, <2>3, <2>4
<1>10. ASSUME NEW s \in Seq(Token), NEW i \in 0 .. n, NEW d \in Nat, V[i][s][d] PROVE i # 0 /\ s # <<>>
  <2>1. i # 0
    BY <1>5, <1>10
  <2>2. i \in 1 .. n
    BY <2>1
  <2>3. ValidText(V[i - 1], stripOuterParens(s), d + 1)
    BY <1>9, <1>10, <2>2
  <2>4. SUFFICES ASSUME s = <<>> PROVE FALSE
    BY <2>1
  <2>5. stripOuterParens(s) = <<>> /\ Len(s) = 0
    BY <2>4 DEF stripOuterParens
  <2>6. findOuterToken(s, "or") = 0 /\ findOuterToken(s, "and") = 0
    <3>1. PICK or : or = findOuterToken(s, "or")
      OBVIOUS
    <3>2. PICK and : and = findOuterToken(s, "and")
      OBVIOUS
    <3>3. or = 0 \/ or \in 2 .. Len(s) - 1
      BY <3>1, Cut
    <3>4. and = 0 \/ and \in 2 .. Len(s) - 1
      BY <3>2, Cut
    <3> QED
      BY <2>5, <3>1, <3>2, <3>3, <3>4
  <2>7. ValidAt(V[i - 1], s, 0, 0, d + 1)
    BY <2>3, <2>4, <2>5, <2>6 DEF ValidText
  <2> QED
    BY <2>4, <2>5, <2>7 DEF ValidAt
<1> DEFINE Good(s) == \A iv, ie, im \in Len(s) .. n, d \in Nat : V[iv][s][d] => Agrees(s, E[ie][s], M[im][s])
           P(i) == \A s \in Seq(Token) : Len(s) =< i => Good(s)
           N == {i \in Nat : P(i)}
<1>11. 0 \in N
  <2> SUFFICES ASSUME NEW s \in Seq(Token), Len(s) =< 0, NEW iv \in Len(s) .. n, NEW d \in Nat, V[iv][s][d] PROVE FALSE
    OBVIOUS
  <2>1. iv \in 0 .. n /\ s = <<>>
    BY EmptySeq
  <2> QED
    BY <1>10, <2>1
<1>12. ASSUME NEW i \in Nat, P(i), NEW s \in Seq(Token), Len(s) = i + 1 PROVE Good(s)
  <2> SUFFICES ASSUME NEW iv \in Len(s) .. n, NEW ie \in Len(s) .. n, NEW im \in Len(s) .. n, NEW d \in Nat, V[iv][s][d]
               PROVE  Agrees(s, E[ie][s], M[im][s])
    OBVIOUS
  <2>1. iv \in 1 .. n /\ ie \in 1 .. n /\ im \in 1 .. n /\ im - 1 \in 0 .. n
    BY <1>12
  <2>2. PICK t : t = stripOuterParens(s)
    OBVIOUS
  <2>3. PICK v, e, m : v = V[iv - 1] /\ e = E[ie - 1] /\ m = M[im - 1]
    OBVIOUS
  <2>4. ValidText(v, t, d + 1) /\ d + 1 \in Nat
    <3>1. ValidText(V[iv - 1], stripOuterParens(s), d + 1)
      BY <1>9, <2>1
    <3> QED
      BY <2>2, <2>3, <3>1
  <2>5. E[ie][s] = evalText(e, t, vs) /\ M[im][s] = Of(m, s, vs) /\ Table(m)
    <3>1. E[ie] = [x \in Seq(Token) |-> evalText(e, stripOuterParens(x), vs)]
      BY <1>6, <2>1, <2>3
    <3>2. M[im] = [x \in Seq(Token) |-> Of(m, x, vs)]
      BY <1>7, <2>1, <2>3
    <3>3. Table(m)
      BY <1>8, <2>1, <2>3
    <3> QED
      BY <2>2, <3>1, <3>2, <3>3
  <2>6. ASSUME NEW p \in Seq(Token), Len(p) < Len(s), v[p][d + 1] PROVE Agrees(p, e[p], m[p])
    <3>1. Len(p) =< i /\ iv - 1 \in Len(p) .. n /\ ie - 1 \in Len(p) .. n /\ im - 1 \in Len(p) .. n
      BY <1>12, <2>6
    <3>2. Good(p)
      BY <1>12, <3>1
    <3> QED
      BY <2>3, <2>4, <2>6, <3>1, <3>2
  <2>7. CASE t = s
    BY <2>2, <2>4, <2>5, <2>6, <2>7, TurnAgrees
  <2>8. CASE t # s
    <3>1. t \in Seq(Token) /\ Len(t) =< Len(s) - 2 /\ Len(s) >= 2
      BY <2>2, <2>8, StripsTwo
    <3>2. PICK k \in Nat : k = im - 1
      BY <2>1
    <3>3. k \in 1 .. n /\ k - 1 \in 0 .. n
      BY <1>12, <2>1, <3>1, <3>2
    <3>4. PICK l : l = M[k - 1]
      OBVIOUS
    <3>5. Table(l) /\ m[t] = Of(l, t, vs)
      <4>1. M[k] = [x \in Seq(Token) |-> Of(l, x, vs)]
        BY <1>7, <3>3, <3>4
      <4>2. m = M[k]
        BY <2>3, <3>2
      <4>3. m[t] = Of(l, t, vs)
        BY <3>1, <4>1, <4>2
      <4>4. Table(l)
        BY <1>8, <3>3, <3>4
      <4> QED
        BY <4>3, <4>4
    <3>6. ASSUME NEW p \in Seq(Token), Len(p) < Len(t), v[p][d + 1] PROVE Agrees(p, e[p], l[p])
      <4>1. Len(p) =< i /\ iv - 1 \in Len(p) .. n /\ ie - 1 \in Len(p) .. n /\ k - 1 \in Len(p) .. n
        BY <1>12, <3>1, <3>2, <3>6
      <4>2. Good(p)
        BY <1>12, <4>1
      <4> QED
        BY <2>3, <2>4, <3>4, <3>6, <4>1, <4>2
    <3>7. Agrees(s, evalText(e, t, vs), Of(m, s, vs))
      BY <2>2, <2>4, <2>5, <2>8, <3>5, <3>6, TurnAgrees
    <3> QED
      BY <2>5, <3>7
  <2> QED
    BY <2>7, <2>8
<1> HIDE DEF Good
<1>13. ASSUME NEW i \in Nat, i \in N PROVE i + 1 \in N
  <2> SUFFICES ASSUME NEW s \in Seq(Token), Len(s) =< i + 1 PROVE Good(s)
    OBVIOUS
  <2>1. P(i)
    BY <1>13
  <2>2. CASE Len(s) =< i
    BY <2>1, <2>2
  <2>3. CASE ~(Len(s) =< i)
    <3>1. Len(s) = i + 1
      BY <2>3
    <3> HIDE DEF P
    <3> QED
      BY <1>12, <2>1, <3>1
  <2> QED
    BY <2>2, <2>3
<1>14. \A i \in Nat : i \in N
  BY <1>11, <1>13, Counting
<1>15. P(n)
  BY <1>14
<1>16. Good(c)
  BY <1>1, <1>15
<1>17. n \in Len(c) .. n /\ 0 \in Nat
  BY <1>1
<1>18. Agrees(c, E[n][c], M[n][c])
  BY <1>2, <1>16, <1>17 DEF Good
<1> QED
  BY <1>3, <1>4, <1>18 DEF Agrees


\* The two descents over a condition agree with each other and with its
\* grammar, whatever conditions a skill has and whatever its variables hold:
\* what the parser accepted is readable when its branch is reached, and has
\* the one value all its readings have (parser.ts:402, runtime.ts:2891).
THEOREM ConditionsAlwaysAgree == Spec => []ConditionsAgree
<1>1. ASSUME WholeInv PROVE ConditionsAgree
  <2> SUFFICES ASSUME phase = "running", todo # <<>>, Op.kind = "if", NEW j \in DOMAIN Op.blocks, Op.blocks[j].cond # <<>>
               PROVE  Agreed(evalCondition(Op.blocks[j].cond, vars), Op.blocks[j].cond)
    BY DEF ConditionsAgree
  <2>1. Ready
    BY <1>1 DEF WholeInv, Following, Kept1, Ready
  <2>2. PICK c : c = Op.blocks[j].cond
    OBVIOUS
  <2>3. c \in Seq(Token) /\ validateCondition(c)
    <3>1. Accepted(c)
      BY <2>1, <2>2, BlocksOfOp
    <3> QED
      BY <2>2, <3>1 DEF Accepted
  <2>4. PICK e : e = evalCondition(c, vars)
    OBVIOUS
  <2>5. Value(e, Meaning(c, vars))
    BY <2>3, <2>4, DescentsAgree
  <2>6. e \in {"true", "false"} => Meaning(c, vars) = {e = "true"}
    <3>1. CASE e = "true"
      <4>1. (e = "true") = TRUE
        BY <3>1
      <4> QED
        BY <2>5, <3>1, <4>1 DEF Value
    <3>2. CASE e = "false"
      <4>1. (e = "true") = FALSE
        BY <3>2
      <4> QED
        BY <2>5, <3>2, <4>1 DEF Value
    <3> QED
      BY <3>1, <3>2
  <2>7. Agreed(e, c)
    BY <2>5, <2>6 DEF Agreed, Value
  <2> QED
    BY <2>2, <2>4, <2>7
<1> QED
  BY <1>1, WholeInvHolds, PTL
-----------------------------------------------------------------------------
(* What compile() makes of a skill that lint has passed. *)

CycleAmong(f, n, deeper, deps, visiting, visited) ==
  f = [i \in 0 .. n |->
        IF i = 0 THEN [cycle |-> FALSE, visited |-> visited]
        ELSE IF f[i - 1].cycle THEN f[i - 1]
        ELSE deeper[deps[i]][visiting][f[i - 1].visited]]

LEMMA CycleAmongExists ==
  ASSUME NEW n \in Nat, NEW deeper, NEW deps, NEW visiting, NEW visited
  PROVE  \E f : CycleAmong(f, n, deeper, deps, visiting, visited)
<1> DEFINE Next1(r, i) == IF r.cycle THEN r ELSE deeper[deps[i]][visiting][r.visited]
           base == [cycle |-> FALSE, visited |-> visited]
           Eq(f, m) == f = [i \in 0 .. m |-> IF i = 0 THEN base ELSE Next1(f[i - 1], i)]
           S == {m \in Nat : \E f : Eq(f, m)}
<1>1. 0 \in S
  <2> DEFINE f == [i \in 0 .. 0 |-> base]
  <2>1. Eq(f, 0)
    <3> HIDE DEF base, Next1
    <3>1. \A i \in 0 .. 0 : i = 0
      OBVIOUS
    <3> QED
      BY <3>1
  <2> HIDE DEF f, Eq
  <2> QED
    BY <2>1
<1>2. ASSUME NEW m \in Nat, m \in S
      PROVE  m + 1 \in S
  <2>1. PICK f : Eq(f, m)
    BY <1>2
  <2> DEFINE g == [i \in 0 .. m + 1 |-> IF i = m + 1 THEN Next1(f[m], m + 1) ELSE f[i]]
  <2>2. \A i \in 0 .. m : f[i] = IF i = 0 THEN base ELSE Next1(f[i - 1], i)
    <3> HIDE DEF base, Next1
    <3> QED
      BY <2>1
  <2> HIDE DEF base, Next1
  <2>3. \A i \in 0 .. m + 1 : g[i] = IF i = 0 THEN base ELSE Next1(g[i - 1], i)
    <3> SUFFICES ASSUME NEW i \in 0 .. m + 1
                 PROVE  g[i] = IF i = 0 THEN base ELSE Next1(g[i - 1], i)
      OBVIOUS
    <3>1. CASE i = m + 1
      <4>1. g[i - 1] = f[m] /\ i # 0
        BY <3>1
      <4> QED
        BY <3>1, <4>1
    <3>2. CASE i # m + 1
      <4>1. i \in 0 .. m /\ (i # 0 => i - 1 \in 0 .. m /\ i - 1 # m + 1)
        BY <3>2
      <4>2. i # 0 => g[i - 1] = f[i - 1]
        BY <4>1
      <4> QED
        BY <2>2, <3>2, <4>1, <4>2
    <3> QED
      BY <3>1, <3>2
  <2>4. Eq(g, m + 1)
    BY <2>3
  <2> HIDE DEF g, Eq
  <2> QED
    BY <2>4
<1>3. n \in S
  BY <1>1, <1>2, Counting
<1> QED
  BY <1>3 DEF CycleAmong

\* Dependency by dependency, as long as none has led to a cycle.
VisitedBy(f, deeper, t, visiting, visited) ==
  LET deps == skill.targets[t].deps IN
  /\ f[0] = [cycle |-> FALSE, visited |-> visited]
  /\ \A i \in 1 .. Len(deps) :
       f[i] = IF f[i - 1].cycle THEN f[i - 1] ELSE deeper[deps[i]][visiting \cup {t}][f[i - 1].visited]
  /\ Visited(deeper, t, visiting, visited) =
       [cycle |-> f[Len(deps)].cycle, visited |-> f[Len(deps)].visited \cup {t}]

LEMMA VisitedIs ==
  ASSUME NEW deeper, NEW t \in Targets, NEW visiting, NEW visited, t \notin visiting, t \notin visited,
         Len(skill.targets[t].deps) \in Nat
  PROVE  \E f : VisitedBy(f, deeper, t, visiting, visited)
<1>1. PICK deps : deps = skill.targets[t].deps
  OBVIOUS
<1>2. PICK n \in Nat : n = Len(deps)
  BY <1>1
<1>3. PICK seen : seen = visiting \cup {t}
  OBVIOUS
<1>4. PICK f : /\ CycleAmong(f, n, deeper, deps, seen, visited)
               /\ Visited(deeper, t, visiting, visited) = [cycle |-> f[n].cycle, visited |-> f[n].visited \cup {t}]
  <2> DEFINE g == CHOOSE f : CycleAmong(f, n, deeper, deps, seen, visited)
  <2>1. CycleAmong(g, n, deeper, deps, seen, visited)
    BY CycleAmongExists
  <2>2. Visited(deeper, t, visiting, visited) = [cycle |-> g[n].cycle, visited |-> g[n].visited \cup {t}]
    <3> DEFINE h == CHOOSE f : CycleAmong(f, Len(skill.targets[t].deps), deeper, skill.targets[t].deps,
                                          visiting \cup {t}, visited)
    <3>1. Visited(deeper, t, visiting, visited) =
            [cycle |-> h[Len(skill.targets[t].deps)].cycle,
             visited |-> h[Len(skill.targets[t].deps)].visited \cup {t}]
      BY DEF Visited, CycleAmong
    <3>2. h = g
      BY <1>1, <1>2, <1>3
    <3> HIDE DEF g, h
    <3> QED
      BY <1>1, <1>2, <3>1, <3>2
  <2> HIDE DEF g
  <2> QED
    BY <2>1, <2>2
<1>5. ASSUME NEW i \in 0 .. n
      PROVE  f[i] = IF i = 0 THEN [cycle |-> FALSE, visited |-> visited]
                    ELSE IF f[i - 1].cycle THEN f[i - 1]
                    ELSE deeper[deps[i]][seen][f[i - 1].visited]
  <2> DEFINE body(i1) == IF i1 = 0 THEN [cycle |-> FALSE, visited |-> visited]
                         ELSE IF f[i1 - 1].cycle THEN f[i1 - 1]
                         ELSE deeper[deps[i1]][seen][f[i1 - 1].visited]
  <2>1. f = [i1 \in 0 .. n |-> body(i1)]
    BY <1>4 DEF CycleAmong
  <2> HIDE DEF body
  <2>2. f[i] = body(i)
    BY <2>1
  <2> QED
    BY <2>2 DEF body
<1>6. 0 \in 0 .. n /\ \A i \in 1 .. n : i \in 0 .. n /\ i # 0
  OBVIOUS
<1>7. VisitedBy(f, deeper, t, visiting, visited)
  BY <1>1, <1>2, <1>3, <1>4, <1>5, <1>6 DEF VisitedBy
<1> QED
  BY <1>7

\* What lint visits, by how many more targets a path may take.
Reach(f, i, named) ==
  [t \in named |-> [visiting \in SUBSET Targets |-> [visited \in SUBSET named |->
     IF i = 0 THEN [cycle |-> TRUE, visited |-> visited] ELSE Visited(f[i - 1], t, visiting, visited)]]]
Routes(f, n, named) == f = [i \in 0 .. n |-> Reach(f, i, named)]

LEMMA RoutesExist ==
  ASSUME NEW n \in Nat, NEW named
  PROVE  \E f : Routes(f, n, named)
<1> DEFINE Next1(r) == [t \in named |-> [visiting \in SUBSET Targets |-> [visited \in SUBSET named |->
                          Visited(r, t, visiting, visited)]]]
           base == [t \in named |-> [visiting \in SUBSET Targets |-> [visited \in SUBSET named |->
                      [cycle |-> TRUE, visited |-> visited]]]]
           body(f, i) == Reach(f, i, named)
           Eq(f, m) == f = [i \in 0 .. m |-> body(f, i)]
           S == {m \in Nat : \E f : Eq(f, m)}
<1>0. \A f, i : body(f, i) = IF i = 0 THEN base ELSE Next1(f[i - 1])
  <2> SUFFICES ASSUME NEW f, NEW i PROVE body(f, i) = IF i = 0 THEN base ELSE Next1(f[i - 1])
    OBVIOUS
  <2>1. CASE i = 0
    BY <2>1 DEF Reach
  <2>2. CASE i # 0
    BY <2>2 DEF Reach
  <2> QED
    BY <2>1, <2>2
<1> HIDE DEF body, base, Next1
<1>1. 0 \in S
  <2> DEFINE f == [i \in 0 .. 0 |-> base]
  <2>1. \A i \in 0 .. 0 : i = 0
    OBVIOUS
  <2>2. \A i \in 0 .. 0 : body(f, i) = base
    BY <1>0, <2>1
  <2>3. Eq(f, 0)
    BY <2>2
  <2> HIDE DEF f, Eq
  <2> QED
    BY <2>3
<1>2. ASSUME NEW m \in Nat, m \in S
      PROVE  m + 1 \in S
  <2>1. PICK f : Eq(f, m)
    BY <1>2
  <2> DEFINE g == [i \in 0 .. m + 1 |-> IF i = m + 1 THEN Next1(f[m]) ELSE f[i]]
  <2>2. \A i \in 0 .. m : f[i] = IF i = 0 THEN base ELSE Next1(f[i - 1])
    BY <1>0, <2>1
  <2>3. \A i \in 0 .. m + 1 : g[i] = IF i = 0 THEN base ELSE Next1(g[i - 1])
    <3> SUFFICES ASSUME NEW i \in 0 .. m + 1
                 PROVE  g[i] = IF i = 0 THEN base ELSE Next1(g[i - 1])
      OBVIOUS
    <3>1. CASE i = m + 1
      <4>1. g[i - 1] = f[m] /\ i # 0
        BY <3>1
      <4> QED
        BY <3>1, <4>1
    <3>2. CASE i # m + 1
      <4>1. i \in 0 .. m /\ (i # 0 => i - 1 \in 0 .. m /\ i - 1 # m + 1)
        BY <3>2
      <4>2. i # 0 => g[i - 1] = f[i - 1]
        BY <4>1
      <4> QED
        BY <2>2, <3>2, <4>1, <4>2
    <3> QED
      BY <3>1, <3>2
  <2>4. Eq(g, m + 1)
    <3>1. g = [i \in 0 .. m + 1 |-> g[i]]
      OBVIOUS
    <3> HIDE DEF g
    <3>2. \A i \in 0 .. m + 1 : g[i] = body(g, i)
      BY <1>0, <2>3
    <3> QED
      BY <3>1, <3>2
  <2> HIDE DEF g, Eq
  <2> QED
    BY <2>4
<1>3. n \in S
  BY <1>1, <1>2, Counting
<1>4. PICK f : Eq(f, n)
  BY <1>3
<1>5. Routes(f, n, named)
  BY <1>4 DEF Routes, body
<1> QED
  BY <1>5

\* Where it starts: at the entry, with every target still allowed.
RouteTo(f, entry) ==
  LET K == Cardinality(Targets) + 1
      named == {entry} \cup Needs(Targets)
  IN /\ \A t \in named, visiting \in SUBSET Targets, visited \in SUBSET named :
          f[0][t][visiting][visited] = [cycle |-> TRUE, visited |-> visited]
     /\ \A i \in 1 .. K : \A t \in named, visiting \in SUBSET Targets, visited \in SUBSET named :
          f[i][t][visiting][visited] = Visited(f[i - 1], t, visiting, visited)
     /\ visit(entry) = f[K][entry][{}][{}]

LEMMA VisitIs ==
  ASSUME NEW entry, IsFiniteSet(Targets)
  PROVE  \E f : RouteTo(f, entry)
<1>1. PICK K \in Nat : K = Cardinality(Targets) + 1
  BY FS_CardinalityType
<1>2. PICK named : named = {entry} \cup Needs(Targets)
  OBVIOUS
<1>3. PICK f : Routes(f, K, named) /\ visit(entry) = f[K][entry][{}][{}]
  <2> DEFINE g == CHOOSE f : Routes(f, K, named)
  <2>1. Routes(g, K, named)
    BY RoutesExist
  <2>2. visit(entry) = g[K][entry][{}][{}]
    <3>1. visit(entry) =
            (CHOOSE f : Routes(f, Cardinality(Targets) + 1, {entry} \cup Needs(Targets)))
              [Cardinality(Targets) + 1][entry][{}][{}]
      BY DEF visit, Routes, Reach
    <3> QED
      BY <1>1, <1>2, <3>1
  <2> HIDE DEF g
  <2> QED
    BY <2>1, <2>2
<1> DEFINE body(i) == Reach(f, i, named)
<1>4. f = [i \in 0 .. K |-> body(i)]
  BY <1>3 DEF Routes
<1> HIDE DEF body
<1>5. \A i \in 0 .. K : f[i] = body(i)
  BY <1>4
<1>6. 0 \in 0 .. K /\ \A i \in 1 .. K : i \in 0 .. K /\ i # 0
  OBVIOUS
<1>7. ASSUME NEW t \in named, NEW visiting \in SUBSET Targets, NEW visited \in SUBSET named
      PROVE  f[0][t][visiting][visited] = [cycle |-> TRUE, visited |-> visited]
  <2>1. f[0] = Reach(f, 0, named)
    BY <1>5, <1>6 DEF body
  <2> QED
    BY <2>1 DEF Reach
<1>8. ASSUME NEW i \in 1 .. K,
             NEW t \in named, NEW visiting \in SUBSET Targets, NEW visited \in SUBSET named
      PROVE  f[i][t][visiting][visited] = Visited(f[i - 1], t, visiting, visited)
  <2>1. f[i] = Reach(f, i, named)
    BY <1>5, <1>6 DEF body
  <2>2. i # 0
    BY <1>6
  <2> QED
    BY <2>1, <2>2 DEF Reach
<1>9. RouteTo(f, entry)
  BY <1>1, <1>2, <1>3, <1>7, <1>8 DEF RouteTo
<1> QED
  BY <1>9

\* Where lint meets no cycle, the compiler lists just what lint has visited.
SameWay(l, c, named) == ~l.cycle => c.fail = None /\ c.order \in Seq(named) /\ Range(c.order) = l.visited
WalksAgree(v, f, named) ==
  \A t \in named, visiting \in SUBSET Targets, order \in Seq(named) :
    SameWay(v[t][visiting][Range(order)], f[t][visiting][order], named)

LEMMA DependenciesAgree ==
  ASSUME NEW v, NEW f, NEW named, WalksAgree(v, f, named), NEW deps \in Seq(named), NEW visiting \in SUBSET Targets,
         NEW order \in Seq(named), NEW l, l[0] = [cycle |-> FALSE, visited |-> Range(order)],
         \A i \in 1 .. Len(deps) : l[i] = IF l[i - 1].cycle THEN l[i - 1] ELSE v[deps[i]][visiting][l[i - 1].visited]
  PROVE  SameWay(l[Len(deps)], Dependencies(f, deps, visiting, order), named)
<1>1. PICK n \in Nat : n = Len(deps)
  <2>1. Len(deps) \in Nat
    OBVIOUS
  <2> QED
    BY <2>1
<1>2. PICK c : DepByDep(c, f, deps, visiting, order)
  BY <1>1, DependenciesIs
<1> DEFINE Good(i) == i =< n => SameWay(l[i], c[i], named)
           S == {i \in Nat : Good(i)}
<1>3. 0 \in S
  <2>1. c[0] = [order |-> order, fail |-> None]
    BY <1>2 DEF DepByDep
  <2>2. c[0].fail = None /\ c[0].order = order /\ l[0].visited = Range(order)
    BY <2>1
  <2> QED
    BY <2>2 DEF SameWay
<1>4. ASSUME NEW i \in Nat, i \in S
      PROVE  i + 1 \in S
  <2> SUFFICES ASSUME i + 1 =< n
               PROVE  SameWay(l[i + 1], c[i + 1], named)
    OBVIOUS
  <2>1. i + 1 \in 1 .. Len(deps) /\ (i + 1) - 1 = i
    BY <1>1
  <2>2. l[i + 1] = IF l[i].cycle THEN l[i] ELSE v[deps[i + 1]][visiting][l[i].visited]
    BY <2>1
  <2>3. c[i + 1] = IF c[i].fail # None THEN c[i] ELSE f[deps[i + 1]][visiting][c[i].order]
    BY <1>2, <2>1 DEF DepByDep
  <2>4. CASE l[i].cycle
    BY <2>2, <2>4 DEF SameWay
  <2>5. CASE ~l[i].cycle
    <3>1. SameWay(l[i], c[i], named)
      BY <1>1, <1>4
    <3>2. PICK o \in Seq(named) : o = c[i].order /\ Range(o) = l[i].visited
      BY <2>5, <3>1 DEF SameWay
    <3>3. c[i].fail = None
      BY <2>5, <3>1 DEF SameWay
    <3>4. l[i + 1] = v[deps[i + 1]][visiting][Range(o)] /\ c[i + 1] = f[deps[i + 1]][visiting][o]
      BY <2>2, <2>3, <2>5, <3>2, <3>3
    <3>5. deps[i + 1] \in named
      BY <2>1
    <3> QED
      BY <3>4, <3>5 DEF WalksAgree
  <2> QED
    BY <2>4, <2>5
<1> HIDE DEF Good
<1>5. Good(n)
  BY <1>3, <1>4, Counting
<1>6. SameWay(l[n], c[n], named)
  BY <1>5 DEF Good
<1> QED
  BY <1>1, <1>2, <1>6 DEF DepByDep

LEMMA VisitsAgree ==
  ASSUME NEW v, NEW f, NEW named \in SUBSET Targets, WalksAgree(v, f, named),
         \A t \in Targets : skill.targets[t].deps \in Seq(named),
         NEW t \in named, NEW visiting \in SUBSET Targets, NEW order \in Seq(named)
  PROVE  SameWay(Visited(v, t, visiting, Range(order)), Visit(f, skill.targets, t, visiting, order), named)
<1>1. CASE t \in visiting
  <2>1. Visited(v, t, visiting, Range(order)) = [cycle |-> TRUE, visited |-> Range(order)]
    BY <1>1 DEF Visited
  <2> QED
    BY <2>1 DEF SameWay
<1>2. CASE t \notin visiting /\ t \in Range(order)
  <2> DEFINE seen == Range(order) \cup {t}
  <2>1. seen = Range(order)
    BY <1>2
  <2> HIDE DEF seen
  <2>2. Visited(v, t, visiting, Range(order)) = [cycle |-> FALSE, visited |-> seen]
    BY <1>2 DEF Visited, seen
  <2>3. Visit(f, skill.targets, t, visiting, order) = [order |-> order, fail |-> None]
    BY <1>2 DEF Visit
  <2> QED
    BY <2>1, <2>2, <2>3 DEF SameWay
<1>3. CASE t \notin visiting /\ t \notin Range(order)
  <2>1. PICK deps \in Seq(named) : deps = skill.targets[t].deps
    OBVIOUS
  <2>2. Len(skill.targets[t].deps) \in Nat
    BY <2>1
  <2>3. PICK l : VisitedBy(l, v, t, visiting, Range(order))
    BY <1>3, <2>2, VisitedIs
  <2>4. PICK n : n = Len(deps)
    OBVIOUS
  <2> DEFINE c == Dependencies(f, deps, visiting \cup {t}, order)
             seen == l[n].visited \cup {t}
  <2>5. SameWay(l[n], c, named)
    <3>1. PICK path \in SUBSET Targets : path = visiting \cup {t}
      OBVIOUS
    <3>2. /\ l[0] = [cycle |-> FALSE, visited |-> Range(order)]
          /\ \A i \in 1 .. Len(deps) : l[i] = IF l[i - 1].cycle THEN l[i - 1] ELSE v[deps[i]][path][l[i - 1].visited]
      BY <2>1, <2>3, <3>1 DEF VisitedBy
    <3>3. SameWay(l[Len(deps)], Dependencies(f, deps, path, order), named)
      BY <3>2, DependenciesAgree
    <3> QED
      BY <2>4, <3>1, <3>3
  <2> HIDE DEF c, seen
  <2>6. Visited(v, t, visiting, Range(order)) = [cycle |-> l[n].cycle, visited |-> seen]
    BY <2>1, <2>3, <2>4 DEF VisitedBy, seen
  <2>7. Visit(f, skill.targets, t, visiting, order) = Finished(t, c)
    BY <1>3, <2>1 DEF Visit, c, Targets
  <2> SUFFICES ASSUME ~l[n].cycle
               PROVE  SameWay([cycle |-> l[n].cycle, visited |-> seen], Finished(t, c), named)
    BY <2>6, <2>7 DEF SameWay
  <2>8. PICK o \in Seq(named) : o = c.order /\ Range(o) = l[n].visited
    BY <2>5 DEF SameWay
  <2>9. c.fail = None
    BY <2>5 DEF SameWay
  <2>10. Finished(t, c) = [c EXCEPT !.order = Append(@, t)]
    BY <2>9 DEF Finished
  <2>11. Finished(t, c).fail = None /\ Finished(t, c).order = Append(o, t)
    BY <2>8, <2>9, <2>10
  <2>12. Append(o, t) \in Seq(named) /\ Range(Append(o, t)) = seen
    <3>1. PICK k \in Nat : k = Len(o) /\ DOMAIN o = 1 .. k
      OBVIOUS
    <3>2. PICK p : p = Append(o, t)
      OBVIOUS
    <3>3. p \in Seq(named) /\ DOMAIN p = 1 .. k + 1 /\ p[k + 1] = t /\ \A i \in 1 .. k : p[i] = o[i]
      BY <3>1, <3>2
    <3>4. Range(p) = Range(o) \cup {t}
      <4>1. \A i \in 1 .. k + 1 : i \in 1 .. k \/ i = k + 1
        BY <3>1
      <4>2. 1 .. k \subseteq 1 .. k + 1 /\ k + 1 \in 1 .. k + 1
        BY <3>1
      <4> QED
        BY <3>1, <3>3, <4>1, <4>2 DEF Range
    <3> QED
      BY <2>8, <3>2, <3>3, <3>4 DEF seen
  <2> QED
    BY <2>11, <2>12 DEF SameWay
<1> QED
  BY <1>1, <1>2, <1>3

LEMMA LintOrders ==
  ASSUME Graph(skill.targets), skill.entry \in Targets, ~missing_dependency, ~visit(skill.entry).cycle
  PROVE  toposort(skill.targets, skill.entry).fail = None
<1>1. IsFiniteSet(Targets) /\ Targets = DOMAIN skill.targets
  BY DEF Graph, Targets
<1>2. PICK entry \in Targets : entry = skill.entry
  OBVIOUS
<1>3. PICK named : named = {entry} \cup Needs(Targets)
  OBVIOUS
<1>4. named = Named(skill.targets, entry)
  BY <1>1, <1>3 DEF Needs, Named
<1>5. \A t \in Targets : skill.targets[t].deps \in Seq(named)
  <2> SUFFICES ASSUME NEW t \in Targets
               PROVE  skill.targets[t].deps \in Seq(named)
    OBVIOUS
  <2>1. skill.targets[t].deps \in Seq(Range(skill.targets[t].deps))
    BY <1>1 DEF Graph
  <2>2. Range(skill.targets[t].deps) \subseteq named
    BY <1>1, <1>4 DEF Named
  <2> QED
    BY <2>1, <2>2, SeqMonotonic
<1>6. named \in SUBSET Targets
  <2> SUFFICES ASSUME NEW t \in Targets, NEW d \in Range(skill.targets[t].deps)
               PROVE  d \in Targets
    BY <1>1, <1>4 DEF Named
  <2>1. PICK i \in DOMAIN skill.targets[t].deps : d = skill.targets[t].deps[i]
    BY DEF Range
  <2> QED
    BY <2>1 DEF missing_dependency
<1>7. PICK K \in Nat : K = Cardinality(Targets) + 1
  BY <1>1, FS_CardinalityType
<1>8. PICK v : RouteTo(v, entry)
  BY <1>1, VisitIs
<1>9. \A i \in 1 .. K : \A t \in named, visiting \in SUBSET Targets, visited \in SUBSET named :
        v[i][t][visiting][visited] = Visited(v[i - 1], t, visiting, visited)
  BY <1>3, <1>7, <1>8 DEF RouteTo
<1>10. PICK f : PathTo(f, skill.targets, entry)
  BY <1>1, ToposortIs
<1> DEFINE Good(i) == i =< K => WalksAgree(v[i], f[i], named)
           S == {i \in Nat : Good(i)}
<1>11. \A order \in Seq(named) : Range(order) \in SUBSET named
  BY DEF Range
<1>12. 0 \in S
  <2> SUFFICES ASSUME NEW t \in named, NEW visiting \in SUBSET Targets, NEW order \in Seq(named)
               PROVE  SameWay(v[0][t][visiting][Range(order)], f[0][t][visiting][order], named)
    BY DEF WalksAgree
  <2>1. v[0][t][visiting][Range(order)] = [cycle |-> TRUE, visited |-> Range(order)]
    BY <1>3, <1>8, <1>11 DEF RouteTo
  <2> QED
    BY <2>1 DEF SameWay
<1>13. ASSUME NEW i \in Nat, i \in S
       PROVE  i + 1 \in S
  <2> SUFFICES ASSUME i + 1 =< K, NEW t \in named, NEW visiting \in SUBSET Targets, NEW order \in Seq(named)
               PROVE  SameWay(v[i + 1][t][visiting][Range(order)], f[i + 1][t][visiting][order], named)
    BY DEF WalksAgree
  <2>1. WalksAgree(v[i], f[i], named)
    BY <1>7, <1>13
  <2>2. i + 1 \in 1 .. K /\ (i + 1) - 1 = i
    BY <1>7
  <2>3. v[i + 1][t][visiting][Range(order)] = Visited(v[i], t, visiting, Range(order))
    <3>1. PICK seen \in SUBSET named : seen = Range(order)
      BY <1>11
    <3>2. v[i + 1][t][visiting][seen] = Visited(v[i], t, visiting, seen)
      BY <1>9, <2>2
    <3> QED
      BY <3>1, <3>2
  <2>4. f[i + 1][t][visiting][order] = Visit(f[i], skill.targets, t, visiting, order)
    BY <1>1, <1>4, <1>7, <1>10, <2>2 DEF PathTo
  <2>5. SameWay(Visited(v[i], t, visiting, Range(order)), Visit(f[i], skill.targets, t, visiting, order), named)
    BY <1>5, <1>6, <2>1, VisitsAgree
  <2> QED
    BY <2>3, <2>4, <2>5
<1> HIDE DEF Good
<1>14. Good(K)
  BY <1>7, <1>12, <1>13, Counting
<1>15. WalksAgree(v[K], f[K], named)
  BY <1>7, <1>14 DEF Good
<1>16. Range(<<>>) = {} /\ <<>> \in Seq(named) /\ {} \in SUBSET Targets /\ entry \in named
  BY <1>3 DEF Range
<1>17. SameWay(v[K][entry][{}][{}], f[K][entry][{}][<<>>], named)
  BY <1>15, <1>16 DEF WalksAgree
<1>18. visit(entry) = v[K][entry][{}][{}] /\ toposort(skill.targets, entry) = f[K][entry][{}][<<>>]
  BY <1>1, <1>7, <1>8, <1>10 DEF RouteTo, PathTo
<1> QED
  BY <1>2, <1>17, <1>18 DEF SameWay

\* A rule that reads nothing but the skill says the same in the preflight.
LEMMA SameForTheSkill ==
  /\ Preflight!parse_error = parse_error
  /\ Preflight!no_targets = no_targets
  /\ Preflight!no_entry_target = no_entry_target
  /\ Preflight!undeclared_var = undeclared_var
  /\ Preflight!unknown_returns_ref = unknown_returns_ref
  /\ Preflight!unknown_filter = unknown_filter
  /\ Preflight!unset_template_var = unset_template_var
  /\ Preflight!malformed_op_grammar = malformed_op_grammar
  /\ Preflight!invalid_conditional_syntax = invalid_conditional_syntax
  /\ Preflight!single_equals = single_equals
  /\ Preflight!indentation = indentation
  /\ Preflight!reserved_keyword = reserved_keyword
  /\ Preflight!uninitialized_append = uninitialized_append
  /\ Preflight!foreach_local_accumulator_target = foreach_local_accumulator_target
  /\ Preflight!append_to_non_list = append_to_non_list
  /\ Preflight!secret_use_only = secret_use_only
  /\ Preflight!secret_undeclared = secret_undeclared
  /\ Preflight!secret_dynamic_name = secret_dynamic_name
  /\ Preflight!status_disabled = status_disabled
  /\ Preflight!circular_dependency = circular_dependency
  /\ Preflight!missing_dependency = missing_dependency
  /\ Preflight!missing_default_target = missing_default_target
  /\ Preflight!colon_kwarg_syntax = colon_kwarg_syntax
<1>1. Preflight!parse_error = parse_error
  BY DEF parse_error, Preflight!parse_error
<1>2. Preflight!no_targets = no_targets
  BY DEF no_targets, Preflight!no_targets, Targets, Preflight!Targets
<1>3. Preflight!no_entry_target = no_entry_target
  BY DEF no_entry_target, Preflight!no_entry_target, Targets, Preflight!Targets
<1>4. Preflight!undeclared_var = undeclared_var
  BY DEF undeclared_var, Preflight!undeclared_var, Targets, Preflight!Targets, Top, Preflight!Top, Own, Preflight!Own,
         AMBIENT_VARS, Preflight!AMBIENT_VARS, Declared, Preflight!Declared, Inputs, Preflight!Inputs, Bound,
         Preflight!Bound, Binds, Preflight!Binds, AllWalked, Preflight!AllWalked, Walked, Preflight!Walked, walkOps,
         Preflight!walkOps, Nested, Preflight!Nested, InBlocks, Preflight!InBlocks, AllElse, Preflight!AllElse,
         InElse, Preflight!InElse
<1>5. Preflight!unknown_returns_ref = unknown_returns_ref
  BY DEF unknown_returns_ref, Preflight!unknown_returns_ref, Declared, Preflight!Declared, Inputs, Preflight!Inputs,
         Bound, Preflight!Bound, Binds, Preflight!Binds, AllWalked, Preflight!AllWalked, Walked, Preflight!Walked,
         walkOps, Preflight!walkOps, Nested, Preflight!Nested, Own, Preflight!Own, InBlocks, Preflight!InBlocks,
         Targets, Preflight!Targets, AllElse, Preflight!AllElse, InElse, Preflight!InElse
<1>6. Preflight!unknown_filter = unknown_filter
  BY DEF unknown_filter, Preflight!unknown_filter, Targets, Preflight!Targets, Top, Preflight!Top, Own, Preflight!Own,
         KNOWN_FILTERS, Preflight!KNOWN_FILTERS
<1>7. Preflight!unset_template_var = unset_template_var
  BY DEF unset_template_var, Preflight!unset_template_var, AMBIENT_VARS, Preflight!AMBIENT_VARS, Declared,
         Preflight!Declared, Inputs, Preflight!Inputs, Bound, Preflight!Bound, Binds, Preflight!Binds, AllWalked,
         Preflight!AllWalked, Walked, Preflight!Walked, walkOps, Preflight!walkOps, Nested, Preflight!Nested, Own,
         Preflight!Own, InBlocks, Preflight!InBlocks, Targets, Preflight!Targets, AllElse, Preflight!AllElse, InElse,
         Preflight!InElse
<1>8. Preflight!malformed_op_grammar = malformed_op_grammar
  BY DEF malformed_op_grammar, Preflight!malformed_op_grammar
<1>9. Preflight!invalid_conditional_syntax = invalid_conditional_syntax
  BY DEF invalid_conditional_syntax, Preflight!invalid_conditional_syntax
<1>10. Preflight!single_equals = single_equals
  BY DEF single_equals, Preflight!single_equals
<1>11. Preflight!indentation = indentation
  BY DEF indentation, Preflight!indentation
<1>12. Preflight!reserved_keyword = reserved_keyword
  BY DEF reserved_keyword, Preflight!reserved_keyword
<1>13. Preflight!uninitialized_append = uninitialized_append
  BY DEF uninitialized_append, Preflight!uninitialized_append, Targets, Preflight!Targets, Appended,
         Preflight!Appended, Walked, Preflight!Walked, walkOps, Preflight!walkOps, Nested, Preflight!Nested, Own,
         Preflight!Own, InBlocks, Preflight!InBlocks, Inputs, Preflight!Inputs, Scopes, Preflight!Scopes,
         walkOpsWithScope, Preflight!walkOpsWithScope, At, Preflight!At, Within, Preflight!Within, Visible,
         Preflight!Visible, isAncestorScope, Preflight!isAncestorScope
<1>14. Preflight!foreach_local_accumulator_target = foreach_local_accumulator_target
  BY DEF foreach_local_accumulator_target, Preflight!foreach_local_accumulator_target, Targets, Preflight!Targets,
         Appended, Preflight!Appended, Walked, Preflight!Walked, walkOps, Preflight!walkOps, Nested, Preflight!Nested,
         Own, Preflight!Own, InBlocks, Preflight!InBlocks, Scopes, Preflight!Scopes, walkOpsWithScope,
         Preflight!walkOpsWithScope, At, Preflight!At, Within, Preflight!Within, pathContainsForeach,
         Preflight!pathContainsForeach, isAncestorScope, Preflight!isAncestorScope
<1>15. Preflight!append_to_non_list = append_to_non_list
  BY DEF append_to_non_list, Preflight!append_to_non_list, Appended, Preflight!Appended, Walked, Preflight!Walked,
         walkOps, Preflight!walkOps, Nested, Preflight!Nested, Own, Preflight!Own, InBlocks, Preflight!InBlocks,
         isNumericBooleanOrNullLiteral, Preflight!isNumericBooleanOrNullLiteral, Literal, Preflight!Literal,
         LiteralSets, Preflight!LiteralSets, WrittenIn, Preflight!WrittenIn, FlattenSeq, Preflight!FlattenSeq,
         Written, Preflight!Written, Last, Preflight!Last
<1>16. Preflight!secret_use_only = secret_use_only
  BY DEF secret_use_only, Preflight!secret_use_only, AllWalked, Preflight!AllWalked, Walked, Preflight!Walked,
         walkOps, Preflight!walkOps, Nested, Preflight!Nested, Own, Preflight!Own, InBlocks, Preflight!InBlocks,
         Targets, Preflight!Targets, secretNonSinkText, Preflight!secretNonSinkText, secretSinkText,
         Preflight!secretSinkText, Sink, Preflight!Sink, isBuiltinNonSinkDollar, Preflight!isBuiltinNonSinkDollar,
         BARE_FORM_INTRINSICS, Preflight!BARE_FORM_INTRINSICS, AllElse, Preflight!AllElse, InElse, Preflight!InElse
<1>17. Preflight!secret_undeclared = secret_undeclared
  BY DEF secret_undeclared, Preflight!secret_undeclared, AllWalked, Preflight!AllWalked, Walked, Preflight!Walked,
         walkOps, Preflight!walkOps, Nested, Preflight!Nested, Own, Preflight!Own, InBlocks, Preflight!InBlocks,
         Targets, Preflight!Targets
<1>18. Preflight!secret_dynamic_name = secret_dynamic_name
  BY DEF secret_dynamic_name, Preflight!secret_dynamic_name, AllWalked, Preflight!AllWalked, Walked, Preflight!Walked,
         walkOps, Preflight!walkOps, Nested, Preflight!Nested, Own, Preflight!Own, InBlocks, Preflight!InBlocks,
         Targets, Preflight!Targets
<1>19. Preflight!status_disabled = status_disabled
  BY DEF status_disabled, Preflight!status_disabled
<1>20. Preflight!circular_dependency = circular_dependency
  BY DEF circular_dependency, Preflight!circular_dependency, visit, Preflight!visit, Needs, Preflight!Needs, Range,
         Preflight!Range, Targets, Preflight!Targets, Cardinality, Preflight!Cardinality, IsFiniteSet,
         Preflight!IsFiniteSet, Visited, Preflight!Visited
<1>21. Preflight!missing_dependency = missing_dependency
  BY DEF missing_dependency, Preflight!missing_dependency, Targets, Preflight!Targets
<1>22. Preflight!missing_default_target = missing_default_target
  BY DEF missing_default_target, Preflight!missing_default_target, Targets, Preflight!Targets
<1>23. Preflight!colon_kwarg_syntax = colon_kwarg_syntax
  BY DEF colon_kwarg_syntax, Preflight!colon_kwarg_syntax, Calls, Preflight!Calls, AllWalked, Preflight!AllWalked,
         Walked, Preflight!Walked, walkOps, Preflight!walkOps, Nested, Preflight!Nested, Own, Preflight!Own, InBlocks,
         Preflight!InBlocks, Targets, Preflight!Targets
<1> QED
  BY <1>1, <1>2, <1>3, <1>4, <1>5, <1>6, <1>7, <1>8, <1>9, <1>10, <1>11, <1>12, <1>13, <1>14, <1>15, <1>16, <1>17,
     <1>18, <1>19, <1>20, <1>21, <1>22, <1>23

\* What it means that no rule of lint reports an error.
Silent ==
  /\ ~parse_error
  /\ ~no_targets
  /\ ~no_entry_target
  /\ ~unknown_capability
  /\ ~undeclared_var
  /\ ~unknown_returns_ref
  /\ ~unknown_filter
  /\ ~unset_template_var
  /\ ~malformed_op_grammar
  /\ ~invalid_conditional_syntax
  /\ ~single_equals
  /\ ~indentation
  /\ ~reserved_keyword
  /\ ~unknown_connector
  /\ ~connector_as_tool
  /\ ~unknown_connector_class
  /\ ~unwired_primary_connector
  /\ ~disallowed_tool
  /\ ~unknown_tool_on_connector
  /\ ~uninitialized_append
  /\ ~foreach_local_accumulator_target
  /\ ~append_to_non_list
  /\ ~disabled_skill_reference
  /\ ~secret_use_only
  /\ ~secret_undeclared
  /\ ~secret_dynamic_name
  /\ ~status_disabled
  /\ ~circular_dependency
  /\ ~missing_dependency
  /\ ~missing_skillstore_for_data_ref
  /\ ~unsafe_shell_disabled
  /\ ~shell_binary_not_allowed("api")
  /\ ~missing_default_target
  /\ ~colon_kwarg_syntax

LEMMA CleanIsSilent ==
  ASSUME Errors("api") = {}
  PROVE  Silent
<1>1. ~parse_error
  BY DEF Errors, Report
<1>2. ~no_targets
  BY DEF Errors, Report
<1>3. ~no_entry_target
  BY DEF Errors, Report
<1>4. ~unknown_capability
  BY DEF Errors, Report
<1>5. ~undeclared_var
  BY DEF Errors, Report
<1>6. ~unknown_returns_ref
  BY DEF Errors, Report
<1>7. ~unknown_filter
  BY DEF Errors, Report
<1>8. ~unset_template_var
  BY DEF Errors, Report
<1>9. ~malformed_op_grammar
  BY DEF Errors, Report
<1>10. ~invalid_conditional_syntax
  BY DEF Errors, Report
<1>11. ~single_equals
  BY DEF Errors, Report
<1>12. ~indentation
  BY DEF Errors, Report
<1>13. ~reserved_keyword
  BY DEF Errors, Report
<1>14. ~unknown_connector
  BY DEF Errors, Report
<1>15. ~connector_as_tool
  BY DEF Errors, Report
<1>16. ~unknown_connector_class
  BY DEF Errors, Report
<1>17. ~unwired_primary_connector
  BY DEF Errors, Report
<1>18. ~disallowed_tool
  BY DEF Errors, Report
<1>19. ~unknown_tool_on_connector
  BY DEF Errors, Report
<1>20. ~uninitialized_append
  BY DEF Errors, Report
<1>21. ~foreach_local_accumulator_target
  BY DEF Errors, Report
<1>22. ~append_to_non_list
  BY DEF Errors, Report
<1>23. ~disabled_skill_reference
  BY DEF Errors, Report
<1>24. ~secret_use_only
  BY DEF Errors, Report
<1>25. ~secret_undeclared
  BY DEF Errors, Report
<1>26. ~secret_dynamic_name
  BY DEF Errors, Report
<1>27. ~status_disabled
  BY DEF Errors, Report
<1>28. ~circular_dependency
  BY DEF Errors, Report
<1>29. ~missing_dependency
  BY DEF Errors, Report
<1>30. ~missing_skillstore_for_data_ref
  BY DEF Errors, Report
<1>31. ~unsafe_shell_disabled
  BY DEF Errors, Report
<1>32. ~shell_binary_not_allowed("api")
  BY DEF Errors, Report
<1>33. ~missing_default_target
  BY DEF Errors, Report
<1>34. ~colon_kwarg_syntax
  BY DEF Errors, Report
<1> QED
  BY <1>1, <1>2, <1>3, <1>4, <1>5, <1>6, <1>7, <1>8, <1>9, <1>10, <1>11, <1>12, <1>13, <1>14, <1>15, <1>16, <1>17,
     <1>18, <1>19, <1>20, <1>21, <1>22, <1>23, <1>24, <1>25, <1>26, <1>27, <1>28, <1>29, <1>30, <1>31, <1>32, <1>33,
     <1>34 DEF Silent

\* What the preflight of a compile() is told.
LEMMA PreflightEnvIs ==
  ASSUME Wired(env)
  PROVE  /\ ~PreflightEnv.registry /\ ~PreflightEnv.configErrors /\ PreflightEnv.unsafeShell = "unset"
         /\ PreflightEnv.skills = env.skills
         /\ PreflightEnv.store = IF env.entry = "trigger" THEN "none" ELSE env.store
<1>1. {"registry", "configErrors", "unsafeShell", "store", "entry"} \subseteq DOMAIN env
  BY DEF Wired
<1> QED
  BY <1>1 DEF PreflightEnv

\* A preflight reports an error only where lint does, but for want of the store.
LEMMA PreflightPasses ==
  ASSUME Wired(env), Silent, Preflight!Errors("compile-preflight") # {}
  PROVE  env.entry = "trigger" /\ Preflight!missing_skillstore_for_data_ref
<1>1. SUFFICES ASSUME ~(env.entry = "trigger" /\ Preflight!missing_skillstore_for_data_ref)
               PROVE  Preflight!Errors("compile-preflight") = {}
  OBVIOUS
<1>2. /\ ~Preflight!unknown_capability
      /\ ~Preflight!unknown_connector
      /\ ~Preflight!connector_as_tool
      /\ ~Preflight!unwired_primary_connector
      /\ ~Preflight!disallowed_tool
      /\ ~Preflight!unknown_tool_on_connector
  BY PreflightEnvIs DEF Preflight!HasRegistry, Preflight!unknown_capability, Preflight!unknown_connector,
         Preflight!connector_as_tool, Preflight!unwired_primary_connector, Preflight!disallowed_tool,
         Preflight!unknown_tool_on_connector
<1>3. ~Preflight!unknown_connector_class
  BY PreflightEnvIs DEF Preflight!unknown_connector_class
<1>4. ~Preflight!unsafe_shell_disabled
  BY PreflightEnvIs DEF Preflight!unsafe_shell_disabled
<1>5. ~Preflight!shell_binary_not_allowed("compile-preflight")
  BY DEF Preflight!shell_binary_not_allowed
<1>6. Preflight!References = References
  BY DEF References, Preflight!References, AllWalked, Preflight!AllWalked, Walked, Preflight!Walked, walkOps,
         Preflight!walkOps, Nested, Preflight!Nested, Own, Preflight!Own, InBlocks, Preflight!InBlocks, Targets,
         Preflight!Targets
<1>7. ~Preflight!disabled_skill_reference
  BY <1>6, PreflightEnvIs
  DEF Silent, disabled_skill_reference, Preflight!disabled_skill_reference, StoreUp, Preflight!StoreUp, Known,
      Preflight!Known
<1>8. ~Preflight!missing_skillstore_for_data_ref
  <2>1. CASE env.entry = "trigger"
    BY <1>1, <2>1
  <2>2. CASE env.entry # "trigger"
    BY <2>2, PreflightEnvIs
    DEF Silent, missing_skillstore_for_data_ref, Preflight!missing_skillstore_for_data_ref, HasStore,
        Preflight!HasStore, Targets, Preflight!Targets, Top, Preflight!Top, Own, Preflight!Own
  <2> QED
    BY <2>1, <2>2
<1>9. /\ ~Preflight!parse_error
      /\ ~Preflight!no_targets
      /\ ~Preflight!no_entry_target
      /\ ~Preflight!undeclared_var
      /\ ~Preflight!unknown_returns_ref
      /\ ~Preflight!unknown_filter
      /\ ~Preflight!unset_template_var
      /\ ~Preflight!malformed_op_grammar
      /\ ~Preflight!invalid_conditional_syntax
      /\ ~Preflight!single_equals
      /\ ~Preflight!indentation
      /\ ~Preflight!reserved_keyword
      /\ ~Preflight!uninitialized_append
      /\ ~Preflight!foreach_local_accumulator_target
      /\ ~Preflight!append_to_non_list
      /\ ~Preflight!secret_use_only
      /\ ~Preflight!secret_undeclared
      /\ ~Preflight!secret_dynamic_name
      /\ ~Preflight!status_disabled
      /\ ~Preflight!circular_dependency
      /\ ~Preflight!missing_dependency
      /\ ~Preflight!missing_default_target
      /\ ~Preflight!colon_kwarg_syntax
  BY SameForTheSkill DEF Silent
<1> QED
  BY <1>2, <1>3, <1>4, <1>5, <1>7, <1>8, <1>9 DEF Preflight!Errors, Preflight!Report

\* What lint says does not change while skill and installation do not.
LEMMA SilentStays ==
  ASSUME UNCHANGED <<skill, env>>, Silent
  PROVE  Silent'
<1>1. parse_error' = parse_error
  BY DEF parse_error
<1>2. no_targets' = no_targets
  BY DEF no_targets, Targets
<1>3. no_entry_target' = no_entry_target
  BY DEF no_entry_target, Targets
<1>4. unknown_capability' = unknown_capability
  BY DEF unknown_capability, HasRegistry
<1>5. undeclared_var' = undeclared_var
  BY DEF undeclared_var, Targets, Top, Declared, Inputs, Bound, AllWalked, Walked, AllElse, InElse
<1>6. unknown_returns_ref' = unknown_returns_ref
  BY DEF unknown_returns_ref, Declared, Inputs, Bound, AllWalked, Walked, Targets, AllElse, InElse
<1>7. unknown_filter' = unknown_filter
  BY DEF unknown_filter, Targets, Top
<1>8. unset_template_var' = unset_template_var
  BY DEF unset_template_var, Declared, Inputs, Bound, AllWalked, Walked, Targets, AllElse, InElse
<1>9. malformed_op_grammar' = malformed_op_grammar
  BY DEF malformed_op_grammar
<1>10. invalid_conditional_syntax' = invalid_conditional_syntax
  BY DEF invalid_conditional_syntax
<1>11. single_equals' = single_equals
  BY DEF single_equals
<1>12. indentation' = indentation
  BY DEF indentation
<1>13. reserved_keyword' = reserved_keyword
  BY DEF reserved_keyword
<1>14. unknown_connector' = unknown_connector
  BY DEF unknown_connector, HasRegistry, Qualified, AllWalked, Walked, Targets, Connectors
<1>15. connector_as_tool' = connector_as_tool
  BY DEF connector_as_tool, HasRegistry, Bare, AllWalked, Walked, Targets, Connectors
<1>16. unknown_connector_class' = unknown_connector_class
  BY DEF unknown_connector_class
<1>17. unwired_primary_connector' = unwired_primary_connector
  BY DEF unwired_primary_connector, HasRegistry, Targets, Unwired, Walked, Connectors
<1>18. disallowed_tool' = disallowed_tool
  BY DEF disallowed_tool, HasRegistry, Qualified, AllWalked, Walked, Targets, Connectors, Allowed
<1>19. unknown_tool_on_connector' = unknown_tool_on_connector
  BY DEF unknown_tool_on_connector, HasRegistry, Qualified, AllWalked, Walked, Targets, Connectors, Static, Allowed
<1>20. uninitialized_append' = uninitialized_append
  BY DEF uninitialized_append, Targets, Appended, Walked, Inputs, Scopes
<1>21. foreach_local_accumulator_target' = foreach_local_accumulator_target
  BY DEF foreach_local_accumulator_target, Targets, Appended, Walked, Scopes
<1>22. append_to_non_list' = append_to_non_list
  BY DEF append_to_non_list, Appended, Walked, Literal, WrittenIn
<1>23. disabled_skill_reference' = disabled_skill_reference
  BY DEF disabled_skill_reference, StoreUp, References, AllWalked, Walked, Targets, Known
<1>24. secret_use_only' = secret_use_only
  BY DEF secret_use_only, AllWalked, Walked, Targets, AllElse, InElse
<1>25. secret_undeclared' = secret_undeclared
  BY DEF secret_undeclared, AllWalked, Walked, Targets
<1>26. secret_dynamic_name' = secret_dynamic_name
  BY DEF secret_dynamic_name, AllWalked, Walked, Targets
<1>27. status_disabled' = status_disabled
  BY DEF status_disabled
<1>28. circular_dependency' = circular_dependency
  BY DEF circular_dependency, visit, Needs, Targets, Visited
<1>29. missing_dependency' = missing_dependency
  BY DEF missing_dependency, Targets
<1>30. missing_skillstore_for_data_ref' = missing_skillstore_for_data_ref
  BY DEF missing_skillstore_for_data_ref, HasStore, Targets, Top
<1>31. unsafe_shell_disabled' = unsafe_shell_disabled
  BY DEF unsafe_shell_disabled, AllWalked, Walked, Targets
<1>32. shell_binary_not_allowed("api")' = shell_binary_not_allowed("api")
  BY DEF shell_binary_not_allowed, AllWalked, Walked, Targets
<1>33. missing_default_target' = missing_default_target
  BY DEF missing_default_target, Targets
<1>34. colon_kwarg_syntax' = colon_kwarg_syntax
  BY DEF colon_kwarg_syntax, AllWalked, Walked, Targets
<1> QED
  BY <1>1, <1>2, <1>3, <1>4, <1>5, <1>6, <1>7, <1>8, <1>9, <1>10, <1>11, <1>12, <1>13, <1>14, <1>15, <1>16, <1>17,
     <1>18, <1>19, <1>20, <1>21, <1>22, <1>23, <1>24, <1>25, <1>26, <1>27, <1>28, <1>29, <1>30, <1>31, <1>32, <1>33,
     <1>34 DEF Silent

LEMMA ExcusesStay ==
  ASSUME UNCHANGED <<skill, env>>
  PROVE  /\ MissingInputs' = MissingInputs /\ Baked' = Baked
         /\ Preflight!missing_skillstore_for_data_ref' = Preflight!missing_skillstore_for_data_ref
<1>1. MissingInputs' = MissingInputs
  BY DEF MissingInputs, Resolved, Required, Defaulted, Inputs
<1>2. Baked' = Baked
  BY BakedStays
<1>3. Preflight!missing_skillstore_for_data_ref' = Preflight!missing_skillstore_for_data_ref
  BY DEF Preflight!missing_skillstore_for_data_ref, PreflightEnv, Preflight!HasStore, Preflight!Targets, Preflight!Top,
         Preflight!Own
<1> QED
  BY <1>1, <1>2, <1>3

\* What no linter can know.
Excused ==
  \/ failure = "inputs" /\ MissingInputs # {}
  \/ Baked.fail # None /\ failure = Baked.fail
  \/ failure = "lint" /\ env.entry = "trigger" /\ Preflight!missing_skillstore_for_data_ref

\* A skill without errors has no parse error, a target or a template, and an
\* entry that is one of its targets.
LEMMA SilentSkill ==
  ASSUME OneCase, Silent
  PROVE  /\ skill.errors = {} /\ ~(Targets = {} /\ skill.template = {}) /\ ~no_entry_target
         /\ Targets # {} => skill.entry \in Targets
<1>1. skill.errors = {}
  <2> SUFFICES ASSUME NEW k \in skill.errors PROVE FALSE
    OBVIOUS
  <2>1. k \in {"condition", "equals", "malformed $", "reserved", "indent"}
    BY DEF Silent, parse_error
  <2> QED
    BY <2>1 DEF Silent, invalid_conditional_syntax, single_equals, malformed_op_grammar, reserved_keyword, indentation
<1>2. ~(Targets = {} /\ skill.template = {})
  BY <1>1 DEF Silent, no_targets
<1>3. Targets # {} => skill.entry # None
  BY DEF Silent, no_entry_target
<1>4. skill.entry \in Targets \cup {None}
  BY <1>1, CasesAssumption DEF OneCase, Targets
<1> QED
  BY <1>1, <1>2, <1>3, <1>4 DEF Silent

LEMMA SilentOrder ==
  ASSUME OneCase, Silent
  PROVE  Order.fail = None
<1>1. CASE Targets = {}
  BY <1>1 DEF Order
<1>2. CASE Targets # {}
  <2>1. skill.entry \in Targets /\ skill.entry # None
    BY <1>2, SilentSkill DEF no_entry_target
  <2>2. ~missing_dependency /\ ~visit(skill.entry).cycle
    BY <2>1 DEF Silent, circular_dependency
  <2>3. toposort(skill.targets, skill.entry).fail = None
    BY <2>1, <2>2, GraphOfCase, LintOrders
  <2> QED
    BY <1>2, <2>3 DEF Order
<1> QED
  BY <1>1, <1>2

\* compile() throws for a skill without errors only what it is excused for.
LEMMA SilentCompiles ==
  ASSUME OneCase, Silent, compileFailure # None
  PROVE  \/ compileFailure = "inputs" /\ MissingInputs # {}
         \/ Baked.fail # None /\ compileFailure = Baked.fail
         \/ compileFailure = "lint" /\ env.entry = "trigger" /\ Preflight!missing_skillstore_for_data_ref
<1>1. Wired(env)
  BY ParsedCase
<1>2. CASE env.entry # "embedder" /\ Preflight!Errors("compile-preflight") # {}
  <2>1. compileFailure = "lint"
    BY <1>2 DEF compileFailure
  <2> QED
    BY <1>1, <1>2, <2>1, PreflightPasses
<1>3. CASE ~(env.entry # "embedder" /\ Preflight!Errors("compile-preflight") # {})
  <2>1. compileFailure = IF MissingInputs # {} THEN "inputs" ELSE IF Baked.fail # None THEN Baked.fail ELSE Order.fail
    BY <1>3, SilentSkill DEF compileFailure
  <2> QED
    BY <2>1, SilentOrder
<1> QED
  BY <1>2, <1>3

\* What lint and compile() have said, from then on.
CleanInv ==
  OneCase /\ (phase = "written" => failure = None) /\ (clean => Silent) /\ (clean /\ failure # None => Excused)

LEMMA Judged ==
  ASSUME Next
  PROVE  \/ LintSkill \/ Compile
         \/ UNCHANGED <<clean, failure>> /\ (phase' = "written" => phase = "written")
<1> USE DEF Running, AtOp, Cleared, Throw, Bind, Fail, NextTarget
<1>1. CASE Start
  BY <1>1 DEF Start
<1>2. CASE TargetDone
  BY <1>2 DEF TargetDone
<1>3. CASE End
  BY <1>3 DEF End
<1>4. CASE Ops
  BY <1>4 DEF Ops, Refuse, Set, Accumulate, Emit, Call, Shell, FileRead, FileWrite, Notify
<1>5. CASE Blocks
  BY <1>5 DEF Blocks, Branch, Enter, Loop, Item, EndLoop
<1>6. CASE Stopped
  BY <1>6 DEF Stopped, state
<1> QED
  BY <1>1, <1>2, <1>3, <1>4, <1>5, <1>6 DEF Next

LEMMA CleanInvKept ==
  ASSUME CleanInv, [Next]_state
  PROVE  CleanInv'
<1> USE DEF CleanInv
<1>1. UNCHANGED <<skill, env>>
  BY Moves DEF state
<1>2. OneCase'
  BY <1>1 DEF OneCase
<1>3. Silent => Silent'
  BY <1>1, SilentStays
<1>4. CASE LintSkill
  <2>1. phase = "written" /\ failure' = None
    BY <1>4 DEF LintSkill
  <2>2. clean' => Silent'
    BY <1>3, <1>4, CleanIsSilent DEF LintSkill
  <2> QED
    BY <1>2, <2>1, <2>2
<1>5. CASE Compile
  <2>1. clean' = clean /\ failure' = compileFailure /\ phase' # "written"
    BY <1>5 DEF Compile
  <2>2. clean' /\ failure' # None => Excused'
    <3> SUFFICES ASSUME clean, compileFailure # None
                 PROVE  Excused'
      BY <2>1
    <3>1. \/ compileFailure = "inputs" /\ MissingInputs # {}
          \/ Baked.fail # None /\ compileFailure = Baked.fail
          \/ compileFailure = "lint" /\ env.entry = "trigger" /\ Preflight!missing_skillstore_for_data_ref
      BY SilentCompiles
    <3> QED
      BY <1>1, <2>1, <3>1, ExcusesStay DEF Excused
  <2> QED
    BY <1>2, <1>3, <2>1, <2>2
<1>6. CASE UNCHANGED <<clean, failure>> /\ (phase' = "written" => phase = "written")
  <2>1. Excused => Excused'
    BY <1>1, <1>6, ExcusesStay DEF Excused
  <2> QED
    BY <1>2, <1>3, <1>6, <2>1
<1> QED
  BY <1>4, <1>5, <1>6, Judged DEF state

\* For every skill and installation: what lint_skill has passed, compile() throws
\* for only over this run's values, the approval and the references of other
\* skills, or the missing store of a trigger; its preflight finds no error lint
\* did not find, and its sort no cycle (compile.ts:141, compile.ts:517).
THEOREM CleanAlwaysCompiles == Spec => []CleanCompiles
<1>1. Init => CleanInv
  BY DEF Init, CleanInv, OneCase
<1>2. CleanInv /\ [Next]_state => CleanInv'
  BY CleanInvKept
<1>3. CleanInv => CleanCompiles
  BY DEF CleanInv, Excused, CleanCompiles
<1> QED
  BY <1>1, <1>2, <1>3, PTL DEF Spec

=============================================================================
