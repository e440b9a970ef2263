----------------------------- MODULE ParserProofs -----------------------------
(***************************************************************************)
(* For every source: what parses without an error stands in the block its  *)
(* indentation puts it in, branches belong to the `if` they stand below,   *)
(* and a line one step below a block is not reported for its indentation.  *)
(***************************************************************************)
EXTENDS Parser, SequenceTheorems, WellFoundedInduction, TLAPS

Kinds == {"main", "target-else", "if", "elif", "conditional-else", "foreach", "unknown-block"}

Frames == [kind : Kinds, depth : Nat, block : Nat, chain : Nat]

\* Everything has its type, and what names a line names one that was read.
TypeOK ==
  /\ source \in Seq(Line)
  /\ here \in Line \cup {none}
  /\ current \in 0..Len(source)
  /\ stack \in Seq(Frames)
  /\ \A i \in 1..Len(stack) : stack[i].block \in Lines /\ stack[i].chain \in 0..Len(source)
  /\ seen \in BOOLEAN
  /\ \A x \in DOMAIN targets : targets[x] \in Lines
  /\ \A f \in faults : f.line \in Lines

\* The tree of what was read.
TreeOK ==
  /\ tree = [ops |-> tree.ops, arms |-> tree.arms, otherwise |-> tree.otherwise,
             elseOf |-> tree.elseOf, deps |-> tree.deps]
  /\ \A l \in DOMAIN tree.ops : l \in Lines /\ tree.ops[l].block \in Lines
  /\ \A l \in DOMAIN tree.arms : l \in Lines /\ tree.arms[l] \in Seq(Nat)
  /\ \A l \in DOMAIN tree.otherwise : l \in 0..Len(source)

-----------------------------------------------------------------------------
(* The stack of blocks                                                      *)

Heads(j) == IsTarget(j) \/ IsDefault(j)

\* The target being read is the last header, unless that is a default.
LastHeader ==
  /\ seen <=> \E j \in Lines : Heads(j)
  /\ \A t \in Lines : Heads(t) /\ (\A j \in Lines : Heads(j) => j <= t) =>
       current = IF IsTarget(t) THEN t ELSE 0
  /\ ~seen => current = 0
  /\ current = 0 => stack = <<>>

\* The depths of the frames of s: each is a step below the one before, but for
\* the frame of the target's else, the e-th, which is as deep as the target's own.
Depth(i, e) == INDENT_STEP * (IF e = 0 \/ i < e THEN i ELSE i - e + 1)

Shape(s, e) ==
  /\ Len(s) > 0 /\ e \in 0..Len(s)
  /\ s[1].kind \in {"main", "target-else"}
  /\ \A i \in 1..Len(s) : /\ s[i].depth = Depth(i, e)
                          /\ s[i].kind = "target-else" <=> i = e
                          /\ s[i].kind = "main" => i = 1

\* A depth at which lines have a frame in s.
Reached(s, d) == \E q \in Nat : d = INDENT_STEP * q /\ d <= s[Len(s)].depth

Openers == {"label", "else", "if", "elif", "foreach", "block"}
Soft    == {"single-equals", "condition", "unknown-block", "reserved"}
Askew   == {"orphan", "mid-block"}

\* What is wrong with the line does not keep it from opening a block.
Softly(o) == \A g \in faults : g.line = o => g.fault \in Soft

\* An indented line that opens a block which no line has left since.
OpenAt(o) ==
  /\ source[o].at > 0 /\ source[o].is \in Openers /\ Softly(o)
  /\ \A k \in Lines : Counts(k) /\ k > o => source[k].at >= source[o].at + INDENT_STEP

\* Such a block of the target being read has its frame.
Covered == \A o \in Lines : o > current /\ OpenAt(o) => Reached(stack, source[o].at + INDENT_STEP)

\* The else of a target belongs to the target being read.
ElseFrames ==
  \A i \in 1..Len(stack) : stack[i].kind = "target-else" =>
    MarginElse(stack[i].block) /\ stack[i].block > current

\* A report of an indentation that the line has from nothing that was opened.
Rightly(l) ==
  source[l].at > 0 /\
  LET o == Owner(l)
      t == TargetOf(l)
  IN  ~ /\ t # 0 /\ IsTarget(t)
        /\ source[o].is \in Openers
        /\ source[l].at = source[o].at + INDENT_STEP
        /\ Softly(o)

\* The invariant of sources with or without errors.
Stacked ==
  /\ current # 0 => \E e \in Nat : Shape(stack, e) /\ Covered
  /\ ElseFrames
  /\ \A f \in faults : f.fault \in Askew => Rightly(f.line)

-----------------------------------------------------------------------------
(* Sources without errors                                                   *)

\* A block the tree leads to, by blocks that are opened by earlier lines.
Linked(b) ==
  \/ \E x \in DOMAIN targets : targets[x] = b
  \/ \E x \in DOMAIN targets : targets[x] \in DOMAIN tree.elseOf /\ tree.elseOf[targets[x]] = b
  \/ b \in DOMAIN tree.ops /\ tree.ops[b].op = "foreach"
  \/ \E i \in DOMAIN tree.ops \cap DOMAIN tree.arms :
       /\ i <= b
       /\ b \in ToSet(tree.arms[i]) \/ (i \in DOMAIN tree.otherwise /\ tree.otherwise[i] = b)

\* What the maps of the tree hold.
Maps ==
  /\ \A x \in DOMAIN targets, j \in Lines :
       targets[x] = j => IsTarget(j) /\ source[j].name = x
  /\ \A t \in DOMAIN tree.elseOf : tree.elseOf[t] \in Lines
  /\ \A t \in DOMAIN tree.elseOf, j \in Lines :
       tree.elseOf[t] = j => MarginElse(j) /\ TargetOf(j) = t
  /\ \A l \in DOMAIN tree.ops, b \in Lines : tree.ops[l].block = b => b < l /\ Linked(b)
  /\ current # 0 => \E x \in DOMAIN targets : targets[x] = current

\* The frame of an `if` knows it, and nothing but its branches stood beside it.
OfIf(f) ==
  /\ f.chain \in DOMAIN tree.ops \cap DOMAIN tree.arms
  /\ f.chain <= f.block /\ f.chain \notin DOMAIN tree.otherwise
  /\ source[f.chain].is = "if" /\ source[f.chain].at = f.depth - INDENT_STEP
  /\ Counts(f.chain)
  /\ \A k \in Lines : Counts(k) /\ k > f.chain =>
       \/ source[k].at >= f.depth
       \/ source[k].is = "elif" /\ source[k].at = f.depth - INDENT_STEP

\* A frame stands for the line that opened it.
FrameIs(f) ==
  /\ Counts(f.block) /\ Opens(f.block) /\ f.depth = source[f.block].at + INDENT_STEP
  /\ f.kind # "unknown-block"
  /\ Linked(f.block)
  /\ f.kind \in {"if", "elif"} => OfIf(f)

\* Every line below it is in its block.
Inner(f) == \A k \in Lines : Counts(k) /\ k > f.block => source[k].at >= f.depth

\* Only the target's own frame is left by the else of the target.
FrameOK(i, e) == FrameIs(stack[i]) /\ (i >= e => Inner(stack[i]))

\* The top frame is the one the last line opened or stands in.
TopIs ==
  \A p \in Lines : Counts(p) /\ (\A q \in Lines : Counts(q) => q <= p) =>
    stack[Len(stack)].depth = source[p].at + (IF Opens(p) THEN INDENT_STEP ELSE 0)

OpOK(l) ==
  WellSet(l) /\ l \in DOMAIN tree.ops /\ tree.ops[l].block = Owner(l) /\ Says(l)

BranchOK(l) ==
  LET i == IfOf(l) IN
    /\ i # 0 /\ i \in DOMAIN tree.ops \cap DOMAIN tree.arms
    /\ IF source[l].is = "elif" THEN l \in ToSet(tree.arms[i])
       ELSE i \in DOMAIN tree.otherwise /\ tree.otherwise[i] = l

Bodied(l) == /\ IsOp(l) => OpOK(l)
             /\ source[l].is \in {"elif", "else"} => BranchOK(l)

\* The invariant of sources without errors.
Faithful ==
  /\ Maps
  /\ current # 0 => /\ \E e \in 0..2 : Shape(stack, e) /\ \A i \in 1..Len(stack) : FrameOK(i, e)
                    /\ TopIs
  /\ \A l \in InBody : Bodied(l)

IInv ==
  /\ TypeOK /\ TreeOK /\ LastHeader
  /\ Regular => Stacked
  /\ Regular /\ faults = {} => Faithful

-----------------------------------------------------------------------------
(* Last ones                                                                *)

\* A set of numbers with a bound has a last one.
LEMMA LastOne ==
  ASSUME NEW m \in Nat, NEW S, S \subseteq 1..m, S # {}
  PROVE  \E x \in S : \A y \in S : y <= x
<1> DEFINE U == {m - k : k \in S}
<1>1. U \subseteq Nat /\ U # {}
  <2>1. \A k \in S : k \in Int /\ k <= m
    OBVIOUS
  <2>2. \A k \in S : m - k \in Nat
    BY <2>1
  <2> QED
    BY <2>2
<1>2. PICK x \in U : \A y \in U : ~(<<y, x>> \in OpToRel(<, Nat))
  <2> HIDE DEF U
  <2> QED
    BY <1>1, NatLessThanWellFounded, WFMin
<1>3. \A y \in U : ~(y < x)
  BY <1>1, <1>2 DEF OpToRel
<1>4. PICK k \in S : x = m - k
  OBVIOUS
<1>5. \A j \in S : m - j \in U /\ j \in Int
  OBVIOUS
<1> HIDE DEF U
<1>6. \A j \in S : ~(m - j < m - k)
  BY <1>3, <1>4, <1>5
<1> QED
  BY <1>5, <1>6

\* Whoever is the last of a set is its Max.
LEMMA MaxIs ==
  ASSUME NEW S, S \subseteq Int, NEW x \in S, \A y \in S : y <= x
  PROVE  Max(S) = x
<1>1. \A y \in S : x >= y
  OBVIOUS
<1>2. Max(S) \in S /\ \A y \in S : Max(S) >= y
  BY <1>1 DEF Max
<1>3. Max(S) \in Int /\ x \in Int
  BY <1>2
<1>4. Max(S) <= x /\ Max(S) >= x
  BY <1>2
<1> QED
  BY <1>3, <1>4

LEMMA LastOfIs ==
  ASSUME NEW S, S \subseteq Int, NEW x \in S, \A y \in S : y <= x
  PROVE  LastOf(S) = x
BY MaxIs DEF LastOf

\* The last of a set of lines, if there is one.
LEMMA LastOfAt ==
  ASSUME NEW m \in Nat, NEW S, S \subseteq 1..m
  PROVE  /\ S = {} => LastOf(S) = 0
         /\ S # {} => LastOf(S) \in S /\ \A y \in S : y <= LastOf(S)
<1>1. CASE S = {}
  BY <1>1 DEF LastOf
<1>2. CASE S # {}
  <2>1. PICK x \in S : \A y \in S : y <= x
    BY <1>2, LastOne
  <2>2. S \subseteq Int
    OBVIOUS
  <2>3. LastOf(S) = x
    BY <2>1, <2>2, LastOfIs
  <2> QED
    BY <2>1, <2>3
<1> QED
  BY <1>1, <1>2

-----------------------------------------------------------------------------
(* The frames that stay                                                     *)

\* popToDepth keeps the frames up to the last one that is not too deep.
LEMMA PopToDepthAt ==
  ASSUME NEW s \in Seq(Frames), NEW d \in Nat
  PROVE  \E k \in 0..Len(s) : /\ popToDepth(s, d) = SubSeq(s, 1, k)
                              /\ k > 0 => s[k].depth <= d
                              /\ \A j \in 1..Len(s) : j > k => s[j].depth > d
<1> DEFINE I == {i \in 1..Len(s) : s[i].depth <= d}
           k == IF I # {} THEN Max(I) ELSE 0
<1>1. popToDepth(s, d) = SubSeq(s, 1, k)
  BY DEF popToDepth, SelectLastInSeq
<1>2. Len(s) \in Nat /\ \A j \in 1..Len(s) : s[j].depth \in Nat
  <2>1. \A j \in 1..Len(s) : s[j] \in Frames
    OBVIOUS
  <2> QED
    BY <2>1 DEF Frames
<1>3. CASE I = {}
  <2>1. k = 0
    BY <1>3
  <2>2. \A j \in 1..Len(s) : s[j].depth > d
    BY <1>2, <1>3
  <2>3. 0 \in 0..Len(s)
    BY <1>2
  <2> HIDE DEF k
  <2> QED
    BY <1>1, <2>1, <2>2, <2>3
<1>4. CASE I # {}
  <2>1. PICK x \in I : \A y \in I : y <= x
    <3>1. I \subseteq 1..Len(s)
      OBVIOUS
    <3> HIDE DEF I
    <3> QED
      BY <1>2, <1>4, <3>1, LastOne
  <2>2. I \subseteq Int
    OBVIOUS
  <2>3. k = x
    <3> HIDE DEF I
    <3> QED BY <1>4, <2>1, <2>2, MaxIs
  <2>4. \A j \in 1..Len(s) : j > x => s[j].depth > d
    BY <1>2, <2>1
  <2>5. x \in 0..Len(s) /\ s[x].depth <= d
    BY <1>2
  <2> HIDE DEF k
  <2> QED
    BY <1>1, <2>3, <2>4, <2>5
<1> QED
  BY <1>3, <1>4

\* The frame that a branch continues.
LEMMA ContIdxAt ==
  ASSUME stack \in Seq(Frames), contIdx > 0
  PROVE  /\ contIdx \in 1..Len(stack) /\ here.is \in {"elif", "else"}
         /\ stack[contIdx].kind \in {"if", "elif"}
         /\ stack[contIdx].depth = here.at + INDENT_STEP
<1> DEFINE I == {i \in 1..Len(stack) : Continues(stack[i])}
<1>1. here.is \in {"elif", "else"} /\ contIdx = IF I # {} THEN Max(I) ELSE 0
  BY DEF contIdx, SelectLastInSeq
<1>2. I # {}
  BY <1>1
<1>3. PICK x \in I : \A y \in I : y <= x
  <2>1. I \subseteq 1..Len(stack) /\ Len(stack) \in Nat
    OBVIOUS
  <2> HIDE DEF I
  <2> QED
    BY <1>2, <2>1, LastOne
<1>4. I \subseteq Int
  OBVIOUS
<1>5. contIdx = x
  <2> HIDE DEF I
  <2> QED BY <1>1, <1>2, <1>3, <1>4, MaxIs
<1> QED
  BY <1>1, <1>5 DEF Continues

\* A stack that begins with the frame of a target keeps it.
LEMMA PopShape ==
  ASSUME NEW s \in Seq(Frames), NEW e \in Nat, Shape(s, e), NEW d \in Nat, d >= INDENT_STEP
  PROVE  \E k \in 1..Len(s) : /\ popToDepth(s, d) = SubSeq(s, 1, k)
                              /\ SubSeq(s, 1, k) # <<>> /\ Last(SubSeq(s, 1, k)) = s[k]
                              /\ s[k].depth <= d /\ e <= k
                              /\ \A j \in 1..Len(s) : j > k => s[j].depth > d
                              /\ Shape(SubSeq(s, 1, k), e)
<1>1. PICK k \in 0..Len(s) : /\ popToDepth(s, d) = SubSeq(s, 1, k)
                             /\ k > 0 => s[k].depth <= d
                             /\ \A j \in 1..Len(s) : j > k => s[j].depth > d
  BY PopToDepthAt
<1>2. Len(s) \in Nat /\ Len(s) > 0 /\ e \in 0..Len(s)
  BY DEF Shape
<1>3. s[1].depth = INDENT_STEP /\ (e > 0 => s[e].depth = INDENT_STEP)
  BY <1>2 DEF Shape, Depth, INDENT_STEP
<1>4. k > 0 /\ e <= k
  BY <1>1, <1>2, <1>3 DEF INDENT_STEP
<1>5. /\ Len(SubSeq(s, 1, k)) = k
      /\ \A i \in 1..k : SubSeq(s, 1, k)[i] = s[i]
  BY <1>2
<1>6. SubSeq(s, 1, k) # <<>> /\ Last(SubSeq(s, 1, k)) = s[k]
  BY <1>4, <1>5 DEF Last
<1>7. Shape(SubSeq(s, 1, k), e)
  <2>1. e \in 0..k /\ k > 0 /\ k \in Nat
    BY <1>2, <1>4
  <2>2. \A i \in 1..k : i \in 1..Len(s)
    BY <1>2
  <2>3. SubSeq(s, 1, k)[1] = s[1]
    BY <1>5, <2>1
  <2> QED
    BY <1>5, <2>1, <2>2, <2>3 DEF Shape
<1> QED
  BY <1>1, <1>4, <1>6, <1>7

-----------------------------------------------------------------------------
(* Reading on                                                               *)

\* A line is read; the one that follows is known.
ReadOn ==
  /\ source \in Seq(Line) /\ here \in Line
  /\ source' = Append(source, here) /\ here' \in Line \cup {none}

LEMMA ReportReads ==
  ASSUME TypeOK, Reading, NEW F, Report(F)
  PROVE  ReadOn /\ faults' = faults \cup {[line |-> n, fault |-> f] : f \in F}
BY DEF TypeOK, Reading, Report, ReadOn

\* What was said of earlier lines stays said.
LEMMA OldLines ==
  ASSUME ReadOn
  PROVE  /\ Len(source) \in Nat /\ Len(source') = n /\ n \in Nat /\ n \notin Lines
         /\ Lines' = Lines \cup {n}
         /\ source'[n] = here /\ source' \in Seq(Line)
         /\ \A j \in Lines : /\ j \in Nat /\ j > 0 /\ j < n
                             /\ source'[j] = source[j] /\ source[j] \in Line
                             /\ IsTarget(j)' <=> IsTarget(j)
                             /\ IsDefault(j)' <=> IsDefault(j)
                             /\ Counts(j)' <=> Counts(j)
                             /\ Opens(j)' <=> Opens(j)
                             /\ MarginElse(j)' <=> MarginElse(j)
<1>1. /\ Len(source) \in Nat /\ Len(source') = n /\ n \in Nat /\ n \notin Lines
      /\ Lines' = Lines \cup {n} /\ source'[n] = here /\ source' \in Seq(Line)
      /\ \A j \in Lines : /\ j \in Nat /\ j > 0 /\ j < n
                          /\ source'[j] = source[j] /\ source[j] \in Line
  BY DEF ReadOn, Lines, n
<1>2. \A j \in Lines : Below(j)' = Below(j)
  <2> SUFFICES ASSUME NEW j \in Lines PROVE Below(j)' = Below(j)
    OBVIOUS
  <2>1. CASE j = Len(source)
    BY <1>1, <2>1 DEF Below, n
  <2>2. CASE j # Len(source)
    <3>1. j + 1 \in Lines /\ j # Len(source')
      BY <1>1, <2>2 DEF Lines, n
    <3> QED
      BY <1>1, <2>2, <3>1 DEF Below
  <2> QED
    BY <2>1, <2>2
<1>3. \A j \in Lines : IsTarget(j)' <=> IsTarget(j)
  BY <1>1, <1>2 DEF IsTarget
<1>4. \A j \in Lines : IsDefault(j)' <=> IsDefault(j)
  BY <1>1 DEF IsDefault
<1>5. \A j \in Lines : Counts(j)' <=> Counts(j)
  BY <1>1, <1>3, <1>4 DEF Counts
<1>6. \A j \in Lines : Opens(j)' <=> Opens(j)
  BY <1>1, <1>3 DEF Opens
<1>7. \A j \in Lines : MarginElse(j)' <=> MarginElse(j)
  BY <1>1 DEF MarginElse
<1> QED
  BY <1>1, <1>3, <1>4, <1>5, <1>6, <1>7

LEMMA OldOwners ==
  ASSUME ReadOn
  PROVE  \A l \in Lines : Owner(l)' = Owner(l) /\ TargetOf(l)' = TargetOf(l) /\ IfOf(l)' = IfOf(l)
<1> TAKE l \in Lines
<1>1. l \in Nat /\ \A j \in 1..(l - 1) : j \in Lines
  BY OldLines DEF Lines
<1>2. /\ source'[l] = source[l]
      /\ \A j \in 1..(l - 1) : /\ source'[j] = source[j]
                               /\ Counts(j)' <=> Counts(j)
                               /\ IsTarget(j)' <=> IsTarget(j)
                               /\ IsDefault(j)' <=> IsDefault(j)
  BY <1>1, OldLines
<1>3. Owner(l)' = Owner(l)
  BY <1>2 DEF Owner
<1>4. TargetOf(l)' = TargetOf(l)
  BY <1>2 DEF TargetOf
<1>5. IfOf(l)' = IfOf(l)
  <2> DEFINE S == {j \in 1..(l - 1) : /\ Counts(j) /\ source[j].at <= source[l].at
                                      /\ ~(source[j].is = "elif" /\ source[j].at = source[l].at)}
             T == {j \in 1..(l - 1) : /\ Counts(j)' /\ source'[j].at <= source'[l].at
                                      /\ ~(source'[j].is = "elif" /\ source'[j].at = source'[l].at)}
  <2>1. S = T
    BY <1>2
  <2>2. LastOf(S) # 0 => LastOf(S) \in 1..(l - 1)
    <3>1. S \subseteq 1..(l - 1) /\ l - 1 \in Nat
      BY OldLines
    <3> HIDE DEF S
    <3> QED
      BY <3>1, LastOfAt
  <2>3. IfOf(l) = IF LastOf(S) # 0 /\ source[LastOf(S)].is = "if" /\ source[LastOf(S)].at = source[l].at
                  THEN LastOf(S) ELSE 0
    BY DEF IfOf
  <2>4. IfOf(l)' = IF LastOf(T) # 0 /\ source'[LastOf(T)].is = "if" /\ source'[LastOf(T)].at = source'[l].at
                   THEN LastOf(T) ELSE 0
    BY DEF IfOf
  <2> HIDE DEF S, T
  <2> QED
    BY <1>2, <2>1, <2>2, <2>3, <2>4
<1> QED
  BY <1>3, <1>4, <1>5

\* The owners of the line that is read.
LEMMA NewOwners ==
  ASSUME ReadOn, NEW m, m = n
  PROVE  /\ Owner(m)' = LastOf({j \in Lines : Counts(j) /\ source[j].at < here.at})
         /\ TargetOf(m)' = LastOf({j \in Lines : Heads(j)})
         /\ IfOf(m)' = LET j == LastOf({k \in Lines :
                                          /\ Counts(k) /\ source[k].at <= here.at
                                          /\ ~(source[k].is = "elif" /\ source[k].at = here.at)})
                       IN  IF j # 0 /\ source'[j].is = "if" /\ source'[j].at = here.at
                           THEN j ELSE 0
<1>1. 1..(m - 1) = Lines /\ source'[m] = here
  BY OldLines DEF Lines, n
<1>2. \A j \in Lines : /\ source'[j] = source[j]
                       /\ Counts(j)' <=> Counts(j)
                       /\ IsTarget(j)' <=> IsTarget(j)
                       /\ IsDefault(j)' <=> IsDefault(j)
  BY OldLines
<1>3. Owner(m)' = LastOf({j \in 1..(m - 1) : Counts(j)' /\ source'[j].at < source'[m].at})
  BY DEF Owner
<1>4. TargetOf(m)' = LastOf({j \in 1..(m - 1) : IsTarget(j)' \/ IsDefault(j)'})
  BY DEF TargetOf
<1>5. Owner(m)' = LastOf({j \in Lines : Counts(j) /\ source[j].at < here.at})
  BY <1>1, <1>2, <1>3
<1>6. TargetOf(m)' = LastOf({j \in Lines : Heads(j)})
  BY <1>1, <1>2, <1>4 DEF Heads
<1> DEFINE S == {k \in Lines : /\ Counts(k) /\ source[k].at <= here.at
                               /\ ~(source[k].is = "elif" /\ source[k].at = here.at)}
           T == {j \in 1..(m - 1) : /\ Counts(j)' /\ source'[j].at <= source'[m].at
                                    /\ ~(source'[j].is = "elif" /\ source'[j].at = source'[m].at)}
<1>7. S = T
  BY <1>1, <1>2
<1>8. IfOf(m)' = IF LastOf(T) # 0 /\ source'[LastOf(T)].is = "if" /\ source'[LastOf(T)].at = source'[m].at
                 THEN LastOf(T) ELSE 0
  BY DEF IfOf
<1>9. IfOf(m)' = IF LastOf(S) # 0 /\ source'[LastOf(S)].is = "if" /\ source'[LastOf(S)].at = here.at
                 THEN LastOf(S) ELSE 0
  <2> HIDE DEF S, T
  <2> QED
    BY <1>1, <1>7, <1>8
<1> QED
  BY <1>5, <1>6, <1>9

\* A source whose beginning is not regular is not regular.
LEMMA RegularBefore ==
  ASSUME ReadOn, Regular'
  PROVE  Regular
<1>1. \A j \in Lines : /\ j \in Lines' /\ source'[j] = source[j]
                       /\ IsTarget(j)' <=> IsTarget(j)
                       /\ IsDefault(j)' <=> IsDefault(j)
                       /\ Counts(j)' <=> Counts(j)
                       /\ Opens(j)' <=> Opens(j)
                       /\ MarginElse(j)' <=> MarginElse(j)
                       /\ TargetOf(j)' = TargetOf(j)
  BY OldLines, OldOwners
<1>2. OneHeaderPerName
  BY <1>1 DEF Regular, OneHeaderPerName
<1>3. OneElsePerTarget
  BY <1>1 DEF Regular, OneElsePerTarget
<1>4. ElseBelowOneBlock
  <2> SUFFICES ASSUME NEW j \in Lines, MarginElse(j)
               PROVE  LET p == LastOf({i \in 1..(j - 1) : Counts(i)}) IN
                        p # 0 => source[p].at + (IF Opens(p) THEN INDENT_STEP ELSE 0)
                                   <= 2 * INDENT_STEP
    BY DEF ElseBelowOneBlock
  <2> DEFINE S == {i \in 1..(j - 1) : Counts(i)}
             T == {i \in 1..(j - 1) : Counts(i)'}
  <2>1. j \in Nat /\ j > 0 /\ \A i \in 1..(j - 1) : i \in Lines
    BY OldLines DEF Lines
  <2>2. S = T
    BY <1>1, <2>1
  <2>3. \A p : p = LastOf(T) /\ p # 0 =>
          source'[p].at + (IF Opens(p)' THEN INDENT_STEP ELSE 0) <= 2 * INDENT_STEP
    BY <1>1 DEF Regular, ElseBelowOneBlock
  <2>4. LastOf(S) # 0 => LastOf(S) \in Lines
    <3>1. S \subseteq 1..(j - 1) /\ j - 1 \in Nat
      BY <2>1
    <3> HIDE DEF S
    <3> QED
      BY <2>1, <3>1, LastOfAt
  <2> HIDE DEF S, T
  <2>5. LastOf(S) # 0 => source[LastOf(S)].at + (IF Opens(LastOf(S)) THEN INDENT_STEP ELSE 0)
                           <= 2 * INDENT_STEP
    BY <1>1, <2>2, <2>3, <2>4
  <2> QED
    BY <2>5 DEF S
<1>5. Stepped
  <2> SUFFICES ASSUME NEW l \in InBody PROVE source[l].at >= INDENT_STEP
    BY DEF Stepped
  <2>1. l \in Lines /\ \A j \in 1..(l - 1) : j \in Lines
    BY OldLines DEF Lines, InBody
  <2>2. l \in InBody'
    BY <1>1, <2>1 DEF InBody
  <2> QED
    BY <1>1, <2>1, <2>2 DEF Regular, Stepped
<1> QED
  BY <1>2, <1>3, <1>4, <1>5 DEF Regular

\* An indented line below a header is in a body.
LEMMA BodyLine ==
  ASSUME TypeOK, LastHeader, ReadOn
  PROVE  /\ \A l \in Lines : l \in InBody' <=> l \in InBody
         /\ \A m : m = n => (m \in InBody' <=> here.at > 0 /\ seen)
<1>1. \A j \in Lines : /\ source'[j] = source[j]
                       /\ IsTarget(j)' <=> IsTarget(j)
                       /\ IsDefault(j)' <=> IsDefault(j)
  BY OldLines
<1>2. \A l \in Lines : l \in Lines' /\ \A j \in 1..(l - 1) : j \in Lines
  BY OldLines DEF Lines
<1>3. n \in Lines' /\ 1..(n - 1) = Lines /\ source'[n] = here
  BY OldLines DEF Lines, n
<1>4. \A l \in Lines : l \in InBody' <=> l \in InBody
  BY <1>1, <1>2 DEF InBody
<1>5. ASSUME NEW m, m = n PROVE m \in InBody' <=> here.at > 0 /\ seen
  <2>1. m \in InBody' <=> source'[m].at > 0 /\ \E j \in 1..(m - 1) : IsTarget(j)' \/ IsDefault(j)'
    BY <1>3, <1>5 DEF InBody
  <2>2. (\E j \in 1..(m - 1) : IsTarget(j)' \/ IsDefault(j)') <=> \E j \in Lines : Heads(j)
    BY <1>1, <1>3, <1>5 DEF Heads
  <2> QED
    BY <1>3, <1>5, <2>1, <2>2 DEF LastHeader
<1> QED
  BY <1>4, <1>5

-----------------------------------------------------------------------------
(* Stacks                                                                   *)

\* A frame on top, a step deeper.
LEMMA PushShape ==
  ASSUME NEW s \in Seq(Frames), NEW e \in Nat, Shape(s, e), NEW f,
         f.kind \notin {"main", "target-else"}, f.depth = s[Len(s)].depth + INDENT_STEP
  PROVE  Shape(Append(s, f), e)
<1>1. Len(s) \in Nat /\ Len(s) > 0 /\ e \in 0..Len(s)
  BY DEF Shape
<1>2. /\ Len(Append(s, f)) = Len(s) + 1 /\ Append(s, f)[Len(s) + 1] = f
      /\ \A i \in 1..Len(s) : Append(s, f)[i] = s[i]
  OBVIOUS
<1>3. s[Len(s)].depth = Depth(Len(s), e)
  BY <1>1 DEF Shape
<1>4. f.depth = Depth(Len(s) + 1, e)
  BY <1>1, <1>3 DEF Depth, INDENT_STEP
<1>5. \A i \in 1..(Len(s) + 1) : i \in 1..Len(s) \/ i = Len(s) + 1
  BY <1>1
<1>6. Len(s) + 1 # e /\ e \in 0..(Len(s) + 1)
  BY <1>1
<1> QED
  BY <1>1, <1>2, <1>4, <1>5, <1>6 DEF Shape

LEMMA OneLess ==
  ASSUME NEW k \in Nat, k > 0
  PROVE  \E j \in 0..k : j = k - 1
<1>1. k - 1 \in 0..k
  OBVIOUS
<1> QED
  BY <1>1

\* Below the frame of the target's else a frame is one step deeper than the last.
LEMMA NextDepth ==
  ASSUME NEW c \in Nat, NEW e \in Nat, c > 1, c # e
  PROVE  Depth(c, e) = Depth(c - 1, e) + INDENT_STEP
<1>1. CASE e = 0
  BY <1>1 DEF Depth, INDENT_STEP
<1>2. CASE e # 0 /\ c < e
  BY <1>2 DEF Depth, INDENT_STEP
<1>3. CASE e # 0 /\ c > e
  <2>1. ~(c < e) /\ ~(c - 1 < e)
    BY <1>3
  <2>2. Depth(c, e) = INDENT_STEP * (c - e + 1) /\ Depth(c - 1, e) = INDENT_STEP * (c - 1 - e + 1)
    BY <1>3, <2>1 DEF Depth
  <2> QED
    BY <2>2 DEF INDENT_STEP
<1> QED
  BY <1>1, <1>2, <1>3

\* The frames below that of an `if`.
LEMMA CutShape ==
  ASSUME NEW s \in Seq(Frames), NEW e \in Nat, Shape(s, e), NEW c \in 1..Len(s),
         s[c].kind \in {"if", "elif"}, NEW t \in Seq(Frames),
         Len(t) = c - 1, \A i \in 1..(c - 1) : t[i] = s[i],
         NEW g \in Nat, e < c => g = e, ~(e < c) => g = 0
  PROVE  /\ c > 1 /\ Shape(t, g)
         /\ s[c].depth = t[Len(t)].depth + INDENT_STEP
<1>1. Len(s) \in Nat /\ Len(s) > 0 /\ e \in 0..Len(s)
  BY DEF Shape
<1>2. c > 1 /\ c # e
  BY <1>1 DEF Shape
<1>3. t \in Seq(Frames) /\ Len(t) = c - 1 /\ \A i \in 1..(c - 1) : t[i] = s[i]
  OBVIOUS
<1>4. g \in Nat /\ g \in 0..(c - 1)
  BY <1>1, <1>2
<1>5. \A i \in 1..c : Depth(i, g) = Depth(i, e)
  BY <1>1, <1>2 DEF Depth, INDENT_STEP
<1>6. \A i \in 1..(c - 1) : i = e <=> i = g
  BY <1>1, <1>2
<1>7. s[1].kind \in {"main", "target-else"} /\ t[1] = s[1]
  BY <1>2, <1>3 DEF Shape
<1>8. \A i \in 1..(c - 1) : i \in 1..Len(s)
  BY <1>1
<1>9. Shape(t, g)
  <2>1. \A i \in 1..(c - 1) : /\ s[i].depth = Depth(i, e)
                              /\ s[i].kind = "target-else" <=> i = e
                              /\ s[i].kind = "main" => i = 1
    BY <1>8 DEF Shape
  <2>2. \A i \in 1..(c - 1) : i \in 1..c
    OBVIOUS
  <2>3. \A i \in 1..(c - 1) : /\ t[i].depth = Depth(i, g)
                              /\ t[i].kind = "target-else" <=> i = g
                              /\ t[i].kind = "main" => i = 1
    BY <1>3, <1>5, <1>6, <2>1, <2>2
  <2>4. Len(t) > 0 /\ g \in 0..Len(t) /\ 1..Len(t) = 1..(c - 1)
    BY <1>2, <1>3, <1>4
  <2> QED
    BY <1>7, <2>3, <2>4 DEF Shape
<1>10. s[c].depth = t[Len(t)].depth + INDENT_STEP
  <2>1. s[c].depth = Depth(c, e) /\ t[c - 1].depth = Depth(c - 1, e)
    BY <1>2, <1>3, <1>8 DEF Shape
  <2>2. Depth(c, e) = Depth(c - 1, e) + INDENT_STEP
    BY <1>1, <1>2, NextDepth
  <2> QED
    BY <1>3, <2>1, <2>2
<1> QED
  BY <1>2, <1>3, <1>4, <1>9, <1>10

\* The frame of the target's else in the place of the top one.
LEMMA ElseShape ==
  ASSUME NEW s \in Seq(Frames), Shape(s, 0), NEW f, f.kind = "target-else",
         f.depth = INDENT_STEP
  PROVE  Shape(Append(Front(s), f), Len(s))
<1>1. Len(s) \in Nat /\ Len(s) > 0
  BY DEF Shape
<1> DEFINE t == Append(Front(s), f)
<1>2. /\ Len(t) = Len(s) /\ t[Len(s)] = f
      /\ \A i \in 1..(Len(s) - 1) : t[i] = s[i]
  <2>1. /\ Front(s) \in Seq(Frames) /\ Len(Front(s)) = Len(s) - 1
        /\ \A i \in 1..(Len(s) - 1) : Front(s)[i] = s[i]
    <3>1. PICK k \in Int : k = Len(s) - 1
      BY <1>1
    <3>2. \A i \in 1..k : s[i] \in Frames
      BY <1>1, <3>1
    <3>3. /\ SubSeq(s, 1, k) \in Seq(Frames)
          /\ Len(SubSeq(s, 1, k)) = IF 1 <= k THEN k - 1 + 1 ELSE 0
          /\ \A i \in 1..(k - 1 + 1) : SubSeq(s, 1, k)[i] = s[1 + i - 1]
      BY <3>2, SubSeqProperties
    <3>4. Front(s) = SubSeq(s, 1, k)
      BY <3>1 DEF Front
    <3> QED
      BY <1>1, <3>1, <3>3, <3>4
  <2> QED
    BY <1>1, <2>1
<1>3. \A i \in 1..Len(s) : i \in 1..(Len(s) - 1) \/ i = Len(s)
  BY <1>1
<1>4. \A i \in 1..(Len(s) - 1) : /\ i \in 1..Len(s) /\ i # 0 /\ i < Len(s)
                                 /\ Depth(i, 0) = Depth(i, Len(s))
  BY <1>1 DEF Depth
<1>5. f.depth = Depth(Len(s), Len(s)) /\ (Len(s) = 1 \/ 1 \in 1..(Len(s) - 1))
  <2>1. Depth(Len(s), Len(s)) = INDENT_STEP * 1
    BY <1>1 DEF Depth
  <2>2. Len(s) = 1 \/ 1 \in 1..(Len(s) - 1)
    <3>1. PICK m \in Nat : m = Len(s)
      BY <1>1
    <3>2. m > 0
      BY <1>1, <3>1
    <3>3. m = 1 \/ 1 \in 1..(m - 1)
      BY <3>2
    <3> QED
      BY <3>1, <3>3
  <2>3. f.depth = Depth(Len(s), Len(s))
    BY <2>1 DEF INDENT_STEP
  <2> QED
    BY <2>2, <2>3
<1>6. f.kind # "main" /\ Len(s) \in 0..Len(s)
  BY <1>1
<1> HIDE DEF t
<1>7. Shape(t, Len(s))
  BY <1>1, <1>2, <1>3, <1>4, <1>5, <1>6 DEF Shape
<1> QED
  BY <1>7 DEF t

\* Every depth of a stack up to that of its top has its frame.
LEMMA ReachedAt ==
  ASSUME NEW s \in Seq(Frames), NEW e \in Nat, Shape(s, e), NEW d \in Nat, d > 0, Reached(s, d)
  PROVE  \E i \in 1..Len(s) : /\ s[i].depth = d
                              /\ \A j \in 1..Len(s) : j > i => s[j].depth > d
<1>1. Len(s) \in Nat /\ Len(s) > 0 /\ e \in 0..Len(s)
  BY DEF Shape
<1>2. \A i \in 1..Len(s) : s[i].depth = Depth(i, e)
  BY DEF Shape
<1>3. PICK q \in Nat : d = INDENT_STEP * q /\ d <= s[Len(s)].depth
  BY DEF Reached
<1>4. q > 0
  BY <1>3 DEF INDENT_STEP
<1>5. s[Len(s)].depth = Depth(Len(s), e)
  BY <1>1, <1>2
<1> DEFINE i == IF e = 0 THEN q ELSE e + q - 1
<1>6. i \in 1..Len(s)
  BY <1>1, <1>3, <1>4, <1>5 DEF Depth, INDENT_STEP
<1>7. Depth(i, e) = d
  BY <1>1, <1>3, <1>4 DEF Depth, INDENT_STEP
<1>8. \A j \in 1..Len(s) : j > i => Depth(j, e) > d
  BY <1>1, <1>3, <1>4 DEF Depth, INDENT_STEP
<1> HIDE DEF i
<1> QED
  BY <1>2, <1>6, <1>7, <1>8

-----------------------------------------------------------------------------
(* The kinds of steps                                                       *)

\* What a step makes of the tree, dependencies apart.
TreeIs(ops, arms, otherwise, elseOf) ==
  tree' = [ops |-> ops, arms |-> arms, otherwise |-> otherwise, elseOf |-> elseOf,
           deps |-> tree'.deps]

TreeStays == TreeIs(tree.ops, tree.arms, tree.otherwise, tree.elseOf) /\ targets' = targets

\* The line that is read, m, and what is wrong with it.
Reads(m, F) ==
  /\ m = n /\ ReadOn
  /\ faults' = faults \cup {[line |-> m, fault |-> f] : f \in F}

\* A line that leaves everything as it is.
Skips(m, F) ==
  /\ Reads(m, F)
  /\ UNCHANGED <<current, stack, seen>> /\ TreeStays
  /\ ~Heads(m)'
  /\ here.at = 0 \/ current = 0 \/ stack = <<>>
  /\ F = {} => ~seen \/ (here.at = 0 /\ ~Counts(m)')
  /\ F \cap Askew # {} => here.at > 0 /\ (current = 0 \/ stack = <<>>) /\ seen

\* The else of a target.
Elses(m) ==
  /\ Reads(m, {})
  /\ here.at = 0 /\ here.is = "else"
  /\ current # 0 /\ stack # <<>> /\ Top.kind # "target-else"
  /\ stack' = Append(Front(stack), [kind |-> "target-else", depth |-> INDENT_STEP,
                                    block |-> m, chain |-> 0])
  /\ UNCHANGED <<current, seen>>
  /\ TreeIs(tree.ops, tree.arms, tree.otherwise, With(tree.elseOf, current, m))
  /\ targets' = targets

Defaults(m) ==
  /\ Reads(m, {})
  /\ IsDefault(m)' /\ here.at = 0
  /\ current' = 0 /\ stack' = <<>> /\ seen' = TRUE
  /\ TreeStays

Begins(m, F) ==
  /\ Reads(m, F) /\ F \cap Askew = {}
  /\ IsTarget(m)' /\ here.at = 0 /\ here.is = "label"
  /\ current' = m /\ seen' = TRUE
  /\ stack' = <<[kind |-> "main", depth |-> INDENT_STEP, block |-> m, chain |-> 0]>>
  /\ TreeIs(tree.ops, tree.arms, tree.otherwise, tree.elseOf)
  /\ targets' = With(targets, here.name, m)

\* An indented line of a target.
Inside(m, F) ==
  /\ Reads(m, F)
  /\ here.at > 0 /\ seen /\ current # 0 /\ stack # <<>>
  /\ UNCHANGED <<current, seen>> /\ targets' = targets

\* A branch of the `if` whose frame is the c-th.
Branches(m, c, F) ==
  /\ Inside(m, F) /\ F \cap Askew = {}
  /\ c = contIdx /\ c > 0
  /\ \/ /\ stack' = SubSeq(stack, 1, c - 1) /\ TreeStays
        /\ F # {} /\ F \cap Soft = {}
     \/ \E kind \in {"elif", "conditional-else"} :
          /\ stack' = Append(SubSeq(stack, 1, c - 1),
                             [kind |-> kind, depth |-> stack[c].depth, block |-> m,
                              chain |-> stack[c].chain])
          /\ \/ F # {} /\ TreeStays
             \/ /\ F = {} /\ kind = "elif" /\ here.is = "elif" /\ here.cond = "ok"
                /\ TreeIs(tree.ops, [tree.arms EXCEPT ![stack[c].chain] = Append(@, m)],
                          tree.otherwise, tree.elseOf)
             \/ /\ F = {} /\ kind = "conditional-else" /\ here.is = "else"
                /\ TreeIs(tree.ops, tree.arms, With(tree.otherwise, stack[c].chain, m),
                          tree.elseOf)

OpIs(m, l, x) ==
  /\ x.block = Last(Popped).block
  /\ l.is \in {"call", "statement"} =>
       /\ x.binds = (Binds(l) /\ x.op # "?")
       /\ l.is = "call" /\ l.fn # "file_read" /\ Given(l, "approved") => x.approved

\* A line that opens nothing: an op, a line that is reported or passed over.
Pops(m, F) ==
  /\ Inside(m, F)
  /\ stack' = Popped
  /\ here.is \notin Openers \/ F \cap Soft # F \/ Popped = <<>>
  /\ F \cap Askew # {} => Popped # <<>> /\ Last(Popped).depth # here.at
  /\ F = {} /\ Popped # <<>> => Last(Popped).depth = here.at
  /\ \/ TreeStays /\ (F = {} /\ Popped # <<>> => here.is \in {"needs", "odd"})
     \/ /\ Popped # <<>> /\ here.is \in {"call", "statement"}
        /\ \E x : /\ TreeIs(With(tree.ops, m, x), tree.arms, tree.otherwise, tree.elseOf)
                  /\ OpIs(m, here, x)

\* A line that opens a block in the block it stands in.
Pushes(m, F) ==
  /\ Inside(m, F) /\ F \cap Askew = {}
  /\ Popped # <<>> /\ Last(Popped).depth = here.at
  /\ \E kind \in {"if", "foreach", "unknown-block"}, chain \in {0, m} :
       /\ stack' = Append(Popped, [kind |-> kind, depth |-> here.at + INDENT_STEP,
                                   block |-> m, chain |-> chain])
       /\ \/ F # {} /\ \E o \in {tree.ops} \cup {With(tree.ops, m, x) : x \in
                                   {[Plain("foreach") EXCEPT !.block = Last(Popped).block]}},
                         a \in {tree.arms, With(tree.arms, m, <<m>>)} :
                TreeIs(o, a, tree.otherwise, tree.elseOf)
          \/ /\ F = {} /\ kind = "if" /\ chain = m /\ here.is = "if" /\ here.cond = "ok"
             /\ \E x : /\ TreeIs(With(tree.ops, m, x), With(tree.arms, m, <<m>>),
                                 tree.otherwise, tree.elseOf)
                       /\ x.block = Last(Popped).block
          \/ /\ F = {} /\ kind = "foreach" /\ here.is = "foreach" /\ here.iter # none
             /\ \E x : /\ TreeIs(With(tree.ops, m, x), tree.arms, tree.otherwise, tree.elseOf)
                       /\ x.block = Last(Popped).block /\ x.op = "foreach"

Step(m, F) ==
  \/ Skips(m, F) \/ (F = {} /\ (Elses(m) \/ Defaults(m))) \/ Begins(m, F)
  \/ (\E c \in Nat : Branches(m, c, F)) \/ Pops(m, F) \/ Pushes(m, F)

\* A step whose line is as the code reports it.
LEMMA ReadsAt ==
  ASSUME TypeOK, Reading, NEW F, Report(F), NEW m, m = n
  PROVE  Reads(m, F)
BY ReportReads DEF Reads

LEMMA TreeStaysAt ==
  ASSUME TreeOK, UNCHANGED <<tree, targets>>
  PROVE  TreeStays
BY DEF TreeOK, TreeStays, TreeIs

\* A line that is no label heads nothing.
LEMMA NoHeads ==
  ASSUME ReadOn, NEW m, m = n, here.is # "label"
  PROVE  ~Heads(m)' /\ ~IsTarget(m)' /\ ~IsDefault(m)'
BY OldLines DEF Heads, IsTarget, IsDefault

LEMMA IndentedIs ==
  ASSUME ReadOn
  PROVE  /\ here.at \in Nat
         /\ here.is \in (IF here.at = 0 THEN {"label", "text", "header", "if", "elif", "else"}
                         ELSE {"needs", "if", "elif", "else", "foreach", "call", "statement",
                               "block", "nospace", "odd"})
BY LineAssumption DEF ReadOn

LEMMA HeaderSkips ==
  ASSUME TypeOK, TreeOK, Header, NEW m, m = n
  PROVE  \E F : Skips(m, F)
<1> DEFINE F == HeaderFaults(here)
<1>1. Reads(m, F) /\ ReadOn
  BY ReadsAt, ReportReads DEF Header
<1>2. TreeStays
  BY TreeStaysAt DEF Header, ast
<1>3. here.at = 0 /\ here.is = "header"
  BY <1>1, IndentedIs DEF Header
<1>4. ~Heads(m)' /\ ~Counts(m)'
  BY <1>1, <1>3, NoHeads, OldLines DEF Counts
<1>5. F \cap Askew = {}
  BY DEF HeaderFaults, When, Askew, Scalars
<1>6. UNCHANGED <<current, stack, seen>>
  BY DEF Header, goal
<1> QED
  BY <1>1, <1>2, <1>3, <1>4, <1>5, <1>6 DEF Skips

LEMMA TextSkips ==
  ASSUME TypeOK, TreeOK, Text, NEW m, m = n
  PROVE  \E F : Skips(m, F)
<1>1. Reads(m, {}) /\ ReadOn
  BY ReadsAt, ReportReads DEF Text, Sound
<1>2. TreeStays
  BY TreeStaysAt DEF Text, ast
<1>3. here.at = 0
  BY <1>1, IndentedIs DEF Text
<1>4. ~IsTarget(m)' /\ ~IsDefault(m)' /\ source'[m] = here
  <2>1. source'[m] = here /\ m = Len(source')
    BY <1>1, OldLines
  <2>2. Below(m)' = here'
    BY <2>1 DEF Below
  <2> QED
    BY <2>1, <2>2 DEF Text, Prose, HasOpBlock, IsTarget, IsDefault
<1>5. ~Heads(m)' /\ ~Counts(m)'
  BY <1>4 DEF Heads, Counts, Text
<1>6. UNCHANGED <<current, stack, seen>>
  BY DEF Text, goal
<1> QED
  BY <1>1, <1>2, <1>3, <1>5, <1>6 DEF Skips

LEMMA IndentedTextSkips ==
  ASSUME TypeOK, TreeOK, LastHeader, IndentedText, NEW m, m = n
  PROVE  \E F : Skips(m, F)
<1>1. Reads(m, {}) /\ ReadOn
  BY ReadsAt, ReportReads DEF IndentedText, Sound
<1>2. TreeStays
  BY TreeStaysAt DEF IndentedText, ast
<1>3. here.is # "label"
  BY <1>1, IndentedIs DEF IndentedText
<1>4. ~Heads(m)'
  BY <1>1, <1>3, NoHeads
<1>5. UNCHANGED <<current, stack, seen>> /\ ~seen
  BY DEF IndentedText, goal
<1> QED
  BY <1>1, <1>2, <1>4, <1>5 DEF Skips, LastHeader

LEMMA TopIfSkips ==
  ASSUME TypeOK, TreeOK, TopIf, NEW m, m = n
  PROVE  \E F : Skips(m, F)
<1>1. Reads(m, {"top-level-if"}) /\ ReadOn
  BY ReadsAt, ReportReads DEF TopIf, Faulty
<1>2. TreeStays
  BY TreeStaysAt DEF TopIf, ast
<1>3. ~Heads(m)'
  BY <1>1, NoHeads DEF TopIf
<1>4. {"top-level-if"} \cap Askew = {}
  BY DEF Askew
<1> QED
  BY <1>1, <1>2, <1>3, <1>4 DEF Skips, TopIf, goal

LEMMA TopElseSteps ==
  ASSUME TypeOK, TreeOK, TopElse, NEW m, m = n
  PROVE  Elses(m) \/ \E F : Skips(m, F)
<1>1. CASE Sound /\ current # 0 /\ stack # <<>> /\ Top.kind # "target-else"
           /\ stack' = Append(Front(stack), Frame("target-else", INDENT_STEP, 0))
           /\ tree' = [tree EXCEPT !.elseOf = With(@, current, n)]
  <2>1. Reads(m, {})
    BY <1>1, ReadsAt DEF TopElse, Sound
  <2>2. TreeIs(tree.ops, tree.arms, tree.otherwise, With(tree.elseOf, current, m))
    BY <1>1 DEF TreeIs, TreeOK
  <2> QED
    BY <1>1, <2>1, <2>2 DEF Elses, TopElse, Frame, goal
<1>2. ASSUME NEW f \in {"else-without-target", "duplicate-else"}, Faulty(f),
             UNCHANGED <<stack, tree>>
      PROVE  \E F : Skips(m, F)
  <2>1. Reads(m, {f}) /\ ReadOn
    BY <1>2, ReadsAt, ReportReads DEF TopElse, Faulty
  <2>2. TreeStays
    BY <1>2, TreeStaysAt DEF TopElse
  <2>3. ~Heads(m)'
    BY <2>1, NoHeads DEF TopElse
  <2>4. {f} \cap Askew = {} /\ {f} # {}
    BY <1>2 DEF Askew
  <2>5. UNCHANGED <<current, stack, seen>> /\ here.at = 0
    BY <1>2 DEF TopElse, goal
  <2> QED
    BY <2>1, <2>2, <2>3, <2>4, <2>5 DEF Skips
<1> QED
  BY <1>1, <1>2 DEF TopElse

LEMMA DefaultSteps ==
  ASSUME TypeOK, TreeOK, Default, NEW m, m = n
  PROVE  Defaults(m)
<1>1. Reads(m, {}) /\ ReadOn
  BY ReadsAt, ReportReads DEF Default, Sound
<1>2. TreeStays
  BY TreeStaysAt DEF Default, ast
<1>3. here.at = 0
  BY <1>1, IndentedIs DEF Default
<1>4. IsDefault(m)'
  BY <1>1, OldLines DEF IsDefault, Default
<1> QED
  BY <1>1, <1>2, <1>3, <1>4 DEF Defaults, Default

LEMMA TargetHeaderSteps ==
  ASSUME TypeOK, TreeOK, TargetHeader, NEW m, m = n
  PROVE  \E F : Begins(m, F)
<1> DEFINE F == When(here.name \in Reserved, "reserved")
<1>1. Reads(m, F) /\ ReadOn
  BY ReadsAt, ReportReads DEF TargetHeader
<1>2. TreeIs(tree.ops, tree.arms, tree.otherwise, tree.elseOf)
  BY DEF TreeIs, TreeOK, TargetHeader
<1>3. here.at = 0
  BY <1>1, IndentedIs DEF TargetHeader
<1>4. IsTarget(m)'
  <2>1. source'[m] = here /\ m = Len(source')
    BY <1>1, OldLines
  <2>2. Below(m)' = here'
    BY <2>1 DEF Below
  <2> QED
    BY <2>1, <2>2 DEF IsTarget, TargetHeader, HasOpBlock
<1>5. F \cap Askew = {}
  BY DEF When, Askew
<1> QED
  BY <1>1, <1>2, <1>3, <1>4, <1>5 DEF Begins, TargetHeader, Frame

LEMMA OrphanSkips ==
  ASSUME TypeOK, TreeOK, Orphan, NEW m, m = n
  PROVE  \E F : Skips(m, F)
<1>1. Reads(m, {"orphan"}) /\ ReadOn
  BY ReadsAt, ReportReads DEF Orphan, Indented, Faulty
<1>2. TreeStays
  BY TreeStaysAt DEF Orphan, ast
<1>3. here.is # "label"
  BY <1>1, IndentedIs DEF Orphan, Indented
<1>4. ~Heads(m)'
  BY <1>1, <1>3, NoHeads
<1> QED
  BY <1>1, <1>2, <1>4 DEF Skips, Orphan, Indented, Homeless, goal

LEMMA InsideAt ==
  ASSUME TypeOK, Indented, ~Homeless, UNCHANGED <<current, targets, seen>>, NEW F, Report(F),
         NEW m, m = n
  PROVE  Inside(m, F) /\ ReadOn
BY ReadsAt, ReportReads DEF Inside, Indented, Homeless

LEMMA ContinueBranches ==
  ASSUME TypeOK, TreeOK, Continue, NEW m, m = n
  PROVE  \E c \in Nat : \E F : Branches(m, c, F)
<1> DEFINE c == contIdx
<1>1. c \in Nat /\ c > 0
  <2>1. c \in 1..Len(stack) /\ Len(stack) \in Nat
    BY ContIdxAt DEF Continue, TypeOK
  <2> HIDE DEF c
  <2> QED
    BY <2>1
<1>2. UNCHANGED <<current, targets, seen>>
  BY DEF Continue, goal
<1>3. ASSUME NEW F, Report(F) PROVE Inside(m, F) /\ ReadOn
  BY <1>2, <1>3, InsideAt DEF Continue
<1>4. TypeOK /\ stack[c].kind \in {"if", "elif"}
  BY ContIdxAt DEF Continue, TypeOK
<1>5. CASE here.is = "elif" /\ here.cond = "malformed" /\ Faulty("malformed") /\ UNCHANGED tree
           /\ stack' = SubSeq(stack, 1, c - 1)
  <2>1. Inside(m, {"malformed"})
    BY <1>3, <1>5 DEF Faulty
  <2>2. TreeStays
    BY <1>2, <1>5, TreeStaysAt
  <2>3. {"malformed"} \cap Askew = {} /\ {"malformed"} \cap Soft = {} /\ {"malformed"} # {}
    BY DEF Askew, Soft
  <2>4. Branches(m, c, {"malformed"})
    BY <1>1, <1>5, <2>1, <2>2, <2>3 DEF Branches
  <2> QED
    BY <1>1, <2>4
<1>6. CASE here.is = "elif" /\ here.cond \in {"single-equals", "condition"}
           /\ stack' = Append(SubSeq(stack, 1, c - 1),
                              Frame("elif", stack[c].depth, stack[c].chain))
           /\ Faulty(here.cond) /\ UNCHANGED tree
  <2>1. Inside(m, {here.cond})
    BY <1>3, <1>6 DEF Faulty
  <2>2. TreeStays
    BY <1>2, <1>6, TreeStaysAt
  <2>3. {here.cond} \cap Askew = {} /\ {here.cond} # {}
    BY <1>6 DEF Askew
  <2>4. Branches(m, c, {here.cond})
    BY <1>1, <1>6, <2>1, <2>2, <2>3 DEF Branches, Frame
  <2> QED
    BY <1>1, <2>4
<1>7. CASE here.is = "elif" /\ here.cond = "ok" /\ Sound
           /\ stack' = Append(SubSeq(stack, 1, c - 1),
                              Frame("elif", stack[c].depth, stack[c].chain))
           /\ tree' = [tree EXCEPT !.arms[stack[c].chain] = Append(@, n)]
  <2>1. Inside(m, {})
    BY <1>3, <1>7 DEF Sound
  <2>2. TreeIs(tree.ops, [tree.arms EXCEPT ![stack[c].chain] = Append(@, m)], tree.otherwise,
               tree.elseOf)
    BY <1>7 DEF TreeIs, TreeOK
  <2>3. Branches(m, c, {})
    BY <1>1, <1>7, <2>1, <2>2 DEF Branches, Frame
  <2> QED
    BY <1>1, <2>3
<1>8. CASE here.is = "else" /\ Sound
           /\ stack' = Append(SubSeq(stack, 1, c - 1),
                              Frame("conditional-else", stack[c].depth, stack[c].chain))
           /\ tree' = [tree EXCEPT !.otherwise = With(@, stack[c].chain, n)]
  <2>1. Inside(m, {})
    BY <1>3, <1>8 DEF Sound
  <2>2. TreeIs(tree.ops, tree.arms, With(tree.otherwise, stack[c].chain, m), tree.elseOf)
    BY <1>8 DEF TreeIs, TreeOK
  <2>3. Branches(m, c, {})
    BY <1>1, <1>8, <2>1, <2>2 DEF Branches, Frame
  <2> QED
    BY <1>1, <2>3
<1> HIDE DEF c
<1> QED
  BY <1>5, <1>6, <1>7, <1>8 DEF Continue, c

LEMMA DroppedPops ==
  ASSUME TypeOK, TreeOK, Dropped, NEW m, m = n
  PROVE  Pops(m, {})
<1>1. Inside(m, {})
  BY InsideAt DEF Dropped, Deepest, Sound, ast, goal
<1>2. TreeStays
  BY TreeStaysAt DEF Dropped, ast
<1> QED
  BY <1>1, <1>2 DEF Pops, Dropped

LEMMA MidBlockPops ==
  ASSUME TypeOK, TreeOK, MidBlock, NEW m, m = n
  PROVE  \E F : Pops(m, F)
<1>1. Inside(m, {"mid-block"})
  BY InsideAt DEF MidBlock, Deepest, Faulty, ast, goal
<1>2. TreeStays
  BY TreeStaysAt DEF MidBlock, ast
<1>3. {"mid-block"} \cap Soft = {} /\ {"mid-block"} # {}
  BY DEF Soft
<1>4. Pops(m, {"mid-block"})
  BY <1>1, <1>2, <1>3 DEF Pops, MidBlock
<1> QED
  BY <1>4

\* A line that is reported, and opens nothing.
LEMMA RefusePops ==
  ASSUME TypeOK, TreeOK, InBlock, NEW f, f \notin Askew \cup Soft, Refuse(f), NEW m, m = n
  PROVE  Pops(m, {f})
<1>1. Inside(m, {f})
  BY InsideAt DEF InBlock, Deepest, Refuse, Faulty, ast, goal
<1>2. TreeStays
  BY TreeStaysAt DEF Refuse, ast
<1>3. {f} \cap Soft = {} /\ {f} # {} /\ {f} \cap Askew = {}
  OBVIOUS
<1> QED
  BY <1>1, <1>2, <1>3 DEF Pops, Refuse

LEMMA NeedsPops ==
  ASSUME TypeOK, TreeOK, Needs, NEW m, m = n
  PROVE  Pops(m, {})
<1>1. Inside(m, {})
  BY InsideAt DEF Needs, InBlock, Deepest, Sound, goal
<1>2. TreeStays
  BY DEF Needs, TreeOK, TreeStays, TreeIs
<1>3. here.is \notin Openers
  BY DEF Needs, Openers
<1> QED
  BY <1>1, <1>2, <1>3 DEF Pops, Needs, InBlock

LEMMA PassedOverPops ==
  ASSUME TypeOK, TreeOK, PassedOver, NEW m, m = n
  PROVE  Pops(m, {})
<1>1. Inside(m, {})
  BY InsideAt DEF PassedOver, InBlock, Deepest, Sound, ast, goal
<1>2. TreeStays
  BY TreeStaysAt DEF PassedOver, ast
<1>3. here.is \notin Openers
  BY DEF PassedOver, Openers
<1> QED
  BY <1>1, <1>2, <1>3 DEF Pops, PassedOver, InBlock

\* What an op becomes when it is put in its block.
LEMMA PlacedIs ==
  ASSUME NEW o, NEW b, NEW w, NEW a, NEW m, m = n
  PROVE  Placed([op |-> o, block |-> 0, binds |-> b, fallback |-> w, approved |-> a])
           = With(tree.ops, m, [op |-> o, block |-> Last(Popped).block, binds |-> b, fallback |-> w,
                    approved |-> a])
BY DEF Placed

LEMMA OnlyOps ==
  ASSUME TreeOK, NEW ops, tree' = [tree EXCEPT !.ops = ops]
  PROVE  TreeIs(ops, tree.arms, tree.otherwise, tree.elseOf)
BY DEF TreeIs, TreeOK

LEMMA CallPops ==
  ASSUME TypeOK, TreeOK, Call, NEW m, m = n
  PROVE  \E F : Pops(m, F)
<1>1. CASE CallFaults(here) # {} /\ \E f \in CallFaults(here) : Refuse(f)
  <2>1. PICK f \in CallFaults(here) : Refuse(f)
    BY <1>1
  <2>2. f \notin Askew \cup Soft
    BY <2>1 DEF CallFaults, ShellFault, When, Askew, Soft
  <2> QED
    BY <2>1, <2>2, RefusePops DEF Call
<1>2. CASE CallFaults(here) = {} /\ stack' = Popped
           /\ tree' = [tree EXCEPT !.ops = Placed(CallOp(here))]
           /\ Report(When(Connectors(here), "connectors"))
           /\ UNCHANGED <<current, targets, order, goal, template, head>>
  <2> DEFINE F == When(Connectors(here), "connectors")
             k == Keeps[here.fn]
             x == [op       |-> IF here.fn = "execute_skill" THEN "$" ELSE here.fn,
                   block    |-> Last(Popped).block,
                   binds    |-> "binds" \in k /\ Binds(here),
                   fallback |-> "fallback" \in k /\ Falls(here),
                   approved |-> "approved" \in k /\ Given(here, "approved")]
  <2>1. Inside(m, F)
    BY <1>2, InsideAt DEF Call, InBlock, Deepest, goal
  <2>2. TreeIs(With(tree.ops, m, x), tree.arms, tree.otherwise, tree.elseOf)
    <3>1. Placed(CallOp(here)) = With(tree.ops, m, x)
      BY PlacedIs DEF CallOp
    <3> QED
      BY <1>2, <3>1, OnlyOps
  <2>3. here.fn \in DOMAIN Keeps /\ (here.fn = "emit" => ~Binds(here))
    <3>1. here.fn \in {"emit", "inline", "execute_skill", "shell", "file_read", "file_write",
                       "notify"}
      BY <1>2 DEF CallFaults, ShellFault, When, Keeps
    <3>2. here.fn = "emit" => ~Binds(here)
      BY <1>2 DEF CallFaults, When
    <3> QED
      BY <3>1, <3>2 DEF Keeps
  <2>4. /\ here.fn # "emit" => "binds" \in k
        /\ here.fn # "file_read" => "approved" \in k
        /\ here.fn # "?"
    BY <2>3 DEF Keeps
  <2>5. x.binds = (Binds(here) /\ x.op # "?")
    <3>1. x.op # "?"
      BY <2>4
    <3>2. x.binds <=> Binds(here)
      BY <2>3, <2>4
    <3>3. x.binds \in BOOLEAN /\ Binds(here) \in BOOLEAN
      BY DEF Binds
    <3> QED
      BY <3>1, <3>2, <3>3
  <2>6. OpIs(m, here, x)
    BY <2>4, <2>5 DEF OpIs
  <2>7. F \cap Askew = {} /\ (F = {} \/ F # {})
    BY DEF When, Askew
  <2>8. here.is = "call" /\ here.is \notin Openers /\ Popped # <<>> /\ Last(Popped).depth = here.at
    BY DEF Call, Openers, InBlock
  <2> HIDE DEF F, x
  <2> QED
    BY <1>2, <2>1, <2>2, <2>6, <2>7, <2>8 DEF Pops
<1> QED
  BY <1>1, <1>2 DEF Call

LEMMA StatementPops ==
  ASSUME TypeOK, TreeOK, Statement, NEW m, m = n
  PROVE  \E F : Pops(m, F)
<1>1. CASE \E f \in {"legacy", "malformed"} : Refuse(f)
  <2>1. PICK f \in {"legacy", "malformed"} : Refuse(f)
    BY <1>1
  <2>2. f \notin Askew \cup Soft
    BY <2>1 DEF Askew, Soft
  <2> QED
    BY <2>1, <2>2, RefusePops DEF Statement
<1>2. CASE here.verb \in {"$", "?", "$set", "$append"} /\ Sound /\ stack' = Popped
           /\ tree' = [tree EXCEPT !.ops = Placed(StatementOp(here))]
           /\ UNCHANGED <<current, targets, order, goal, template, head>>
  <2> DEFINE x == [op |-> here.verb, block |-> Last(Popped).block,
                   binds |-> here.verb = "$" /\ Binds(here),
                   fallback |-> here.verb = "$" /\ here.trailer = "both",
                   approved |-> here.verb = "$" /\ here.approved]
  <2>1. Inside(m, {}) /\ ReadOn
    BY <1>2, InsideAt DEF Statement, InBlock, Deepest, Sound, goal
  <2>2. TreeIs(With(tree.ops, m, x), tree.arms, tree.otherwise, tree.elseOf)
    <3>1. Placed(StatementOp(here)) = With(tree.ops, m, x)
      BY PlacedIs DEF StatementOp
    <3> QED
      BY <1>2, <3>1, OnlyOps
  <2>3. here.verb # "$" => ~Binds(here)
    <3>1. here.is = "statement" /\ here \in Line
      BY <2>1 DEF Statement, ReadOn
    <3>2. here.verb # "$" => here.trailer = "none"
      BY <1>2, <3>1, LineAssumption
    <3> QED
      BY <3>2 DEF Binds
  <2>4. x.binds = (Binds(here) /\ x.op # "?")
    <3>1. x.binds <=> (Binds(here) /\ x.op # "?")
      BY <2>3
    <3>2. x.binds \in BOOLEAN /\ Binds(here) \in BOOLEAN
      BY DEF Binds
    <3> QED
      BY <3>1, <3>2
  <2>5. OpIs(m, here, x)
    BY <2>4 DEF OpIs, Statement
  <2>6. here.is = "statement" /\ here.is \notin Openers /\ Popped # <<>>
        /\ Last(Popped).depth = here.at
    BY DEF Statement, Openers, InBlock
  <2> HIDE DEF x
  <2>7. Pops(m, {})
    BY <1>2, <2>1, <2>2, <2>5, <2>6 DEF Pops
  <2> QED
    BY <2>7
<1> QED
  BY <1>1, <1>2 DEF Statement

LEMMA IfSteps ==
  ASSUME TypeOK, TreeOK, If, NEW m, m = n
  PROVE  \E F : Pops(m, F) \/ Pushes(m, F)
<1>1. InBlock /\ here.is = "if" /\ Popped # <<>> /\ Last(Popped).depth = here.at
  BY DEF If, InBlock
<1>2. CASE Refuse("malformed")
  <2>1. "malformed" \notin Askew \cup Soft
    BY DEF Askew, Soft
  <2> QED
    BY <1>1, <1>2, <2>1, RefusePops
<1>3. CASE here.cond \in {"single-equals", "condition"} /\ stack' = Opened("if", n)
           /\ tree' = [tree EXCEPT !.arms = With(@, n, <<n>>)] /\ Faulty(here.cond)
           /\ UNCHANGED <<current, targets, order, goal, template, head>>
  <2>1. Inside(m, {here.cond})
    BY <1>1, <1>3, InsideAt DEF InBlock, Deepest, Faulty, goal
  <2>2. TreeIs(tree.ops, With(tree.arms, m, <<m>>), tree.otherwise, tree.elseOf)
    BY <1>3 DEF TreeIs, TreeOK
  <2>3. {here.cond} \cap Askew = {} /\ {here.cond} # {}
    BY <1>3 DEF Askew
  <2>4. Pushes(m, {here.cond})
    BY <1>1, <1>3, <2>1, <2>2, <2>3 DEF Pushes, Opened, Frame
  <2> QED
    BY <2>4
<1>4. CASE here.cond = "ok" /\ stack' = Opened("if", n) /\ Sound
           /\ tree' = [tree EXCEPT !.ops = Placed(Plain("if")), !.arms = With(@, n, <<n>>)]
           /\ UNCHANGED <<current, targets, order, goal, template, head>>
  <2> DEFINE x == [op |-> "if", block |-> Last(Popped).block, binds |-> FALSE,
                   fallback |-> FALSE, approved |-> FALSE]
  <2>1. Inside(m, {})
    BY <1>1, <1>4, InsideAt DEF InBlock, Deepest, Sound, goal
  <2>2. Placed(Plain("if")) = With(tree.ops, m, x)
    <3>1. PICK no \in BOOLEAN : no = FALSE
      OBVIOUS
    <3>2. Placed([op |-> "if", block |-> 0, binds |-> no, fallback |-> no, approved |-> no])
            = With(tree.ops, m, [op |-> "if", block |-> Last(Popped).block, binds |-> no, fallback |-> no,
                     approved |-> no])
      BY PlacedIs
    <3> QED
      BY <3>1, <3>2 DEF Plain
  <2>3. x.block = Last(Popped).block
    OBVIOUS
  <2> HIDE DEF x
  <2>4. TreeIs(With(tree.ops, m, x), With(tree.arms, m, <<m>>), tree.otherwise, tree.elseOf)
    BY <1>4, <2>2 DEF TreeIs, TreeOK
  <2>5. Pushes(m, {})
    BY <1>1, <1>4, <2>1, <2>3, <2>4 DEF Pushes, Opened, Frame
  <2> QED
    BY <2>5
<1> QED
  BY <1>2, <1>3, <1>4 DEF If

LEMMA ForeachSteps ==
  ASSUME TypeOK, TreeOK, Foreach, NEW m, m = n
  PROVE  \E F : Pops(m, F) \/ Pushes(m, F)
<1>1. InBlock /\ here.is = "foreach" /\ Popped # <<>> /\ Last(Popped).depth = here.at
  BY DEF Foreach, InBlock
<1>2. CASE Refuse("malformed")
  <2>1. "malformed" \notin Askew \cup Soft
    BY DEF Askew, Soft
  <2> QED
    BY <1>1, <1>2, <2>1, RefusePops
<1>3. CASE here.iter # none /\ stack' = Opened("foreach", 0)
           /\ tree' = [tree EXCEPT !.ops = Placed(Plain("foreach"))]
           /\ Report(When(here.iter \in Reserved, "reserved"))
           /\ UNCHANGED <<current, targets, order, goal, template, head>>
  <2> DEFINE F == When(here.iter \in Reserved, "reserved")
             x == [Plain("foreach") EXCEPT !.block = Last(Popped).block]
  <2>1. Inside(m, F)
    BY <1>1, <1>3, InsideAt DEF InBlock, Deepest, goal
  <2>2. x.block = Last(Popped).block /\ x.op = "foreach"
    BY DEF Plain
  <2>3. Placed(Plain("foreach")) = With(tree.ops, m, x)
    BY DEF Placed
  <2> HIDE DEF x
  <2>4. TreeIs(With(tree.ops, m, x), tree.arms, tree.otherwise, tree.elseOf)
    BY <1>3, <2>3 DEF TreeIs, TreeOK
  <2>5. F \cap Askew = {}
    BY DEF When, Askew
  <2> HIDE DEF F
  <2>6. Pushes(m, F)
    <3>1. stack' = Append(Popped, [kind |-> "foreach", depth |-> here.at + INDENT_STEP,
                                   block |-> m, chain |-> 0])
      BY <1>3 DEF Opened, Frame
    <3>2. CASE F = {}
      BY <1>1, <1>3, <2>1, <2>2, <2>4, <2>5, <3>1, <3>2 DEF Pushes
    <3>3. CASE F # {}
      BY <1>1, <1>3, <2>1, <2>4, <2>5, <3>1, <3>3 DEF Pushes, x
    <3> QED
      BY <3>2, <3>3
  <2> QED
    BY <2>6
<1> QED
  BY <1>2, <1>3 DEF Foreach

LEMMA UnknownBlockPushes ==
  ASSUME TypeOK, TreeOK, UnknownBlock, NEW m, m = n
  PROVE  \E F : Pushes(m, F)
<1>1. InBlock /\ Popped # <<>> /\ Last(Popped).depth = here.at
  BY DEF UnknownBlock, InBlock
<1>2. Inside(m, {"unknown-block"})
  BY <1>1, InsideAt DEF UnknownBlock, InBlock, Deepest, Faulty, ast, goal
<1>3. TreeIs(tree.ops, tree.arms, tree.otherwise, tree.elseOf)
  BY DEF UnknownBlock, TreeIs, TreeOK, ast
<1>4. {"unknown-block"} \cap Askew = {} /\ {"unknown-block"} # {}
  BY DEF Askew
<1>5. Pushes(m, {"unknown-block"})
  BY <1>1, <1>2, <1>3, <1>4 DEF Pushes, UnknownBlock, Opened, Frame
<1> QED
  BY <1>5

\* Every step is of one of the kinds.
LEMMA StepIs ==
  ASSUME TypeOK, TreeOK, LastHeader, Next, NEW m, m = n
  PROVE  \E F : Step(m, F)
<1>1. CASE Header \/ Text \/ IndentedText \/ TopIf \/ Orphan
  BY <1>1, HeaderSkips, TextSkips, IndentedTextSkips, TopIfSkips, OrphanSkips DEF Step
<1>2. CASE TopElse \/ Default
  BY <1>2, TopElseSteps, DefaultSteps DEF Step
<1>3. CASE TargetHeader
  BY <1>3, TargetHeaderSteps DEF Step
<1>4. CASE Continue
  BY <1>4, ContinueBranches DEF Step
<1>5. CASE Dropped \/ Needs \/ PassedOver
  BY <1>5, DroppedPops, NeedsPops, PassedOverPops DEF Step
<1>6. CASE MidBlock \/ Call \/ Statement
  BY <1>6, MidBlockPops, CallPops, StatementPops DEF Step
<1>7. CASE StrayElif \/ NoSpace
  <2>1. "elif-without-if" \notin Askew \cup Soft /\ "no-space" \notin Askew \cup Soft
    BY DEF Askew, Soft
  <2> QED
    BY <1>7, <2>1, RefusePops DEF Step, StrayElif, NoSpace
<1>8. CASE If \/ Foreach \/ UnknownBlock
  BY <1>8, IfSteps, ForeachSteps, UnknownBlockPushes DEF Step
<1> QED
  BY <1>1, <1>2, <1>3, <1>4, <1>5, <1>6, <1>7, <1>8 DEF Next

-----------------------------------------------------------------------------
(* Types                                                                    *)

\* A map with one more entry.
LEMMA AddAt ==
  ASSUME NEW f, NEW a, NEW b
  PROVE  /\ DOMAIN With(f, a, b) = DOMAIN f \cup {a}
         /\ With(f, a, b)[a] = b
         /\ \A x \in DOMAIN f : x # a => With(f, a, b)[x] = f[x]
BY DEF With

LEMMA AddTo ==
  ASSUME NEW f, NEW a, NEW b, NEW x \in DOMAIN With(f, a, b)
  PROVE  \/ x = a /\ With(f, a, b)[x] = b
         \/ x \in DOMAIN f /\ x # a /\ With(f, a, b)[x] = f[x]
BY DEF With

LEMMA FramesAt ==
  ASSUME NEW s \in Seq(Frames), NEW k \in 0..Len(s)
  PROVE  /\ SubSeq(s, 1, k) \in Seq(Frames) /\ Len(SubSeq(s, 1, k)) = k
         /\ \A i \in 1..k : i \in 1..Len(s) /\ SubSeq(s, 1, k)[i] = s[i]
         /\ \A i \in 1..Len(s) : s[i] \in Frames
         /\ Len(s) \in Nat
<1>1. Len(s) \in Nat /\ k \in Int /\ 0 <= k /\ k <= Len(s)
  OBVIOUS
<1>2. \A i \in 1..Len(s) : s[i] \in Frames
  OBVIOUS
<1>3. \A i \in 1..k : i \in 1..Len(s)
  BY <1>1
<1>4. \A i \in 1..k : s[i] \in Frames
  BY <1>2, <1>3
<1>5. /\ SubSeq(s, 1, k) \in Seq(Frames)
      /\ Len(SubSeq(s, 1, k)) = IF 1 <= k THEN k - 1 + 1 ELSE 0
      /\ \A i \in 1..(k - 1 + 1) : SubSeq(s, 1, k)[i] = s[1 + i - 1]
  BY <1>1, <1>4, SubSeqProperties
<1>6. Len(SubSeq(s, 1, k)) = k /\ k - 1 + 1 = k
  BY <1>1, <1>5
<1> QED
  BY <1>1, <1>2, <1>3, <1>5, <1>6

LEMMA PoppedAt ==
  ASSUME TypeOK, ReadOn
  PROVE  \E k \in 0..Len(stack) :
           /\ Popped = SubSeq(stack, 1, k)
           /\ k > 0 => stack[k].depth <= here.at
           /\ \A j \in 1..Len(stack) : j > k => stack[j].depth > here.at
BY PopToDepthAt, IndentedIs DEF TypeOK, Popped

\* What a step has to leave for every type to hold after it.
LEMMA TypesStay ==
  ASSUME TypeOK, NEW m, NEW F, Reads(m, F), stack' \in Seq(Frames),
         \A i \in 1..Len(stack') :
           stack'[i].block \in Lines \cup {m} /\ stack'[i].chain \in 0..m,
         current' \in 0..m, seen' \in BOOLEAN,
         \A x \in DOMAIN targets' : targets'[x] \in Lines \cup {m}
  PROVE  TypeOK'
<1>1. Lines' = Lines \cup {m} /\ Len(source') = m /\ source' \in Seq(Line)
  BY OldLines DEF Reads
<1>2. here' \in Line \cup {none}
  BY DEF Reads, ReadOn
<1>3. \A f \in faults' : f.line \in Lines'
  BY <1>1 DEF Reads, TypeOK
<1> QED
  BY <1>1, <1>2, <1>3 DEF TypeOK

\* A stack that lost frames at its top.
LEMMA CutTypes ==
  ASSUME TypeOK, NEW m, NEW F, Reads(m, F), NEW k \in 0..Len(stack),
         stack' = SubSeq(stack, 1, k), current' = current, seen' = seen, targets' = targets
  PROVE  TypeOK'
<1>1. /\ stack' \in Seq(Frames) /\ Len(stack') = k
      /\ \A i \in 1..k : i \in 1..Len(stack) /\ stack'[i] = stack[i]
  BY FramesAt DEF TypeOK
<1>2. m = Len(source) + 1 /\ Len(source) \in Nat
  BY OldLines DEF Reads, n
<1>3. \A i \in 1..Len(stack') : stack'[i].block \in Lines \cup {m} /\ stack'[i].chain \in 0..m
  BY <1>1, <1>2 DEF TypeOK
<1>4. current' \in 0..m /\ seen' \in BOOLEAN /\ \A x \in DOMAIN targets' : targets'[x] \in Lines
  BY <1>2 DEF TypeOK
<1> QED
  BY <1>1, <1>3, <1>4, TypesStay

\* A stack that lost frames at its top and got a new one.
LEMMA PushTypes ==
  ASSUME TypeOK, NEW m, NEW F, Reads(m, F), NEW k \in 0..Len(stack),
         NEW kind \in Kinds, NEW d \in Nat, NEW c \in 0..m,
         stack' = Append(SubSeq(stack, 1, k),
                         [kind |-> kind, depth |-> d, block |-> m, chain |-> c]),
         current' = current, seen' = seen, targets' = targets
  PROVE  TypeOK'
<1> DEFINE t == SubSeq(stack, 1, k)
           f == [kind |-> kind, depth |-> d, block |-> m, chain |-> c]
<1>1. /\ t \in Seq(Frames) /\ Len(t) = k /\ k \in Nat
      /\ \A i \in 1..k : i \in 1..Len(stack) /\ t[i] = stack[i]
  BY FramesAt DEF TypeOK
<1>2. m = Len(source) + 1 /\ Len(source) \in Nat
  BY OldLines DEF Reads, n
<1>3. f \in Frames /\ f.block = m /\ f.chain \in 0..m
  BY <1>2 DEF Frames
<1> HIDE DEF t, f
<1>4. /\ stack' = Append(t, f) /\ stack' \in Seq(Frames) /\ Len(stack') = k + 1
      /\ stack'[k + 1] = f
      /\ \A i \in 1..k : stack'[i] = t[i]
  BY <1>1, <1>3 DEF t, f
<1>5. \A i \in 1..Len(stack') : stack'[i].block \in Lines \cup {m} /\ stack'[i].chain \in 0..m
  <2> SUFFICES ASSUME NEW i \in 1..Len(stack')
               PROVE  stack'[i].block \in Lines \cup {m} /\ stack'[i].chain \in 0..m
    OBVIOUS
  <2>1. i \in 1..k \/ i = k + 1
    BY <1>1, <1>4
  <2>2. CASE i \in 1..k
    BY <1>1, <1>2, <1>4, <2>2 DEF TypeOK
  <2>3. CASE i = k + 1
    BY <1>3, <1>4, <2>3
  <2> QED
    BY <2>1, <2>2, <2>3
<1>6. current' \in 0..m /\ seen' \in BOOLEAN /\ \A x \in DOMAIN targets' : targets'[x] \in Lines
  BY <1>2 DEF TypeOK
<1> QED
  BY <1>4, <1>5, <1>6, TypesStay

LEMMA StepTypes ==
  ASSUME TypeOK, NEW m, NEW F, Step(m, F)
  PROVE  TypeOK'
<1>1. m = Len(source) + 1 /\ Len(source) \in Nat /\ ReadOn
  BY OldLines DEF Step, Skips, Elses, Defaults, Begins, Branches, Pops, Pushes, Inside, Reads, n
<1>2. CASE Skips(m, F)
  <2>1. /\ stack' \in Seq(Frames) /\ current' \in 0..m /\ seen' \in BOOLEAN
        /\ \A i \in 1..Len(stack') : stack'[i].block \in Lines /\ stack'[i].chain \in 0..m
        /\ \A x \in DOMAIN targets' : targets'[x] \in Lines
    BY <1>1, <1>2 DEF Skips, TreeStays, TypeOK
  <2> QED
    BY <1>2, <2>1, TypesStay DEF Skips
<1>3. CASE F = {} /\ Elses(m)
  <2>1. Len(stack) \in Nat /\ Len(stack) > 0
    BY <1>3 DEF Elses, TypeOK
  <2>2. Front(stack) = SubSeq(stack, 1, Len(stack) - 1) /\ Len(stack) - 1 \in 0..Len(stack)
    BY <2>1 DEF Front
  <2>3. PICK k \in 0..Len(stack) : k = Len(stack) - 1
    BY <2>2
  <2>4. stack' = Append(SubSeq(stack, 1, k), [kind |-> "target-else", depth |-> INDENT_STEP,
                                              block |-> m, chain |-> 0])
    BY <1>3, <2>2, <2>3 DEF Elses
  <2>5. "target-else" \in Kinds /\ INDENT_STEP \in Nat /\ 0 \in 0..m
    BY <1>1 DEF Kinds, INDENT_STEP
  <2> QED
    BY <1>3, <2>4, <2>5, PushTypes DEF Elses
<1>4. CASE F = {} /\ Defaults(m)
  <2>1. stack' \in Seq(Frames) /\ Len(stack') = 0 /\ current' \in 0..m /\ seen' \in BOOLEAN
    BY <1>1, <1>4 DEF Defaults
  <2>2. \A x \in DOMAIN targets' : targets'[x] \in Lines
    BY <1>4 DEF Defaults, TreeStays, TypeOK
  <2> QED
    BY <1>4, <2>1, <2>2, TypesStay DEF Defaults
<1>5. CASE Begins(m, F)
  <2> DEFINE f == [kind |-> "main", depth |-> INDENT_STEP, block |-> m, chain |-> 0]
  <2>1. f \in Frames /\ f.block = m /\ f.chain \in 0..m
    BY <1>1 DEF Frames, Kinds, INDENT_STEP
  <2>2. stack' = <<f>>
    BY <1>5 DEF Begins
  <2> HIDE DEF f
  <2>3. stack' \in Seq(Frames) /\ \A i \in 1..Len(stack') : stack'[i] = f
    BY <2>1, <2>2
  <2>4. current' \in 0..m /\ seen' \in BOOLEAN
    BY <1>1, <1>5 DEF Begins
  <2>5. \A x \in DOMAIN targets' : targets'[x] \in Lines \cup {m}
    <3>1. targets' = [x \in DOMAIN targets \cup {here.name} |->
                        IF x = here.name THEN m ELSE targets[x]]
      BY <1>5 DEF Begins, With
    <3> QED
      BY <3>1 DEF TypeOK
  <2> QED
    BY <1>5, <2>1, <2>3, <2>4, <2>5, TypesStay DEF Begins
<1>6. ASSUME NEW c \in Nat, Branches(m, c, F) PROVE TypeOK'
  <2>1. c \in 1..Len(stack) /\ Len(stack) \in Nat
    BY <1>6, ContIdxAt DEF Branches, TypeOK
  <2>2. PICK k \in 0..Len(stack) : k = c - 1
    BY <2>1
  <2>3. stack[c].depth \in Nat /\ stack[c].chain \in 0..m
    <3>1. stack[c] \in Frames /\ stack[c].chain \in 0..Len(source)
      BY <2>1 DEF TypeOK
    <3> QED
      BY <1>1, <3>1 DEF Frames
  <2>4. CASE stack' = SubSeq(stack, 1, c - 1)
    BY <1>6, <2>2, <2>4, CutTypes DEF Branches, Inside
  <2>5. CASE \E kind \in {"elif", "conditional-else"} :
               stack' = Append(SubSeq(stack, 1, c - 1),
                               [kind |-> kind, depth |-> stack[c].depth, block |-> m,
                                chain |-> stack[c].chain])
    <3>1. PICK kind \in {"elif", "conditional-else"} :
               stack' = Append(SubSeq(stack, 1, c - 1),
                               [kind |-> kind, depth |-> stack[c].depth, block |-> m,
                                chain |-> stack[c].chain])
      BY <2>5
    <3>2. kind \in Kinds
      BY DEF Kinds
    <3> QED
      BY <1>6, <2>2, <2>3, <3>1, <3>2, PushTypes DEF Branches, Inside
  <2> QED
    BY <1>6, <2>4, <2>5 DEF Branches
<1>7. PICK k \in 0..Len(stack) : Popped = SubSeq(stack, 1, k)
  BY <1>1, PoppedAt
<1>8. CASE Pops(m, F)
  BY <1>7, <1>8, CutTypes DEF Pops, Inside
<1>9. CASE Pushes(m, F)
  <2>1. PICK kind \in {"if", "foreach", "unknown-block"}, c \in {0, m} :
          stack' = Append(Popped, [kind |-> kind, depth |-> here.at + INDENT_STEP,
                                   block |-> m, chain |-> c])
    BY <1>9 DEF Pushes
  <2>2. kind \in Kinds /\ c \in 0..m
    BY <1>1 DEF Kinds
  <2>3. PICK d \in Nat : d = here.at + INDENT_STEP
    BY <1>1, IndentedIs DEF INDENT_STEP
  <2> QED
    BY <1>7, <1>9, <2>1, <2>2, <2>3, PushTypes DEF Pushes, Inside
<1> QED
  BY <1>2, <1>3, <1>4, <1>5, <1>6, <1>8, <1>9 DEF Step


\* The block that a line stands in.
LEMMA LastPopped ==
  ASSUME TypeOK, ReadOn, Popped # <<>>
  PROVE  \E k \in 1..Len(stack) :
           /\ Popped = SubSeq(stack, 1, k) /\ Last(Popped) = stack[k]
           /\ stack[k].depth <= here.at
           /\ \A j \in 1..Len(stack) : j > k => stack[j].depth > here.at
<1>1. PICK k \in 0..Len(stack) :
           /\ Popped = SubSeq(stack, 1, k)
           /\ k > 0 => stack[k].depth <= here.at
           /\ \A j \in 1..Len(stack) : j > k => stack[j].depth > here.at
  BY PoppedAt
<1>2. /\ Popped \in Seq(Frames) /\ Len(Popped) = k /\ Len(stack) \in Nat
      /\ \A i \in 1..k : Popped[i] = stack[i]
  BY <1>1, FramesAt DEF TypeOK
<1>3. k > 0
  BY <1>1, <1>2
<1>4. Last(Popped) = stack[k] /\ k \in 1..Len(stack)
  BY <1>1, <1>2, <1>3 DEF Last
<1> QED
  BY <1>1, <1>3, <1>4

LEMMA TreeKeeps ==
  ASSUME TypeOK, NEW m, NEW F, Reads(m, F), NEW ops, NEW arms, NEW otherwise, NEW elseOf,
         TreeIs(ops, arms, otherwise, elseOf),
         \A l \in DOMAIN ops : l \in Lines \cup {m} /\ ops[l].block \in Lines \cup {m},
         \A l \in DOMAIN arms : l \in Lines \cup {m} /\ arms[l] \in Seq(Nat),
         \A l \in DOMAIN otherwise : l \in 0..m
  PROVE  TreeOK'
<1>1. Lines' = Lines \cup {m} /\ Len(source') = m
  BY OldLines DEF Reads
<1>2. /\ tree'.ops = ops /\ tree'.arms = arms /\ tree'.otherwise = otherwise
      /\ tree'.elseOf = elseOf
  BY DEF TreeIs
<1>3. tree' = [ops |-> tree'.ops, arms |-> tree'.arms, otherwise |-> tree'.otherwise,
               elseOf |-> tree'.elseOf, deps |-> tree'.deps]
  BY <1>2 DEF TreeIs
<1> QED
  BY <1>1, <1>2, <1>3 DEF TreeOK

LEMMA StepTree ==
  ASSUME TypeOK, TreeOK, NEW m, NEW F, Step(m, F)
  PROVE  TreeOK'
<1>1. m = Len(source) + 1 /\ Len(source) \in Nat /\ ReadOn /\ m \in Nat
  BY OldLines DEF Step, Skips, Elses, Defaults, Begins, Branches, Pops, Pushes, Inside, Reads, n
<1>2. /\ \A l \in DOMAIN tree.ops : l \in Lines \cup {m} /\ tree.ops[l].block \in Lines \cup {m}
      /\ \A l \in DOMAIN tree.arms : l \in Lines \cup {m} /\ tree.arms[l] \in Seq(Nat)
      /\ \A l \in DOMAIN tree.otherwise : l \in 0..m
  BY <1>1 DEF TreeOK
<1>3. ASSUME Reads(m, F), TreeIs(tree.ops, tree.arms, tree.otherwise, tree.elseOf) PROVE TreeOK'
  BY <1>2, <1>3, TreeKeeps
<1>4. Popped # <<>> => Last(Popped).block \in Lines
  BY <1>1, LastPopped DEF TypeOK
<1>5. ASSUME NEW x, x.block \in Lines
      PROVE  \A l \in DOMAIN With(tree.ops, m, x) :
               l \in Lines \cup {m} /\ With(tree.ops, m, x)[l].block \in Lines \cup {m}
  BY <1>2, <1>5, AddTo
<1>6. \A l \in DOMAIN With(tree.arms, m, <<m>>) :
        l \in Lines \cup {m} /\ With(tree.arms, m, <<m>>)[l] \in Seq(Nat)
  <2>1. <<m>> \in Seq(Nat)
    BY <1>1
  <2> QED
    <3> TAKE l \in DOMAIN With(tree.arms, m, <<m>>)
    <3>1. \/ l = m /\ With(tree.arms, m, <<m>>)[l] = <<m>>
          \/ l \in DOMAIN tree.arms /\ With(tree.arms, m, <<m>>)[l] = tree.arms[l]
      BY AddTo
    <3> QED
      BY <1>2, <2>1, <3>1
<1>7. CASE Skips(m, F)
  BY <1>3, <1>7 DEF Skips, TreeStays
<1>8. CASE F = {} /\ Elses(m)
  BY <1>2, <1>8, TreeKeeps DEF Elses
<1>9. CASE F = {} /\ Defaults(m)
  BY <1>3, <1>9 DEF Defaults, TreeStays
<1>10. CASE Begins(m, F)
  BY <1>3, <1>10 DEF Begins
<1>11. ASSUME NEW c \in Nat, Branches(m, c, F) PROVE TreeOK'
  <2>1. c \in 1..Len(stack)
    BY <1>11, ContIdxAt DEF Branches, TypeOK
  <2>2. stack[c].chain \in 0..m
    BY <1>1, <2>1 DEF TypeOK
  <2>3. Reads(m, F)
    BY <1>11 DEF Branches, Inside
  <2>4. CASE TreeStays
    BY <1>3, <2>3, <2>4 DEF TreeStays
  <2>5. CASE TreeIs(tree.ops, [tree.arms EXCEPT ![stack[c].chain] = Append(@, m)],
                    tree.otherwise, tree.elseOf)
    <3> DEFINE arms == [tree.arms EXCEPT ![stack[c].chain] = Append(@, m)]
    <3>1. DOMAIN arms = DOMAIN tree.arms
      OBVIOUS
    <3>2. \A l \in DOMAIN arms : arms[l] = tree.arms[l] \/ arms[l] = Append(tree.arms[l], m)
      OBVIOUS
    <3> HIDE DEF arms
    <3>3. \A l \in DOMAIN arms : l \in Lines \cup {m} /\ arms[l] \in Seq(Nat)
      <4>1. \A q \in Seq(Nat) : Append(q, m) \in Seq(Nat)
        BY <1>1
      <4> QED
        BY <1>2, <3>1, <3>2, <4>1
    <3>4. TreeIs(tree.ops, arms, tree.otherwise, tree.elseOf)
      BY <2>5 DEF arms
    <3> QED
      BY <1>2, <2>3, <3>3, <3>4, TreeKeeps
  <2>6. CASE TreeIs(tree.ops, tree.arms, With(tree.otherwise, stack[c].chain, m), tree.elseOf)
    <3> DEFINE other == With(tree.otherwise, stack[c].chain, m)
    <3>1. \A l \in DOMAIN other : l \in DOMAIN tree.otherwise \/ l = stack[c].chain
      BY AddTo
    <3> HIDE DEF other
    <3>2. TreeIs(tree.ops, tree.arms, other, tree.elseOf)
      BY <2>6 DEF other
    <3> QED
      BY <1>2, <2>2, <2>3, <3>1, <3>2, TreeKeeps
  <2> QED
    BY <1>11, <2>4, <2>5, <2>6 DEF Branches
<1>12. CASE Pops(m, F)
  <2>1. Reads(m, F)
    BY <1>12 DEF Pops, Inside
  <2>2. CASE TreeStays
    BY <1>3, <2>1, <2>2 DEF TreeStays
  <2>3. ASSUME Popped # <<>>, NEW x, OpIs(m, here, x),
               TreeIs(With(tree.ops, m, x), tree.arms, tree.otherwise, tree.elseOf)
        PROVE  TreeOK'
    <3>1. x.block \in Lines
      BY <1>4, <2>3 DEF OpIs
    <3> QED
      BY <1>2, <1>5, <2>1, <2>3, <3>1, TreeKeeps
  <2> QED
    BY <1>12, <2>2, <2>3 DEF Pops
<1>13. CASE Pushes(m, F)
  <2>1. Reads(m, F) /\ Popped # <<>>
    BY <1>13 DEF Pushes, Inside
  <2>2. PICK ops, arms : /\ TreeIs(ops, arms, tree.otherwise, tree.elseOf)
                         /\ ops = tree.ops \/ \E x : ops = With(tree.ops, m, x)
                                                     /\ x.block = Last(Popped).block
                         /\ arms = tree.arms \/ arms = With(tree.arms, m, <<m>>)
    <3>1. [Plain("foreach") EXCEPT !.block = Last(Popped).block].block = Last(Popped).block
      BY DEF Plain
    <3> QED
      BY <1>13, <3>1 DEF Pushes
  <2>3. \A l \in DOMAIN ops : l \in Lines \cup {m} /\ ops[l].block \in Lines \cup {m}
    BY <1>2, <1>4, <1>5, <2>1, <2>2
  <2>4. \A l \in DOMAIN arms : l \in Lines \cup {m} /\ arms[l] \in Seq(Nat)
    BY <1>2, <1>6, <2>2
  <2> QED
    BY <1>2, <2>1, <2>2, <2>3, <2>4, TreeKeeps
<1> QED
  BY <1>7, <1>8, <1>9, <1>10, <1>11, <1>12, <1>13 DEF Step

-----------------------------------------------------------------------------
(* The last header                                                          *)

LEMMA HeadersStay ==
  ASSUME LastHeader, NEW m, NEW F, Reads(m, F), ~Heads(m)',
         current' = current, seen' = seen, current' = 0 => stack' = <<>>
  PROVE  LastHeader'
<1>1. /\ Lines' = Lines \cup {m}
      /\ \A j \in Lines : /\ Heads(j)' <=> Heads(j)
                          /\ IsTarget(j)' <=> IsTarget(j)
  BY OldLines DEF Reads, Heads
<1>2. seen' <=> \E j \in Lines' : Heads(j)'
  BY <1>1 DEF LastHeader
<1>3. \A t \in Lines' : Heads(t)' /\ (\A j \in Lines' : Heads(j)' => j <= t) =>
        current' = IF IsTarget(t)' THEN t ELSE 0
  BY <1>1 DEF LastHeader
<1>4. ~seen' => current' = 0
  BY DEF LastHeader
<1> QED
  BY <1>2, <1>3, <1>4 DEF LastHeader

LEMMA HeaderComes ==
  ASSUME NEW m, NEW F, Reads(m, F), Heads(m)', seen' = TRUE,
         current' = IF IsTarget(m)' THEN m ELSE 0, current' = 0 => stack' = <<>>
  PROVE  LastHeader'
<1>1. /\ Lines' = Lines \cup {m} /\ m \in Nat
      /\ \A j \in Lines : j \in Nat /\ j < m
  BY OldLines DEF Reads
<1>2. \A t \in Lines' : (\A j \in Lines' : Heads(j)' => j <= t) => t = m
  BY <1>1
<1>3. seen' <=> \E j \in Lines' : Heads(j)'
  BY <1>1
<1>4. \A t \in Lines' : Heads(t)' /\ (\A j \in Lines' : Heads(j)' => j <= t) =>
        current' = IF IsTarget(t)' THEN t ELSE 0
  BY <1>2
<1> QED
  BY <1>3, <1>4 DEF LastHeader

LEMMA InsideIs ==
  ASSUME NEW m, NEW F, Inside(m, F)
  PROVE  ~Heads(m)' /\ here.at \in Nat /\ here.at > 0 /\ here.is # "label"
<1>1. here \in Line /\ source'[m] = here
  BY OldLines DEF Inside, Reads, ReadOn
<1>2. here.at \in Nat /\ here.at > 0 /\ here.is # "label"
  BY <1>1, LineAssumption DEF Inside
<1> QED
  BY <1>1, <1>2 DEF Heads, IsTarget, IsDefault

LEMMA StepHeader ==
  ASSUME LastHeader, NEW m, NEW F, Step(m, F)
  PROVE  LastHeader'
<1>1. CASE Skips(m, F)
  BY <1>1, HeadersStay DEF Skips, LastHeader
<1>2. CASE F = {} /\ Elses(m)
  <2>1. source'[m] = here
    BY <1>2, OldLines DEF Elses, Reads
  <2>2. ~Heads(m)'
    BY <1>2, <2>1 DEF Elses, Heads, IsTarget, IsDefault
  <2> QED
    BY <1>2, <2>2, HeadersStay DEF Elses
<1>3. CASE F = {} /\ Defaults(m)
  <2>1. source'[m] = here /\ IsDefault(m)'
    BY <1>3, OldLines DEF Defaults, Reads
  <2>2. Heads(m)' /\ ~IsTarget(m)'
    BY <2>1 DEF Heads, IsTarget, IsDefault
  <2> QED
    BY <1>3, <2>2, HeaderComes DEF Defaults
<1>4. CASE Begins(m, F)
  <2>1. Heads(m)' /\ m \in Nat /\ m > 0
    BY <1>4, OldLines DEF Begins, Heads, Reads, n
  <2> QED
    BY <1>4, <2>1, HeaderComes DEF Begins
<1>5. ASSUME Inside(m, F) PROVE LastHeader'
  BY <1>5, InsideIs, HeadersStay DEF Inside
<1> QED
  BY <1>1, <1>2, <1>3, <1>4, <1>5 DEF Step, Branches, Pops, Pushes

-----------------------------------------------------------------------------
(* Sources with errors                                                      *)

\* Faults of the line that is read say nothing of earlier lines.
LEMMA SoftlyStays ==
  ASSUME TypeOK, NEW m, NEW F, Reads(m, F)
  PROVE  /\ \A o \in Lines : Softly(o)' <=> Softly(o)
         /\ Softly(m)' <=> F \subseteq Soft
<1>1. m \notin Lines /\ \A f \in faults : f.line \in Lines
  BY OldLines DEF Reads, TypeOK
<1>2. faults' = faults \cup {[line |-> m, fault |-> f] : f \in F}
  BY DEF Reads
<1>3. \A o \in Lines : Softly(o)' <=> Softly(o)
  BY <1>1, <1>2 DEF Softly
<1>4. Softly(m)' <=> F \subseteq Soft
  <2>1. ASSUME Softly(m)', NEW f \in F PROVE f \in Soft
    <3>1. [line |-> m, fault |-> f] \in faults'
      BY <1>2
    <3> QED
      BY <2>1, <3>1 DEF Softly
  <2>2. ASSUME F \subseteq Soft, NEW g \in faults', g.line = m PROVE g.fault \in Soft
    <3>1. PICK f \in F : g = [line |-> m, fault |-> f]
      BY <1>1, <1>2, <2>2
    <3> QED
      BY <2>2, <3>1
  <2> QED
    BY <2>1, <2>2 DEF Softly
<1> QED
  BY <1>3, <1>4

LEMMA OpenBefore ==
  ASSUME TypeOK, NEW m, NEW F, Reads(m, F), NEW o \in Lines, OpenAt(o)'
  PROVE  /\ OpenAt(o) /\ source'[o] = source[o] /\ source[o] \in Line
         /\ Counts(m)' => here.at >= source[o].at + INDENT_STEP
<1>1. /\ Lines' = Lines \cup {m} /\ source'[m] = here
      /\ \A j \in Lines : /\ j < m /\ source'[j] = source[j] /\ source[j] \in Line
                          /\ Counts(j)' <=> Counts(j)
  BY OldLines DEF Reads
<1>2. o < m
  BY <1>1
<1>3. Softly(o)
  BY SoftlyStays DEF OpenAt
<1>4. m > o
  BY <1>2, OldLines DEF Reads
<1> QED
  BY <1>1, <1>3, <1>4 DEF OpenAt

\* A line at the margin leaves every block.
LEMMA CoverAtMargin ==
  ASSUME TypeOK, NEW m, NEW F, Reads(m, F), here.at = 0, current' = current,
         Counts(m)' \/ (Covered /\ stack' = stack)
  PROVE  Covered'
<1> SUFFICES ASSUME NEW o \in Lines', o > current', OpenAt(o)'
             PROVE  Reached(stack', source'[o].at + INDENT_STEP)
  BY DEF Covered
<1>1. Lines' = Lines \cup {m} /\ source'[m] = here
  BY OldLines DEF Reads
<1>2. o \in Lines
  BY <1>1 DEF OpenAt
<1>3. /\ OpenAt(o) /\ source'[o] = source[o] /\ source[o] \in Line
      /\ Counts(m)' => here.at >= source[o].at + INDENT_STEP
  BY <1>2, OpenBefore
<1>4. source[o].at \in Nat
  BY <1>3, LineAssumption
<1>5. ~Counts(m)'
  BY <1>3, <1>4 DEF INDENT_STEP
<1> QED
  BY <1>2, <1>3, <1>5 DEF Covered

\* A line in a body leaves the blocks that are deeper than it is.
LEMMA CoverInside ==
  ASSUME TypeOK, NEW m, NEW F, Reads(m, F), Counts(m)', current' = current, Covered,
         here.at \in Nat, stack' # <<>>,
         \A d \in Nat : d <= here.at /\ Reached(stack, d) => Reached(stack', d),
         here.is \in Openers /\ F \subseteq Soft => Reached(stack', here.at + INDENT_STEP)
  PROVE  Covered'
<1> SUFFICES ASSUME NEW o \in Lines', o > current', OpenAt(o)'
             PROVE  Reached(stack', source'[o].at + INDENT_STEP)
  BY DEF Covered
<1>1. Lines' = Lines \cup {m} /\ source'[m] = here
  BY OldLines DEF Reads
<1>2. CASE o \in Lines
  <2>1. /\ OpenAt(o) /\ source'[o] = source[o] /\ source[o] \in Line
        /\ here.at >= source[o].at + INDENT_STEP
    BY <1>2, OpenBefore
  <2>2. source[o].at + INDENT_STEP \in Nat
    BY <2>1, LineAssumption DEF INDENT_STEP
  <2>3. source[o].at + INDENT_STEP <= here.at
    BY <2>1, <2>2, LineAssumption DEF INDENT_STEP
  <2> QED
    BY <1>2, <2>1, <2>2, <2>3 DEF Covered
<1>3. CASE o = m
  BY <1>1, <1>3, SoftlyStays DEF OpenAt
<1> QED
  BY <1>1, <1>2, <1>3

\* The blocks of a line one step in, and the block on top, are reached.
LEMMA ReachedEnds ==
  ASSUME NEW s \in Seq(Frames), NEW e \in Nat, Shape(s, e)
  PROVE  /\ Reached(s, INDENT_STEP) /\ Reached(s, s[Len(s)].depth)
         /\ s[Len(s)].depth \in Nat /\ s # <<>> /\ Len(s) \in Nat /\ Len(s) > 0
<1>1. Len(s) \in Nat /\ Len(s) > 0 /\ e \in 0..Len(s)
  BY DEF Shape
<1>2. s[Len(s)].depth = Depth(Len(s), e)
  BY <1>1 DEF Shape
<1> DEFINE q == IF e = 0 \/ Len(s) < e THEN Len(s) ELSE Len(s) - e + 1
<1>3. q \in Nat /\ q > 0
  BY <1>1
<1>4. s[Len(s)].depth = INDENT_STEP * q
  BY <1>2 DEF Depth
<1> HIDE DEF q
<1>5. INDENT_STEP = INDENT_STEP * 1 /\ INDENT_STEP <= INDENT_STEP * q
  BY <1>3 DEF INDENT_STEP
<1>6. s[Len(s)].depth \in Nat
  BY <1>3, <1>4 DEF INDENT_STEP
<1>7. Reached(s, INDENT_STEP)
  BY <1>4, <1>5 DEF Reached
<1>8. Reached(s, s[Len(s)].depth)
  BY <1>3, <1>4, <1>6 DEF Reached
<1> QED
  BY <1>1, <1>6, <1>7, <1>8

\* The last header before an indented line of the target being read.
LEMMA HeadOfLine ==
  ASSUME TypeOK, LastHeader, NEW m, NEW F, Reads(m, F), seen
  PROVE  /\ TargetOf(m)' \in Lines /\ Heads(TargetOf(m)')
         /\ \A j \in Lines : Heads(j) => j <= TargetOf(m)'
         /\ current = IF IsTarget(TargetOf(m)') THEN TargetOf(m)' ELSE 0
<1> DEFINE S == {j \in Lines : Heads(j)}
<1>1. ReadOn /\ m = n /\ Len(source) \in Nat /\ \A j \in Lines : j \in Nat
  BY OldLines DEF Reads
<1>2. TargetOf(m)' = LastOf(S)
  BY <1>1, NewOwners
<1>3. S # {} /\ S \subseteq 1..Len(source)
  BY DEF LastHeader, Lines
<1> HIDE DEF S
<1>4. LastOf(S) \in S /\ \A j \in S : j <= LastOf(S)
  BY <1>1, <1>3, LastOfAt
<1>5. LastOf(S) \in Lines /\ Heads(LastOf(S)) /\ \A j \in Lines : Heads(j) => j <= LastOf(S)
  BY <1>4 DEF S
<1>6. current = IF IsTarget(LastOf(S)) THEN LastOf(S) ELSE 0
  BY <1>5 DEF LastHeader
<1> QED
  BY <1>2, <1>5, <1>6

\* The line that the line that is read stands under.
LEMMA OwnerOfLine ==
  ASSUME TypeOK, LastHeader, NEW m, NEW F, Reads(m, F), here.at \in Nat, here.at > 0,
         seen, current # 0
  PROVE  LET o == Owner(m)' IN
           /\ o \in Lines /\ Counts(o) /\ source[o].at < here.at /\ o >= current
           /\ \A k \in Lines : Counts(k) /\ k > o => source[k].at >= here.at
<1> DEFINE S == {j \in Lines : Counts(j) /\ source[j].at < here.at}
           o == LastOf(S)
<1>1. /\ ReadOn /\ m = n /\ Len(source) \in Nat
      /\ \A j \in Lines : j \in Nat /\ source[j] \in Line
  BY OldLines DEF Reads
<1>2. Owner(m)' = o
  BY <1>1, NewOwners
<1>3. current \in Lines /\ IsTarget(current) /\ \A j \in Lines : Heads(j) => j <= current
  BY HeadOfLine
<1>4. \A j \in Lines : source[j].at \in Nat /\ (source[j].is \in {"label", "text", "header"} => source[j].at = 0)
  BY <1>1, LineAssumption
<1>5. Counts(current) /\ source[current].at = 0
  BY <1>1, <1>3, <1>4 DEF Counts, IsTarget
<1>6. current \in S /\ S \subseteq 1..Len(source)
  BY <1>3, <1>5 DEF Lines
<1> HIDE DEF S
<1>7. o \in S /\ \A j \in S : j <= o
  BY <1>1, <1>6, LastOfAt
<1>8. o \in Lines /\ Counts(o) /\ source[o].at < here.at /\ o >= current
  BY <1>1, <1>6, <1>7 DEF S
<1>9. \A k \in Lines : Counts(k) /\ k > o => source[k].at >= here.at
  <2> SUFFICES ASSUME NEW k \in Lines, Counts(k), k > o PROVE source[k].at >= here.at
    OBVIOUS
  <2>1. k \notin S /\ source[k].at \in Nat
    BY <1>1, <1>4, <1>7, <1>8
  <2> QED
    BY <2>1 DEF S
<1> HIDE DEF o
<1> QED
  BY <1>2, <1>8, <1>9

\* A block that the line that is read stands in.
LEMMA ReachedTop ==
  ASSUME TypeOK, ReadOn, NEW e \in Nat, Shape(stack, e), here.at \in Nat, here.at > 0,
         Popped # <<>>, Reached(stack, here.at)
  PROVE  Last(Popped).depth = here.at
<1>1. PICK k \in 1..Len(stack) : /\ Last(Popped) = stack[k] /\ stack[k].depth <= here.at
                                 /\ \A j \in 1..Len(stack) : j > k => stack[j].depth > here.at
  BY LastPopped
<1>2. PICK i \in 1..Len(stack) : /\ stack[i].depth = here.at
                                 /\ \A j \in 1..Len(stack) : j > i => stack[j].depth > here.at
  BY ReachedAt DEF TypeOK
<1>3. i = k
  <2>1. ~(i > k) /\ ~(k > i)
    <3>1. stack[k].depth \in Nat
      <4>1. stack[k] \in Frames
        BY DEF TypeOK
      <4> QED
        BY <4>1 DEF Frames
    <3> QED
      BY <1>1, <1>2, <3>1
  <2> QED
    BY <2>1
<1> QED
  BY <1>1, <1>2, <1>3

\* What was reported of an earlier line.
LEMMA RightlyStays ==
  ASSUME TypeOK, NEW m, NEW F, Reads(m, F), NEW l \in Lines, Rightly(l)
  PROVE  Rightly(l)'
<1>0. PICK o, t : o = Owner(l) /\ t = TargetOf(l)
  OBVIOUS
<1>1. /\ \A j \in Lines : /\ j \in Nat /\ source'[j] = source[j] /\ source[j] \in Line
                          /\ IsTarget(j)' <=> IsTarget(j)
      /\ Owner(l)' = o /\ TargetOf(l)' = t /\ l \in Nat /\ l > 0
      /\ \A j \in 1..(l - 1) : j \in Lines
  BY <1>0, OldLines, OldOwners DEF Reads, Lines
<1>2. source[l].at \in Nat /\ source[l].at > 0
  BY <1>1, LineAssumption DEF Rightly
<1>3. CASE t = 0
  BY <1>0, <1>1, <1>2, <1>3 DEF Rightly
<1>4. CASE t # 0
  <2> DEFINE T == {j \in 1..(l - 1) : IsTarget(j) \/ IsDefault(j)}
             S == {j \in 1..(l - 1) : Counts(j) /\ source[j].at < source[l].at}
  <2>1. t \in 1..(l - 1)
    <3>1. t = LastOf(T)
      BY <1>0 DEF TargetOf
    <3>2. l - 1 \in Nat /\ T \subseteq 1..(l - 1)
      BY <1>1
    <3> HIDE DEF T
    <3>3. T # {} /\ LastOf(T) \in T
      BY <1>4, <3>1, <3>2, LastOfAt
    <3> QED
      BY <3>1, <3>2, <3>3
  <2>2. t \in Lines
    BY <1>1, <2>1
  <2>3. CASE ~IsTarget(t)
    <3>1. ~IsTarget(t)'
      BY <1>1, <2>2, <2>3
    <3> QED
      BY <1>1, <1>2, <3>1 DEF Rightly
  <2>4. CASE IsTarget(t)
    <3>1. t \in S
      <4>1. source[t].is = "label" /\ source[t] \in Line
        BY <1>1, <2>2, <2>4 DEF IsTarget
      <4>2. source[t].at = 0
        BY <4>1, LineAssumption
      <4>3. Counts(t)
        BY <2>4 DEF Counts
      <4> QED
        BY <1>2, <2>1, <4>2, <4>3
    <3>2. o = LastOf(S)
      BY <1>0 DEF Owner
    <3>3. l - 1 \in Nat /\ S \subseteq 1..(l - 1)
      BY <1>1
    <3> HIDE DEF S
    <3>4. o \in Lines
      BY <1>1, <3>1, <3>2, <3>3, LastOfAt
    <3>5. Softly(o)' <=> Softly(o)
      BY <3>4, SoftlyStays
    <3>6. Rightly(l) <=>
            /\ source[l].at > 0
            /\ ~ /\ t # 0 /\ IsTarget(t) /\ source[o].is \in Openers
                 /\ source[l].at = source[o].at + INDENT_STEP /\ Softly(o)
      BY <1>0 DEF Rightly
    <3>7. Rightly(l)' <=>
            /\ source[l].at > 0
            /\ ~ /\ t # 0 /\ IsTarget(t) /\ source[o].is \in Openers
                 /\ source[l].at = source[o].at + INDENT_STEP /\ Softly(o)
      BY <1>1, <2>2, <3>4, <3>5 DEF Rightly
    <3> QED
      BY <3>6, <3>7
  <2> QED
    BY <2>3, <2>4
<1> QED
  BY <1>3, <1>4

\* A line below no target of its own.
LEMMA OrphanRightly ==
  ASSUME TypeOK, LastHeader, NEW m, NEW F, Reads(m, F), here.at > 0, seen, current = 0
  PROVE  Rightly(m)'
<1>1. /\ TargetOf(m)' \in Lines /\ Heads(TargetOf(m)')
      /\ current = IF IsTarget(TargetOf(m)') THEN TargetOf(m)' ELSE 0
  BY HeadOfLine
<1>2. source'[m] = here /\ \A j \in Lines : j > 0 /\ (IsTarget(j)' <=> IsTarget(j))
  BY OldLines DEF Reads
<1>3. PICK t \in Lines : t = TargetOf(m)'
  BY <1>1
<1>4. ~IsTarget(t)'
  BY <1>1, <1>2, <1>3
<1>5. source'[m].at > 0
  BY <1>2
<1> QED
  BY <1>3, <1>4, <1>5 DEF Rightly

\* A line between the steps of its blocks.
LEMMA MidBlockRightly ==
  ASSUME TypeOK, LastHeader, NEW m, NEW F, Inside(m, F), NEW e \in Nat, Shape(stack, e),
         Covered, Popped # <<>>, Last(Popped).depth # here.at
  PROVE  Rightly(m)'
<1>1. Reads(m, F) /\ ReadOn /\ here.at \in Nat /\ here.at > 0 /\ seen /\ current # 0
  BY InsideIs DEF Inside, Reads
<1>2. PICK o : /\ o = Owner(m)' /\ o \in Lines /\ Counts(o) /\ o >= current
               /\ \A k \in Lines : Counts(k) /\ k > o => source[k].at >= here.at
  BY <1>1, OwnerOfLine
<1>3. current \in Lines /\ IsTarget(current)
  BY <1>1, HeadOfLine
<1>4. /\ source'[m] = here /\ source'[o] = source[o] /\ source[o] \in Line
      /\ source[current] \in Line /\ o \in Nat /\ current \in Nat
  <2>1. /\ source'[m] = here
        /\ \A j \in Lines : j \in Nat /\ source'[j] = source[j] /\ source[j] \in Line
    BY <1>1, OldLines DEF Reads
  <2> QED
    BY <1>2, <1>3, <2>1
<1>5. source[o].at \in Nat /\ source[current].at = 0
  BY <1>3, <1>4, LineAssumption DEF IsTarget
<1> SUFFICES ASSUME source[o].is \in Openers, here.at = source[o].at + INDENT_STEP, Softly(o)'
             PROVE  FALSE
  BY <1>1, <1>2, <1>4 DEF Rightly
<1>6. Softly(o)
  BY <1>1, <1>2, SoftlyStays
<1>7. CASE source[o].at = 0
  BY <1>1, <1>7, ReachedEnds, ReachedTop DEF INDENT_STEP, TypeOK
<1>8. CASE source[o].at > 0
  <2>1. o > current
    BY <1>2, <1>4, <1>5, <1>8
  <2>2. OpenAt(o)
    BY <1>2, <1>6, <1>8 DEF OpenAt
  <2>3. Reached(stack, here.at)
    BY <1>2, <2>1, <2>2 DEF Covered
  <2> QED
    BY <1>1, <2>3, ReachedTop
<1> QED
  BY <1>5, <1>7, <1>8

LEMMA FaultsRightly ==
  ASSUME TypeOK, Stacked, NEW m, NEW F, Reads(m, F), F \cap Askew # {} => Rightly(m)'
  PROVE  \A f \in faults' : f.fault \in Askew => Rightly(f.line)'
<1> SUFFICES ASSUME NEW f \in faults', f.fault \in Askew PROVE Rightly(f.line)'
  OBVIOUS
<1>1. f \in faults \/ \E g \in F : f = [line |-> m, fault |-> g]
  BY DEF Reads
<1>2. CASE f \in faults
  <2>1. f.line \in Lines /\ Rightly(f.line)
    BY <1>2 DEF TypeOK, Stacked
  <2> QED
    BY <2>1, RightlyStays
<1>3. CASE \E g \in F : f = [line |-> m, fault |-> g]
  <2>1. f.line = m /\ F \cap Askew # {}
    BY <1>3
  <2> QED
    BY <2>1
<1> QED
  BY <1>1, <1>2, <1>3

LEMMA ElseFramesStay ==
  ASSUME TypeOK, ElseFrames, NEW m, NEW F, Reads(m, F), current' = current,
         \A i \in 1..Len(stack') : \/ \E j \in 1..Len(stack) : stack'[i] = stack[j]
                                   \/ stack'[i].kind # "target-else"
                                   \/ stack'[i].block = m /\ MarginElse(m)'
  PROVE  ElseFrames'
<1> SUFFICES ASSUME NEW i \in 1..Len(stack'), stack'[i].kind = "target-else"
             PROVE  /\ source'[stack'[i].block].at = 0 /\ source'[stack'[i].block].is = "else"
                    /\ stack'[i].block > current'
  BY DEF ElseFrames, MarginElse
<1>1. /\ m > current
      /\ \A j \in Lines : MarginElse(j)' <=> MarginElse(j)
  BY OldLines DEF Reads, TypeOK, n
<1>2. CASE \E j \in 1..Len(stack) : stack'[i] = stack[j]
  <2>1. PICK j \in 1..Len(stack) : stack'[i] = stack[j]
    BY <1>2
  <2>2. PICK b \in Lines : b = stack[j].block
    BY DEF TypeOK
  <2>3. MarginElse(b) /\ b > current
    BY <2>1, <2>2 DEF ElseFrames
  <2> QED
    BY <1>1, <2>1, <2>2, <2>3 DEF MarginElse
<1>3. CASE stack'[i].block = m /\ MarginElse(m)'
  BY <1>1, <1>3 DEF MarginElse
<1> QED
  BY <1>2, <1>3

\* The else of a target comes where no frame of one is.
LEMMA ElseIsFirst ==
  ASSUME TypeOK, LastHeader, ElseFrames, OneElsePerTarget', NEW m, Elses(m),
         NEW e \in Nat, Shape(stack, e)
  PROVE  e = 0
<1> SUFFICES ASSUME e # 0 PROVE FALSE
  OBVIOUS
<1>1. e \in 1..Len(stack) /\ stack[e].kind = "target-else" /\ Reads(m, {})
  BY DEF Shape, Elses
<1>2. PICK b \in Lines : b = stack[e].block
  BY <1>1 DEF TypeOK
<1>3. MarginElse(b) /\ b > current
  BY <1>1, <1>2 DEF ElseFrames
<1>4. /\ ReadOn /\ Lines' = Lines \cup {m} /\ source'[m] = here /\ m \notin Lines /\ m = n
      /\ \A j \in Lines : j \in Nat /\ j > 0 /\ (MarginElse(j)' <=> MarginElse(j))
      /\ TargetOf(b)' = TargetOf(b) /\ \A j \in 1..(b - 1) : j \in Lines
  BY <1>1, OldLines, OldOwners DEF Reads, Lines
<1>5. MarginElse(b)' /\ MarginElse(m)' /\ b # m
  BY <1>3, <1>4 DEF Elses, MarginElse
<1>6. seen
  BY DEF LastHeader, Elses
<1>7. /\ TargetOf(m)' = current /\ current \in Lines /\ Heads(current)
      /\ \A j \in Lines : Heads(j) => j <= current
  BY <1>1, <1>6, HeadOfLine DEF Elses
<1>8. TargetOf(b) = current
  <2> DEFINE T == {j \in 1..(b - 1) : IsTarget(j) \/ IsDefault(j)}
  <2>1. TargetOf(b) = LastOf(T)
    BY DEF TargetOf
  <2>2. current \in T /\ T \subseteq Int /\ \A j \in T : j <= current
    BY <1>3, <1>4, <1>7 DEF Heads
  <2> HIDE DEF T
  <2> QED
    BY <2>1, <2>2, LastOfIs
<1>9. TargetOf(b)' # TargetOf(m)'
  BY <1>4, <1>5 DEF OneElsePerTarget
<1> QED
  BY <1>4, <1>7, <1>8, <1>9

LEMMA StackedSkips ==
  ASSUME TypeOK, LastHeader, Stacked, NEW m, NEW F, Skips(m, F)
  PROVE  Stacked'
<1>1. Reads(m, F) /\ current' = current /\ stack' = stack
  BY DEF Skips
<1>2. current = 0 \/ \E e \in Nat : Shape(stack, e) /\ Covered /\ stack # <<>>
  BY ReachedEnds DEF Stacked, TypeOK
<1>3. ASSUME F \cap Askew # {} PROVE Rightly(m)'
  BY <1>1, <1>2, <1>3, OrphanRightly DEF Skips
<1>4. ASSUME current' # 0 PROVE \E e \in Nat : Shape(stack', e) /\ Covered'
  <2>1. PICK e \in Nat : Shape(stack, e) /\ Covered /\ stack # <<>>
    BY <1>1, <1>2, <1>4
  <2>2. here.at = 0
    BY <1>1, <1>4, <2>1 DEF Skips
  <2>3. Covered'
    BY <1>1, <2>1, <2>2, CoverAtMargin
  <2> QED
    BY <1>1, <2>1, <2>3
<1>5. ElseFrames'
  BY <1>1, ElseFramesStay DEF Stacked
<1>6. \A f \in faults' : f.fault \in Askew => Rightly(f.line)'
  BY <1>1, <1>3, FaultsRightly
<1> QED
  BY <1>4, <1>5, <1>6 DEF Stacked

LEMMA StackedElses ==
  ASSUME TypeOK, LastHeader, Stacked, OneElsePerTarget', NEW m, Elses(m)
  PROVE  Stacked'
<1>1. Reads(m, {}) /\ current' = current /\ current # 0 /\ source'[m] = here
  BY OldLines DEF Elses, Reads
<1>2. PICK e \in Nat : Shape(stack, e)
  BY <1>1 DEF Stacked
<1>3. Shape(stack, 0)
  BY <1>2, ElseIsFirst DEF Stacked
<1> DEFINE f == [kind |-> "target-else", depth |-> INDENT_STEP, block |-> m, chain |-> 0]
<1>4. stack' = Append(Front(stack), f) /\ f.kind = "target-else" /\ f.depth = INDENT_STEP
      /\ f.block = m
  BY DEF Elses
<1> HIDE DEF f
<1>5. Shape(stack', Len(stack)) /\ Len(stack) \in Nat /\ Len(stack) > 0
  BY <1>3, <1>4, ElseShape DEF TypeOK, Shape
<1>6. Counts(m)' /\ MarginElse(m)'
  BY <1>1 DEF Counts, MarginElse, Elses
<1>7. Covered'
  BY <1>1, <1>6, CoverAtMargin DEF Elses
<1>8. \A i \in 1..Len(stack') : (\E j \in 1..Len(stack) : stack'[i] = stack[j]) \/ stack'[i] = f
  <2>1. PICK k \in 0..Len(stack) : k = Len(stack) - 1
    BY <1>5, OneLess
  <2>2. Front(stack) = SubSeq(stack, 1, k)
    BY <2>1 DEF Front
  <2>3. /\ Front(stack) \in Seq(Frames) /\ Len(Front(stack)) = k
        /\ \A i \in 1..k : i \in 1..Len(stack) /\ Front(stack)[i] = stack[i]
    BY <2>2, FramesAt DEF TypeOK
  <2>4. /\ Len(stack') = k + 1 /\ stack'[k + 1] = f
        /\ \A i \in 1..k : stack'[i] = Front(stack)[i]
    BY <1>4, <2>3
  <2>5. \A i \in 1..Len(stack') : i \in 1..k \/ i = k + 1
    BY <2>1, <2>4
  <2> QED
    BY <2>3, <2>4, <2>5
<1>9. ElseFrames'
  BY <1>1, <1>4, <1>6, <1>8, ElseFramesStay DEF Stacked
<1>10. \A g \in faults' : g.fault \in Askew => Rightly(g.line)'
  BY <1>1, FaultsRightly
<1> QED
  BY <1>5, <1>7, <1>9, <1>10 DEF Stacked

LEMMA StackedHeader ==
  ASSUME TypeOK, Stacked, NEW m, NEW F, Begins(m, F) \/ (Defaults(m) /\ F = {})
  PROVE  Stacked'
<1>1. Reads(m, F) /\ F \cap Askew = {}
  BY DEF Begins, Defaults
<1>2. \A g \in faults' : g.fault \in Askew => Rightly(g.line)'
  BY <1>1, FaultsRightly
<1>3. CASE Defaults(m)
  BY <1>2, <1>3 DEF Stacked, ElseFrames, Defaults
<1>4. CASE Begins(m, F)
  <2> DEFINE f == [kind |-> "main", depth |-> INDENT_STEP, block |-> m, chain |-> 0]
  <2>1. stack' = <<f>> /\ f.kind = "main" /\ f.depth = INDENT_STEP /\ current' = m
    BY <1>4 DEF Begins
  <2> HIDE DEF f
  <2>2. Len(stack') = 1 /\ \A i \in 1..Len(stack') : i = 1 /\ stack'[i] = f
    BY <2>1
  <2>3. Shape(stack', 0)
    <3>1. Depth(1, 0) = INDENT_STEP
      BY DEF Depth, INDENT_STEP
    <3> QED
      BY <2>1, <2>2, <3>1 DEF Shape
  <2>4. \A o \in Lines' : ~(o > current')
    <3>1. Lines' = Lines \cup {m} /\ m \in Nat /\ \A j \in Lines : j \in Nat /\ j < m
      BY <1>1, OldLines DEF Reads
    <3> QED
      BY <2>1, <3>1
  <2>5. Covered' /\ ElseFrames'
    BY <2>1, <2>2, <2>4 DEF Covered, ElseFrames
  <2> QED
    BY <1>2, <2>3, <2>5 DEF Stacked
<1> QED
  BY <1>3, <1>4

\* A line inside a target counts, and is at least a step in.
LEMMA InsideCounts ==
  ASSUME TypeOK, LastHeader, NEW m, NEW F, Inside(m, F)
  PROVE  /\ Reads(m, F) /\ ReadOn /\ source'[m] = here /\ Counts(m)' /\ current' = current
         /\ current # 0 /\ here.at \in Nat /\ here.at > 0 /\ m \in Lines' /\ m \in InBody'
         /\ Stepped' => here.at >= INDENT_STEP
<1>1. /\ Reads(m, F) /\ ReadOn /\ m = n /\ source'[m] = here /\ here \in Line /\ seen
      /\ current' = current /\ current # 0
      /\ m \in Lines'
  BY OldLines DEF Inside, Reads, ReadOn
<1>2. here.at \in Nat /\ here.at > 0 /\ here.is \notin {"label", "text", "header"}
  BY <1>1, LineAssumption DEF Inside
<1>3. Counts(m)'
  BY <1>1, <1>2 DEF Counts
<1>4. m \in InBody'
  BY <1>1, <1>2, BodyLine
<1>5. Stepped' => here.at >= INDENT_STEP
  BY <1>1, <1>4 DEF Stepped
<1> QED
  BY <1>1, <1>2, <1>3, <1>4, <1>5

\* What is left of the stack, after a line in a body, holds the line's block on top.
LEMMA StackedInside ==
  ASSUME TypeOK, LastHeader, Stacked, NEW m, NEW F, Inside(m, F),
         NEW k \in 1..Len(stack), NEW e \in Nat, NEW g \in Nat,
         Covered, Shape(stack, e), Shape(stack', g),
         \A i \in 1..Len(stack') : \/ \E j \in 1..Len(stack) : stack'[i] = stack[j]
                                   \/ stack'[i].kind # "target-else",
         \A d \in Nat : d <= here.at /\ Reached(stack, d) => d <= stack'[Len(stack')].depth,
         here.is \in Openers /\ F \subseteq Soft =>
           stack'[Len(stack')].depth = here.at + INDENT_STEP,
         F \cap Askew # {} => Rightly(m)', stack' \in Seq(Frames)
  PROVE  Stacked'
<1>1. /\ Reads(m, F) /\ Counts(m)' /\ current' = current /\ current # 0 /\ here.at \in Nat
      /\ here.at > 0
  BY InsideCounts
<1>2. stack' # <<>> /\ Reached(stack', stack'[Len(stack')].depth)
  BY ReachedEnds
<1>3. \A d \in Nat : d <= here.at /\ Reached(stack, d) => Reached(stack', d)
  BY DEF Reached
<1>4. Covered'
  BY <1>1, <1>2, <1>3, CoverInside
<1>5. ElseFrames'
  BY <1>1, ElseFramesStay DEF Stacked
<1>6. \A f \in faults' : f.fault \in Askew => Rightly(f.line)'
  BY <1>1, FaultsRightly
<1> QED
  BY <1>4, <1>5, <1>6 DEF Stacked

LEMMA StackedBranches ==
  ASSUME TypeOK, LastHeader, Stacked, NEW m, NEW F, NEW c \in Nat, Branches(m, c, F), TypeOK'
  PROVE  Stacked'
<1>1. Inside(m, F) /\ F \cap Askew = {} /\ stack' \in Seq(Frames)
  BY DEF Branches, TypeOK
<1>2. /\ current # 0 /\ here.at \in Nat /\ here.at > 0
  BY <1>1, InsideCounts
<1>3. PICK e \in Nat : Shape(stack, e) /\ Covered
  BY <1>2 DEF Stacked
<1>4. /\ c \in 1..Len(stack) /\ stack[c].kind \in {"if", "elif"}
      /\ stack[c].depth = here.at + INDENT_STEP
  BY ContIdxAt DEF Branches, TypeOK
<1>0. PICK t : t = SubSeq(stack, 1, c - 1)
  OBVIOUS
<1>5. t \in Seq(Frames) /\ Len(t) = c - 1 /\ \A i \in 1..(c - 1) : t[i] = stack[i]
  <2>1. PICK k \in 0..Len(stack) : k = c - 1
    BY <1>4 DEF TypeOK
  <2> QED
    BY <1>0, <2>1, FramesAt DEF TypeOK
<1>6. PICK g \in Nat : c > 1 /\ Shape(t, g) /\ stack[c].depth = t[Len(t)].depth + INDENT_STEP
  <2>1. PICK g \in Nat : (e < c => g = e) /\ (~(e < c) => g = 0)
    OBVIOUS
  <2>2. stack \in Seq(Frames)
    BY DEF TypeOK
  <2>3. c > 1 /\ Shape(t, g) /\ stack[c].depth = t[Len(t)].depth + INDENT_STEP
    <3>1. c \in 1..Len(stack) /\ stack[c].kind \in {"if", "elif"} /\ Shape(stack, e)
      BY <1>3, <1>4
    <3>2. c > 1
      BY <1>5, <2>1, <2>2, <3>1, CutShape
    <3>3. Shape(t, g)
      BY <1>5, <2>1, <2>2, <3>1, CutShape
    <3>4. stack[c].depth = t[Len(t)].depth + INDENT_STEP
      BY <1>5, <2>1, <2>2, <3>1, CutShape, SMTT(30)
    <3> QED
      BY <3>2, <3>3, <3>4
  <2> QED
    BY <2>3
<1>7. t[Len(t)].depth = here.at /\ \A i \in 1..Len(t) : i \in 1..Len(stack) /\ t[i] = stack[i]
  <2>1. t[Len(t)].depth \in Nat /\ Len(stack) \in Nat
    BY <1>5, <1>6, ReachedEnds DEF TypeOK
  <2> QED
    BY <1>2, <1>4, <1>5, <1>6, <2>1 DEF INDENT_STEP
<1>8. CASE stack' = t /\ F # {} /\ F \cap Soft = {}
  <2>1. ~(F \subseteq Soft)
    BY <1>8
  <2>2. Shape(stack', g) /\ stack'[Len(stack')].depth = here.at
        /\ \A i \in 1..Len(stack') : \E j \in 1..Len(stack) : stack'[i] = stack[j]
    BY <1>6, <1>7, <1>8
  <2> QED
    BY <1>1, <1>3, <1>4, <2>1, <2>2, StackedInside
<1>9. ASSUME NEW kind \in {"elif", "conditional-else"},
             stack' = Append(t, [kind |-> kind, depth |-> stack[c].depth, block |-> m,
                                 chain |-> stack[c].chain])
      PROVE  Stacked'
  <2> DEFINE f == [kind |-> kind, depth |-> stack[c].depth, block |-> m, chain |-> stack[c].chain]
  <2>1. stack' = Append(t, f) /\ f.kind \notin {"main", "target-else"} /\ f.depth = stack[c].depth
    BY <1>9
  <2> HIDE DEF f
  <2>2. Shape(stack', g)
    BY <1>5, <1>6, <2>1, PushShape
  <2>3. /\ Len(stack') = Len(t) + 1 /\ stack'[Len(t) + 1] = f
        /\ \A i \in 1..Len(t) : stack'[i] = t[i]
    BY <1>5, <2>1
  <2>4. \A i \in 1..Len(stack') : i \in 1..Len(t) \/ i = Len(t) + 1
    BY <1>5, <2>3
  <2>5. \A i \in 1..Len(stack') : \/ \E j \in 1..Len(stack) : stack'[i] = stack[j]
                                  \/ stack'[i].kind # "target-else"
    BY <1>7, <2>1, <2>3, <2>4
  <2>6. stack'[Len(stack')].depth = here.at + INDENT_STEP
    BY <1>4, <2>1, <2>3
  <2>7. \A d \in Nat : d <= here.at => d <= stack'[Len(stack')].depth
    BY <1>2, <2>6 DEF INDENT_STEP
  <2> QED
    BY <1>1, <1>3, <1>4, <2>2, <2>5, <2>6, <2>7, StackedInside
<1> QED
  BY <1>0, <1>8, <1>9 DEF Branches

\* The stack of an indented line.
LEMMA PoppedIs ==
  ASSUME TypeOK, ReadOn, here.at \in Nat, here.at >= INDENT_STEP, NEW e \in Nat, Shape(stack, e)
  PROVE  \E k \in 1..Len(stack) :
           /\ Popped # <<>> /\ Popped \in Seq(Frames) /\ Len(Popped) = k /\ e <= k
           /\ \A i \in 1..k : i \in 1..Len(stack) /\ Popped[i] = stack[i]
           /\ Last(Popped) = stack[k] /\ stack[k].depth <= here.at /\ Shape(Popped, e)
           /\ \A j \in 1..Len(stack) : j > k => stack[j].depth > here.at
           /\ \A d \in Nat : d <= here.at /\ Reached(stack, d) => d <= stack[k].depth
<1>1. PICK k \in 1..Len(stack) :
           /\ popToDepth(stack, here.at) = SubSeq(stack, 1, k)
           /\ SubSeq(stack, 1, k) # <<>> /\ Last(SubSeq(stack, 1, k)) = stack[k]
           /\ stack[k].depth <= here.at /\ e <= k
           /\ \A j \in 1..Len(stack) : j > k => stack[j].depth > here.at
           /\ Shape(SubSeq(stack, 1, k), e)
  BY PopShape DEF TypeOK
<1>2. /\ Popped # <<>> /\ Last(Popped) = stack[k] /\ Shape(Popped, e)
      /\ Popped = SubSeq(stack, 1, k)
  BY <1>1 DEF Popped
<1>3. k \in 0..Len(stack) /\ k > 0 /\ stack[k] \in Frames
  BY DEF TypeOK
<1>4. /\ Popped \in Seq(Frames) /\ Len(Popped) = k /\ k > 0
      /\ \A i \in 1..k : i \in 1..Len(stack) /\ Popped[i] = stack[i]
  BY <1>2, <1>3, FramesAt DEF TypeOK
<1>5. ASSUME NEW d \in Nat, d <= here.at, Reached(stack, d) PROVE d <= stack[k].depth
  <2>1. CASE d = 0
    BY <1>3, <2>1 DEF Frames
  <2>2. CASE d > 0
    <3>1. PICK i \in 1..Len(stack) : /\ stack[i].depth = d
                                     /\ \A j \in 1..Len(stack) : j > i => stack[j].depth > d
      BY <1>5, <2>2, ReachedAt DEF TypeOK
    <3>2. ~(i > k) /\ stack[k].depth \in Nat
      BY <1>1, <1>3, <1>5, <3>1 DEF Frames
    <3>3. i = k \/ k > i
      BY <3>2
    <3> QED
      BY <3>1, <3>2, <3>3
  <2> QED
    BY <2>1, <2>2
<1> QED
  BY <1>1, <1>2, <1>4, <1>5

LEMMA StackedPops ==
  ASSUME TypeOK, LastHeader, Stacked, Stepped', NEW m, NEW F, Pops(m, F), TypeOK'
  PROVE  Stacked'
<1>1. Inside(m, F) /\ stack' = Popped /\ ReadOn
  BY DEF Pops, Inside, Reads
<1>2. current # 0 /\ here.at \in Nat /\ here.at >= INDENT_STEP
  BY <1>1, InsideCounts
<1>3. PICK e \in Nat : Shape(stack, e) /\ Covered
  BY <1>2 DEF Stacked
<1>4. PICK k \in 1..Len(stack) :
           /\ Popped # <<>> /\ Popped \in Seq(Frames) /\ Len(Popped) = k
           /\ \A i \in 1..k : i \in 1..Len(stack) /\ Popped[i] = stack[i]
           /\ Last(Popped) = stack[k] /\ Shape(Popped, e)
           /\ \A d \in Nat : d <= here.at /\ Reached(stack, d) => d <= stack[k].depth
  BY <1>1, <1>2, <1>3, PoppedIs
<1>5. /\ Shape(stack', e) /\ stack' \in Seq(Frames)
      /\ \A i \in 1..Len(stack') : \E j \in 1..Len(stack) : stack'[i] = stack[j]
      /\ stack'[Len(stack')] = stack[k]
  BY <1>1, <1>4
<1>6. ~(here.is \in Openers /\ F \subseteq Soft)
  BY <1>4 DEF Pops
<1>7. F \cap Askew # {} => Rightly(m)'
  BY <1>1, <1>3, MidBlockRightly DEF Pops
<1> QED
  BY <1>1, <1>3, <1>4, <1>5, <1>6, <1>7, StackedInside

LEMMA StackedPushes ==
  ASSUME TypeOK, LastHeader, Stacked, Stepped', NEW m, NEW F, Pushes(m, F), TypeOK'
  PROVE  Stacked'
<1>1. /\ Inside(m, F) /\ ReadOn /\ Last(Popped).depth = here.at /\ F \cap Askew = {}
      /\ stack' \in Seq(Frames)
  BY DEF Pushes, Inside, Reads, TypeOK
<1>2. current # 0 /\ here.at \in Nat /\ here.at >= INDENT_STEP
  BY <1>1, InsideCounts
<1>3. PICK e \in Nat : Shape(stack, e) /\ Covered
  BY <1>2 DEF Stacked
<1>4. PICK k \in 1..Len(stack) :
           /\ Popped # <<>> /\ Popped \in Seq(Frames) /\ Len(Popped) = k
           /\ \A i \in 1..k : i \in 1..Len(stack) /\ Popped[i] = stack[i]
           /\ Last(Popped) = stack[k] /\ Shape(Popped, e)
  BY <1>1, <1>2, <1>3, PoppedIs
<1>5. PICK f : /\ stack' = Append(Popped, f) /\ f.kind \in {"if", "foreach", "unknown-block"}
               /\ f.depth = here.at + INDENT_STEP
  BY DEF Pushes
<1>6. Popped[Len(Popped)].depth = here.at /\ k \in Nat
  BY <1>1, <1>4
<1>7. Shape(stack', e)
  BY <1>4, <1>5, <1>6, PushShape
<1>8. /\ Len(stack') = k + 1 /\ stack'[k + 1] = f
      /\ \A i \in 1..k : stack'[i] = Popped[i]
  BY <1>4, <1>5
<1>9. \A i \in 1..Len(stack') : i \in 1..k \/ i = k + 1
  BY <1>6, <1>8
<1>10. \A i \in 1..Len(stack') : \/ \E j \in 1..Len(stack) : stack'[i] = stack[j]
                                 \/ stack'[i].kind # "target-else"
  BY <1>4, <1>5, <1>8, <1>9
<1>11. stack'[Len(stack')].depth = here.at + INDENT_STEP
  BY <1>5, <1>8
<1>12. \A d \in Nat : d <= here.at => d <= stack'[Len(stack')].depth
  BY <1>2, <1>11 DEF INDENT_STEP
<1> QED
  BY <1>1, <1>3, <1>7, <1>10, <1>11, <1>12, StackedInside

LEMMA StepStacked ==
  ASSUME TypeOK, LastHeader, Stacked, Regular', NEW m, NEW F, Step(m, F), TypeOK'
  PROVE  Stacked'
BY StackedSkips, StackedElses, StackedHeader, StackedBranches, StackedPops, StackedPushes
   DEF Step, Regular

-----------------------------------------------------------------------------
(* What the tree holds, it keeps                                            *)

Extends(g, f) == \A x \in DOMAIN f : x \in DOMAIN g /\ g[x] = f[x]

Grows ==
  /\ Extends(targets', targets) /\ Extends(tree'.ops, tree.ops)
  /\ Extends(tree'.otherwise, tree.otherwise) /\ Extends(tree'.elseOf, tree.elseOf)
  /\ \A l \in DOMAIN tree.arms :
       l \in DOMAIN tree'.arms /\ ToSet(tree.arms[l]) \subseteq ToSet(tree'.arms[l])

LEMMA WithExtends ==
  ASSUME NEW f, NEW a, NEW b, a \notin DOMAIN f
  PROVE  Extends(With(f, a, b), f)
BY DEF Extends, With

LEMMA SameGrows ==
  ASSUME TreeStays
  PROVE  Grows
BY DEF TreeStays, TreeIs, Grows, Extends

LEMMA LinkedGrows ==
  ASSUME Grows, NEW b, Linked(b)
  PROVE  Linked(b)'
<1>1. CASE \E x \in DOMAIN targets : targets[x] = b
  <2>1. \E x \in DOMAIN targets' : targets'[x] = b
    BY <1>1 DEF Grows, Extends
  <2> QED
    BY <2>1 DEF Linked
<1>2. CASE \E x \in DOMAIN targets : targets[x] \in DOMAIN tree.elseOf /\ tree.elseOf[targets[x]] = b
  <2>1. \E x \in DOMAIN targets' : targets'[x] \in DOMAIN tree'.elseOf /\ tree'.elseOf[targets'[x]] = b
    BY <1>2 DEF Grows, Extends
  <2> QED
    BY <2>1 DEF Linked
<1>3. CASE b \in DOMAIN tree.ops /\ tree.ops[b].op = "foreach"
  BY <1>3 DEF Grows, Extends, Linked
<1>4. CASE \E i \in DOMAIN tree.ops \cap DOMAIN tree.arms :
             /\ i <= b
             /\ b \in ToSet(tree.arms[i]) \/ (i \in DOMAIN tree.otherwise /\ tree.otherwise[i] = b)
  <2>1. \E i \in DOMAIN tree'.ops \cap DOMAIN tree'.arms :
             /\ i <= b
             /\ b \in ToSet(tree'.arms[i]) \/ (i \in DOMAIN tree'.otherwise /\ tree'.otherwise[i] = b)
    BY <1>4 DEF Grows, Extends
  <2> QED
    BY <2>1 DEF Linked
<1> QED
  BY <1>1, <1>2, <1>3, <1>4 DEF Linked

LEMMA OfIfStays ==
  ASSUME TypeOK, TreeOK, NEW m, NEW F, Reads(m, F), Grows, NEW f, OfIf(f),
         f.chain \notin DOMAIN tree'.otherwise,
         Counts(m)' => \/ here.at >= f.depth
                       \/ here.is = "elif" /\ here.at = f.depth - INDENT_STEP
  PROVE  OfIf(f)'
<1>1. /\ Lines' = Lines \cup {m} /\ source'[m] = here
      /\ \A j \in Lines : source'[j] = source[j] /\ (Counts(j)' <=> Counts(j))
  BY OldLines DEF Reads
<1>2. PICK i : i = f.chain
  OBVIOUS
<1>3. i \in DOMAIN tree.ops /\ i \in DOMAIN tree.arms /\ i \in Lines
  BY <1>2 DEF OfIf, TreeOK
<1>4. i \in DOMAIN tree'.ops /\ i \in DOMAIN tree'.arms
  BY <1>3 DEF Grows, Extends
<1>5. Counts(i)' /\ source'[i].is = "if" /\ source'[i].at = f.depth - INDENT_STEP
      /\ i <= f.block
  BY <1>1, <1>2, <1>3 DEF OfIf
<1>6. \A k \in Lines' : Counts(k)' /\ k > i =>
        \/ source'[k].at >= f.depth
        \/ source'[k].is = "elif" /\ source'[k].at = f.depth - INDENT_STEP
  BY <1>1, <1>2 DEF OfIf
<1> QED
  BY <1>2, <1>4, <1>5, <1>6 DEF OfIf

\* A frame that is left on the stack.
LEMMA FrameStays ==
  ASSUME TypeOK, TreeOK, NEW m, NEW F, Reads(m, F), Grows, NEW f, f.block \in Lines, FrameIs(f),
         f.kind \in {"if", "elif"} => /\ f.chain \notin DOMAIN tree'.otherwise
                                      /\ Counts(m)' => here.at >= f.depth
  PROVE  FrameIs(f)'
<1>1. PICK b \in Lines : b = f.block
  OBVIOUS
<1>2. source'[b] = source[b] /\ (Counts(b)' <=> Counts(b)) /\ (Opens(b)' <=> Opens(b))
  BY OldLines DEF Reads
<1>3. Linked(b)'
  BY <1>1, LinkedGrows DEF FrameIs
<1>4. f.kind \in {"if", "elif"} => OfIf(f)'
  BY OfIfStays DEF FrameIs
<1> QED
  BY <1>1, <1>2, <1>3, <1>4 DEF FrameIs

LEMMA InnerStays ==
  ASSUME TypeOK, NEW m, NEW F, Reads(m, F), NEW f, Inner(f), Counts(m)' => here.at >= f.depth
  PROVE  Inner(f)'
<1>1. /\ Lines' = Lines \cup {m} /\ source'[m] = here
      /\ \A j \in Lines : source'[j] = source[j] /\ (Counts(j)' <=> Counts(j))
  BY OldLines DEF Reads
<1> QED
  BY <1>1 DEF Inner

\* The frame of the line that is read has no line below it.
LEMMA InnerNew ==
  ASSUME TypeOK, NEW m, NEW F, Reads(m, F), NEW f, f.block = m
  PROVE  Inner(f)'
<1>1. Lines' = Lines \cup {m} /\ m \in Nat /\ \A j \in Lines : j \in Nat /\ j < m
  BY OldLines DEF Reads
<1> QED
  BY <1>1 DEF Inner

-----------------------------------------------------------------------------
(* The maps                                                                 *)

\* What the maps hold of earlier lines.
LEMMA MapsStay ==
  ASSUME TypeOK, TreeOK, Maps, NEW m, NEW F, Reads(m, F), Grows, TypeOK', TreeOK',
         \A x \in DOMAIN targets' \ DOMAIN targets :
           targets'[x] = m /\ IsTarget(m)' /\ here.name = x,
         \A t \in DOMAIN tree'.elseOf \ DOMAIN tree.elseOf :
           tree'.elseOf[t] = m /\ MarginElse(m)' /\ TargetOf(m)' = t,
         \A l \in DOMAIN tree'.ops \ DOMAIN tree.ops :
           l = m /\ tree'.ops[m].block \in Lines /\ Linked(tree'.ops[m].block),
         current' # 0 => current' = current \/ \E x \in DOMAIN targets' : targets'[x] = current'
  PROVE  Maps'
<1>1. /\ Lines' = Lines \cup {m} /\ source'[m] = here /\ m \in Nat /\ m \notin Lines
      /\ \A j \in Lines : /\ j \in Nat /\ j < m /\ source'[j] = source[j]
                          /\ IsTarget(j)' <=> IsTarget(j)
                          /\ MarginElse(j)' <=> MarginElse(j)
                          /\ TargetOf(j)' = TargetOf(j)
  BY OldLines, OldOwners DEF Reads
<1>2. ASSUME NEW x \in DOMAIN targets', NEW j \in Lines', targets'[x] = j
      PROVE  IsTarget(j)' /\ source'[j].name = x
  <2>1. CASE x \in DOMAIN targets
    <3>1. targets[x] = j /\ j \in Lines
      BY <1>2, <2>1 DEF Grows, Extends, TypeOK
    <3> QED
      BY <1>1, <2>1, <3>1 DEF Maps
  <2>2. CASE x \notin DOMAIN targets
    BY <1>1, <1>2, <2>2
  <2> QED
    BY <2>1, <2>2
<1>3. ASSUME NEW t \in DOMAIN tree'.elseOf
      PROVE  /\ tree'.elseOf[t] \in Lines'
             /\ \A j \in Lines' : tree'.elseOf[t] = j => MarginElse(j)' /\ TargetOf(j)' = t
  <2>1. CASE t \in DOMAIN tree.elseOf
    <3>1. PICK j : j = tree.elseOf[t]
      OBVIOUS
    <3>2. j \in Lines /\ tree'.elseOf[t] = j
      BY <2>1, <3>1 DEF Grows, Extends, Maps
    <3>3. MarginElse(j) /\ TargetOf(j) = t
      BY <2>1, <3>1, <3>2 DEF Maps
    <3> QED
      BY <1>1, <3>2, <3>3
  <2>2. CASE t \notin DOMAIN tree.elseOf
    BY <1>1, <1>3, <2>2
  <2> QED
    BY <2>1, <2>2
<1>4. ASSUME NEW l \in DOMAIN tree'.ops, NEW b \in Lines', tree'.ops[l].block = b
      PROVE  b < l /\ Linked(b)'
  <2>1. CASE l \in DOMAIN tree.ops
    <3>1. tree.ops[l].block = b /\ b \in Lines
      BY <1>4, <2>1 DEF Grows, Extends, TreeOK
    <3>2. b < l /\ Linked(b)
      BY <2>1, <3>1 DEF Maps
    <3> QED
      BY <3>2, LinkedGrows
  <2>2. CASE l \notin DOMAIN tree.ops
    <3>1. l = m /\ b \in Lines /\ Linked(b)
      BY <1>4, <2>2
    <3> QED
      BY <1>1, <3>1, LinkedGrows
  <2> QED
    BY <2>1, <2>2
<1>5. current' # 0 => \E x \in DOMAIN targets' : targets'[x] = current'
  BY DEF Maps, Grows, Extends
<1> QED
  BY <1>2, <1>3, <1>4, <1>5 DEF Maps

\* A target that has no else yet is given its first.
LEMMA ElseIsNew ==
  ASSUME TypeOK, LastHeader, Maps, OneElsePerTarget', NEW m, Elses(m)
  PROVE  /\ current \notin DOMAIN tree.elseOf
         /\ MarginElse(m)' /\ TargetOf(m)' = current
<1>1. /\ Reads(m, {}) /\ current # 0 /\ seen
  BY DEF Elses, LastHeader
<1>2. TargetOf(m)' = current
  BY <1>1, HeadOfLine
<1>3. /\ Lines' = Lines \cup {m} /\ source'[m] = here /\ m \notin Lines
      /\ \A j \in Lines : /\ MarginElse(j)' <=> MarginElse(j)
                          /\ TargetOf(j)' = TargetOf(j)
  BY <1>1, OldLines, OldOwners DEF Reads
<1>4. MarginElse(m)'
  BY <1>3 DEF Elses, MarginElse
<1>5. ASSUME current \in DOMAIN tree.elseOf PROVE FALSE
  <2>1. PICK j : j = tree.elseOf[current]
    OBVIOUS
  <2>2. j \in Lines
    BY <1>5, <2>1 DEF Maps
  <2>3. MarginElse(j) /\ TargetOf(j) = current
    BY <1>5, <2>1, <2>2 DEF Maps
  <2>4. MarginElse(j)' /\ j # m /\ TargetOf(j)' = TargetOf(m)'
    BY <1>2, <1>3, <2>2, <2>3
  <2> QED
    BY <1>3, <1>4, <2>2, <2>4 DEF OneElsePerTarget
<1> QED
  BY <1>2, <1>4, <1>5

\* A header brings a name of its own.
LEMMA NameIsNew ==
  ASSUME TypeOK, Maps, OneHeaderPerName', NEW m, NEW F, Begins(m, F)
  PROVE  here.name \notin DOMAIN targets
<1> SUFFICES ASSUME here.name \in DOMAIN targets PROVE FALSE
  OBVIOUS
<1>1. /\ Lines' = Lines \cup {m} /\ source'[m] = here /\ m \notin Lines
      /\ \A j \in Lines : source'[j] = source[j] /\ (IsTarget(j)' <=> IsTarget(j))
  BY OldLines DEF Begins, Reads
<1>2. PICK j \in Lines : j = targets[here.name]
  BY DEF TypeOK
<1>3. IsTarget(j) /\ source[j].name = here.name
  BY <1>2 DEF Maps
<1>4. IsTarget(j)' /\ IsTarget(m)' /\ source'[j].name = source'[m].name
  BY <1>1, <1>3 DEF Begins
<1> QED
  BY <1>1, <1>4 DEF OneHeaderPerName

-----------------------------------------------------------------------------
(* The lines of bodies                                                      *)

LEMMA OwnerIn ==
  ASSUME NEW l \in Nat, l > 0, Owner(l) # 0
  PROVE  Owner(l) \in 1..(l - 1)
<1> DEFINE S == {j \in 1..(l - 1) : Counts(j) /\ source[j].at < source[l].at}
<1>1. Owner(l) = LastOf(S)
  BY DEF Owner
<1>2. S \subseteq 1..(l - 1) /\ l - 1 \in Nat
  OBVIOUS
<1> HIDE DEF S
<1>3. S # {} /\ LastOf(S) \in S
  BY <1>1, <1>2, LastOfAt
<1> QED
  BY <1>1, <1>2, <1>3

LEMMA BodiedStays ==
  ASSUME TypeOK, NEW m, NEW F, Reads(m, F), Grows, NEW l \in Lines, Bodied(l)
  PROVE  Bodied(l)'
<1>1. /\ \A j \in Lines : /\ source'[j] = source[j]
                          /\ Opens(j)' <=> Opens(j)
      /\ Owner(l)' = Owner(l) /\ IfOf(l)' = IfOf(l) /\ l \in Nat /\ l > 0
      /\ \A j \in 1..(l - 1) : j \in Lines
  BY OldLines, OldOwners DEF Reads, Lines
<1>2. PICK o, i : o = Owner(l) /\ i = IfOf(l)
  OBVIOUS
<1>3. o # 0 => o \in Lines
  BY <1>1, <1>2, OwnerIn
<1>4. ASSUME IsOp(l)' PROVE OpOK(l)'
  <2>1. OpOK(l)
    BY <1>1, <1>4 DEF IsOp, Bodied
  <2>2. o # 0 /\ Opens(o) /\ source[l].at = source[o].at + INDENT_STEP
        /\ l \in DOMAIN tree.ops /\ tree.ops[l].block = o /\ Says(l)
    BY <1>2, <2>1 DEF OpOK, WellSet
  <2>3. Opens(o)' /\ source'[l].at = source'[o].at + INDENT_STEP
    BY <1>1, <1>3, <2>2
  <2>4. l \in DOMAIN tree'.ops /\ tree'.ops[l] = tree.ops[l]
    BY <2>2 DEF Grows, Extends
  <2>5. Says(l)'
    BY <1>1, <2>2, <2>4 DEF Says
  <2>6. WellSet(l)'
    BY <1>1, <1>2, <2>2, <2>3 DEF WellSet
  <2> QED
    BY <1>1, <1>2, <2>2, <2>4, <2>5, <2>6 DEF OpOK
<1>5. ASSUME source'[l].is \in {"elif", "else"} PROVE BranchOK(l)'
  <2>1. BranchOK(l)
    BY <1>1, <1>5 DEF Bodied
  <2>2. /\ i # 0 /\ i \in DOMAIN tree.ops /\ i \in DOMAIN tree.arms
        /\ IF source[l].is = "elif" THEN l \in ToSet(tree.arms[i])
           ELSE i \in DOMAIN tree.otherwise /\ tree.otherwise[i] = l
    BY <1>2, <2>1 DEF BranchOK
  <2>3. /\ i \in DOMAIN tree'.ops /\ i \in DOMAIN tree'.arms
        /\ IF source'[l].is = "elif" THEN l \in ToSet(tree'.arms[i])
           ELSE i \in DOMAIN tree'.otherwise /\ tree'.otherwise[i] = l
    BY <1>1, <2>2 DEF Grows, Extends
  <2> QED
    BY <1>1, <1>2, <2>2, <2>3 DEF BranchOK
<1> QED
  BY <1>4, <1>5 DEF Bodied

\* The block the line that is read stands in is the one its indentation puts it in.
LEMMA OwnerIs ==
  ASSUME NEW m, NEW F, Reads(m, F), NEW f, f.block \in Lines, Counts(f.block), Inner(f),
         here.at \in Nat, f.depth = here.at, f.depth = source[f.block].at + INDENT_STEP
  PROVE  Owner(m)' = f.block
<1> DEFINE S == {j \in Lines : Counts(j) /\ source[j].at < here.at}
<1>1. ReadOn /\ m = n /\ \A j \in Lines : j \in Nat /\ source[j] \in Line
  BY OldLines DEF Reads
<1>2. \A j \in Lines : source[j].at \in Nat
  BY <1>1, LineAssumption
<1>3. Owner(m)' = LastOf(S)
  BY <1>1, NewOwners
<1>4. f.block \in S
  BY <1>2 DEF INDENT_STEP
<1>5. \A j \in S : j <= f.block
  BY <1>1, <1>2 DEF Inner
<1>6. S \subseteq Int
  BY <1>1
<1> HIDE DEF S
<1> QED
  BY <1>3, <1>4, <1>5, <1>6, LastOfIs

\* The `if` whose frame a branch takes is the one it stands below.
LEMMA IfOfIs ==
  ASSUME TypeOK, TreeOK, NEW m, NEW F, Reads(m, F), NEW f, OfIf(f),
         here.at \in Nat, f.depth = here.at + INDENT_STEP
  PROVE  IfOf(m)' = f.chain /\ f.chain # 0
<1> DEFINE S == {k \in Lines : /\ Counts(k) /\ source[k].at <= here.at
                               /\ ~(source[k].is = "elif" /\ source[k].at = here.at)}
<1>1. /\ ReadOn /\ m = n
      /\ \A j \in Lines : j \in Nat /\ j > 0 /\ source'[j] = source[j] /\ source[j] \in Line
  BY OldLines DEF Reads
<1>2. PICK i : i = f.chain
  OBVIOUS
<1>3. i \in Lines /\ Counts(i) /\ source[i].is = "if" /\ source[i].at = here.at
  BY <1>2 DEF OfIf, TreeOK, INDENT_STEP
<1>4. i \in S
  BY <1>3
<1>5. \A k \in Lines : source[k].at \in Nat
  BY <1>1, LineAssumption
<1>6. \A k \in S : k <= i
  <2> SUFFICES ASSUME NEW k \in S, k > i PROVE FALSE
    BY <1>1, <1>3
  <2>1. source[k].at >= f.depth \/ (source[k].is = "elif" /\ source[k].at = f.depth - INDENT_STEP)
    BY <1>2 DEF OfIf
  <2> QED
    BY <1>5, <2>1 DEF INDENT_STEP
<1>7. S \subseteq Int
  BY <1>1
<1>8. IfOf(m)' = IF LastOf(S) # 0 /\ source'[LastOf(S)].is = "if" /\ source'[LastOf(S)].at = here.at
                 THEN LastOf(S) ELSE 0
  BY <1>1, NewOwners
<1> HIDE DEF S
<1>9. LastOf(S) = i
  BY <1>4, <1>6, <1>7, LastOfIs
<1> QED
  BY <1>1, <1>2, <1>3, <1>8, <1>9

-----------------------------------------------------------------------------
(* Sources without errors                                                   *)

LEMMA BodiesStay ==
  ASSUME TypeOK, LastHeader, NEW m, NEW F, Reads(m, F), Grows,
         \A l \in InBody : Bodied(l), m \in InBody' => Bodied(m)'
  PROVE  \A l \in InBody' : Bodied(l)'
<1> SUFFICES ASSUME NEW l \in InBody' PROVE Bodied(l)'
  OBVIOUS
<1>1. l \in Lines \cup {m}
  BY OldLines DEF InBody, Reads
<1>2. CASE l \in Lines
  <2>1. l \in InBody
    BY <1>2, BodyLine DEF Reads
  <2> QED
    BY <1>2, <2>1, BodiedStays
<1> QED
  BY <1>1, <1>2

LEMMA TopIsNew ==
  ASSUME TypeOK, NEW m, NEW F, Reads(m, F), Counts(m)',
         stack'[Len(stack')].depth = here.at + (IF Opens(m)' THEN INDENT_STEP ELSE 0)
  PROVE  TopIs'
<1>1. Lines' = Lines \cup {m} /\ source'[m] = here /\ m \in Nat /\ \A j \in Lines : j \in Nat /\ j < m
  BY OldLines DEF Reads
<1>2. \A p \in Lines' : (\A q \in Lines' : Counts(q)' => q <= p) => p = m
  BY <1>1
<1> QED
  BY <1>1, <1>2 DEF TopIs

\* A frame that is left on the stack, in its place or in another.
LEMMA FrameKept ==
  ASSUME TypeOK, TreeOK, NEW m, NEW F, Reads(m, F), Grows, NEW i \in 1..Len(stack), NEW e,
         FrameOK(i, e), NEW g, stack'[i] = stack[i],
         i >= g => i >= e /\ (Counts(m)' => here.at >= stack[i].depth),
         stack[i].kind \in {"if", "elif"} => /\ stack[i].chain \notin DOMAIN tree'.otherwise
                                             /\ Counts(m)' => here.at >= stack[i].depth
  PROVE  FrameOK(i, g)'
<1>1. PICK f : f = stack[i]
  OBVIOUS
<1>2. f.block \in Lines /\ FrameIs(f) /\ (i >= e => Inner(f))
  BY <1>1 DEF TypeOK, FrameOK
<1>3. FrameIs(f)'
  BY <1>1, <1>2, FrameStays
<1>4. i >= g => Inner(f)'
  BY <1>1, <1>2, InnerStays
<1> QED
  BY <1>1, <1>3, <1>4 DEF FrameOK

\* The frame of the line that is read.
LEMMA FrameNew ==
  ASSUME TypeOK, NEW m, NEW F, Reads(m, F), NEW i, NEW f, stack'[i] = f, f.block = m,
         Counts(m)', Opens(m)', f.depth = here.at + INDENT_STEP, f.kind # "unknown-block",
         Linked(m)', f.kind \in {"if", "elif"} => OfIf(f)', NEW e
  PROVE  FrameOK(i, e)'
<1>1. source'[m] = here
  BY OldLines DEF Reads
<1>2. Inner(f)'
  BY InnerNew
<1>3. FrameIs(f)'
  BY <1>1 DEF FrameIs
<1> QED
  BY <1>2, <1>3 DEF FrameOK

LEMMA FaithfulSkips ==
  ASSUME TypeOK, TreeOK, LastHeader, Faithful, TypeOK', TreeOK', NEW m, Skips(m, {})
  PROVE  Faithful'
<1>1. /\ Reads(m, {}) /\ current' = current /\ stack' = stack /\ seen' = seen /\ TreeStays
      /\ ~seen \/ (here.at = 0 /\ ~Counts(m)')
  BY DEF Skips
<1>2. /\ Grows /\ targets' = targets /\ tree'.ops = tree.ops /\ tree'.elseOf = tree.elseOf
      /\ tree'.otherwise = tree.otherwise
  BY <1>1, SameGrows DEF TreeStays, TreeIs
<1>3. m \notin InBody'
  BY <1>1, BodyLine DEF Reads
<1>4. Maps'
  BY <1>1, <1>2, MapsStay DEF Faithful
<1>5. \A l \in InBody' : Bodied(l)'
  BY <1>1, <1>2, <1>3, BodiesStay DEF Faithful
<1>6. ASSUME current' # 0
      PROVE  (\E e \in 0..2 : Shape(stack', e) /\ \A i \in 1..Len(stack') : FrameOK(i, e)') /\ TopIs'
  <2>1. ~Counts(m)'
    BY <1>1, <1>6 DEF LastHeader
  <2>2. PICK e \in 0..2 : Shape(stack, e) /\ \A i \in 1..Len(stack) : FrameOK(i, e)
    BY <1>1, <1>6 DEF Faithful
  <2>3. ASSUME NEW i \in 1..Len(stack') PROVE FrameOK(i, e)'
    <3>1. i \in 1..Len(stack) /\ stack'[i] = stack[i] /\ FrameOK(i, e)
      BY <1>1, <2>2
    <3>2. stack[i].kind \in {"if", "elif"} => stack[i].chain \notin DOMAIN tree'.otherwise
      BY <1>2, <3>1 DEF FrameOK, FrameIs, OfIf
    <3> QED
      BY <1>1, <1>2, <2>1, <3>1, <3>2, FrameKept
  <2>4. TopIs'
    <3>1. /\ Lines' = Lines \cup {m}
          /\ \A j \in Lines : /\ source'[j] = source[j]
                              /\ Counts(j)' <=> Counts(j)
                              /\ Opens(j)' <=> Opens(j)
      BY <1>1, OldLines DEF Reads
    <3>2. TopIs
      BY <1>1, <1>6 DEF Faithful
    <3> QED
      BY <1>1, <2>1, <3>1, <3>2 DEF TopIs
  <2> QED
    BY <1>1, <2>2, <2>3, <2>4
<1> QED
  BY <1>4, <1>5, <1>6 DEF Faithful

\* The else of a target leaves no block but the target's own on the stack.
LEMMA ElseIsLow ==
  ASSUME TypeOK, LastHeader, Faithful, ElseBelowOneBlock', NEW m, Elses(m), Shape(stack, 0)
  PROVE  Len(stack) \in {1, 2}
<1> DEFINE P == {p \in Lines : Counts(p)}
<1>1. Reads(m, {}) /\ current # 0 /\ seen
  BY DEF Elses, LastHeader
<1>2. /\ ReadOn /\ m = n /\ Len(source) \in Nat /\ source'[m] = here /\ m \in Lines'
      /\ \A j \in Lines : /\ j \in Nat /\ j > 0 /\ source'[j] = source[j]
                          /\ Counts(j)' <=> Counts(j)
                          /\ Opens(j)' <=> Opens(j)
      /\ 1..(m - 1) = Lines
  BY <1>1, OldLines DEF Reads, Lines, n
<1>3. current \in Lines /\ IsTarget(current)
  BY <1>1, HeadOfLine
<1>4. current \in P /\ P \subseteq 1..Len(source)
  BY <1>3 DEF Counts, Lines
<1>5. PICK p : p = LastOf(P)
  OBVIOUS
<1>6. p \in P /\ \A q \in P : q <= p
  <2> HIDE DEF P
  <2> QED
    BY <1>2, <1>4, <1>5, LastOfAt
<1>7. p \in Lines /\ Counts(p) /\ p # 0 /\ \A q \in Lines : Counts(q) => q <= p
  BY <1>2, <1>6
<1>8. stack[Len(stack)].depth = source[p].at + (IF Opens(p) THEN INDENT_STEP ELSE 0)
  BY <1>1, <1>7 DEF Faithful, TopIs
<1>9. MarginElse(m)'
  BY <1>2 DEF MarginElse, Elses
<1>10. p = LastOf({i \in 1..(m - 1) : Counts(i)'})
  <2>1. {i \in 1..(m - 1) : Counts(i)'} = P
    BY <1>2
  <2> QED
    BY <1>5, <2>1
<1>11. source'[p].at + (IF Opens(p)' THEN INDENT_STEP ELSE 0) <= 2 * INDENT_STEP
  <2>1. \A q : q = LastOf({i \in 1..(m - 1) : Counts(i)'}) /\ q # 0 =>
          source'[q].at + (IF Opens(q)' THEN INDENT_STEP ELSE 0) <= 2 * INDENT_STEP
    BY <1>2, <1>9 DEF ElseBelowOneBlock
  <2> QED
    BY <1>7, <1>10, <2>1
<1>12. source[p].at + (IF Opens(p) THEN INDENT_STEP ELSE 0) <= 2 * INDENT_STEP
  BY <1>2, <1>7, <1>11
<1>13. Len(stack) \in Nat /\ Len(stack) > 0 /\ stack[Len(stack)].depth = Depth(Len(stack), 0)
  BY DEF Shape
<1>14. Depth(Len(stack), 0) <= 2 * INDENT_STEP
  BY <1>8, <1>12, <1>13
<1>15. PICK k \in Nat : k = Len(stack)
  BY <1>13
<1>16. k > 0 /\ INDENT_STEP * k <= 2 * INDENT_STEP
  BY <1>13, <1>14, <1>15 DEF Depth
<1>17. k = 1 \/ k = 2
  BY <1>16 DEF INDENT_STEP
<1> QED
  BY <1>15, <1>17

LEMMA FaithfulElses ==
  ASSUME TypeOK, TreeOK, LastHeader, Stacked, Faithful, TypeOK', TreeOK', Regular', NEW m, Elses(m)
  PROVE  Faithful'
<1>1. /\ Reads(m, {}) /\ current' = current /\ current # 0 /\ targets' = targets
      /\ here.at = 0 /\ here.is = "else" /\ source'[m] = here
  BY OldLines DEF Elses, Reads
<1>2. PICK e \in 0..2 : Shape(stack, e) /\ \A i \in 1..Len(stack) : FrameOK(i, e)
  BY <1>1 DEF Faithful
<1>3. e = 0
  BY <1>2, ElseIsFirst DEF Stacked, Regular
<1>4. Shape(stack, 0) /\ Len(stack) \in {1, 2}
  BY <1>2, <1>3, ElseIsLow DEF Regular
<1>5. /\ current \notin DOMAIN tree.elseOf
      /\ MarginElse(m)' /\ TargetOf(m)' = current
  BY ElseIsNew DEF Faithful, Regular
<1>6. /\ tree'.ops = tree.ops /\ tree'.arms = tree.arms /\ tree'.otherwise = tree.otherwise
      /\ tree'.elseOf = With(tree.elseOf, current, m)
  BY DEF Elses, TreeIs
<1>7. Grows
  <2>1. Extends(tree'.elseOf, tree.elseOf)
    BY <1>5, <1>6, WithExtends
  <2> QED
    BY <1>1, <1>6, <2>1 DEF Grows, Extends
<1>8. tree'.elseOf[current] = m /\ DOMAIN tree'.elseOf = DOMAIN tree.elseOf \cup {current}
  <2>1. /\ With(tree.elseOf, current, m)[current] = m
        /\ DOMAIN With(tree.elseOf, current, m) = DOMAIN tree.elseOf \cup {current}
    BY DEF With
  <2> QED
    BY <1>6, <2>1
<1>9. Maps'
  BY <1>1, <1>5, <1>6, <1>7, <1>8, MapsStay DEF Faithful
<1>10. Counts(m)' /\ Opens(m)' /\ m \notin InBody'
  BY <1>1, BodyLine DEF Counts, Opens, Reads
<1>11. \A l \in InBody' : Bodied(l)'
  BY <1>1, <1>7, <1>10, BodiesStay DEF Faithful
<1> DEFINE f == [kind |-> "target-else", depth |-> INDENT_STEP, block |-> m, chain |-> 0]
<1>12. /\ stack' = Append(Front(stack), f) /\ f.kind = "target-else" /\ f.depth = INDENT_STEP
       /\ f.block = m
  BY DEF Elses
<1> HIDE DEF f
<1>13. Shape(stack', Len(stack))
  BY <1>4, <1>12, ElseShape DEF TypeOK
<1>14. /\ Len(stack') = Len(stack) /\ stack'[Len(stack)] = f
       /\ Len(stack) = 2 => stack'[1] = stack[1]
  <2>0. Len(stack) \in Nat /\ Len(stack) > 0
    BY <1>4
  <2>1. PICK k \in 0..Len(stack) : k = Len(stack) - 1
    BY <2>0, OneLess
  <2>2. Front(stack) = SubSeq(stack, 1, k)
    BY <2>1 DEF Front
  <2>3. /\ Front(stack) \in Seq(Frames) /\ Len(Front(stack)) = k
        /\ \A i \in 1..k : Front(stack)[i] = stack[i]
    BY <2>2, FramesAt DEF TypeOK
  <2> QED
    BY <1>4, <1>12, <2>1, <2>3
<1>15. Linked(m)'
  <2>1. PICK x \in DOMAIN targets : targets[x] = current
    BY <1>1 DEF Faithful, Maps
  <2>2. x \in DOMAIN targets' /\ targets'[x] \in DOMAIN tree'.elseOf /\ tree'.elseOf[targets'[x]] = m
    BY <1>1, <1>8, <2>1
  <2> QED
    BY <2>2 DEF Linked
<1>0. PICK k \in {1, 2} : k = Len(stack)
  BY <1>4
<1>16. ASSUME NEW i \in 1..Len(stack') PROVE FrameOK(i, k)'
  <2>1. CASE i = k
    <3>1. f.depth = here.at + INDENT_STEP /\ f.kind # "unknown-block" /\ f.kind \notin {"if", "elif"}
      BY <1>1, <1>12 DEF INDENT_STEP
    <3> QED
      BY <1>0, <1>1, <1>10, <1>12, <1>14, <1>15, <2>1, <3>1, FrameNew
  <2>2. CASE i # k
    <3>1. i = 1 /\ k = 2 /\ stack'[1] = stack[1] /\ i \in 1..Len(stack)
      <4>1. i \in 1..k
        BY <1>0, <1>14
      <4>2. i = 1 /\ k = 2
        BY <2>2, <4>1
      <4> QED
        BY <1>0, <1>14, <4>1, <4>2
    <3>2. stack[i].kind \notin {"if", "elif"} /\ FrameOK(i, e) /\ stack'[i] = stack[i] /\ ~(i >= k)
      BY <1>2, <1>4, <3>1 DEF Shape
    <3> QED
      BY <1>1, <1>7, <3>1, <3>2, FrameKept
  <2> QED
    BY <2>1, <2>2
<1>17. TopIs'
  <2>1. stack'[Len(stack')].depth = here.at + (IF Opens(m)' THEN INDENT_STEP ELSE 0)
    BY <1>1, <1>10, <1>12, <1>14 DEF INDENT_STEP
  <2> QED
    BY <1>1, <1>10, <2>1, TopIsNew
<1>18. \E g \in 0..2 : Shape(stack', g) /\ \A i \in 1..Len(stack') : FrameOK(i, g)'
  BY <1>0, <1>13, <1>16
<1> QED
  BY <1>9, <1>11, <1>17, <1>18 DEF Faithful

LEMMA FaithfulDefaults ==
  ASSUME TypeOK, TreeOK, LastHeader, Faithful, TypeOK', TreeOK', NEW m, Defaults(m)
  PROVE  Faithful'
<1>1. Reads(m, {}) /\ here.at = 0 /\ current' = 0 /\ TreeStays
  BY DEF Defaults
<1>2. /\ Grows /\ targets' = targets /\ tree'.ops = tree.ops /\ tree'.elseOf = tree.elseOf
  BY <1>1, SameGrows DEF TreeStays, TreeIs
<1>3. m \notin InBody'
  BY <1>1, BodyLine DEF Reads
<1>4. Maps'
  BY <1>1, <1>2, MapsStay DEF Faithful
<1>5. \A l \in InBody' : Bodied(l)'
  BY <1>1, <1>2, <1>3, BodiesStay DEF Faithful
<1> QED
  BY <1>1, <1>4, <1>5 DEF Faithful

LEMMA FaithfulBegins ==
  ASSUME TypeOK, TreeOK, LastHeader, Faithful, TypeOK', TreeOK', Regular', NEW m, Begins(m, {})
  PROVE  Faithful'
<1>1. /\ Reads(m, {}) /\ here.at = 0 /\ here.is = "label" /\ IsTarget(m)' /\ current' = m
      /\ tree'.ops = tree.ops /\ tree'.arms = tree.arms /\ tree'.otherwise = tree.otherwise
      /\ tree'.elseOf = tree.elseOf /\ targets' = With(targets, here.name, m)
  BY DEF Begins, TreeIs
<1>2. here.name \notin DOMAIN targets
  BY NameIsNew DEF Faithful, Regular
<1>3. Grows
  BY <1>1, <1>2, WithExtends DEF Grows, Extends
<1>4. /\ DOMAIN targets' = DOMAIN targets \cup {here.name}
      /\ targets'[here.name] = m
  <2>1. /\ DOMAIN With(targets, here.name, m) = DOMAIN targets \cup {here.name}
        /\ With(targets, here.name, m)[here.name] = m
    BY DEF With
  <2> QED
    BY <1>1, <2>1
<1>5. m \notin InBody'
  BY <1>1, BodyLine DEF Reads
<1>6. Maps'
  BY <1>1, <1>3, <1>4, MapsStay DEF Faithful
<1>7. \A l \in InBody' : Bodied(l)'
  BY <1>1, <1>3, <1>5, BodiesStay DEF Faithful
<1> DEFINE f == [kind |-> "main", depth |-> INDENT_STEP, block |-> m, chain |-> 0]
<1>8. stack' = <<f>> /\ f.kind = "main" /\ f.depth = INDENT_STEP /\ f.block = m
  BY DEF Begins
<1> HIDE DEF f
<1>9. Len(stack') = 1 /\ \A i \in 1..Len(stack') : i = 1 /\ stack'[i] = f
  BY <1>8
<1>10. Shape(stack', 0)
  <2>1. Depth(1, 0) = INDENT_STEP
    BY DEF Depth, INDENT_STEP
  <2> QED
    BY <1>8, <1>9, <2>1 DEF Shape
<1>11. Linked(m)' /\ Counts(m)' /\ Opens(m)'
  BY <1>1, <1>4 DEF Linked, Counts, Opens
<1>12. ASSUME NEW i \in 1..Len(stack') PROVE FrameOK(i, 0)'
  <2>1. f.depth = here.at + INDENT_STEP /\ f.kind # "unknown-block" /\ f.kind \notin {"if", "elif"}
    BY <1>1, <1>8 DEF INDENT_STEP
  <2> QED
    BY <1>1, <1>8, <1>9, <1>11, <2>1, FrameNew
<1>13. TopIs'
  <2>1. stack'[Len(stack')].depth = here.at + (IF Opens(m)' THEN INDENT_STEP ELSE 0)
    BY <1>1, <1>8, <1>9, <1>11 DEF INDENT_STEP
  <2> QED
    BY <1>1, <1>11, <2>1, TopIsNew
<1>14. \E g \in 0..2 : Shape(stack', g) /\ \A i \in 1..Len(stack') : FrameOK(i, g)'
  BY <1>10, <1>12
<1> QED
  BY <1>6, <1>7, <1>13, <1>14 DEF Faithful

\* The block an indented line stands in, when nothing is wrong.
LEMMA PoppedFaithful ==
  ASSUME TypeOK, TreeOK, LastHeader, Faithful, Regular', NEW m, Inside(m, {}),
         Popped # <<>> => Last(Popped).depth = here.at
  PROVE  \E e \in 0..2, k \in 1..Len(stack) :
           /\ Shape(stack, e) /\ \A i \in 1..Len(stack) : FrameOK(i, e)
           /\ Popped # <<>> /\ Popped \in Seq(Frames) /\ Len(Popped) = k /\ e <= k
           /\ \A i \in 1..k : i \in 1..Len(stack) /\ Popped[i] = stack[i]
           /\ Last(Popped) = stack[k] /\ stack[k].depth = here.at /\ Shape(Popped, e)
           /\ \A i \in 1..k : i >= e \/ stack[i].kind \in {"if", "elif"} => here.at >= stack[i].depth
           /\ Owner(m)' = stack[k].block /\ Linked(stack[k].block)
           /\ stack[k].block \in Lines /\ Opens(stack[k].block)
           /\ here.at = source[stack[k].block].at + INDENT_STEP
<1>1. /\ Reads(m, {}) /\ ReadOn /\ current # 0 /\ here.at \in Nat /\ here.at >= INDENT_STEP
  BY InsideCounts DEF Regular
<1>2. PICK e \in 0..2 : Shape(stack, e) /\ \A i \in 1..Len(stack) : FrameOK(i, e)
  BY <1>1 DEF Faithful
<1>3. PICK k \in 1..Len(stack) :
           /\ Popped # <<>> /\ Popped \in Seq(Frames) /\ Len(Popped) = k /\ e <= k
           /\ \A i \in 1..k : i \in 1..Len(stack) /\ Popped[i] = stack[i]
           /\ Last(Popped) = stack[k] /\ stack[k].depth <= here.at /\ Shape(Popped, e)
  <2>1. e \in Nat
    OBVIOUS
  <2> QED
    BY <1>1, <1>2, <2>1, PoppedIs
<1>4. stack[k].depth = here.at
  BY <1>3
<1>5. PICK f : f = stack[k]
  OBVIOUS
<1>6. f.block \in Lines /\ FrameIs(f) /\ Inner(f)
  BY <1>2, <1>3, <1>5 DEF TypeOK, FrameOK
<1>7. /\ Counts(f.block) /\ Opens(f.block) /\ f.depth = source[f.block].at + INDENT_STEP
      /\ Linked(f.block)
  BY <1>6 DEF FrameIs
<1>8. Owner(m)' = f.block
  BY <1>1, <1>4, <1>5, <1>6, <1>7, OwnerIs
<1>9. ASSUME NEW i \in 1..k, i >= e \/ stack[i].kind \in {"if", "elif"} PROVE here.at >= stack[i].depth
  <2>1. i >= e
    <3>1. CASE stack[i].kind \in {"if", "elif"}
      <4>1. i # e /\ i # 1
        BY <1>2, <1>3, <3>1 DEF Shape
      <4> QED
        BY <4>1
    <3> QED
      BY <1>9, <3>1
  <2>2. stack[i].depth = Depth(i, e) /\ stack[k].depth = Depth(k, e)
    BY <1>2, <1>3 DEF Shape
  <2>3. Depth(i, e) <= Depth(k, e)
    BY <1>3, <2>1 DEF Depth, INDENT_STEP
  <2> QED
    BY <1>1, <1>4, <2>2, <2>3 DEF Depth, INDENT_STEP
<1> QED
  BY <1>2, <1>3, <1>4, <1>5, <1>6, <1>7, <1>8, <1>9

\* An op of the block it is written in.
LEMMA OpIsOK ==
  ASSUME NEW m, NEW F, Reads(m, F), NEW o \in Lines, Owner(m)' = o, Opens(o),
         here.at = source[o].at + INDENT_STEP,
         NEW x, m \in DOMAIN tree'.ops, tree'.ops[m] = x, x.block = o,
         here.is \in {"call", "statement"} =>
           /\ x.binds = (Binds(here) /\ x.op # "?")
           /\ here.is = "call" /\ here.fn # "file_read" /\ Given(here, "approved") => x.approved
  PROVE  OpOK(m)'
<1>1. source'[m] = here /\ source'[o] = source[o] /\ o # 0 /\ (Opens(o)' <=> Opens(o))
  BY OldLines DEF Reads
<1>2. WellSet(m)'
  BY <1>1 DEF WellSet
<1>3. Says(m)'
  BY <1>1 DEF Says
<1> QED
  BY <1>2, <1>3 DEF OpOK

LEMMA FaithfulPops ==
  ASSUME TypeOK, TreeOK, LastHeader, Faithful, TypeOK', TreeOK', Regular', NEW m, Pops(m, {})
  PROVE  Faithful'
<1>1. /\ Inside(m, {}) /\ Reads(m, {}) /\ Counts(m)' /\ current' = current /\ current # 0
      /\ source'[m] = here /\ here.at \in Nat /\ stack' = Popped /\ targets' = targets
      /\ Popped # <<>> => Last(Popped).depth = here.at
  BY InsideCounts DEF Pops, Inside
<1>2. PICK e \in 0..2, k \in 1..Len(stack) :
           /\ Shape(stack, e) /\ \A i \in 1..Len(stack) : FrameOK(i, e)
           /\ Popped # <<>> /\ Popped \in Seq(Frames) /\ Len(Popped) = k /\ e <= k
           /\ \A i \in 1..k : i \in 1..Len(stack) /\ Popped[i] = stack[i]
           /\ Last(Popped) = stack[k] /\ stack[k].depth = here.at /\ Shape(Popped, e)
           /\ \A i \in 1..k : i >= e \/ stack[i].kind \in {"if", "elif"} => here.at >= stack[i].depth
           /\ Owner(m)' = stack[k].block /\ Linked(stack[k].block)
           /\ stack[k].block \in Lines /\ Opens(stack[k].block)
           /\ here.at = source[stack[k].block].at + INDENT_STEP
  BY <1>1, PoppedFaithful
<1>3. here.is \notin Openers
  BY <1>2 DEF Pops
<1>4. ~Opens(m)' /\ here.is \notin {"if", "foreach", "elif", "else"}
  BY <1>1, <1>3 DEF Opens, IsTarget, Openers
<1>5. m \notin DOMAIN tree.ops
  BY <1>1, OldLines DEF TreeOK, Reads
<1>6. /\ tree'.arms = tree.arms /\ tree'.otherwise = tree.otherwise /\ tree'.elseOf = tree.elseOf
      /\ \/ tree'.ops = tree.ops /\ here.is \in {"needs", "odd"}
         \/ \E x : tree'.ops = With(tree.ops, m, x) /\ OpIs(m, here, x)
  BY <1>2 DEF Pops, TreeStays, TreeIs
<1>7. ASSUME NEW x, tree'.ops = With(tree.ops, m, x)
      PROVE  /\ Extends(tree'.ops, tree.ops)
             /\ DOMAIN tree'.ops = DOMAIN tree.ops \cup {m} /\ tree'.ops[m] = x
  BY <1>5, <1>7 DEF Extends, With
<1>8. Grows
  BY <1>1, <1>6, <1>7 DEF Grows, Extends
<1>9. \A l \in DOMAIN tree'.ops \ DOMAIN tree.ops :
        l = m /\ tree'.ops[m].block = stack[k].block
  BY <1>2, <1>6, <1>7 DEF OpIs
<1>10. Maps'
  BY <1>1, <1>2, <1>6, <1>8, <1>9, MapsStay DEF Faithful
<1>11. IsOp(m)' => OpOK(m)'
  <2>1. CASE here.is \in {"needs", "odd"}
    BY <1>1, <2>1 DEF IsOp
  <2>2. ASSUME NEW x, tree'.ops = With(tree.ops, m, x), OpIs(m, here, x) PROVE OpOK(m)'
    <3>1. m \in DOMAIN tree'.ops /\ tree'.ops[m] = x /\ x.block = stack[k].block
      BY <1>2, <1>7, <2>2 DEF OpIs
    <3>2. PICK o \in Lines : o = stack[k].block
      BY <1>2
    <3>3. here.is \in {"call", "statement"} =>
           /\ x.binds = (Binds(here) /\ x.op # "?")
           /\ here.is = "call" /\ here.fn # "file_read" /\ Given(here, "approved") => x.approved
      BY <2>2 DEF OpIs
    <3> QED
      BY <1>1, <1>2, <3>1, <3>2, <3>3, OpIsOK
  <2> QED
    BY <1>6, <2>1, <2>2
<1>12. Bodied(m)'
  BY <1>1, <1>4, <1>11 DEF Bodied
<1>13. \A l \in InBody' : Bodied(l)'
  BY <1>1, <1>8, <1>12, BodiesStay DEF Faithful
<1>14. ASSUME NEW i \in 1..Len(stack') PROVE FrameOK(i, e)'
  <2>1. i \in 1..Len(stack) /\ stack'[i] = stack[i] /\ FrameOK(i, e) /\ i \in 1..k
    BY <1>1, <1>2
  <2>2. stack[i].kind \in {"if", "elif"} => stack[i].chain \notin DOMAIN tree'.otherwise
    BY <1>6, <2>1 DEF FrameOK, FrameIs, OfIf
  <2>3. i >= e \/ stack[i].kind \in {"if", "elif"} => here.at >= stack[i].depth
    BY <1>2, <2>1
  <2> QED
    BY <1>1, <1>8, <2>1, <2>2, <2>3, FrameKept
<1>15. TopIs'
  <2>1. stack'[Len(stack')].depth = here.at + (IF Opens(m)' THEN INDENT_STEP ELSE 0)
    <3>1. stack'[Len(stack')].depth = here.at
      BY <1>1, <1>2
    <3> QED
      BY <1>1, <1>4, <3>1
  <2> QED
    BY <1>1, <2>1, TopIsNew
<1>16. \E g \in 0..2 : Shape(stack', g) /\ \A i \in 1..Len(stack') : FrameOK(i, g)'
  BY <1>1, <1>2, <1>14
<1> QED
  BY <1>10, <1>13, <1>15, <1>16 DEF Faithful

\* The first k frames stay, and the line that is read is not outside them.
StaysBelow(k, e) ==
  \A i \in 1..k : /\ i \in 1..Len(stack) /\ stack'[i] = stack[i] /\ FrameOK(i, e)
                  /\ i >= e \/ stack[i].kind \in {"if", "elif"} => here.at >= stack[i].depth
                  /\ stack[i].kind \in {"if", "elif"} =>
                       stack[i].chain \notin DOMAIN tree'.otherwise

\* The frames of an indented line's blocks, below the frame of its own.
LEMMA FramesBelow ==
  ASSUME TypeOK, TreeOK, NEW m, NEW F, Reads(m, F), Counts(m)', Grows,
         NEW k \in Nat, k > 0, NEW e, StaysBelow(k, e),
         NEW f, Len(stack') = k + 1, stack'[k + 1] = f,
         f.block = m, Opens(m)', f.depth = here.at + INDENT_STEP, f.kind # "unknown-block",
         Linked(m)', f.kind \in {"if", "elif"} => OfIf(f)'
  PROVE  (\A i \in 1..Len(stack') : FrameOK(i, e)') /\ TopIs'
<1>1. ASSUME NEW i \in 1..Len(stack') PROVE FrameOK(i, e)'
  <2>1. i \in 1..k \/ i = k + 1
    OBVIOUS
  <2>2. CASE i \in 1..k
    BY <2>2, FrameKept DEF StaysBelow
  <2>3. CASE i = k + 1
    <3>1. stack'[i] = f
      BY <2>3
    <3> QED
      BY <3>1, FrameNew
  <2> QED
    BY <2>1, <2>2, <2>3
<1>2. TopIs'
  BY TopIsNew
<1> QED
  BY <1>1, <1>2

LEMMA FaithfulPushes ==
  ASSUME TypeOK, TreeOK, LastHeader, Faithful, TypeOK', TreeOK', Regular', NEW m, Pushes(m, {})
  PROVE  Faithful'
<1>1. /\ Inside(m, {}) /\ Reads(m, {}) /\ Counts(m)' /\ current' = current /\ current # 0
      /\ source'[m] = here /\ here.at \in Nat /\ here.at > 0 /\ targets' = targets
      /\ Last(Popped).depth = here.at
  BY InsideCounts DEF Pushes, Inside
<1>2. PICK e \in 0..2, k \in 1..Len(stack) :
           /\ Shape(stack, e) /\ \A i \in 1..Len(stack) : FrameOK(i, e)
           /\ Popped # <<>> /\ Popped \in Seq(Frames) /\ Len(Popped) = k /\ e <= k
           /\ \A i \in 1..k : i \in 1..Len(stack) /\ Popped[i] = stack[i]
           /\ Last(Popped) = stack[k] /\ stack[k].depth = here.at /\ Shape(Popped, e)
           /\ \A i \in 1..k : i >= e \/ stack[i].kind \in {"if", "elif"} => here.at >= stack[i].depth
           /\ Owner(m)' = stack[k].block /\ Linked(stack[k].block)
           /\ stack[k].block \in Lines /\ Opens(stack[k].block)
           /\ here.at = source[stack[k].block].at + INDENT_STEP
  BY <1>1, PoppedFaithful
<1>3. /\ m \notin DOMAIN tree.ops /\ m \notin DOMAIN tree.arms /\ m \notin DOMAIN tree.otherwise
      /\ m \in Nat /\ m \in Lines' /\ \A j \in Lines' : j \in Nat /\ j <= m
  BY <1>1, OldLines DEF TreeOK, Reads, n, Lines
<1>4. PICK f, x, arms :
        /\ stack' = Append(Popped, f) /\ f.block = m /\ f.depth = here.at + INDENT_STEP
        /\ TreeIs(With(tree.ops, m, x), arms, tree.otherwise, tree.elseOf)
        /\ x.block = Last(Popped).block
        /\ \/ /\ f.kind = "if" /\ f.chain = m /\ here.is = "if" /\ here.cond = "ok"
              /\ arms = With(tree.arms, m, <<m>>)
           \/ /\ f.kind = "foreach" /\ here.is = "foreach" /\ here.iter # none /\ x.op = "foreach"
              /\ arms = tree.arms
  BY DEF Pushes
<1>5. /\ tree'.ops = With(tree.ops, m, x) /\ tree'.arms = arms
      /\ tree'.otherwise = tree.otherwise /\ tree'.elseOf = tree.elseOf
  BY <1>4 DEF TreeIs
<1>6. /\ Extends(tree'.ops, tree.ops)
      /\ DOMAIN tree'.ops = DOMAIN tree.ops \cup {m} /\ tree'.ops[m] = x
  BY <1>3, <1>5 DEF Extends, With
<1>7. /\ \A l \in DOMAIN tree.arms : l \in DOMAIN tree'.arms /\ tree'.arms[l] = tree.arms[l]
      /\ f.kind = "if" => m \in DOMAIN tree'.arms /\ tree'.arms[m] = <<m>>
  BY <1>3, <1>4, <1>5 DEF With
<1>8. Grows
  BY <1>1, <1>5, <1>6, <1>7 DEF Grows, Extends
<1>9. Maps'
  BY <1>1, <1>2, <1>4, <1>5, <1>6, <1>8, MapsStay DEF Faithful
<1>10. Bodied(m)'
  <2>1. PICK o \in Lines : o = stack[k].block
    BY <1>2
  <2>2. here.is \notin {"call", "statement", "elif", "else"}
    BY <1>4
  <2>3. OpOK(m)'
    BY <1>1, <1>2, <1>4, <1>6, <2>1, <2>2, OpIsOK
  <2> QED
    BY <1>1, <2>2, <2>3 DEF Bodied
<1>11. \A l \in InBody' : Bodied(l)'
  BY <1>1, <1>8, <1>10, BodiesStay DEF Faithful
<1>12. Opens(m)'
  BY <1>1, <1>4 DEF Opens
<1>13. f.kind = "if" => m \in ToSet(tree'.arms[m])
  BY <1>7 DEF ToSet
<1>14. Linked(m)'
  BY <1>3, <1>4, <1>6, <1>7, <1>13 DEF Linked
<1>15. f.kind \in {"if", "elif"} => OfIf(f)'
  <2> SUFFICES ASSUME f.kind = "if" PROVE OfIf(f)'
    BY <1>4
  <2>1. f.chain = m /\ source'[m].is = "if" /\ source'[m].at = f.depth - INDENT_STEP
    BY <1>1, <1>4 DEF INDENT_STEP
  <2>2. m \in DOMAIN tree'.ops /\ m \in DOMAIN tree'.arms /\ m \notin DOMAIN tree'.otherwise
    BY <1>3, <1>5, <1>6, <1>7
  <2>3. \A j \in Lines' : ~(j > m)
    BY <1>3
  <2> QED
    BY <1>1, <1>3, <1>4, <2>1, <2>2, <2>3 DEF OfIf
<1>16. /\ Len(stack') = k + 1 /\ stack'[k + 1] = f
       /\ \A i \in 1..k : stack'[i] = stack[i]
  <2>1. PICK t : t = Popped
    OBVIOUS
  <2>2. t \in Seq(Frames) /\ Len(t) = k /\ \A i \in 1..k : t[i] = stack[i]
    BY <1>2, <2>1
  <2>3. stack' = Append(t, f)
    BY <1>4, <2>1
  <2>4. Len(stack') = k + 1 /\ stack'[k + 1] = f /\ \A i \in 1..k : stack'[i] = t[i]
    BY <2>2, <2>3
  <2> QED
    BY <2>2, <2>4
<1>17. StaysBelow(k, e)
  BY <1>2, <1>5, <1>16 DEF FrameOK, FrameIs, OfIf, StaysBelow
<1>18. (\A i \in 1..Len(stack') : FrameOK(i, e)') /\ TopIs'
  <2>1. k \in Nat /\ k > 0
    BY <1>2
  <2>2. f.kind # "unknown-block"
    BY <1>4
  <2> QED
    BY <1>1, <1>4, <1>8, <1>12, <1>14, <1>15, <1>16, <1>17, <2>1, <2>2, FramesBelow
<1>19. Shape(stack', e)
  <2>1. Popped[Len(Popped)].depth = here.at /\ f.kind \notin {"main", "target-else"}
    BY <1>1, <1>2, <1>4
  <2> QED
    BY <1>2, <1>4, <2>1, PushShape
<1> QED
  BY <1>9, <1>11, <1>18, <1>19 DEF Faithful

LEMMA FaithfulBranches ==
  ASSUME TypeOK, TreeOK, LastHeader, Faithful, TypeOK', TreeOK', NEW m, NEW c \in Nat,
         Branches(m, c, {})
  PROVE  Faithful'
<1>1. /\ Inside(m, {}) /\ Reads(m, {}) /\ Counts(m)' /\ current' = current /\ current # 0
      /\ source'[m] = here /\ here.at \in Nat /\ here.at > 0 /\ targets' = targets
      /\ here.is \in {"elif", "else"} /\ stack \in Seq(Frames)
  BY InsideCounts, ContIdxAt DEF Branches, Inside, TypeOK
<1>2. PICK e \in 0..2 : Shape(stack, e) /\ \A i \in 1..Len(stack) : FrameOK(i, e)
  BY <1>1 DEF Faithful
<1>3. /\ c \in 1..Len(stack) /\ stack[c].kind \in {"if", "elif"}
      /\ stack[c].depth = here.at + INDENT_STEP
  BY ContIdxAt DEF Branches, TypeOK
<1>4. c > 1 /\ c > e
  <2>1. c # 1 /\ c # e
    BY <1>2, <1>3 DEF Shape
  <2> QED
    BY <1>3, <2>1
<1>5. PICK h : h = stack[c]
  OBVIOUS
<1>6. OfIf(h) /\ h.depth = here.at + INDENT_STEP
  BY <1>2, <1>3, <1>5 DEF FrameOK, FrameIs
<1>7. PICK i : i = h.chain
  OBVIOUS
<1>8. /\ i \in DOMAIN tree.ops /\ i \in DOMAIN tree.arms /\ i \in Lines
      /\ i \notin DOMAIN tree.otherwise /\ source[i].at = here.at /\ tree.arms[i] \in Seq(Nat)
  BY <1>1, <1>6, <1>7 DEF OfIf, TreeOK, INDENT_STEP
<1>9. /\ m \in Nat /\ m \in Lines' /\ \A j \in Lines : j \in Nat /\ j < m
  BY <1>1, OldLines DEF Reads
<1>10. PICK f : /\ stack' = Append(SubSeq(stack, 1, c - 1), f)
                /\ f.block = m /\ f.depth = here.at + INDENT_STEP /\ f.chain = i
                /\ tree'.ops = tree.ops /\ tree'.elseOf = tree.elseOf
                /\ \/ /\ f.kind = "elif" /\ here.is = "elif" /\ here.cond = "ok"
                      /\ tree'.arms = [tree.arms EXCEPT ![i] = Append(@, m)]
                      /\ tree'.otherwise = tree.otherwise
                   \/ /\ f.kind = "conditional-else" /\ here.is = "else"
                      /\ tree'.arms = tree.arms
                      /\ tree'.otherwise = With(tree.otherwise, i, m)
  <2>1. PICK kind \in {"elif", "conditional-else"} :
          /\ stack' = Append(SubSeq(stack, 1, c - 1),
                             [kind |-> kind, depth |-> h.depth, block |-> m, chain |-> i])
          /\ \/ /\ kind = "elif" /\ here.is = "elif" /\ here.cond = "ok"
                /\ TreeIs(tree.ops, [tree.arms EXCEPT ![i] = Append(@, m)],
                          tree.otherwise, tree.elseOf)
             \/ /\ kind = "conditional-else" /\ here.is = "else"
                /\ TreeIs(tree.ops, tree.arms, With(tree.otherwise, i, m), tree.elseOf)
    BY <1>5, <1>7 DEF Branches
  <2>2. PICK f : f = [kind |-> kind, depth |-> h.depth, block |-> m, chain |-> i]
    OBVIOUS
  <2>3. f.kind = kind /\ f.block = m /\ f.depth = here.at + INDENT_STEP /\ f.chain = i
    BY <1>6, <2>2
  <2>4. PICK arms, other :
          /\ TreeIs(tree.ops, arms, other, tree.elseOf)
          /\ \/ /\ kind = "elif" /\ here.is = "elif" /\ here.cond = "ok"
                /\ arms = [tree.arms EXCEPT ![i] = Append(@, m)] /\ other = tree.otherwise
             \/ /\ kind = "conditional-else" /\ here.is = "else"
                /\ arms = tree.arms /\ other = With(tree.otherwise, i, m)
    BY <2>1, Zenon
  <2>5. /\ tree'.ops = tree.ops /\ tree'.elseOf = tree.elseOf
        /\ tree'.arms = arms /\ tree'.otherwise = other
    BY <2>4 DEF TreeIs
  <2>6. stack' = Append(SubSeq(stack, 1, c - 1), f)
    BY <2>1, <2>2
  <2> QED
    BY <2>3, <2>4, <2>5, <2>6, Zenon
<1>11. /\ here.is = "elif" => /\ \A l \in DOMAIN tree.arms : l \in DOMAIN tree'.arms
                              /\ tree'.arms[i] = Append(tree.arms[i], m)
                              /\ \A l \in DOMAIN tree.arms : l # i => tree'.arms[l] = tree.arms[l]
       /\ here.is = "else" => /\ Extends(tree'.otherwise, tree.otherwise)
                              /\ DOMAIN tree'.otherwise = DOMAIN tree.otherwise \cup {i}
                              /\ tree'.otherwise[i] = m
  BY <1>8, <1>10 DEF Extends, With
<1>12. here.is = "elif" => m \in ToSet(tree'.arms[i]) /\ ToSet(tree.arms[i]) \subseteq ToSet(tree'.arms[i])
  <2> SUFFICES ASSUME here.is = "elif"
               PROVE  m \in ToSet(tree'.arms[i]) /\ ToSet(tree.arms[i]) \subseteq ToSet(tree'.arms[i])
    OBVIOUS
  <2>1. PICK s \in Seq(Nat) : s = tree.arms[i]
    BY <1>8
  <2>2. /\ Len(Append(s, m)) = Len(s) + 1 /\ Append(s, m)[Len(s) + 1] = m /\ Len(s) \in Nat
        /\ \A j \in 1..Len(s) : Append(s, m)[j] = s[j] /\ j \in 1..(Len(s) + 1)
    BY <1>9
  <2>3. ToSet(s) = {s[j] : j \in 1..Len(s)}
    BY DEF ToSet
  <2>4. ToSet(Append(s, m)) = {Append(s, m)[j] : j \in 1..Len(Append(s, m))}
    BY <1>9 DEF ToSet
  <2>5. m \in ToSet(Append(s, m)) /\ ToSet(s) \subseteq ToSet(Append(s, m))
    BY <2>2, <2>3, <2>4
  <2> QED
    BY <1>11, <2>1, <2>5
<1>13. Grows
  <2>1. \A l \in DOMAIN tree.arms :
          l \in DOMAIN tree'.arms /\ ToSet(tree.arms[l]) \subseteq ToSet(tree'.arms[l])
    BY <1>10, <1>11, <1>12
  <2> QED
    BY <1>1, <1>10, <1>11, <2>1 DEF Grows, Extends
<1>14. Maps'
  BY <1>1, <1>10, <1>13, MapsStay DEF Faithful
<1>15. Bodied(m)'
  <2>1. IfOf(m)' = i /\ i # 0
    BY <1>1, <1>6, <1>7, IfOfIs
  <2>2. /\ i \in DOMAIN tree'.ops /\ i \in DOMAIN tree'.arms
        /\ IF source'[m].is = "elif" THEN m \in ToSet(tree'.arms[i])
           ELSE i \in DOMAIN tree'.otherwise /\ tree'.otherwise[i] = m
    BY <1>1, <1>8, <1>10, <1>11, <1>12
  <2>3. BranchOK(m)'
    BY <2>1, <2>2 DEF BranchOK
  <2>4. ~IsOp(m)'
    BY <1>1 DEF IsOp
  <2> QED
    BY <2>3, <2>4 DEF Bodied
<1>16. \A l \in InBody' : Bodied(l)'
  BY <1>1, <1>13, <1>15, BodiesStay DEF Faithful
<1>17. Opens(m)'
  BY <1>1, <1>10 DEF Opens
<1>18. Linked(m)'
  <2>1. i <= m
    BY <1>8, <1>9
  <2> QED
    BY <1>8, <1>10, <1>11, <1>12, <2>1 DEF Linked
<1>19. f.kind \in {"if", "elif"} => OfIf(f)'
  <2> SUFFICES ASSUME f.kind = "elif" PROVE OfIf(f)'
    BY <1>10
  <2>1. here.is = "elif" /\ tree'.otherwise = tree.otherwise
    BY <1>10
  <2>2. OfIf(h)'
    <3>1. h.chain \notin DOMAIN tree'.otherwise
      BY <1>7, <1>8, <2>1
    <3>2. here.at = h.depth - INDENT_STEP
      BY <1>1, <1>6 DEF INDENT_STEP
    <3> QED
      BY <1>1, <1>6, <1>13, <2>1, <3>1, <3>2, OfIfStays
  <2>3. f.chain = h.chain /\ f.depth = h.depth /\ f.chain <= f.block
    BY <1>6, <1>7, <1>8, <1>9, <1>10
  <2> QED
    BY <2>2, <2>3 DEF OfIf
<1>20. PICK t : t = SubSeq(stack, 1, c - 1)
  OBVIOUS
<1>21. t \in Seq(Frames) /\ Len(t) = c - 1 /\ \A j \in 1..(c - 1) : t[j] = stack[j]
  <2>1. PICK k \in 0..Len(stack) : k = c - 1
    BY <1>3
  <2> QED
    BY <1>1, <1>20, <2>1, FramesAt
<1>22. Shape(t, e) /\ stack[c].depth = t[Len(t)].depth + INDENT_STEP
  <2>1. e \in Nat /\ (e < c => e = e) /\ (~(e < c) => e = 0)
    BY <1>4
  <2>2. Shape(t, e)
    BY <1>1, <1>2, <1>3, <1>21, <2>1, CutShape
  <2>3. stack[c].depth = t[Len(t)].depth + INDENT_STEP
    BY <1>1, <1>2, <1>3, <1>21, <2>1, CutShape
  <2> QED
    BY <2>2, <2>3
<1>23. t[Len(t)].depth = here.at
  <2>1. t[Len(t)].depth \in Nat
    BY <1>21, <1>22, ReachedEnds
  <2> QED
    BY <1>1, <1>3, <1>22, <2>1 DEF INDENT_STEP
<1>24. Shape(stack', e)
  <2>1. f.kind \notin {"main", "target-else"} /\ f.depth = t[Len(t)].depth + INDENT_STEP /\ e \in Nat
    BY <1>10, <1>23
  <2> QED
    BY <1>10, <1>20, <1>21, <1>22, <2>1, PushShape
<1>25. PICK k \in Nat : k = c - 1 /\ k > 0
  BY <1>3, <1>4
<1>26. /\ Len(stack') = k + 1 /\ stack'[k + 1] = f
       /\ \A j \in 1..k : j \in 1..Len(stack) /\ stack'[j] = stack[j]
  BY <1>3, <1>10, <1>20, <1>21, <1>25
<1>27. ASSUME NEW j \in 1..k
       PROVE  /\ FrameOK(j, e)
              /\ j >= e \/ stack[j].kind \in {"if", "elif"} => here.at >= stack[j].depth
              /\ stack[j].kind \in {"if", "elif"} =>
                   stack[j].chain \notin DOMAIN tree'.otherwise
  <2>1. FrameOK(j, e) /\ j \in 1..Len(stack) /\ j < c /\ j \in Nat /\ c \in Nat
    BY <1>2, <1>25, <1>26
  <2>2. /\ stack[j].depth = Depth(j, e) /\ stack[c].depth = Depth(c, e)
        /\ stack[j].kind \in {"if", "elif"} => j > e
    <3>1. stack[j].kind \in {"if", "elif"} => j # e /\ j # 1
      BY <1>2, <2>1 DEF Shape
    <3>2. stack[j].depth = Depth(j, e) /\ stack[c].depth = Depth(c, e)
      BY <1>2, <1>3, <2>1 DEF Shape
    <3> QED
      BY <2>1, <3>1, <3>2
  <2>3. j >= e => Depth(j, e) + INDENT_STEP <= Depth(c, e)
    BY <1>2, <1>4, <2>1 DEF Depth, INDENT_STEP
  <2>4. j >= e => here.at >= stack[j].depth
    <3>1. PICK d \in Int : d = Depth(j, e)
      BY <2>1 DEF Depth, INDENT_STEP
    <3> QED
      BY <1>1, <1>3, <2>2, <2>3, <3>1 DEF INDENT_STEP
  <2>5. ASSUME stack[j].kind \in {"if", "elif"}
        PROVE  stack[j].chain \notin DOMAIN tree'.otherwise
    <3>1. OfIf(stack[j])
      BY <2>1, <2>5 DEF FrameOK, FrameIs
    <3>2. /\ stack[j].chain \notin DOMAIN tree.otherwise
          /\ source[stack[j].chain].at = stack[j].depth - INDENT_STEP
      BY <3>1 DEF OfIf
    <3>3. stack[j].depth - INDENT_STEP # here.at
      <4>1. here.at >= stack[j].depth
        BY <2>2, <2>4, <2>5
      <4>2. stack[j].depth \in Nat
        <5>1. stack[j] \in Frames
          BY <1>1, <2>1
        <5> QED
          BY <5>1 DEF Frames
      <4> QED
        BY <1>1, <4>1, <4>2 DEF INDENT_STEP
    <3>4. stack[j].chain # i
      BY <1>8, <3>2, <3>3
    <3> QED
      BY <1>10, <1>11, <3>2, <3>4
  <2> QED
    BY <2>1, <2>2, <2>4, <2>5
<1>28. (\A j \in 1..Len(stack') : FrameOK(j, e)') /\ TopIs'
  <2>1. f.kind # "unknown-block"
    BY <1>10
  <2>2. StaysBelow(k, e)
    BY <1>26, <1>27 DEF StaysBelow
  <2>3. f.block = m /\ f.depth = here.at + INDENT_STEP /\ Len(stack') = k + 1 /\ stack'[k + 1] = f
    BY <1>10, <1>26
  <2>4. Reads(m, {}) /\ Counts(m)'
    BY <1>1
  <2> QED
    BY <1>13, <1>17, <1>18, <1>19, <1>25, <2>1, <2>2, <2>3, <2>4, FramesBelow
<1> QED
  BY <1>14, <1>16, <1>24, <1>28 DEF Faithful

LEMMA StepFaithful ==
  ASSUME TypeOK, TreeOK, LastHeader, Stacked, Faithful, TypeOK', TreeOK', Regular',
         NEW m, Step(m, {})
  PROVE  Faithful'
BY FaithfulSkips, FaithfulElses, FaithfulDefaults, FaithfulBegins, FaithfulBranches,
   FaithfulPops, FaithfulPushes DEF Step

-----------------------------------------------------------------------------
(* Which blocks of the tree are live                                        *)

\* A block that a target, or an op of a block in X, leads to.
Reaches(X, b) ==
  \/ \E x \in DOMAIN targets : targets[x] = b
  \/ \E x \in DOMAIN targets : targets[x] \in DOMAIN tree.elseOf /\ tree.elseOf[targets[x]] = b
  \/ b \in DOMAIN tree.ops /\ tree.ops[b].op = "foreach" /\ tree.ops[b].block \in X
  \/ \E i \in DOMAIN tree.ops \cap DOMAIN tree.arms :
       /\ b \in ToSet(tree.arms[i]) \/ (i \in DOMAIN tree.otherwise /\ tree.otherwise[i] = b)
       /\ tree.ops[i].block \in X

LEMMA ReachesMore ==
  ASSUME NEW X, NEW Y, X \subseteq Y, NEW b, Reaches(X, b)
  PROVE  Reaches(Y, b)
BY DEF Reaches

\* The function that `Live` stands for exists, so that it is what its definition says.
LEMMA LiveUnfolds ==
  ASSUME TreeOK
  PROVE  \A b \in 0..Len(source) : Reaches({c \in 0..Len(source) : Live[c]}, b) => Live[b]
<1> DEFINE D == 0..Len(source)
           Closed(X) == \A c \in D : Reaches(X, c) => c \in X
           Alive == {b \in D : \A X \in SUBSET D : Closed(X) => b \in X}
           g == [b \in D |-> b \in Alive]
           Body(f, b) ==
             \/ \E x \in DOMAIN targets : targets[x] = b
             \/ \E x \in DOMAIN targets : targets[x] \in DOMAIN tree.elseOf /\ tree.elseOf[targets[x]] = b
             \/ b \in DOMAIN tree.ops /\ tree.ops[b].op = "foreach" /\ f[tree.ops[b].block]
             \/ \E i \in DOMAIN tree.ops \cap DOMAIN tree.arms :
                  /\ b \in ToSet(tree.arms[i]) \/ (i \in DOMAIN tree.otherwise /\ tree.otherwise[i] = b)
                  /\ f[tree.ops[i].block]
<1>1. \A l \in DOMAIN tree.ops : tree.ops[l].block \in D
  BY DEF TreeOK, Lines
<1>2. Closed(Alive)
  <2> SUFFICES ASSUME NEW b \in D, Reaches(Alive, b), NEW X \in SUBSET D, Closed(X)
               PROVE  b \in X
    OBVIOUS
  <2>1. Alive \subseteq X
    OBVIOUS
  <2> HIDE DEF D, Alive
  <2>2. Reaches(X, b)
    BY <2>1, ReachesMore
  <2> QED
    BY <2>2
<1>3. \A b \in Alive : Reaches(Alive, b)
  <2> DEFINE X == {c \in D : Reaches(Alive, c)}
  <2>1. X \subseteq Alive
    <3> HIDE DEF Alive
    <3> QED
      BY <1>2
  <2>2. Closed(X)
    <3> SUFFICES ASSUME NEW c \in D, Reaches(X, c) PROVE Reaches(Alive, c)
      OBVIOUS
    <3> HIDE DEF X, D, Alive
    <3> QED
      BY <2>1, ReachesMore
  <2>3. X \in SUBSET D
    OBVIOUS
  <2> QED
    BY <2>2, <2>3
<1>4. \A b \in D : b \in Alive <=> Reaches(Alive, b)
  <2> HIDE DEF Alive, D
  <2> QED
    BY <1>2, <1>3
<1> HIDE DEF Alive
<1>5. \A b \in D : Body(g, b) <=> Reaches(Alive, b)
  <2>1. \A l \in DOMAIN tree.ops : g[tree.ops[l].block] <=> tree.ops[l].block \in Alive
    BY <1>1
  <2> HIDE DEF g, D
  <2> QED
    BY <2>1 DEF Reaches
<1>6. g = [b \in D |-> Body(g, b)]
  <2>1. \A b \in D : (b \in Alive) = Body(g, b)
    <3>1. \A b \in D : b \in Alive <=> Body(g, b)
      <4> HIDE DEF g, D, Body
      <4> QED
        BY <1>4, <1>5
    <3> SUFFICES ASSUME NEW b \in D PROVE (b \in Alive) = Body(g, b)
      OBVIOUS
    <3>2. b \in Alive <=> Body(g, b)
      BY <3>1
    <3>3. Body(g, b) \in BOOLEAN
      <4> HIDE DEF g, D
      <4> QED
        OBVIOUS
    <3> HIDE DEF g, D, Body
    <3> QED
      BY <3>2, <3>3
  <2> HIDE DEF Body, D
  <2> QED
    BY <2>1
<1>7. Live = [b \in D |-> Body(Live, b)]
  <2> HIDE DEF g
  <2> QED
    BY <1>6 DEF Live
<1> HIDE DEF g
<1>8. \A b \in D : Body(Live, b) => Live[b]
  <2> HIDE DEF Body, D
  <2> QED
    BY <1>7
<1>9. ASSUME NEW b \in D, Reaches({c \in D : Live[c]}, b) PROVE Body(Live, b)
  <2>1. \A l \in DOMAIN tree.ops : tree.ops[l].block \in {c \in D : Live[c]} => Live[tree.ops[l].block]
    OBVIOUS
  <2> QED
    BY <1>9, <2>1 DEF Reaches
<1> HIDE DEF Body
<1> QED
  BY <1>8, <1>9

\* Blocks are opened by earlier lines, so every one that something leads to is live.
LEMMA AllLinkedLive ==
  ASSUME TypeOK, TreeOK, Maps
  PROVE  \A b \in Lines : Linked(b) => Live[b]
<1> DEFINE Bad == {b \in Lines : Linked(b) /\ ~Live[b]}
<1> SUFFICES ASSUME Bad # {} PROVE FALSE
  OBVIOUS
<1>1. Lines \subseteq 0..Len(source) /\ Lines \subseteq Nat
  BY DEF Lines
<1>2. PICK b \in Bad : \A c \in Bad : ~(c < b)
  <2>1. Bad \subseteq Nat
    BY <1>1
  <2>2. PICK x \in Bad : \A y \in Bad : ~(<<y, x>> \in OpToRel(<, Nat))
    <3> HIDE DEF Bad
    <3> QED
      BY <2>1, NatLessThanWellFounded, WFMin
  <2> HIDE DEF Bad
  <2> QED
    BY <2>1, <2>2 DEF OpToRel
<1>3. b \in Lines /\ Linked(b) /\ ~Live[b] /\ \A c \in Lines : c < b /\ Linked(c) => Live[c]
  BY <1>2
<1> HIDE DEF Bad
<1> DEFINE X == {c \in 0..Len(source) : Live[c]}
<1>4. ASSUME NEW i \in DOMAIN tree.ops, i <= b PROVE tree.ops[i].block \in X
  <2>1. PICK c \in Lines : c = tree.ops[i].block
    BY DEF TreeOK
  <2>2. c < i /\ Linked(c)
    BY <2>1 DEF Maps
  <2>3. c \in Nat /\ i \in Nat /\ b \in Nat
    BY <1>1, <1>3, <2>1 DEF TreeOK
  <2> QED
    BY <1>1, <1>3, <1>4, <2>1, <2>2, <2>3
<1> HIDE DEF X
<1>5. Reaches(X, b)
  <2>1. CASE b \in DOMAIN tree.ops /\ tree.ops[b].op = "foreach"
    <3>1. b <= b
      BY <1>1, <1>3
    <3> QED
      BY <2>1, <3>1, <1>4 DEF Reaches
  <2>2. CASE \E i \in DOMAIN tree.ops \cap DOMAIN tree.arms :
               /\ i <= b
               /\ b \in ToSet(tree.arms[i]) \/ (i \in DOMAIN tree.otherwise /\ tree.otherwise[i] = b)
    BY <2>2, <1>4 DEF Reaches
  <2> QED
    BY <1>3, <2>1, <2>2 DEF Linked, Reaches
<1>6. Live[b]
  BY <1>1, <1>3, <1>5, LiveUnfolds DEF X
<1> QED
  BY <1>3, <1>6

\* Every op is kept.
LEMMA OpsKept ==
  ASSUME TypeOK, TreeOK, Maps
  PROVE  \A l \in DOMAIN tree.ops : Kept(l)
<1> TAKE l \in DOMAIN tree.ops
<1>1. PICK b \in Lines : b = tree.ops[l].block
  BY DEF TreeOK
<1>2. Linked(b)
  BY <1>1 DEF Maps
<1> QED
  BY <1>1, <1>2, AllLinkedLive DEF Kept

-----------------------------------------------------------------------------
(* The theorems                                                             *)

LEMMA InitHolds ==
  ASSUME Init
  PROVE  IInv
<1>1. Lines = {} /\ Len(source) = 0
  BY DEF Init, Lines
<1>2. TypeOK
  <2>1. source \in Seq(Line) /\ stack \in Seq(Frames) /\ Len(stack) = 0 /\ DOMAIN targets = {}
    BY DEF Init
  <2>2. 0 \in 0..Len(source)
    BY <1>1
  <2>3. here \in Line \cup {none} /\ current \in 0..Len(source) /\ seen \in BOOLEAN /\ faults = {}
    BY <2>2 DEF Init
  <2>4. \A i \in 1..Len(stack) : stack[i].block \in Lines /\ stack[i].chain \in 0..Len(source)
    BY <2>1
  <2> QED
    BY <2>1, <2>3, <2>4 DEF TypeOK
<1>3. TreeOK
  BY <1>1 DEF Init, TreeOK, EmptyTree
<1>4. LastHeader
  BY <1>1 DEF Init, LastHeader
<1>5. Stacked
  BY <1>1 DEF Init, Stacked, ElseFrames
<1>6. Faithful
  <2>1. InBody = {}
    BY <1>1 DEF InBody
  <2>2. Maps
    BY <1>1 DEF Init, Maps, EmptyTree
  <2> QED
    BY <2>1, <2>2 DEF Faithful, Init
<1> QED
  BY <1>2, <1>3, <1>4, <1>5, <1>6 DEF IInv

LEMMA NextKeeps ==
  ASSUME IInv, Next
  PROVE  IInv'
<1> PICK m : m = n
  OBVIOUS
<1>1. TypeOK /\ TreeOK /\ LastHeader
  BY DEF IInv
<1>2. PICK F : Step(m, F)
  BY <1>1, StepIs
<1>3. TypeOK' /\ TreeOK' /\ LastHeader'
  BY <1>1, <1>2, StepTypes, StepTree, StepHeader
<1>4. Reads(m, F) /\ ReadOn
  BY <1>2 DEF Step, Skips, Elses, Defaults, Begins, Branches, Pops, Pushes, Inside, Reads
<1>5. Regular' => Regular /\ Stacked /\ Stacked'
  <2> SUFFICES ASSUME Regular' PROVE Regular /\ Stacked /\ Stacked'
    OBVIOUS
  <2>1. Regular /\ Stacked
    BY <1>4, RegularBefore DEF IInv
  <2> QED
    BY <1>1, <1>2, <1>3, <2>1, StepStacked
<1>6. Regular' /\ faults' = {} => Faithful'
  <2> SUFFICES ASSUME Regular', faults' = {} PROVE Faithful'
    OBVIOUS
  <2>1. faults = {} /\ F = {}
    BY <1>4 DEF Reads
  <2>2. Step(m, {})
    BY <1>2, <2>1
  <2>3. Faithful
    BY <1>5, <2>1 DEF IInv
  <2> QED
    BY <1>1, <1>3, <1>5, <2>2, <2>3, StepFaithful
<1> QED
  BY <1>3, <1>5, <1>6 DEF IInv

LEMMA StutterKeeps ==
  ASSUME IInv, UNCHANGED vars
  PROVE  IInv'
<1>1. TypeOK' /\ TreeOK'
  BY DEF IInv, vars, ast, goal, TypeOK, TreeOK, Lines
<1>2. LastHeader' <=> LastHeader
  BY DEF vars, ast, goal, LastHeader, Lines, Heads, IsTarget, IsDefault, Below
<1>3. Regular' <=> Regular
  BY DEF vars, ast, goal, Regular, OneHeaderPerName, OneElsePerTarget, ElseBelowOneBlock, Stepped,
     Lines, IsTarget, IsDefault, Below, MarginElse, TargetOf, Counts, Opens, InBody
<1>4. Stacked' <=> Stacked
  BY DEF vars, ast, goal, Stacked, Shape, Depth, Covered, OpenAt, Softly, Reached, ElseFrames,
     Rightly, Lines, IsTarget, IsDefault, Below, MarginElse, TargetOf, Counts, Owner
<1>5. Maps' <=> Maps
  BY DEF vars, ast, goal, Maps, Linked, Lines, IsTarget, IsDefault, Below, MarginElse, TargetOf
<1>6. (\A l \in InBody : Bodied(l))' <=> \A l \in InBody : Bodied(l)
  <2>1. /\ InBody' = InBody
        /\ \A l : Owner(l)' = Owner(l) /\ IfOf(l)' = IfOf(l)
    BY DEF vars, ast, goal, InBody, Owner, IfOf, Lines, IsTarget, IsDefault, Below, Counts
  <2>2. \A l : /\ WellSet(l)' <=> WellSet(l)
               /\ Says(l)' <=> Says(l)
    BY <2>1 DEF vars, ast, goal, WellSet, Says, Binds, Given, Opens, IsTarget, Below
  <2>3. source' = source /\ tree' = tree
    BY DEF vars, ast
  <2>4. \A l : Bodied(l)' <=> Bodied(l)
    BY <2>1, <2>2, <2>3 DEF Bodied, OpOK, BranchOK, IsOp
  <2> QED
    BY <2>1, <2>4
<1>7. /\ TopIs' <=> TopIs
      /\ (\E e \in 0..2 : Shape(stack, e) /\ \A i \in 1..Len(stack) : FrameOK(i, e))'
         <=> \E e \in 0..2 : Shape(stack, e) /\ \A i \in 1..Len(stack) : FrameOK(i, e)
  BY DEF vars, ast, goal, TopIs, Shape, Depth, FrameOK, FrameIs, Inner, OfIf, Linked, Lines,
     IsTarget, IsDefault, Below, Counts, Opens
<1>8. Faithful' <=> Faithful
  BY <1>5, <1>6, <1>7 DEF vars, ast, goal, Faithful
<1> QED
  BY <1>1, <1>2, <1>3, <1>4, <1>8 DEF IInv, vars

\* At every line of every source: the frames stand for the lines that opened
\* them, and the ops and branches read so far are where the indentation puts them.
THEOREM ParserInvariance == Spec => []IInv
<1>1. Init => IInv
  BY InitHolds
<1>2. IInv /\ [Next]_vars => IInv'
  BY NextKeeps, StutterKeeps
<1> QED
  BY <1>1, <1>2, PTL DEF Spec

\* An op of a target body is kept in the block its indentation puts it in, with
\* its binding and its approval, or the parse has an error.
THEOREM KeptWhereWrittenAlways == Spec => []KeptWhereWritten
<1>1. IInv => KeptWhereWritten
  BY OpsKept DEF IInv, Faithful, Bodied, OpOK, KeptWhereWritten, Clean
<1> QED
  BY <1>1, ParserInvariance, PTL

\* An `elif` and an `else` are branches of the `if` they stand below, which is kept.
THEOREM BranchWhereWrittenAlways == Spec => []BranchWhereWritten
<1>1. IInv => BranchWhereWritten
  BY OpsKept DEF IInv, Faithful, Bodied, BranchOK, BranchWhereWritten, Clean
<1> QED
  BY <1>1, ParserInvariance, PTL

\* A line one step below a block is not reported for its indentation, whatever
\* was wrong with the line that opens the block.
THEOREM NoCascadeAlways == Spec => []NoCascade
<1>1. IInv => NoCascade
  BY DEF IInv, Stacked, Rightly, Softly, Openers, Soft, Askew, NoCascade
<1> QED
  BY <1>1, ParserInvariance, PTL
=============================================================================
