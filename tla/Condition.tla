------------------------------ MODULE Condition ------------------------------
(***************************************************************************)
(* The conditions of `if` and `elif`.  The parser accepts a condition      *)
(* (parser.ts, validateCondition) and the runtime reads the same text      *)
(* again when the branch is reached (runtime.ts, evalCondition): two       *)
(* descents over one string, with no tree between them.                    *)
(*                                                                         *)
(* A condition is a sequence of tokens: "(", ")", "or", "and", "not" and   *)
(* the names of simple conditions, Simple[name] being what the name stands *)
(* for.  A variable's value is known by its class; Absent is a variable    *)
(* nothing has bound.                                                      *)
(***************************************************************************)
EXTENDS Naturals, Sequences

CONSTANTS Simple,         \* [name -> [ref, chain, shape, rhs]]
          MaxDepth        \* MAX_CONDITION_DEPTH (64 in the code)

ASSUME DepthPositive == MaxDepth \in Nat \ {0}
ASSUME ShapeAssumption == \A name \in DOMAIN Simple : Simple[name].shape \in {"truthy", "eq", "ne", "lt", "in"}

Absent == "absent"
Classes == {"null", "empty", "text", "zero", "num", "list", "nolist", "obj"}
Connectives == {"(", ")", "or", "and", "not"}

(* No simple condition reads as one of these words.                        *)
ASSUME TokenAssumption == DOMAIN Simple \cap Connectives = {}

(* The value a reference has: a name nothing bound is undefined. *)
ValueOf(name, vars) == IF name \in DOMAIN vars THEN vars[name] ELSE Absent

(* What `|fallback:` takes for nothing. *)
Missing(v) == v \in {Absent, "null", "empty", "nolist"}

(* Depth of the parentheses open before token i; one that closes nothing   *)
(* leaves the depth at zero.                                               *)
DepthAt(c) ==
  LET d[i \in 0..Len(c)] == IF i = 0 THEN 0
                            ELSE IF c[i] = "(" THEN d[i-1] + 1
                            ELSE IF c[i] = ")" /\ d[i-1] > 0 THEN d[i-1] - 1
                            ELSE d[i-1]
  IN d
Rightmost(hits) == IF hits = {} THEN 0 ELSE CHOOSE i \in hits : \A j \in hits : j =< i

(* The rightmost `token` outside all parentheses, with text on both sides. *)
findOuterToken(c, token) == Rightmost({i \in 2..(Len(c) - 1) : c[i] = token /\ DepthAt(c)[i] = 0})

(* One pair of parentheses is taken off when it closes at the very end.    *)
stripOuterParens(c) ==
  IF /\ Len(c) >= 2 /\ c[1] = "(" /\ c[Len(c)] = ")"
     /\ \A i \in 1..(Len(c) - 1) : DepthAt(c)[i] > 0
  THEN SubSeq(c, 2, Len(c) - 1) ELSE c

Before(c, i) == SubSeq(c, 1, i - 1)
After(c, i) == SubSeq(c, i + 1, Len(c))

(* Both descents look for an `or`, then for an `and`, then for a `not`,    *)
(* and take at least one token off at every turn: valid[n] is what         *)
(* validateCompoundCondition says of texts of up to n tokens.              *)
Token == Connectives \cup DOMAIN Simple

ValidAt(valid, s, or, and, depth) ==
  CASE or > 0 -> valid[Before(s, or)][depth] /\ valid[After(s, or)][depth]
    [] or = 0 /\ and > 0 -> valid[Before(s, and)][depth] /\ valid[After(s, and)][depth]
    [] OTHER -> IF Len(s) > 1 THEN s[1] = "not" /\ valid[Tail(s)][depth]
                ELSE s # <<>> /\ s[1] \in DOMAIN Simple
ValidText(valid, s, depth) == ValidAt(valid, s, findOuterToken(s, "or"), findOuterToken(s, "and"), depth)
Valid(c, depth) ==
  LET valid[n \in 0..Len(c)] ==
        IF n = 0 THEN [s \in Seq(Token) |-> [d \in Nat |-> FALSE]]
        ELSE [s \in Seq(Token) |-> [d \in Nat |->
                d =< MaxDepth /\ ValidText(valid[n - 1], stripOuterParens(s), d + 1)]]
  IN valid[Len(c)][c][depth]

validateCondition(c) == Valid(c, 0)

(* The text a filter chain leaves of a value, as far as conditions can     *)
(* tell: a fallback gives "text" for what is missing; any other filter     *)
(* makes a string first, and an empty list is then the text "[]".          *)
applyFilterChainCondition(v, chain) ==
  IF chain = "fallback" /\ Missing(v) THEN "text" ELSE v

isTruthy(v) == v \notin {Absent, "null", "empty", "zero", "nolist"}

(* Number(text): the empty text counts as 0, anything else has to be one.  *)
Numeric(v) == v \in {"zero", "num", "empty"}

(* An operand nothing bound stops the run unless its chain has a fallback. *)
requireResolvedOperand(v, chain) == v # Absent \/ chain = "fallback"

Bool(b) == IF b THEN "true" ELSE "false"

evalSimpleCondition(name, vars) ==
  LET a == Simple[name]
      v == ValueOf(a.ref, vars)
      w == applyFilterChainCondition(v, a.chain)
      r == ValueOf(a.rhs, vars)
      is(b) == IF requireResolvedOperand(v, a.chain) THEN Bool(b) ELSE "unresolved"
  IN CASE a.shape = "truthy" ->
            is(IF a.chain = "none" THEN isTruthy(v) ELSE w # "empty")
       [] a.shape = "eq" -> is(w = "text")
       [] a.shape = "ne" -> is(w # "text")
       [] a.shape = "lt" ->
            IF ~requireResolvedOperand(v, a.chain) THEN "unresolved"
            ELSE IF Numeric(w) THEN "true" ELSE "mismatch"
       [] a.shape = "in" ->
            IF r = Absent THEN "unresolved"
            ELSE IF r \notin {"list", "nolist"} THEN "mismatch"
            ELSE is(r = "list" /\ w = "text")

Negate(r) == CASE r = "true" -> "false" [] r = "false" -> "true" [] OTHER -> r

(* The second operand is looked at only while the first one is `open`.     *)
ShortCircuit(l, open, r) == IF l = open THEN r ELSE l

(* Variant: `and` binds loosest.                                           *)
evalAndFirst(eval, s, or, and, vars) ==
  CASE and > 0 -> ShortCircuit(eval[Before(s, and)], "true", eval[After(s, and)])
    [] and = 0 /\ or > 0 -> ShortCircuit(eval[Before(s, or)], "false", eval[After(s, or)])
    [] OTHER -> IF Len(s) > 1 THEN Negate(eval[Tail(s)]) ELSE evalSimpleCondition(s[1], vars)

evalAt(eval, s, or, and, vars) ==
  CASE or > 0 -> ShortCircuit(eval[Before(s, or)], "false", eval[After(s, or)])
    [] or = 0 /\ and > 0 -> ShortCircuit(eval[Before(s, and)], "true", eval[After(s, and)])
    [] or = 0 /\ and = 0 /\ Len(s) > 1 -> IF s[1] = "not" THEN Negate(eval[Tail(s)]) ELSE "invalid"
    [] OTHER -> IF s # <<>> /\ s[1] \in DOMAIN Simple THEN evalSimpleCondition(s[1], vars) ELSE "invalid"
evalText(eval, s, vars) == evalAt(eval, s, findOuterToken(s, "or"), findOuterToken(s, "and"), vars)
evalCondition(c, vars) ==
  LET eval[n \in 0..Len(c)] ==
        IF n = 0 THEN [s \in Seq(Token) |-> "invalid"]
        ELSE [s \in Seq(Token) |-> evalText(eval[n - 1], stripOuterParens(s), vars)]
  IN eval[Len(c)][c]

-----------------------------------------------------------------------------
(* What a condition means, by the grammar the language reference gives:    *)
(* `or` binds loosest, then `and`, then `not`; a condition has the value   *)
(* of each of its readings.  deeper is what its parts mean.                *)
NotMeaning(deeper, c, vars) ==
  CASE Len(c) = 1 /\ c[1] \in DOMAIN Simple -> {evalSimpleCondition(c[1], vars) = "true"}
    [] Len(c) > 1 /\ c[1] = "not" -> {~x : x \in deeper[Tail(c)].not}
    [] Len(c) > 2 /\ c[1] = "(" /\ c[Len(c)] = ")" -> deeper[SubSeq(c, 2, Len(c) - 1)].or
    [] OTHER -> {}
AndMeaning(deeper, c, vars) ==
  NotMeaning(deeper, c, vars) \cup
    UNION {{x /\ y : x \in deeper[Before(c, i)].and, y \in deeper[After(c, i)].not} :
             i \in {j \in 2..(Len(c) - 1) : c[j] = "and"}}
OrMeaning(deeper, c, vars) ==
  AndMeaning(deeper, c, vars) \cup
    UNION {{x \/ y : x \in deeper[Before(c, i)].or, y \in deeper[After(c, i)].and} :
             i \in {j \in 2..(Len(c) - 1) : c[j] = "or"}}
Meaning(c, vars) ==
  LET means[n \in 0..Len(c)] ==
        IF n = 0 THEN [s \in Seq(Token) |-> [not |-> {}, and |-> {}, or |-> {}]]
        ELSE [s \in Seq(Token) |->
                [not |-> NotMeaning(means[n - 1], s, vars), and |-> AndMeaning(means[n - 1], s, vars),
                 or |-> OrMeaning(means[n - 1], s, vars)]]
  IN means[Len(c)][c].or
=============================================================================
