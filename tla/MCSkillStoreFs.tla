---------------------------- MODULE MCSkillStoreFs ----------------------------
(* Small instances of SkillStoreFs. *)
EXTENDS SkillStoreFs, TLC

CONSTANTS t1, t2      \* two texts
CONSTANTS agent, user \* an agent, and the user of the process
CONSTANTS o1, o2      \* two requests in flight

\* An edit of a signed body that kept its header, a signed body, and one without
\* a status line.
Sources ==
  { [text |-> t2, status |-> "Approved", sig |-> t1],
    [text |-> t1, status |-> "Approved", sig |-> t1],
    [text |-> t2, status |-> None,       sig |-> None] }

Modes2 == { [secured |-> secured, draft |-> FALSE] : secured \in BOOLEAN }

Symmetry == Permutations({o1, o2})
=============================================================================
