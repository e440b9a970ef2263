----------------------------- MODULE MCSubstrates -----------------------------
(* Small instances of Substrates. *)
EXTENDS Substrates, TLC

CONSTANTS t1, t2  \* a text, and one it could be mistaken for
CONSTANTS o1, o2  \* two requests in flight
CONSTANTS s1, s2, s3  \* three skills beside the one to be deleted

\* A signed body, the same with a signature of another text, and one without a
\* status line.
Sources ==
  { [text |-> t1, status |-> "Approved", sig |-> t1],
    [text |-> t1, status |-> "Approved", sig |-> t2],
    [text |-> t1, status |-> None,       sig |-> None] }

Modes2 == { [secured |-> secured, draft |-> FALSE] : secured \in BOOLEAN }

Symmetry == Permutations({o1, o2}) \cup Permutations({s1, s2, s3})
=============================================================================
