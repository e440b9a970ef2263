----------------------------- MODULE MCRemoteMcp -----------------------------
(* Small instances of RemoteMcp. *)
EXTENDS RemoteMcp, TLC

CONSTANTS c1, c2,                \* callers
          k1, k2, k3,            \* children
          i1, i2, i3, i4         \* request ids

\* No safety property names a child or an id.
Names == Permutations(Child) \cup Permutations(ReqId)
=============================================================================
