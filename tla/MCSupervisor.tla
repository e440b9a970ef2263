----------------------------- MODULE MCSupervisor -----------------------------
(* Small instances of Supervisor. *)
EXTENDS Supervisor, TLC

CONSTANTS f1, f2, f3,            \* fires
          g1, g2, c1,            \* handler runs, a run composed by the handler
          p1, p2                 \* sweeps

KindOf == (f1 :> "fire") @@ (f2 :> "fire") @@ (f3 :> "fire") @@ (g1 :> "handler")
            @@ (g2 :> "handler") @@ (c1 :> "child")
MCKind == [r \in Run |-> KindOf[r]]

\* Every run has a trace id of its own.
OwnTrace == [r \in Run |-> r]
=============================================================================
