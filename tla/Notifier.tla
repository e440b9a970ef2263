------------------------------- MODULE Notifier -------------------------------
(***************************************************************************)
(* What the failure supervisor promises: a run that failed is alerted in   *)
(* the end, and once, but for one more alert that each restart may cost.   *)
(***************************************************************************)
EXTENDS Naturals

CONSTANT Run

VARIABLES
  failed,      \* runs whose failure is on record
  restarts,    \* restarts of the process so far
  alerts       \* [Run -> Nat]: times the handler skill was run about a run

vars == <<failed, restarts, alerts>>

Init ==
  /\ failed = {}
  /\ restarts = 0
  /\ alerts = [r \in Run |-> 0]

Fail(r) ==
  /\ r \notin failed
  /\ failed' = failed \cup {r}
  /\ UNCHANGED <<restarts, alerts>>

Restart ==
  /\ restarts' = restarts + 1
  /\ UNCHANGED <<failed, alerts>>

Alert(r) ==
  /\ r \in failed
  /\ alerts[r] <= restarts
  /\ alerts' = [alerts EXCEPT ![r] = @ + 1]
  /\ UNCHANGED <<failed, restarts>>

FirstAlert(r) == alerts[r] = 0 /\ Alert(r)

Next == Restart \/ \E r \in Run : Fail(r) \/ Alert(r)

Spec == Init /\ [][Next]_vars /\ \A r \in Run : WF_vars(FirstAlert(r))
=============================================================================
