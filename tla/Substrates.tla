------------------------------ MODULE Substrates ------------------------------
(***************************************************************************)
(* The two skill stores a host can be configured with (bootstrap.ts): a    *)
(* directory, which delete surfaces scan while it is written, and a        *)
(* database several processes write.                                       *)
(***************************************************************************)
EXTENDS SkillStoreSqlite

CONSTANT Skill
VARIABLES substrate, target, file, unreadable, writing, scan

Files == INSTANCE Dependents
fileVars == <<target, file, unreadable, writing, scan>>
allVars == <<vars, substrate, fileVars>>

StoreInit ==
  /\ substrate \in {"filesystem", "sqlite"}
  /\ Init /\ Files!Init
  \* The side that is not configured stays as it is.
  /\ substrate = "filesystem" => mode = [secured |-> FALSE, draft |-> FALSE]
  /\ substrate = "sqlite" => file = [s \in Skill |-> Files!Absent]

StoreNext ==
  \/ substrate = "filesystem" /\ Files!Next /\ UNCHANGED <<substrate, vars>>
  \/ substrate = "sqlite" /\ Next /\ UNCHANGED <<substrate, fileVars>>

StoreSpec == StoreInit /\ [][StoreNext]_allVars

\* What is deleted after a scan leaves no dependent that its operator was not
\* shown, as Dependents states it (skill-dependents.ts:34).
NoOrphanUnseen == Files!NoOrphanUnseen
=============================================================================
