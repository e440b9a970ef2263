------------------------------ MODULE Dependents ------------------------------
(***************************************************************************)
(* The guard of the delete surfaces (skill-dependents.ts) over a directory *)
(* of skills that is written while it is read: `skillfile delete` and the  *)
(* dashboard's preflight, confirm and forced delete.                       *)
(***************************************************************************)
CONSTANT Skill   \* the stored skills other than the one to be deleted

\* What a file says of the skill to be deleted: it composes it where the guard
\* looks; only in an `else:` block or by a name computed at run time; not at all;
\* or it is what a write in progress, or one that failed, leaves: empty.
Content == {"names", "hides", "plain", "cut"}
Absent == "absent"

VARIABLES
  target,      \* whether the skill to be deleted is stored
  file,        \* what each of the others says of it
  unreadable,  \* the files that cannot be read at the moment
  writing,     \* what the writes in progress will leave
  scan         \* the deletion under way:
               \*   by      the surface; `forced` if the command line was told --force
               \*   todo    files to read yet, at "list" and at "load"
               \*   listed  what query() returned so far
               \*   shown   the dependents found so far
               \*   touched skills written or deleted since query() began (no code depends on it)
               \*   missed  files query() could not read (no code depends on it)
vars == <<target, file, unreadable, writing, scan>>

NoScan == [by |-> "nobody", pc |-> "idle", todo |-> {}, listed |-> {}, shown |-> {},
           touched |-> {}, missed |-> {}]

TypeOK ==
  /\ target \in BOOLEAN
  /\ file \in [Skill -> Content \cup {Absent}]
  /\ unreadable \subseteq Skill
  /\ writing \in [Skill -> Content \cup {Absent}]
  /\ scan \in [by : {"nobody", "cli", "page", "forced"}, pc : {"idle", "query", "list", "load", "asked", "unlink"},
               todo : SUBSET Skill, listed : SUBSET Skill, shown : SUBSET Skill,
               touched : SUBSET Skill, missed : SUBSET Skill]

Init ==
  /\ target = TRUE
  /\ file \in [Skill -> {"names", "hides", "plain", Absent}]
  /\ unreadable = {}
  /\ writing = [s \in Skill |-> Absent]
  /\ scan = NoScan

-------------------------------------------------------------------------------
(* What goes on in the directory meanwhile. *)

Touch(s) == scan' = IF scan.pc \in {"idle", "query"} THEN scan ELSE [scan EXCEPT !.touched = @ \cup {s}]

\* writeFile of store() or update_status(): it truncates,
Truncate(s, content) ==
  /\ writing[s] = Absent /\ s \notin unreadable
  /\ file' = [file EXCEPT ![s] = "cut"]
  /\ writing' = [writing EXCEPT ![s] = content]
  /\ Touch(s)
  /\ UNCHANGED <<target, unreadable>>

\* and writes, or fails and leaves the file empty.
Finish(s) ==
  /\ writing[s] # Absent
  /\ file' \in {[file EXCEPT ![s] = writing[s]], file}
  /\ writing' = [writing EXCEPT ![s] = Absent]
  /\ Touch(s)
  /\ UNCHANGED <<target, unreadable>>

Unlink(s) ==
  /\ file[s] # Absent /\ writing[s] = Absent
  /\ file' = [file EXCEPT ![s] = Absent]
  /\ Touch(s)
  /\ UNCHANGED <<target, unreadable, writing>>

\* A permission or a transport that comes and goes.
Outage(s) ==
  /\ file[s] # Absent /\ writing[s] = Absent
  /\ unreadable' = IF s \in unreadable THEN unreadable \ {s} ELSE unreadable \cup {s}
  /\ UNCHANGED <<target, file, writing, scan>>

\* The skill is stored again.
Restore ==
  /\ ~target /\ scan.pc = "idle"
  /\ target' = TRUE
  /\ UNCHANGED <<file, unreadable, writing, scan>>

-------------------------------------------------------------------------------
(* The scan. *)

Steps(next) == scan' = next /\ UNCHANGED <<target, file, unreadable, writing>>
Ended == Steps(NoScan)

\* POST /delete without force, or `skillfile delete`; with --force it scans nothing.
Start(by) ==
  /\ scan.pc = "idle" /\ target
  /\ Steps([NoScan EXCEPT !.by = by, !.pc = IF by = "forced" THEN "unlink" ELSE "query"])

\* query() reads the directory,
ReadDir ==
  /\ scan.pc = "query"
  /\ Steps([scan EXCEPT !.pc = "list", !.todo = {s \in Skill : file[s] # Absent},
                        !.touched = {s \in Skill : writing[s] # Absent}])

\* then every file of it, and passes over those it cannot read.
ListOne(s) ==
  /\ scan.pc = "list" /\ s \in scan.todo
  /\ LET readable == file[s] # Absent /\ s \notin unreadable
     IN  Steps([scan EXCEPT !.todo = @ \ {s},
                            !.listed = IF readable THEN @ \cup {s} ELSE @,
                            !.missed = IF s \in unreadable THEN @ \cup {s} ELSE @])

Listed ==
  /\ scan.pc = "list" /\ scan.todo = {}
  /\ Steps([scan EXCEPT !.pc = "load", !.todo = scan.listed])

\* referencesSkill
Finds(s) == IF file[s] = "names" THEN {s} ELSE {}

\* Variant: what cannot be loaded references nothing.
LoadFlattened(s) ==
  /\ scan.pc = "load" /\ s \in scan.todo
  /\ Steps([scan EXCEPT !.todo = @ \ {s}, !.shown = IF s \in unreadable THEN @ ELSE @ \cup Finds(s)])

\* The loop of findStaticDependents: a skill that vanished is passed over, any
\* other failure ends the deletion.
LoadOne(s) ==
  /\ scan.pc = "load" /\ s \in scan.todo
  /\ \/ s \in unreadable /\ Ended
     \/ s \notin unreadable /\ Steps([scan EXCEPT !.todo = @ \ {s}, !.shown = @ \cup Finds(s)])

\* The command line refuses if there are dependents; the page shows them.
Answer ==
  /\ scan.pc = "load" /\ scan.todo = {}
  /\ \/ scan.by = "cli" /\ scan.shown # {} /\ Ended
     \/ scan.by = "cli" /\ scan.shown = {} /\ Steps([scan EXCEPT !.pc = "unlink"])
     \/ scan.by = "page" /\ Steps([scan EXCEPT !.pc = "asked"])

\* The operator confirms, or does not.
Confirm == scan.pc = "asked" /\ (Steps([scan EXCEPT !.pc = "unlink"]) \/ Ended)

Delete ==
  /\ scan.pc = "unlink"
  /\ target' = FALSE
  /\ scan' = NoScan
  /\ UNCHANGED <<file, unreadable, writing>>

Next ==
  \/ \E s \in Skill :
       \/ \E content \in {"names", "hides", "plain"} : Truncate(s, content)
       \/ Finish(s) \/ Unlink(s) \/ Outage(s) \/ ListOne(s) \/ LoadOne(s)
  \/ \E by \in {"cli", "page", "forced"} : Start(by)
  \/ Restore \/ ReadDir \/ Listed \/ Answer \/ Confirm \/ Delete

Spec == Init /\ [][Next]_vars

-------------------------------------------------------------------------------
(* Properties. *)

\* A skill that is deleted without --force leaves no skill dangling that its
\* operator was not shown, and nothing was shown that does not compose it, but
\* for what was written since the scan began, what query() could not read, and
\* what no scan of this kind can see; whatever was unreadable when it was loaded
\* stopped the deletion (skill-dependents.ts:34, :39).
NoOrphanUnseen ==
  [][target /\ ~target' /\ scan.by # "forced" =>
       \A s \in Skill \ scan.touched :
         /\ s \notin scan.missed /\ file[s] = "names" => s \in scan.shown
         /\ s \in scan.shown => file[s] = "names" /\ scan.by = "page"]_vars
=============================================================================
