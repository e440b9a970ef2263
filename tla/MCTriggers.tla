------------------------------ MODULE MCTriggers ------------------------------
(* Small instances of Triggers. *)
EXTENDS RegistryLoop, TLC

CONSTANTS s1, s2                 \* two skills
CONSTANTS b1, b2, b3             \* bodies; the third one is never stored
CONSTANTS daily, often           \* two cron expressions
CONSTANTS deploy, Deploy, build  \* event names, the second one capitalised
CONSTANTS h1, h2                 \* two requests in flight
CONSTANTS v                      \* a variable

MCLower == (deploy :> deploy) @@ (Deploy :> deploy) @@ (build :> build)

\* b1 declares a cron and an event trigger and no variable; b2 declares the
\* event in another spelling, and one variable; b3 declares one event twice,
\* on both sides of another one.
MCDecl ==
  [b \in Body |-> IF b = b1 THEN << [source |-> "cron", name |-> often],
                                    [source |-> "event", name |-> deploy] >>
                  ELSE IF b = b2 THEN << [source |-> "event", name |-> Deploy] >>
                  ELSE << [source |-> "event", name |-> Deploy],
                          [source |-> "event", name |-> build],
                          [source |-> "event", name |-> deploy] >>]
\* The bodies' event triggers only.
EventDecl == [b \in Body |-> SelectSeq(MCDecl[b], LAMBDA d : d.source = "event")]

MCVars == [b \in Body |-> IF b = b1 THEN {} ELSE {v}]

\* The cron expressions match the second minute, or none in the time of the run.
SecondMinute == [c \in Cron |-> {1}]
OtherDay == [c \in Cron |-> {}]

\* Two clients register the same event in two spellings, one with an expiry,
\* and the schedule that s1 declares.
RegistryCalls ==
  { [skill |-> s1, source |-> "event", name |-> Deploy, expires |-> Never],
    [skill |-> s2, source |-> "event", name |-> deploy, expires |-> 1],
    [skill |-> s1, source |-> "cron",  name |-> often,  expires |-> Never] }

EventCall == { [skill |-> s2, source |-> "event", name |-> Deploy, expires |-> Never] }

NoCalls == {}

\* The skill s1 is Approved with body b1, or there is no skill.
ApprovedStore == { [s \in Skill |-> IF s = s1 THEN [status |-> "Approved", body |-> b1] ELSE Missing],
                   [s \in Skill |-> Missing] }

Symmetry == Permutations({s1, s2}) \cup Permutations({h1, h2})

EmptyStore == { [s \in Skill |-> Missing] }
=============================================================================
