--------------------------- MODULE JudgingService ---------------------------
(***************************************************************************)
(* What the control plane promises the people who use it, with no queue,   *)
(* worker, retry or transaction in sight: an attempt that was accepted is  *)
(* given one result, for good, and the first accepted attempt of an        *)
(* account at a challenge is credited once, together with that result.     *)
(***************************************************************************)
EXTENDS Lifecycle

CONSTANTS Attempts, Accounts, Challenges, AccountOf, ChallengeOf, Verdicts

VARIABLES
  phase,    \* the phase of each attempt, or "ABSENT"
  solved,   \* <<account, challenge>> pairs that have been credited
  solvers   \* how many accounts each challenge has been credited to

serviceVars == <<phase, solved, solvers>>

ServiceInit ==
  /\ phase = [a \in Attempts |-> "ABSENT"]
  /\ solved = {}
  /\ solvers = [c \in Challenges |-> 0]

Open(a) ==
  /\ phase[a] = "ABSENT"
  /\ phase' = [phase EXCEPT ![a] = "QUEUED"]
  /\ UNCHANGED <<solved, solvers>>

Start(a) ==
  /\ phase[a] = "QUEUED"
  /\ phase' = [phase EXCEPT ![a] = "RUNNING"]
  /\ UNCHANGED <<solved, solvers>>

Requeue(a) ==
  /\ phase[a] = "RUNNING"
  /\ phase' = [phase EXCEPT ![a] = "QUEUED"]
  /\ UNCHANGED <<solved, solvers>>

\* A late execution may answer for an attempt that is queued again.
Finish(a, verdict) ==
  LET solution == <<AccountOf[a], ChallengeOf[a]>>
      credit   == verdict = "ACCEPTED" /\ solution \notin solved
  IN  /\ phase[a] \in {"QUEUED", "RUNNING"}
      /\ phase' = [phase EXCEPT ![a] = verdict]
      /\ solved' = IF credit THEN solved \cup {solution} ELSE solved
      /\ solvers' = IF credit
                    THEN [solvers EXCEPT ![ChallengeOf[a]] = @ + 1]
                    ELSE solvers

Results == Verdicts \cup {"INTERNAL_ERROR"}

ServiceNext ==
  \E a \in Attempts :
    \/ Open(a) \/ Start(a) \/ Requeue(a)
    \/ \E verdict \in Results : Finish(a, verdict)

ServiceSpec == ServiceInit /\ [][ServiceNext]_serviceVars

\* Every attempt that was opened gets its result.
ServiceFairness ==
  \A a \in Attempts :
    WF_serviceVars(\E verdict \in Results : Finish(a, verdict))

FairServiceSpec == ServiceSpec /\ ServiceFairness

=============================================================================
