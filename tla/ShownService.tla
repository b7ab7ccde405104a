---------------------------- MODULE ShownService ----------------------------
(***************************************************************************)
(* JudgingService together with what the API shows of it.  The result of   *)
(* an attempt is in its row, for good; the API shows the phase of its      *)
(* projection, the one after the newest fact, and a fact that comes after  *)
(* the result (a second execution, a reset after a failed ACK) may take it *)
(* away again.  AttemptStore is shown to implement this module.  The       *)
(* rebuild script may also show an older phase until the next fact; it is  *)
(* run by hand, and is left to Maintenance.                                *)
(***************************************************************************)
EXTENDS JudgingService

VARIABLE projected  \* the phase of the projection of each attempt

shownVars == <<serviceVars, projected>>

Unfinished == {"QUEUED", "RUNNING"}

\* The transaction leaves the projection of the attempt in this phase.
Shows(a, p) == projected' = [projected EXCEPT ![a] = p]

ShownInit ==
  /\ ServiceInit
  /\ projected = [a \in Attempts |-> "QUEUED"]

OpenShown(a) == Open(a) /\ Shows(a, "QUEUED")

\* Before the result the facts are of claims and failures.  A fact that is
\* known already does not move the projection, although the row may move.
MoveShown(a) ==
  /\ \/ Start(a) \/ Requeue(a)
     \/ phase[a] \in Unfinished /\ UNCHANGED serviceVars
  /\ \E p \in Unfinished : Shows(a, p)

FinishShown(a, verdict) == Finish(a, verdict) /\ Shows(a, verdict)

\* After it they are of resets and of other executions, and the row stays.
ReportLate(a) ==
  /\ phase[a] \in TERMINAL_STATUSES
  /\ \E p \in {"QUEUED"} \cup Results : Shows(a, p)
  /\ UNCHANGED serviceVars

JudgeShown(a) ==
  \/ MoveShown(a)
  \/ ReportLate(a)
  \/ \E verdict \in Results : FinishShown(a, verdict)

ShownNext == \E a \in Attempts : OpenShown(a) \/ JudgeShown(a)

ShownSpec == ShownInit /\ [][ShownNext]_shownVars

=============================================================================
