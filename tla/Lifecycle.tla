------------------------------ MODULE Lifecycle ------------------------------
(***************************************************************************)
(* The execution facts of one attempt and the projection derived from them *)
(* (core/lifecycle.py, core/status.py, persistence/lifecycle.py).          *)
(*                                                                         *)
(* A history is what PostgreSQL keeps for an attempt: its rows of          *)
(* lifecycle_events in sequence order, and its row of attempt_projections. *)
(* A command of the attempt is identified by its retry index, from which   *)
(* EvaluationCommand.retry() derives every later delivery key and run key; *)
(* an event carries the index of the command it is about, and the          *)
(* retryIndex of its payload follows from it.  Reports, times other than   *)
(* "finished", and error texts are left out.                               *)
(***************************************************************************)
EXTENDS Naturals, Sequences

TERMINAL_STATUSES ==
  {"ACCEPTED", "WRONG_ANSWER", "TIME_LIMIT", "MEMORY_LIMIT",
   "RUNTIME_ERROR", "COMPILATION_ERROR", "INTERNAL_ERROR"}

Phases == {"QUEUED", "RUNNING"} \cup TERMINAL_STATUSES

NoVerdict == "NONE"

ATTEMPT_OPENED              == "attempt.opened"
EXECUTION_REQUESTED         == "execution.requested"
EXECUTION_CLAIMED           == "execution.claimed"
EXECUTION_RETRYABLE_FAILURE == "execution.retryable_failure"
EXECUTION_COMPLETED         == "execution.completed"
EXECUTION_TERMINAL_FAILURE  == "execution.terminal_failure"

EventTypes ==
  {ATTEMPT_OPENED, EXECUTION_REQUESTED, EXECUTION_CLAIMED,
   EXECUTION_RETRYABLE_FAILURE, EXECUTION_COMPLETED,
   EXECUTION_TERMINAL_FAILURE}

\* The events after which an attempt has a result.
FinishingTypes == {EXECUTION_COMPLETED, EXECUTION_TERMINAL_FAILURE}

\* Only a completed execution carries a verdict, and it always does.
LifecycleEvent ==
  {e \in [sequence : Nat, type : EventTypes, delivery : Nat,
          verdict : TERMINAL_STATUSES \cup {NoVerdict}] :
     e.type = EXECUTION_COMPLETED <=> e.verdict # NoVerdict}

AttemptProjection ==
  [phase : Phases, verdict : TERMINAL_STATUSES \cup {NoVerdict},
   retryIndex : Nat, lastSequence : Nat, finished : BOOLEAN]

History == [events : Seq(LifecycleEvent), projection : AttemptProjection]

\* The column defaults of a projection row that has seen no event.
NewProjection ==
  [phase |-> "QUEUED", verdict |-> NoVerdict, retryIndex |-> 0,
   lastSequence |-> 0, finished |-> FALSE]

NewHistory == [events |-> <<>>, projection |-> NewProjection]

-----------------------------------------------------------------------------
(* The reducer.                                                             *)

\* Mutant: the verdict of the payload, which a terminal failure lacks.
VerdictOfPayload(event) == event.verdict

\* A terminal failure carries no verdict: the reducer supplies it.
VerdictOf(event) ==
  IF event.type = EXECUTION_COMPLETED THEN event.verdict ELSE "INTERNAL_ERROR"

\* What an event that is not stale does to the projection.  A queueing event
\* leaves "finished" as it is: only a claim clears finished_at.
Projected(current, event) ==
  CASE event.type = ATTEMPT_OPENED ->
         [current EXCEPT !.phase = "QUEUED", !.verdict = NoVerdict]
    [] event.type = EXECUTION_REQUESTED ->
         [current EXCEPT !.phase = "QUEUED", !.verdict = NoVerdict,
                         !.retryIndex = event.delivery]
    [] event.type = EXECUTION_CLAIMED ->
         [current EXCEPT !.phase = "RUNNING", !.verdict = NoVerdict,
                         !.retryIndex = event.delivery, !.finished = FALSE]
    [] event.type = EXECUTION_RETRYABLE_FAILURE ->
         [current EXCEPT !.phase = "QUEUED", !.verdict = NoVerdict,
                         !.retryIndex = event.delivery + 1]
    [] event.type \in FinishingTypes ->
         [current EXCEPT !.phase = VerdictOf(event),
                         !.verdict = VerdictOf(event), !.finished = TRUE]

evolve(current, event) ==
  IF event.sequence <= current.lastSequence
  THEN current
  ELSE [Projected(current, event) EXCEPT !.lastSequence = event.sequence]

-----------------------------------------------------------------------------
(* The repository's append: at most one event per dedupe key, numbered     *)
(* under the lock of the attempt row, and applied to the projection in the *)
(* same transaction.                                                       *)

\* The dedupe key is the delivery key and a suffix that names the type.
Recorded(history, type, delivery) ==
  \E i \in DOMAIN history.events :
    /\ history.events[i].type = type
    /\ history.events[i].delivery = delivery

NextEvent(history, type, delivery, verdict) ==
  [sequence |-> Len(history.events) + 1, type |-> type,
   delivery |-> delivery, verdict |-> verdict]

\* Mutant: an event that is already known is applied to the projection again.
ReapplyEvent(history, type, delivery, verdict) ==
  LET event == NextEvent(history, type, delivery, verdict)
  IN  [events     |-> IF Recorded(history, type, delivery)
                      THEN history.events ELSE Append(history.events, event),
       projection |-> evolve(history.projection, event)]

AppendEvent(history, type, delivery, verdict) ==
  IF Recorded(history, type, delivery)
  THEN history
  ELSE LET event == NextEvent(history, type, delivery, verdict)
       IN  [events     |-> Append(history.events, event),
            projection |-> evolve(history.projection, event)]

=============================================================================
