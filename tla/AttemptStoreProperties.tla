----------------------- MODULE AttemptStoreProperties -----------------------
(***************************************************************************)
(* What the transactions of AttemptStore keep true, whoever runs them.     *)
(***************************************************************************)
EXTENDS AttemptStore, SequencesExt

Events(a) == history[a].events

\* rebuild_projection: the reducer over every event, in sequence order.
Replay(events) == FoldLeft(evolve, NewProjection, events)

\* The projection kept by append, event by event, is the one that
\* scripts/rebuild_attempt_projections.py would write from the log: the
\* skipping of known dedupe keys and of old sequence numbers loses nothing.
ProjectionIsReplay ==
  \A a \in Attempts : history[a].projection = Replay(Events(a))

\* The phase in which an event leaves the projection.
PhaseAfter(event) ==
  IF event.type = EXECUTION_CLAIMED THEN "RUNNING"
  ELSE IF event.type \in FinishingTypes THEN VerdictOf(event) ELSE "QUEUED"

IsCurrent(h) ==
  /\ \A i \in DOMAIN h.events : h.events[i].sequence = i
  /\ h.projection.lastSequence = Len(h.events)
  /\ h.events # <<>> => h.projection.phase = PhaseAfter(Last(h.events))

\* The log is numbered without a gap or a repetition and the projection has
\* seen all of it: what the API shows is the phase after the newest fact, so
\* neither the dedupe keys nor the test of the sequence number ever drops one.
ProjectionIsCurrent == \A a \in Attempts : IsCurrent(history[a])

\* A finishing event with none before it.
IsFirstResult(events, i) ==
  /\ events[i].type \in FinishingTypes
  /\ \A j \in 1 .. i - 1 : events[j].type \notin FinishingTypes

ResultStands(phase, events) ==
  /\ phase \in TERMINAL_STATUSES =>
       \E i \in DOMAIN events : IsFirstResult(events, i)
  /\ \A i \in DOMAIN events :
       /\ events[i].type \in FinishingTypes => phase \in TERMINAL_STATUSES
       /\ IsFirstResult(events, i) => phase = VerdictOf(events[i])

\* However many executions of an attempt report, and in whatever order, the
\* row has a result exactly when the log has one, and it is the result that
\* the log recorded first (_store_success and _store_terminal_failure write
\* both in one transaction, and persist_result never overwrites).
FirstResultStands == \A a \in Attempts : ResultStands(row[a], Events(a))

\* A command is marked processed only together with a result: skipping a
\* processed delivery never skips an attempt that still waits for one.
ProcessedMeansDecided ==
  \A command \in processed : Decided(command.attempt)

SolutionsOf(challenge) == {x \in completed : x[2] = challenge}

AcceptedAttempts == {a \in Attempts : row[a] = "ACCEPTED"}

\* The three records of success agree after every transaction: an account
\* has completed a challenge exactly when one of its attempts is accepted,
\* and a challenge counts each such account once, whatever is redelivered
\* (record_challenge_completion and increment_accepted).
CreditsMatchResults ==
  /\ completed = {Solved(a) : a \in AcceptedAttempts}
  /\ \A c \in Challenges :
       acceptedCount[c] = Cardinality(SolutionsOf(c))

\* No transaction changes the result of an attempt that has one, not even to
\* queue it again (the guards of claim_for_execution, persist_result and
\* reset_after_worker_failure).
ResultsAreFinal ==
  [][\A a \in Attempts : Decided(a) => row'[a] = row[a]]_storeVars

\* The store keeps the promise of the service, row by row.
Service ==
  INSTANCE JudgingService
    WITH phase <- row, solved <- completed, solvers <- acceptedCount

ImplementsService == Service!ServiceSpec

Shown ==
  INSTANCE ShownService
    WITH phase <- row, solved <- completed, solvers <- acceptedCount,
         projected <- [a \in Attempts |-> history[a].projection.phase]

\* Nor does what the API shows go its own way: until an attempt has its result
\* its projection shows none, the transaction that gives the result shows it
\* too, and only a later fact of the attempt can show something else.
ImplementsShownService == Shown!ShownSpec

=============================================================================
