---------------------------- MODULE AttemptStore ----------------------------
(***************************************************************************)
(* The PostgreSQL side of the control plane: the rows an attempt owns and  *)
(* the transactions that change them.  Each action is one transaction from *)
(* the point where it takes the lock of the attempt row to its commit;     *)
(* what a transaction reads before that lock is a step of the caller       *)
(* (module EvaluationPipeline).                                            *)
(*                                                                         *)
(* StoreSpec lets any client run any transaction that a command of the     *)
(* system can ask for, in any order and as often as it likes.  What is     *)
(* proved of it therefore does not depend on the workers, and              *)
(* EvaluationPipeline is shown to implement it.                            *)
(***************************************************************************)
EXTENDS Lifecycle

CONSTANTS
  Attempts,      \* attempt keys
  Accounts,
  Challenges,
  AccountOf,     \* the account that opens an attempt
  ChallengeOf,   \* the challenge it is for
  Verdicts,      \* what an evaluation may answer (a subset, for small runs)
  MaxAttempts    \* settings.queue_max_attempts: executions before giving up

ASSUME AccountOfAssumption   == AccountOf \in [Attempts -> Accounts]
ASSUME ChallengeOfAssumption == ChallengeOf \in [Attempts -> Challenges]
ASSUME VerdictsAssumption    == Verdicts \subseteq TERMINAL_STATUSES
ASSUME MaxAttemptsAssumption == MaxAttempts \in Nat \ {0}

VARIABLES
  row,            \* attempts.phase, or "ABSENT"
  history,        \* lifecycle_events and attempt_projections of each attempt
  processed,      \* processed_commands
  completed,      \* <<account, challenge>>: accounts.completed_challenge_keys
  acceptedCount,  \* challenges.accepted_count
  outbox,         \* control_outbox in id order
  published       \* the positions of outbox whose row is published

storeVars ==
  <<row, history, processed, completed, acceptedCount, outbox, published>>

EvaluationCommand == [attempt : Attempts, retryIndex : 0 .. MaxAttempts - 1]

\* The next command of the same work, with keys derived from this one's.
retry(command) == [command EXCEPT !.retryIndex = @ + 1]

\* Mutant: one execution too many.
DeadTooLate(command) == command.retryIndex >= MaxAttempts

\* Whether a failure of this command exhausts the retry budget.
Dead(command) == command.retryIndex + 1 >= MaxAttempts

RowPhases == Phases \cup {"ABSENT"}

StoreTypeOK ==
  /\ row \in [Attempts -> RowPhases]
  /\ history \in [Attempts -> History]
  /\ processed \subseteq EvaluationCommand
  /\ completed \subseteq Accounts \X Challenges
  /\ acceptedCount \in [Challenges -> Nat]
  /\ outbox \in Seq(EvaluationCommand)
  /\ published \subseteq DOMAIN outbox

StoreInit ==
  /\ row = [a \in Attempts |-> "ABSENT"]
  /\ history = [a \in Attempts |-> NewHistory]
  /\ processed = {}
  /\ completed = {}
  /\ acceptedCount = [c \in Challenges |-> 0]
  /\ outbox = <<>>
  /\ published = {}

Decided(a) == row[a] \in TERMINAL_STATUSES

-----------------------------------------------------------------------------
(* The transactions.                                                        *)

\* AttemptService.create: the attempt, its first two facts and the command
\* are committed together.
OpenAttempt(a) ==
  LET opened == AppendEvent(history[a], ATTEMPT_OPENED, 0, NoVerdict)
  IN  /\ row[a] = "ABSENT"
      /\ row' = [row EXCEPT ![a] = "QUEUED"]
      /\ history' = [history EXCEPT ![a] =
                       AppendEvent(opened, EXECUTION_REQUESTED, 0, NoVerdict)]
      /\ outbox' = Append(outbox, [attempt |-> a, retryIndex |-> 0])
      /\ UNCHANGED <<processed, completed, acceptedCount, published>>

\* dispatch_outbox commits: the rows it has copied are marked.
MarkPublished(positions) ==
  /\ published' = published \cup positions
  /\ UNCHANGED <<row, history, processed, completed, acceptedCount, outbox>>

\* Mutant: a reclaimed delivery claims whatever it finds.
EligibleAnyPhase(command, allowRunning) ==
  allowRunning \/ row[command.attempt] = "QUEUED"

\* Mutant: a reclaimed delivery is treated like a new one.
EligibleQueuedOnly(command, allowRunning) == row[command.attempt] = "QUEUED"

\* The phases from which claim_for_execution takes the row.
Eligible(command, allowRunning) ==
  row[command.attempt] \in
    IF allowRunning THEN {"QUEUED", "RUNNING"} ELSE {"QUEUED"}

\* EvaluationWorker._claim when the guarded UPDATE finds the row.
Claim(command, allowRunning) ==
  LET a == command.attempt
  IN  /\ Eligible(command, allowRunning)
      /\ row' = [row EXCEPT ![a] = "RUNNING"]
      /\ history' = [history EXCEPT ![a] =
           AppendEvent(@, EXECUTION_CLAIMED, command.retryIndex, NoVerdict)]
      /\ UNCHANGED <<processed, completed, acceptedCount, outbox, published>>

\* Mutant: the last result wins.
PersistLastResult(a, phase) == row' = [row EXCEPT ![a] = phase]

\* Mutant: only a running attempt takes a result.
PersistIfRunning(a, phase) ==
  row' = [row EXCEPT ![a] = IF @ = "RUNNING" THEN phase ELSE @]

\* AttemptRepository.persist_result: a row that has a result keeps it.
PersistResult(a, phase) ==
  row' = [row EXCEPT ![a] = IF @ \in TERMINAL_STATUSES THEN @ ELSE phase]

Solved(a) == <<AccountOf[a], ChallengeOf[a]>>

\* Mutant: every accepted attempt counts.
CreditedEachTime(a, verdict) == ~ Decided(a) /\ verdict = "ACCEPTED"

\* Mutant: an answer that comes too late to be the result counts.
CreditedLate(a, verdict) == verdict = "ACCEPTED" /\ Solved(a) \notin completed

\* The first accepted attempt of an account at a challenge earns the credit,
\* if this very transaction gave the attempt its result.
Credited(a, verdict) ==
  /\ ~ Decided(a)
  /\ verdict = "ACCEPTED"
  /\ Solved(a) \notin completed

RecordCompletion(a, verdict) ==
  \/ /\ Credited(a, verdict)
     /\ completed' = completed \cup {Solved(a)}
     /\ acceptedCount' = [acceptedCount EXCEPT ![ChallengeOf[a]] = @ + 1]
  \/ /\ ~ Credited(a, verdict)
     /\ UNCHANGED <<completed, acceptedCount>>

\* EvaluationWorker._store_success, after its look at processed_commands.
StoreSuccess(command, verdict) ==
  LET a == command.attempt
  IN  /\ history' = [history EXCEPT ![a] =
           AppendEvent(@, EXECUTION_COMPLETED, command.retryIndex, verdict)]
      /\ PersistResult(a, verdict)
      /\ RecordCompletion(a, verdict)
      /\ processed' = processed \cup {command}
      /\ UNCHANGED <<outbox, published>>

\* EvaluationWorker._store_terminal_failure, after the same look.
StoreTerminalFailure(command) ==
  LET a == command.attempt
  IN  /\ history' = [history EXCEPT ![a] =
           AppendEvent(@, EXECUTION_TERMINAL_FAILURE, command.retryIndex, NoVerdict)]
      /\ PersistResult(a, "INTERNAL_ERROR")
      /\ processed' = processed \cup {command}
      /\ UNCHANGED <<completed, acceptedCount, outbox, published>>

\* Mutant: the row is reset and the facts are forgotten.
ResetInRowOnly(command) ==
  /\ row' = [row EXCEPT ![command.attempt] = IF @ = "RUNNING" THEN "QUEUED" ELSE @]
  /\ UNCHANGED <<history, processed, completed, acceptedCount, outbox, published>>

\* EvaluationWorker._reset_for_retry: it does not look at processed_commands,
\* and appends its two facts whatever the phase of the row.
ResetForRetry(command) ==
  LET a      == command.attempt
      failed == AppendEvent(history[a], EXECUTION_RETRYABLE_FAILURE,
                            command.retryIndex, NoVerdict)
  IN  /\ history' = [history EXCEPT ![a] =
           AppendEvent(failed, EXECUTION_REQUESTED,
                       retry(command).retryIndex, NoVerdict)]
      /\ row' = [row EXCEPT ![a] = IF @ = "RUNNING" THEN "QUEUED" ELSE @]
      /\ UNCHANGED <<processed, completed, acceptedCount, outbox, published>>

-----------------------------------------------------------------------------
(* The most general client.                                                 *)

\* A command exists once its request is a fact, and is executed once claimed.
Requested(command) ==
  Recorded(history[command.attempt], EXECUTION_REQUESTED, command.retryIndex)

Claimed(command) ==
  Recorded(history[command.attempt], EXECUTION_CLAIMED, command.retryIndex)

Transaction(command) ==
  \/ \E allowRunning \in BOOLEAN :
       Requested(command) /\ Claim(command, allowRunning)
  \/ \E verdict \in Verdicts :
       Claimed(command) /\ StoreSuccess(command, verdict)
  \/ Claimed(command) /\ Dead(command) /\ StoreTerminalFailure(command)
  \/ Claimed(command) /\ ~ Dead(command) /\ ResetForRetry(command)

StoreNext ==
  \/ \E a \in Attempts : OpenAttempt(a)
  \/ \E positions \in SUBSET (DOMAIN outbox) : MarkPublished(positions)
  \/ \E command \in EvaluationCommand : Transaction(command)

StoreSpec == StoreInit /\ [][StoreNext]_storeVars

=============================================================================
