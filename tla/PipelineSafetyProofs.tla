------------------------- MODULE PipelineSafetyProofs -------------------------
(***************************************************************************)
(* No accepted attempt is forgotten by the pipeline, and no dead letter    *)
(* stands for work that might still be done: for any number of workers,    *)
(* attempts, crashes and failed calls.  The first needs that an entry goes *)
(* stale only after its worker has died; the second does not.              *)
(***************************************************************************)
EXTENDS EvaluationPipelineProofs

USE AccountOfAssumption, ChallengeOfAssumption, VerdictsAssumption,
    MaxAttemptsAssumption, BatchSizeAssumption, MaxFaultsAssumption,
    PrematureReclaimAssumption

-----------------------------------------------------------------------------
(* Decided attempts stay decided, for every worker that knows of them.      *)

LEMMA DecidedStays ==
  ASSUME StoreTypeOK, [StoreNext]_storeVars, NEW a \in Attempts, Decided(a)
  PROVE  Decided(a)'
BY StepKeepsResults DEF Decided

\* A worker that keeps its entry keeps its command, and what was decided of it.
LEMMA KeptCommand ==
  ASSUME PipelineInvariant, [StoreNext]_storeVars, StreamGrows,
         NEW v \in Workers, pc[v] \in ProcessSteps, held'[v] = held[v]
  PROVE  /\ Command(v)' = Command(v)
         /\ Command(v) \in EvaluationCommand /\ Command(v).attempt \in Attempts
         /\ Decided(Command(v).attempt) => Decided(Command(v).attempt)'
<1>1. Command(v)' = Command(v)
  BY KeptEntry
<1>2. Command(v) \in EvaluationCommand
  BY HeldCommand
<1>3. Command(v).attempt \in Attempts
  BY <1>2, CommandType
<1>4. StoreTypeOK
  BY DEF PipelineInvariant, TypeOK
<1>5. \A a \in Attempts : Decided(a) => Decided(a)'
  BY <1>4, DecidedStays
<1>6. QED
  BY <1>1, <1>2, <1>3, <1>5 DEF Decided

\* Both transactions that mark a command as processed decide its attempt.
LEMMA SuccessDecides ==
  ASSUME StoreTypeOK, NEW c \in EvaluationCommand, NEW v \in Verdicts,
         StoreSuccess(c, v)
  PROVE  row'[c.attempt] \in TERMINAL_STATUSES
<1>1. c.attempt \in Attempts /\ v \in TERMINAL_STATUSES
  BY CommandType
<1>2. row \in [Attempts -> RowPhases] /\ PersistResult(c.attempt, v)
  BY DEF StoreTypeOK, StoreSuccess
<1>3. QED
  BY <1>1, <1>2, PersistResultDecides

LEMMA TerminalFailureDecides ==
  ASSUME StoreTypeOK, NEW c \in EvaluationCommand, StoreTerminalFailure(c)
  PROVE  row'[c.attempt] \in TERMINAL_STATUSES
<1>1. c.attempt \in Attempts /\ "INTERNAL_ERROR" \in TERMINAL_STATUSES
  BY CommandType DEF TERMINAL_STATUSES
<1>2. row \in [Attempts -> RowPhases] /\ PersistResult(c.attempt, "INTERNAL_ERROR")
  BY DEF StoreTypeOK, StoreTerminalFailure
<1>3. QED
  BY <1>1, <1>2, PersistResultDecides

-----------------------------------------------------------------------------
(* How a call moves the worker through process.                             *)

\* The ways to the steps that follow a decision.
ReachesDecision(w) ==
  pc'[w] \in {"ack", "deadLetter"} =>
    /\ pc[w] \in ProcessSteps /\ held'[w] = held[w]
    /\ \/ Command(w) \in processed
       \/ pc[w] = "commit" /\ StoreSuccess(Command(w), suiteStatus[w])
       \/ StoreTerminalFailure(Command(w))

\* The ways to the steps that give the entry up.
ReachesRelease(w) ==
  pc'[w] \in {"drop", "settle"} =>
    /\ pc[w] \in ProcessSteps /\ held'[w] = held[w]
    /\ \/ Command(w) \in processed
       \/ /\ pc[w] = "claim" /\ row' = row
          /\ ~ Eligible(Command(w), reclaimed[w])
       \/ pc[w] = "deadLetter"
       \/ pc[w] = "retry" /\ enqueue(retry(Command(w)))

\* The ways to the claim, and to another request.
ReachesClaim(w) ==
  /\ pc'[w] = "check" =>
       \/ held'[w] = delivered + 1 /\ held'[w] \notin pending
       \/ reclaimed'[w] /\ held'[w] \in todo[w]
  /\ pc'[w] = "claim" =>
       /\ pc[w] = "check" /\ held'[w] = held[w] /\ reclaimed'[w] = reclaimed[w]
  /\ pc'[w] = "retry" =>
       /\ pc[w] = "fail" /\ held'[w] = held[w]
       /\ ResetForRetry(Command(w))

\* An entry is taken, kept or let go.
MovesEntry(w) ==
  \/ held'[w] = held[w]
  \/ held'[w] = NoEntry
  \/ pc[w] = "next" /\ pc'[w] = "check"

\* Only the last calls of process take an entry off the pending list.
MovesPending(w) ==
  \/ pending' = pending /\ delivered' = delivered
  \/ /\ delivered' = delivered + 1 /\ delivered < Len(stream)
     /\ pending' = pending \cup {delivered + 1}
  \/ /\ pc[w] \in {"drop", "ack", "settle"}
     /\ pending' = pending \ {held[w]} /\ delivered' = delivered

Moves(w) ==
  /\ ReachesDecision(w) /\ ReachesRelease(w) /\ ReachesClaim(w)
  /\ MovesEntry(w) /\ MovesPending(w)

\* What a call that goes on with the entry says of its worker.
LEMMA ContinueMoves ==
  ASSUME TypeOK, NEW w \in Workers, NEW from, NEW to, Continue(w, from, to)
  PROVE  /\ pc[w] = from /\ pc'[w] = to /\ held'[w] = held[w]
         /\ reclaimed'[w] = reclaimed[w]
BY DEF TypeOK, Continue, At, Goto

LEMMA ReturnMoves ==
  ASSUME TypeOK, NEW w \in Workers, NEW from, Return(w, from)
  PROVE  /\ pc[w] = from /\ pc'[w] \in {"next", "dispatch"} /\ held'[w] = NoEntry
BY DEF TypeOK, Return, At, Goto

LEMMA BeginMoves ==
  ASSUME TypeOK, NEW w \in Workers, NEW entry, NEW r, Begin(w, entry, r)
  PROVE  pc'[w] = "check" /\ held'[w] = entry /\ reclaimed'[w] = r
BY DEF TypeOK, Begin, Goto

LEMMA WorkMoves ==
  ASSUME PipelineInvariant, NEW w \in Workers, Work(w) \/ Trouble(w)
  PROVE  Moves(w)
<1> USE DEF Moves, ReachesDecision, ReachesRelease, ReachesClaim, MovesEntry,
            MovesPending
<1>0. TypeOK
  BY DEF PipelineInvariant
<1>1. CASE \/ BeginDispatch(w) \/ CopyCommand(w) \/ CommitDispatch(w)
           \/ ReclaimStale(w)
  <2>1. /\ pc'[w] \in {"reclaim", "copy", "publish", "next"}
        /\ held'[w] = held[w]
    BY <1>0, <1>1 DEF TypeOK, BeginDispatch, CopyCommand, CommitDispatch,
                      ReclaimStale, Goto
  <2>2. pending' = pending /\ delivered' = delivered
    BY <1>1 DEF BeginDispatch, CopyCommand, CommitDispatch, ReclaimStale,
                reclaim_stale, enqueue, queueVars
  <2>3. QED
    BY <2>1, <2>2
<1>2. CASE ReserveNothing(w) \/ CopyFails(w)
  <2>1. pc'[w] \in {"dispatch", "publish"} /\ held'[w] = held[w]
    BY <1>0, <1>2, ContinueMoves DEF ReserveNothing, CopyFails
  <2>2. pending' = pending /\ delivered' = delivered
    BY <1>2 DEF ReserveNothing, CopyFails, enqueue, queueVars
  <2>3. QED
    BY <2>1, <2>2
<1>3. CASE ProcessReclaimed(w)
  <2>1. /\ pc[w] = "next" /\ pc'[w] = "check"
        /\ held'[w] = First(todo[w]) /\ reclaimed'[w] = TRUE
        /\ pending' = pending /\ delivered' = delivered
    BY <1>0, <1>3, BeginMoves DEF ProcessReclaimed, At, queueVars
  <2>2. First(todo[w]) \in todo[w]
    <3>1. todo[w] \in SUBSET Nat /\ todo[w] # {}
      BY <1>0, <1>3 DEF ProcessReclaimed, TypeOK
    <3>2. QED
      BY <3>1, FirstIsMember
  <2>3. QED
    BY <2>1, <2>2
<1>4. CASE ReserveNew(w)
  <2>1. PICK entry \in 1 .. Len(stream) : reserve(entry) /\ Begin(w, entry, FALSE)
    BY <1>4 DEF ReserveNew
  <2>2. pc[w] = "next" /\ pc'[w] = "check" /\ held'[w] = entry
    BY <1>0, <1>4, <2>1, BeginMoves DEF ReserveNew, At
  <2>3. /\ entry = delivered + 1 /\ delivered' = delivered + 1
        /\ delivered < Len(stream)
        /\ pending' = pending \cup {delivered + 1}
    BY <2>1 DEF reserve
  <2>4. delivered + 1 \notin pending
    BY <1>0 DEF TypeOK, QueueTypeOK
  <2>5. QED
    BY <2>2, <2>3, <2>4
<1>5. CASE AckDuplicate(w) \/ AckSuccess(w) \/ AckFailure(w)
  <2>1. /\ pc[w] \in {"drop", "ack", "settle"} /\ pc'[w] \in {"next", "dispatch"}
        /\ held'[w] = NoEntry
    BY <1>0, <1>5, ReturnMoves DEF AckDuplicate, AckSuccess, AckFailure
  <2>2. pending' = pending \ {held[w]} /\ delivered' = delivered
    BY <1>5 DEF AckDuplicate, AckSuccess, AckFailure, ack
  <2>3. QED
    BY <2>1, <2>2
<1>6. CASE AckFails(w)
  <2>1. pc[w] = "ack" /\ pc'[w] = "fail" /\ held'[w] = held[w]
    BY <1>0, <1>6, ContinueMoves DEF AckFails
  <2>2. \/ pending' = pending /\ delivered' = delivered
        \/ pending' = pending \ {held[w]} /\ delivered' = delivered
    BY <1>6 DEF AckFails, ack, queueVars
  <2>3. QED
    BY <2>1, <2>2
<1>7. CASE Evaluate(w)
  <2>1. pc'[w] = "store" /\ held'[w] = held[w]
    BY <1>0, <1>7 DEF Evaluate, TypeOK, Goto
  <2>2. pending' = pending /\ delivered' = delivered
    BY <1>7 DEF Evaluate, queueVars
  <2>3. QED
    BY <2>1, <2>2
<1>8. CASE EvaluateFails(w) \/ CommitFails(w)
  <2>1. pc'[w] = "fail" /\ held'[w] = held[w]
    BY <1>0, <1>8, ContinueMoves DEF EvaluateFails, CommitFails
  <2>2. pending' = pending /\ delivered' = delivered
    BY <1>8 DEF EvaluateFails, CommitFails, queueVars
  <2>3. QED
    BY <2>1, <2>2
<1>9. CASE CheckProcessed(w)
  <2>1. /\ pc[w] = "check" /\ held'[w] = held[w] /\ reclaimed'[w] = reclaimed[w]
        /\ pc'[w] = IF Command(w) \in processed THEN "drop" ELSE "claim"
    BY <1>0, <1>9, ContinueMoves DEF CheckProcessed
  <2>2. pending' = pending /\ delivered' = delivered
    BY <1>9 DEF CheckProcessed, queueVars
  <2>3. QED
    BY <2>1, <2>2 DEF ProcessSteps
<1>10. CASE ClaimAttempt(w)
  <2>1. pc'[w] = "evaluate" /\ held'[w] = held[w]
    BY <1>0, <1>10, ContinueMoves DEF ClaimAttempt
  <2>2. pending' = pending /\ delivered' = delivered
    BY <1>10 DEF ClaimAttempt, queueVars
  <2>3. QED
    BY <2>1, <2>2
<1>11. CASE ClaimRefused(w)
  <2>1. pc[w] = "claim" /\ pc'[w] = "drop" /\ held'[w] = held[w]
    BY <1>0, <1>11, ContinueMoves DEF ClaimRefused
  <2>2. /\ pending' = pending /\ delivered' = delivered /\ row' = row
        /\ ~ Eligible(Command(w), reclaimed[w])
    BY <1>11 DEF ClaimRefused, queueVars, storeVars
  <2>3. QED
    BY <2>1, <2>2 DEF ProcessSteps
<1>12. CASE CheckStored(w)
  <2>1. /\ pc[w] = "store" /\ held'[w] = held[w]
        /\ pc'[w] = IF Command(w) \in processed THEN "ack" ELSE "commit"
    BY <1>0, <1>12, ContinueMoves DEF CheckStored
  <2>2. pending' = pending /\ delivered' = delivered
    BY <1>12 DEF CheckStored, queueVars
  <2>3. QED
    BY <2>1, <2>2 DEF ProcessSteps
<1>13. CASE CommitSuccess(w)
  <2>1. pc[w] = "commit" /\ pc'[w] = "ack" /\ held'[w] = held[w]
    BY <1>0, <1>13, ContinueMoves DEF CommitSuccess
  <2>2. /\ pending' = pending /\ delivered' = delivered
        /\ StoreSuccess(Command(w), suiteStatus[w])
    BY <1>13 DEF CommitSuccess, queueVars
  <2>3. QED
    BY <2>1, <2>2 DEF ProcessSteps
<1>14. CASE CheckTerminal(w)
  <2>1. /\ pc[w] = "fail" /\ held'[w] = held[w]
        /\ pc'[w] = IF Command(w) \in processed THEN "deadLetter" ELSE "terminal"
    BY <1>0, <1>14, ContinueMoves DEF CheckTerminal
  <2>2. pending' = pending /\ delivered' = delivered
    BY <1>14 DEF CheckTerminal, queueVars
  <2>3. QED
    BY <2>1, <2>2 DEF ProcessSteps
<1>15. CASE CommitTerminal(w)
  <2>1. pc[w] = "terminal" /\ pc'[w] = "deadLetter" /\ held'[w] = held[w]
    BY <1>0, <1>15, ContinueMoves DEF CommitTerminal
  <2>2. /\ pending' = pending /\ delivered' = delivered
        /\ StoreTerminalFailure(Command(w))
    BY <1>15 DEF CommitTerminal, queueVars
  <2>3. QED
    BY <2>1, <2>2 DEF ProcessSteps
<1>16. CASE DeadLetter(w) \/ EnqueueRetry(w)
  <2>1. /\ pc'[w] = "settle" /\ held'[w] = held[w]
        /\ \/ pc[w] = "deadLetter"
           \/ pc[w] = "retry" /\ enqueue(retry(Command(w)))
    BY <1>0, <1>16, BudgetsAgree, ContinueMoves DEF EnqueueRetry
  <2>2. pending' = pending /\ delivered' = delivered
    BY <1>16 DEF DeadLetter, EnqueueRetry, dead_letter, enqueue
  <2>3. QED
    BY <2>1, <2>2 DEF ProcessSteps
<1>17. CASE CommitReset(w)
  <2>1. /\ pc[w] = "fail" /\ pc'[w] = "retry" /\ held'[w] = held[w]
        /\ ResetForRetry(Command(w))
    BY <1>0, <1>17, ContinueMoves DEF CommitReset
  <2>2. pending' = pending /\ delivered' = delivered
    BY <1>17 DEF CommitReset, queueVars
  <2>3. QED
    BY <2>1, <2>2
<1>18. CASE Crash(w)
  <2>1. pc'[w] = "dispatch" /\ held'[w] = NoEntry
    BY <1>0, <1>18 DEF Crash, TypeOK, Goto
  <2>2. pending' = pending /\ delivered' = delivered
    BY <1>18 DEF Crash, queueVars
  <2>3. QED
    BY <2>1, <2>2
<1>19. QED
  BY <1>1, <1>2, <1>3, <1>4, <1>5, <1>6, <1>7, <1>8, <1>9, <1>10, <1>11,
     <1>12, <1>13, <1>14, <1>15, <1>16, <1>17, <1>18
  DEF Work, Trouble

-----------------------------------------------------------------------------
(* Dead letters.  The strengthening: whoever is about to acknowledge a      *)
(* success or to add a dead letter has a command of a decided attempt.      *)

DecisionInvariant ==
  /\ PipelineInvariant /\ ProcessedMeansDecided
  /\ DecidedSteps /\ DeadLettersAreDecided

\* A worker that reaches such a step has a decided attempt.
LEMMA WorkDecides ==
  ASSUME PipelineInvariant, ProcessedMeansDecided, [StoreNext]_storeVars,
         StreamGrows, NEW w \in Workers, ReachesDecision(w),
         pc'[w] \in {"ack", "deadLetter"}
  PROVE  Decided(Command(w).attempt)'
<1>1. /\ pc[w] \in ProcessSteps /\ held'[w] = held[w]
      /\ \/ Command(w) \in processed
         \/ pc[w] = "commit" /\ StoreSuccess(Command(w), suiteStatus[w])
         \/ StoreTerminalFailure(Command(w))
  BY DEF ReachesDecision
<1>2. /\ Command(w)' = Command(w) /\ Command(w) \in EvaluationCommand
      /\ Decided(Command(w).attempt) => Decided(Command(w).attempt)'
  BY <1>1, KeptCommand
<1>3. StoreTypeOK
  BY DEF PipelineInvariant, TypeOK
<1>4. CASE Command(w) \in processed
  BY <1>2, <1>4 DEF ProcessedMeansDecided
<1>5. CASE pc[w] = "commit" /\ StoreSuccess(Command(w), suiteStatus[w])
  <2>1. suiteStatus[w] \in Verdicts
    BY <1>5 DEF PipelineInvariant, WorkIsKnown, IsReady
  <2>2. row'[Command(w).attempt] \in TERMINAL_STATUSES
    BY <1>2, <1>3, <1>5, <2>1, SuccessDecides
  <2>3. QED
    BY <1>2, <2>2 DEF Decided
<1>6. CASE StoreTerminalFailure(Command(w))
  <2>1. row'[Command(w).attempt] \in TERMINAL_STATUSES
    BY <1>2, <1>3, <1>6, TerminalFailureDecides
  <2>2. QED
    BY <1>2, <2>1 DEF Decided
<1>7. QED
  BY <1>1, <1>4, <1>5, <1>6

\* A worker that is not disturbed keeps what it knows.
LEMMA UndisturbedIsDecided ==
  ASSUME PipelineInvariant, DecidedSteps, [StoreNext]_storeVars, StreamGrows,
         NEW v \in Workers, pc'[v] = pc[v], held'[v] = held[v],
         pc[v] \in {"ack", "deadLetter"}
  PROVE  Decided(Command(v).attempt)'
<1>1. pc[v] \in ProcessSteps /\ Decided(Command(v).attempt)
  BY DEF DecidedSteps, ProcessSteps
<1>2. QED
  BY <1>1, KeptCommand

LEMMA StepDecidedSteps ==
  ASSUME PipelineInvariant, ProcessedMeansDecided, DecidedSteps, [Next]_vars
  PROVE  DecidedSteps'
<1>1. [StoreNext]_storeVars /\ StreamGrows /\ TypeOK
  BY StepIsStoreStep, StepReferencesGrow DEF PipelineInvariant
<1>2. ASSUME NEW w \in Workers, Work(w) \/ Trouble(w), NEW v \in Workers,
             pc'[v] \in {"ack", "deadLetter"}
      PROVE  Decided(Command(v).attempt)'
  <2>1. CASE v = w
    <3>1. ReachesDecision(w)
      BY <1>2, WorkMoves DEF Moves
    <3>2. QED
      BY <1>1, <1>2, <2>1, <3>1, WorkDecides
  <2>2. CASE v # w
    <3>1. pc'[v] = pc[v] /\ held'[v] = held[v]
      BY <1>1, <1>2, <2>2, OthersUndisturbed
    <3>2. QED
      BY <1>1, <1>2, <3>1, UndisturbedIsDecided
  <2>3. QED
    BY <2>1, <2>2
<1>3. ASSUME UNCHANGED workerVars, NEW v \in Workers,
             pc'[v] \in {"ack", "deadLetter"}
      PROVE  Decided(Command(v).attempt)'
  BY <1>1, <1>3, UndisturbedIsDecided DEF workerVars
<1>4. QED
  BY <1>2, <1>3 DEF Next, Open, Expire, vars, DecidedSteps

\* Only a worker at that step adds a dead letter.
LEMMA StepDeadLetters ==
  ASSUME PipelineInvariant, [Next]_vars
  PROVE  \/ dead' = dead
         \/ \E w \in Workers : pc[w] = "deadLetter" /\ dead' = dead \cup {Command(w)}
<1>1. ASSUME NEW w \in Workers, DeadLetter(w)
      PROVE  pc[w] = "deadLetter" /\ dead' = dead \cup {Command(w)}
  BY <1>1, BudgetsAgree DEF DeadLetter, Continue, At, dead_letter
<1>2. ASSUME NEW w \in Workers, Work(w) \/ Trouble(w)
      PROVE  dead' = dead \/ DeadLetter(w)
  BY <1>2
  DEF Work, Trouble, BeginDispatch, CopyCommand, CommitDispatch, ReclaimStale,
      ProcessReclaimed, ReserveNew, ReserveNothing, CheckProcessed,
      ClaimAttempt, ClaimRefused, AckDuplicate, Evaluate, EvaluateFails,
      CheckStored, CommitSuccess, AckSuccess, CheckTerminal, CommitTerminal,
      CommitReset, EnqueueRetry, AckFailure, CopyFails, CommitFails, AckFails,
      Crash, enqueue, reserve, ack, reclaim_stale, queueVars
<1>3. ASSUME NEW a \in Attempts, Open(a) PROVE dead' = dead
  BY <1>3 DEF Open, queueVars
<1>4. ASSUME NEW entry \in pending, Expire(entry) PROVE dead' = dead
  BY <1>4 DEF Expire, BecomeStale
<1>5. CASE UNCHANGED vars
  BY <1>5 DEF vars, queueVars
<1>6. QED
  BY <1>1, <1>2, <1>3, <1>4, <1>5 DEF Next

LEMMA StepDeadLettersAreDecided ==
  ASSUME DecisionInvariant, [Next]_vars
  PROVE  DeadLettersAreDecided'
<1>1. /\ PipelineInvariant /\ StoreTypeOK /\ [StoreNext]_storeVars
      /\ dead \subseteq EvaluationCommand
  BY StepIsStoreStep DEF DecisionInvariant, PipelineInvariant, TypeOK, QueueTypeOK
<1>2. \A c \in EvaluationCommand : Decided(c.attempt) => Decided(c.attempt)'
  BY <1>1, DecidedStays, CommandType DEF Decided
<1>3. ASSUME NEW c \in dead' PROVE Decided(c.attempt)'
  <2>1. CASE c \in dead
    BY <1>1, <1>2, <2>1 DEF DecisionInvariant, DeadLettersAreDecided
  <2>2. CASE c \notin dead
    <3>1. PICK w \in Workers : pc[w] = "deadLetter" /\ c = Command(w)
      BY <1>1, <2>2, StepDeadLetters
    <3>2. Decided(c.attempt)
      BY <3>1 DEF DecisionInvariant, DecidedSteps
    <3>3. c \in EvaluationCommand
      BY <1>1, <3>1, HeldCommand DEF ProcessSteps
    <3>4. QED
      BY <1>2, <3>2, <3>3
  <2>3. QED
    BY <2>1, <2>2
<1>4. QED
  BY <1>3 DEF DeadLettersAreDecided

LEMMA DecisionInvariantHolds == Spec => []DecisionInvariant
<1>1. Init => DecisionInvariant
  <2> SUFFICES ASSUME Init PROVE DecisionInvariant
    OBVIOUS
  <2>1. PipelineInvariant
    BY InitPipelineInvariant
  <2>2. ProcessedMeansDecided /\ DecidedSteps /\ DeadLettersAreDecided
    BY DEF Init, StoreInit, QueueInit, ProcessedMeansDecided, DecidedSteps,
           DeadLettersAreDecided
  <2>3. QED
    BY <2>1, <2>2 DEF DecisionInvariant
<1>2. DecisionInvariant /\ [Next]_vars => DecisionInvariant'
  <2> SUFFICES ASSUME DecisionInvariant, [Next]_vars PROVE DecisionInvariant'
    OBVIOUS
  <2>1. PipelineInvariant /\ ProcessedMeansDecided /\ DecidedSteps
    BY DEF DecisionInvariant
  <2>2. PipelineInvariant'
    BY <2>1, StepPipelineInvariant
  <2>3. ProcessedMeansDecided'
    BY <2>1, StepIsStoreStep, StepProcessedMeansDecided
    DEF PipelineInvariant, TypeOK
  <2>4. DecidedSteps'
    BY <2>1, StepDecidedSteps
  <2>5. DeadLettersAreDecided'
    BY StepDeadLettersAreDecided
  <2>6. QED
    BY <2>2, <2>3, <2>4, <2>5 DEF DecisionInvariant
<1>3. QED
  BY <1>1, <1>2, PTL DEF Spec

\* A command reaches the dead-work stream only when its attempt has a result
\* (retry_or_dead_letter comes after _store_terminal_failure in process),
\* entries that go stale under a live worker included.
THEOREM PipelineDeadLettersAreDecided == Spec => []DeadLettersAreDecided
BY DecisionInvariantHolds, PTL DEF DecisionInvariant


-----------------------------------------------------------------------------
(* Entries in memory.  From here on an entry goes stale only after the      *)
(* worker that had it has died.                                             *)

\* What a call does to the entries that its worker has in memory.
KeepsEntries == UNCHANGED <<held, todo, pending, stale>>

ReclaimsEntries(w) ==
  /\ held[w] = NoEntry /\ held' = held
  /\ todo' = [todo EXCEPT ![w] = stale]
  /\ pending' = pending /\ stale' = {}

BeginsEntry(w) ==
  /\ held[w] = NoEntry
  /\ \E entry \in todo[w] :
       /\ held' = [held EXCEPT ![w] = entry]
       /\ todo' = [todo EXCEPT ![w] = todo[w] \ {entry}]
  /\ pending' = pending /\ stale' = stale

ReservesEntry(w) ==
  /\ held[w] = NoEntry
  /\ held' = [held EXCEPT ![w] = delivered + 1]
  /\ pending' = pending \cup {delivered + 1}
  /\ todo' = todo /\ stale' = stale

AcksEntry(w) ==
  /\ held[w] # NoEntry
  /\ \/ held' = [held EXCEPT ![w] = NoEntry]
     \/ pc[w] = "ack" /\ held' = held
  /\ pending' = pending \ {held[w]} /\ stale' = stale \ {held[w]}
  /\ todo' = todo

DropsEntries(w) ==
  /\ held' = [held EXCEPT ![w] = NoEntry]
  /\ todo' = [todo EXCEPT ![w] = {}]
  /\ pending' = pending /\ stale' = stale

LEMMA WorkMovesEntries ==
  ASSUME PipelineInvariant, NEW w \in Workers, Work(w) \/ Trouble(w)
  PROVE  \/ KeepsEntries \/ ReclaimsEntries(w) \/ BeginsEntry(w)
         \/ ReservesEntry(w) \/ AcksEntry(w) \/ DropsEntries(w)
<1>0. /\ TypeOK /\ todo[w] \in SUBSET Nat
      /\ pc[w] \notin ProcessSteps => held[w] = NoEntry
      /\ pc[w] \in ProcessSteps => held[w] # NoEntry
  BY DEF PipelineInvariant, TypeOK
<1>1. CASE \/ BeginDispatch(w) \/ CopyCommand(w) \/ CommitDispatch(w)
           \/ ReserveNothing(w) \/ CopyFails(w)
  BY <1>1 DEF KeepsEntries, BeginDispatch, CopyCommand, CommitDispatch,
              ReserveNothing, CopyFails, Continue, enqueue, queueVars
<1>2. CASE \/ CheckProcessed(w) \/ ClaimAttempt(w) \/ ClaimRefused(w)
           \/ Evaluate(w) \/ EvaluateFails(w) \/ CheckStored(w)
           \/ CommitSuccess(w) \/ CommitFails(w)
  BY <1>2 DEF KeepsEntries, CheckProcessed, ClaimAttempt, ClaimRefused,
              Evaluate, EvaluateFails, CheckStored, CommitSuccess, CommitFails,
              Continue, queueVars
<1>3. CASE \/ CheckTerminal(w) \/ CommitTerminal(w) \/ DeadLetter(w)
           \/ CommitReset(w) \/ EnqueueRetry(w)
  BY <1>3 DEF KeepsEntries, CheckTerminal, CommitTerminal, DeadLetter,
              CommitReset, EnqueueRetry, Requeues, Continue, dead_letter, enqueue,
              queueVars
<1>4. CASE ReclaimStale(w)
  <2>1. held[w] = NoEntry
    BY <1>0, <1>4 DEF ReclaimStale, At, ProcessSteps
  <2>2. QED
    BY <1>4, <2>1 DEF ReclaimsEntries, ReclaimStale, reclaim_stale
<1>5. CASE ProcessReclaimed(w)
  <2>1. held[w] = NoEntry
    BY <1>0, <1>5 DEF ProcessReclaimed, At, ProcessSteps
  <2>2. First(todo[w]) \in todo[w]
    BY <1>0, <1>5, FirstIsMember DEF ProcessReclaimed
  <2>3. /\ held' = [held EXCEPT ![w] = First(todo[w])]
        /\ todo' = [todo EXCEPT ![w] = todo[w] \ {First(todo[w])}]
        /\ pending' = pending /\ stale' = stale
    BY <1>0, <1>5 DEF ProcessReclaimed, Begin, queueVars, TypeOK
  <2>4. QED
    BY <2>1, <2>2, <2>3 DEF BeginsEntry
<1>6. CASE ReserveNew(w)
  <2>1. held[w] = NoEntry
    BY <1>0, <1>6 DEF ReserveNew, At, ProcessSteps
  <2>2. QED
    BY <1>6, <2>1 DEF ReservesEntry, ReserveNew, Begin, reserve
<1>7. CASE AckDuplicate(w) \/ AckSuccess(w) \/ AckFailure(w)
  <2>1. held[w] # NoEntry
    BY <1>0, <1>7 DEF AckDuplicate, AckSuccess, AckFailure, Return, At,
                      ProcessSteps
  <2>2. QED
    BY <1>7, <2>1 DEF AcksEntry, AckDuplicate, AckSuccess, AckFailure, Return,
                      ack
<1>8. CASE AckFails(w)
  <2>1. pc[w] = "ack" /\ held[w] # NoEntry
    BY <1>0, <1>8 DEF AckFails, Continue, At, ProcessSteps
  <2>2. QED
    BY <1>8, <2>1 DEF AcksEntry, KeepsEntries, AckFails, Continue, ack, queueVars
<1>9. CASE Crash(w)
  BY <1>9 DEF DropsEntries, Crash, queueVars
<1>10. QED
  BY <1>1, <1>2, <1>3, <1>4, <1>5, <1>6, <1>7, <1>8, <1>9 DEF Work, Trouble

\* The part of the invariant that speaks of one worker.
HoldsPending(v) ==
  /\ todo[v] \subseteq pending
  /\ held[v] \notin todo[v]
  /\ held[v] # NoEntry => held[v] \in pending \/ Decided(Command(v).attempt)
  /\ Holding(v) \cap stale = {}

LEMMA HoldingsByWorker ==
  HoldingsArePending <=> ExclusiveHolding /\ \A v \in Workers : HoldsPending(v)
BY DEF HoldingsArePending, HoldsPending

\* What was decided of the entry in hand stays so.
HandsStayDecided ==
  \A v \in Workers :
    held[v] # NoEntry /\ held'[v] = held[v] /\ Decided(Command(v).attempt)
      => Decided(Command(v).attempt)'

\* The memories as the type invariant leaves them.
EntriesTyped ==
  /\ held \in [Workers -> Nat] /\ todo \in [Workers -> SUBSET (Nat \ {NoEntry})]
  /\ pending \subseteq Nat \ {NoEntry} /\ stale \subseteq pending
  /\ delivered \in Nat /\ delivered + 1 \notin pending
  /\ \A v \in Workers : held[v] # delivered + 1 /\ delivered + 1 \notin todo[v]

LEMMA TypedEntries == TypeOK => EntriesTyped
<1> SUFFICES ASSUME TypeOK PROVE EntriesTyped
  OBVIOUS
<1>1. /\ delivered \in Nat /\ pending \subseteq 1 .. delivered
      /\ stale \subseteq pending
      /\ held \in [Workers -> 0 .. delivered]
      /\ todo \in [Workers -> SUBSET (1 .. delivered)]
  BY DEF TypeOK, QueueTypeOK
<1>2. /\ 1 .. delivered \subseteq Nat \ {NoEntry} /\ 0 .. delivered \subseteq Nat
      /\ delivered + 1 \notin 0 .. delivered /\ delivered + 1 \notin 1 .. delivered
  BY <1>1 DEF NoEntry
<1>3. held \in [Workers -> Nat] /\ todo \in [Workers -> SUBSET (Nat \ {NoEntry})]
  BY <1>1, <1>2
<1>4. QED
  BY <1>1, <1>2, <1>3 DEF EntriesTyped

LEMMA KeepsEntriesKeepsHoldings ==
  ASSUME HoldingsArePending, HandsStayDecided, KeepsEntries
  PROVE  HoldingsArePending'
<1> USE HoldingsByWorker DEF KeepsEntries
<1>1. ExclusiveHolding'
  BY DEF ExclusiveHolding, Holding
<1>2. ASSUME NEW v \in Workers PROVE HoldsPending(v)'
  <2>1. HoldsPending(v)
    OBVIOUS
  <2>2. Holding(v)' \cap stale' = {}
    BY <2>1 DEF HoldsPending, Holding
  <2>3. QED
    BY <2>1, <2>2 DEF HoldsPending, HandsStayDecided
<1>3. (ExclusiveHolding /\ \A v \in Workers : HoldsPending(v))'
  BY <1>1, <1>2
<1>4. QED
  BY <1>3 DEF HoldingsArePending, HoldsPending


\* The invariant, put together again after a step.
LEMMA HoldingsAfterStep ==
  ASSUME ExclusiveHolding', \A v \in Workers : HoldsPending(v)'
  PROVE  HoldingsArePending'
BY DEF HoldingsArePending, HoldsPending

LEMMA ReclaimKeepsHoldings ==
  ASSUME HoldingsArePending, HandsStayDecided, EntriesTyped,
         NEW w \in Workers, ReclaimsEntries(w)
  PROVE  HoldingsArePending'
<1>1. /\ held' = held /\ held[w] = NoEntry /\ todo'[w] = stale
      /\ \A v \in Workers \ {w} : todo'[v] = todo[v]
      /\ pending' = pending /\ stale' = {}
      /\ stale \subseteq pending /\ NoEntry \notin stale
  BY DEF ReclaimsEntries, EntriesTyped
<1>2. ExclusiveHolding /\ \A v \in Workers : HoldsPending(v)
  BY HoldingsByWorker
<1>3. /\ Holding(w)' = stale
      /\ \A v \in Workers \ {w} : Holding(v)' = Holding(v)
  BY <1>1 DEF Holding
<1>4. ExclusiveHolding'
  <2>1. \A v \in Workers : Holding(v) \cap stale = {}
    BY <1>2 DEF HoldsPending
  <2>2. ASSUME NEW u \in Workers, NEW v \in Workers, u # v
        PROVE  (Holding(u) \cap Holding(v))' = {}
    <3>1. CASE u = w
      BY <1>3, <2>1, <2>2, <3>1
    <3>2. CASE v = w
      BY <1>3, <2>1, <2>2, <3>2
    <3>3. CASE u # w /\ v # w
      BY <1>2, <1>3, <2>2, <3>3 DEF ExclusiveHolding
    <3>4. QED
      BY <3>1, <3>2, <3>3
  <2>3. QED
    BY <2>2 DEF ExclusiveHolding
<1>5. ASSUME NEW v \in Workers PROVE HoldsPending(v)'
  <2>1. HoldsPending(v)
    BY <1>2
  <2>2. CASE v = w
    BY <1>1, <2>2 DEF HoldsPending
  <2>3. CASE v # w
    BY <1>1, <2>1, <2>3 DEF HoldsPending, HandsStayDecided
  <2>4. QED
    BY <2>2, <2>3
<1>6. QED
  BY <1>4, <1>5, HoldingsAfterStep

LEMMA BeginKeepsHoldings ==
  ASSUME HoldingsArePending, HandsStayDecided, EntriesTyped,
         NEW w \in Workers, BeginsEntry(w)
  PROVE  HoldingsArePending'
<1>1. PICK entry \in todo[w] :
        /\ held' = [held EXCEPT ![w] = entry]
        /\ todo' = [todo EXCEPT ![w] = todo[w] \ {entry}]
  BY DEF BeginsEntry
<1>2. /\ held'[w] = entry /\ todo'[w] = todo[w] \ {entry} /\ held[w] = NoEntry
      /\ entry # NoEntry
      /\ \A v \in Workers \ {w} : todo'[v] = todo[v] /\ held'[v] = held[v]
      /\ pending' = pending /\ stale' = stale
  BY <1>1 DEF BeginsEntry, EntriesTyped
<1>3. ExclusiveHolding /\ \A v \in Workers : HoldsPending(v)
  BY HoldingsByWorker
<1>4. \A v \in Workers : Holding(v)' = Holding(v)
  BY <1>2 DEF Holding
<1>5. ExclusiveHolding'
  BY <1>3, <1>4 DEF ExclusiveHolding
<1>6. ASSUME NEW v \in Workers PROVE HoldsPending(v)'
  <2>1. HoldsPending(v) /\ Holding(v)' = Holding(v)
    BY <1>3, <1>4
  <2>2. CASE v = w
    BY <1>2, <2>1, <2>2 DEF HoldsPending
  <2>3. CASE v # w
    BY <1>2, <2>1, <2>3 DEF HoldsPending, HandsStayDecided
  <2>4. QED
    BY <2>2, <2>3
<1>7. QED
  BY <1>5, <1>6, HoldingsAfterStep

LEMMA ReserveKeepsHoldings ==
  ASSUME HoldingsArePending, HandsStayDecided, EntriesTyped,
         NEW w \in Workers, ReservesEntry(w)
  PROVE  HoldingsArePending'
<1> DEFINE entry == delivered + 1
<1>1. /\ held'[w] = entry /\ held[w] = NoEntry
      /\ todo' = todo /\ pending' = pending \cup {entry} /\ stale' = stale
      /\ \A v \in Workers \ {w} : held'[v] = held[v]
  BY DEF ReservesEntry, EntriesTyped
<1>2. /\ entry # NoEntry /\ entry \notin stale
      /\ \A v \in Workers : entry \notin Holding(v) /\ entry \notin todo[v]
  BY DEF EntriesTyped, Holding, NoEntry
<1>3. ExclusiveHolding /\ \A v \in Workers : HoldsPending(v)
  BY HoldingsByWorker
<1> HIDE DEF entry
<1>4. /\ Holding(w)' = Holding(w) \cup {entry}
      /\ \A v \in Workers \ {w} : Holding(v)' = Holding(v)
  BY <1>1, <1>2 DEF Holding
<1>5. ExclusiveHolding'
  BY <1>2, <1>3, <1>4 DEF ExclusiveHolding
<1>6. ASSUME NEW v \in Workers PROVE HoldsPending(v)'
  <2>1. HoldsPending(v)
    BY <1>3
  <2>2. (Holding(v) \cap stale)' = {}
    BY <1>1, <1>2, <1>4, <2>1 DEF HoldsPending
  <2>3. CASE v = w
    BY <1>1, <1>2, <2>1, <2>2, <2>3 DEF HoldsPending
  <2>4. CASE v # w
    BY <1>1, <2>1, <2>2, <2>4 DEF HoldsPending, HandsStayDecided
  <2>5. QED
    BY <2>3, <2>4
<1>7. QED
  BY <1>5, <1>6, HoldingsAfterStep

\* Only the worker that had the entry loses it, and no other one had it.
LEMMA AckKeepsHoldings ==
  ASSUME HoldingsArePending, HandsStayDecided, EntriesTyped, DecidedSteps,
         NEW w \in Workers, AcksEntry(w)
  PROVE  HoldingsArePending'
<1>1. /\ todo' = todo /\ held[w] # NoEntry
      /\ pending' = pending \ {held[w]} /\ stale' = stale \ {held[w]}
      /\ \A v \in Workers \ {w} : held'[v] = held[v]
      /\ held'[w] = NoEntry \/ (pc[w] = "ack" /\ held'[w] = held[w])
  <2>1. held \in [Workers -> Nat]
    BY DEF EntriesTyped
  <2>2. CASE held' = [held EXCEPT ![w] = NoEntry]
    BY <2>1, <2>2 DEF AcksEntry
  <2>3. CASE pc[w] = "ack" /\ held' = held
    BY <2>3 DEF AcksEntry
  <2>4. QED
    BY <2>2, <2>3 DEF AcksEntry
<1>2. ExclusiveHolding /\ \A v \in Workers : HoldsPending(v)
  BY HoldingsByWorker
<1>3. \A v \in Workers : Holding(v)' \subseteq Holding(v)
  BY <1>1 DEF Holding
<1>4. \A v \in Workers \ {w} : held[w] \notin Holding(v)
  <2>1. held[w] \in Holding(w)
    BY <1>1 DEF Holding
  <2>2. QED
    BY <1>2, <2>1 DEF ExclusiveHolding
<1>5. ExclusiveHolding'
  BY <1>2, <1>3 DEF ExclusiveHolding
<1>6. ASSUME NEW v \in Workers PROVE HoldsPending(v)'
  <2>1. HoldsPending(v)
    BY <1>2
  <2>2. (Holding(v) \cap stale)' = {}
    BY <1>1, <1>3, <2>1 DEF HoldsPending
  <2>3. CASE v = w
    <3>1. held'[w] # NoEntry => Decided(Command(w).attempt)'
      <4> SUFFICES ASSUME held'[w] # NoEntry PROVE Decided(Command(w).attempt)'
        OBVIOUS
      <4>1. pc[w] = "ack" /\ held'[w] = held[w]
        BY <1>1
      <4>2. Decided(Command(w).attempt)
        BY <4>1 DEF DecidedSteps
      <4>3. QED
        BY <1>1, <4>1, <4>2 DEF HandsStayDecided
    <3>2. QED
      BY <1>1, <2>1, <2>2, <2>3, <3>1 DEF HoldsPending, EntriesTyped
  <2>4. CASE v # w
    <3>1. held[w] \notin todo[v] /\ (held[v] # NoEntry => held[v] # held[w])
      BY <1>4, <2>4 DEF Holding
    <3>2. QED
      BY <1>1, <2>1, <2>2, <2>4, <3>1 DEF HoldsPending, HandsStayDecided
  <2>5. QED
    BY <2>3, <2>4
<1>7. QED
  BY <1>5, <1>6, HoldingsAfterStep

LEMMA DropKeepsHoldings ==
  ASSUME HoldingsArePending, HandsStayDecided, EntriesTyped,
         NEW w \in Workers, DropsEntries(w)
  PROVE  HoldingsArePending'
<1>1. /\ held'[w] = NoEntry /\ todo'[w] = {}
      /\ \A v \in Workers \ {w} : held'[v] = held[v] /\ todo'[v] = todo[v]
      /\ pending' = pending /\ stale' = stale
  BY DEF DropsEntries, EntriesTyped
<1>2. ExclusiveHolding /\ \A v \in Workers : HoldsPending(v)
  BY HoldingsByWorker
<1>3. \A v \in Workers : Holding(v)' \subseteq Holding(v)
  BY <1>1 DEF Holding
<1>4. ExclusiveHolding'
  BY <1>2, <1>3 DEF ExclusiveHolding
<1>5. ASSUME NEW v \in Workers PROVE HoldsPending(v)'
  <2>1. HoldsPending(v) /\ (Holding(v) \cap stale)' = {}
    BY <1>1, <1>2, <1>3 DEF HoldsPending
  <2>2. CASE v = w
    BY <1>1, <2>1, <2>2 DEF HoldsPending
  <2>3. CASE v # w
    BY <1>1, <2>1, <2>3 DEF HoldsPending, HandsStayDecided
  <2>4. QED
    BY <2>2, <2>3
<1>6. QED
  BY <1>4, <1>5, HoldingsAfterStep

\* An entry that no live worker has goes stale.
LEMMA ExpireKeepsHoldings ==
  ASSUME HoldingsArePending, HandsStayDecided, ~ PrematureReclaim,
         NEW entry \in pending, Expire(entry)
  PROVE  HoldingsArePending'
<1>1. /\ held' = held /\ todo' = todo /\ pending' = pending
      /\ stale' = stale \cup {entry}
      /\ \A v \in Workers : entry \notin Holding(v)
  BY DEF Expire, BecomeStale, workerVars
<1>2. ExclusiveHolding /\ \A v \in Workers : HoldsPending(v)
  BY HoldingsByWorker
<1>3. \A v \in Workers : Holding(v)' = Holding(v)
  BY <1>1 DEF Holding
<1>4. ExclusiveHolding'
  BY <1>2, <1>3 DEF ExclusiveHolding
<1>5. ASSUME NEW v \in Workers PROVE HoldsPending(v)'
  <2>1. HoldsPending(v)
    BY <1>2
  <2>2. (Holding(v) \cap stale)' = {}
    BY <1>1, <1>3, <2>1 DEF HoldsPending
  <2>3. QED
    BY <1>1, <2>1, <2>2 DEF HoldsPending, HandsStayDecided
<1>6. QED
  BY <1>4, <1>5, HoldingsAfterStep

\* An opening touches no entry, and a step of nobody none either.
LEMMA StepHoldings ==
  ASSUME PipelineInvariant, HoldingsArePending, DecidedSteps,
         ~ PrematureReclaim, [Next]_vars
  PROVE  HoldingsArePending'
<1>1. EntriesTyped
  BY TypedEntries DEF PipelineInvariant
<1>2. HandsStayDecided
  <2>1. [StoreNext]_storeVars /\ StreamGrows
    BY StepIsStoreStep, StepReferencesGrow
  <2>2. \A v \in Workers : held[v] # NoEntry => pc[v] \in ProcessSteps
    BY DEF PipelineInvariant, TypeOK
  <2>3. QED
    BY <2>1, <2>2, KeptCommand DEF HandsStayDecided
<1>3. ASSUME NEW w \in Workers, Work(w) \/ Trouble(w) PROVE HoldingsArePending'
  BY <1>1, <1>2, <1>3, WorkMovesEntries, KeepsEntriesKeepsHoldings,
     ReclaimKeepsHoldings, BeginKeepsHoldings, ReserveKeepsHoldings,
     AckKeepsHoldings, DropKeepsHoldings
<1>4. ASSUME NEW a \in Attempts, Open(a) PROVE HoldingsArePending'
  <2>1. KeepsEntries
    BY <1>4 DEF Open, queueVars, workerVars, KeepsEntries
  <2>2. QED
    BY <1>2, <2>1, KeepsEntriesKeepsHoldings
<1>5. ASSUME NEW entry \in pending, Expire(entry) PROVE HoldingsArePending'
  BY <1>2, <1>5, ExpireKeepsHoldings
<1>6. CASE UNCHANGED vars
  <2>1. KeepsEntries
    BY <1>6 DEF vars, queueVars, workerVars, KeepsEntries
  <2>2. QED
    BY <1>2, <2>1, KeepsEntriesKeepsHoldings
<1>7. QED
  BY <1>3, <1>4, <1>5, <1>6 DEF Next


-----------------------------------------------------------------------------
(* What a step does to the rows, the outbox and the copies.                 *)

\* A row is queued by the opening of its attempt or by a reset, and runs from
\* a claim on.
RowMoves(w) ==
  \/ row' = row
  \/ ClaimAttempt(w) \/ CommitReset(w)
  \/ /\ Command(w) \in EvaluationCommand
     /\ \E p \in TERMINAL_STATUSES : PersistResult(Command(w).attempt, p)

LEMMA WorkMovesRows ==
  ASSUME PipelineInvariant, NEW w \in Workers, Work(w) \/ Trouble(w)
  PROVE  RowMoves(w)
<1>1. pc[w] \in ProcessSteps => Command(w) \in EvaluationCommand
  BY HeldCommand
<1>2. CASE CommitSuccess(w) \/ CommitFails(w)
  <2>1. pc[w] = "commit" /\ (row' = row \/ StoreSuccess(Command(w), suiteStatus[w]))
    BY <1>2 DEF CommitSuccess, CommitFails, Continue, At, storeVars
  <2>2. Command(w) \in EvaluationCommand /\ suiteStatus[w] \in Verdicts
    BY <1>1, <2>1 DEF ProcessSteps, PipelineInvariant, WorkIsKnown, IsReady
  <2>3. suiteStatus[w] \in TERMINAL_STATUSES
    BY <2>2
  <2>4. QED
    BY <2>1, <2>2, <2>3 DEF RowMoves, StoreSuccess
<1>3. CASE CommitTerminal(w)
  <2>1. pc[w] = "terminal" /\ PersistResult(Command(w).attempt, "INTERNAL_ERROR")
    BY <1>3 DEF CommitTerminal, Continue, At, StoreTerminalFailure
  <2>2. QED
    BY <1>1, <2>1 DEF RowMoves, ProcessSteps, TERMINAL_STATUSES
<1>4. CASE ClaimAttempt(w) \/ CommitReset(w)
  BY <1>4 DEF RowMoves
<1>5. CASE ~ (\/ CommitSuccess(w) \/ CommitFails(w) \/ CommitTerminal(w)
              \/ ClaimAttempt(w) \/ CommitReset(w))
  <2>1. row' = row
    BY <1>5
    DEF Work, Trouble, BeginDispatch, CopyCommand, CommitDispatch, ReclaimStale,
        ProcessReclaimed, ReserveNew, ReserveNothing, CheckProcessed,
        ClaimRefused, AckDuplicate, Evaluate, EvaluateFails,
        CheckStored, AckSuccess, CheckTerminal, DeadLetter,
        EnqueueRetry, AckFailure, CopyFails, AckFails, Crash,
        MarkPublished, storeVars
  <2>2. QED
    BY <2>1 DEF RowMoves
<1>6. QED
  BY <1>2, <1>3, <1>4, <1>5

LEMMA WorkChangesRow ==
  ASSUME PipelineInvariant, NEW w \in Workers, Work(w) \/ Trouble(w),
         NEW a \in Attempts, row'[a] \in {"QUEUED", "RUNNING"}
  PROVE  \/ row'[a] = row[a]
         \/ /\ ClaimAttempt(w) /\ Command(w).attempt = a
            /\ row[a] \in {"QUEUED", "RUNNING"} /\ row'[a] = "RUNNING"
         \/ /\ CommitReset(w) /\ Command(w).attempt = a
            /\ row[a] = "RUNNING" /\ row'[a] = "QUEUED"
<1>1. row \in [Attempts -> RowPhases] /\ RowMoves(w)
  BY WorkMovesRows DEF PipelineInvariant, TypeOK, StoreTypeOK
<1>2. CASE row' = row
  BY <1>2
<1>3. CASE ClaimAttempt(w)
  <2>1. /\ row[Command(w).attempt] \in {"QUEUED", "RUNNING"}
        /\ row' = [row EXCEPT ![Command(w).attempt] = "RUNNING"]
    BY <1>3 DEF ClaimAttempt, Claim, Eligible
  <2>2. QED
    BY <1>1, <1>3, <2>1
<1>4. CASE CommitReset(w)
  <2>1. row' = [row EXCEPT ![Command(w).attempt] = IF @ = "RUNNING" THEN "QUEUED" ELSE @]
    BY <1>4 DEF CommitReset, ResetForRetry
  <2>2. QED
    BY <1>1, <1>4, <2>1
<1>5. CASE /\ Command(w) \in EvaluationCommand
           /\ \E p \in TERMINAL_STATUSES : PersistResult(Command(w).attempt, p)
  BY <1>1, <1>5 DEF PersistResult, TERMINAL_STATUSES
<1>6. QED
  BY <1>1, <1>2, <1>3, <1>4, <1>5 DEF RowMoves

\* The outbox is only appended to.
LEMMA OutboxGrows ==
  ASSUME StoreTypeOK, [StoreNext]_storeVars
  PROVE  \A i \in DOMAIN outbox : i \in DOMAIN outbox' /\ outbox'[i] = outbox[i]
<1>1. CASE outbox' = outbox
  BY <1>1
<1>2. ASSUME NEW a \in Attempts, OpenAttempt(a)
      PROVE  \A i \in DOMAIN outbox : i \in DOMAIN outbox' /\ outbox'[i] = outbox[i]
  <2> DEFINE first == [attempt |-> a, retryIndex |-> 0]
  <2>1. outbox \in Seq(EvaluationCommand) /\ outbox' = Append(outbox, first)
    BY <1>2 DEF StoreTypeOK, OpenAttempt
  <2>2. first \in EvaluationCommand
    BY DEF EvaluationCommand
  <2> HIDE DEF first
  <2>3. QED
    BY <2>1, <2>2
<1>3. QED
  BY <1>1, <1>2
  DEF StoreNext, storeVars, Transaction, Claim, StoreSuccess,
      StoreTerminalFailure, ResetForRetry, MarkPublished

\* A position is copied together with the new entry of the stream, and is
\* published only if it was copied.
LEMMA WorkDispatches ==
  ASSUME PipelineInvariant, NEW w \in Workers, Work(w) \/ Trouble(w)
  PROVE  /\ published' \subseteq published \cup copied[w]
         /\ \A i \in copied'[w] : i \in copied[w] \/ enqueue(outbox[i])
<1>1. copied \in [Workers -> SUBSET (DOMAIN outbox)]
  BY DEF PipelineInvariant, TypeOK
<1>2. CASE CommitDispatch(w)
  BY <1>1, <1>2 DEF CommitDispatch, MarkPublished, Marked
<1>3. CASE CopyCommand(w)
  BY <1>1, <1>3 DEF CopyCommand, storeVars
<1>4. CASE Crash(w)
  BY <1>1, <1>4 DEF Crash, storeVars
<1>5. CASE ~ (CommitDispatch(w) \/ CopyCommand(w) \/ Crash(w))
  <2>1. published' = published /\ copied' = copied
    BY <1>5
    DEF Work, Trouble, BeginDispatch, ReclaimStale, ProcessReclaimed,
        ReserveNew, ReserveNothing, CheckProcessed, ClaimAttempt, ClaimRefused,
        AckDuplicate, Evaluate, EvaluateFails, CheckStored, CommitSuccess,
        AckSuccess, CheckTerminal, CommitTerminal, DeadLetter, CommitReset,
        EnqueueRetry, AckFailure, CopyFails, CommitFails, AckFails, storeVars,
        Requeues, Continue, Begin, Return, Claim, StoreSuccess, StoreTerminalFailure,
        ResetForRetry
  <2>2. QED
    BY <2>1
<1>6. QED
  BY <1>2, <1>3, <1>4, <1>5

LEMMA OthersReclaimed ==
  ASSUME TypeOK, NEW w \in Workers, NEW v \in Workers \ {w},
         Work(w) \/ Trouble(w)
  PROVE  reclaimed'[v] = reclaimed[v]
<1>1. reclaimed \in [Workers -> BOOLEAN]
  BY DEF TypeOK
<1>2. \/ reclaimed' = reclaimed
      \/ \E r : reclaimed' = [reclaimed EXCEPT ![w] = r]
  BY DEF Work, Trouble, BeginDispatch, CopyCommand, CommitDispatch,
      ReclaimStale, ProcessReclaimed, ReserveNew, ReserveNothing,
      CheckProcessed, ClaimAttempt, ClaimRefused, AckDuplicate, Evaluate,
      EvaluateFails, CheckStored, CommitSuccess, AckSuccess, CheckTerminal,
      CommitTerminal, DeadLetter, CommitReset, EnqueueRetry, AckFailure,
      CopyFails, CommitFails, AckFails, Crash, Requeues, Continue, Begin, Return
<1>3. QED
  BY <1>1, <1>2


-----------------------------------------------------------------------------
(* Work that waits.  The two ways in which a queued attempt is safe, and    *)
(* the one in which a running attempt is.                                   *)

Unsent(a) ==
  \E i \in Unpublished :
    outbox[i].attempt = a /\ \A w \in Workers : i \notin copied[w]

Streamed(a) ==
  \E entry \in 1 .. Len(stream) : Deliverable(a, entry) /\ Safe(entry)

Rerun(a) ==
  \E entry \in pending : stream[entry].attempt = a /\ Rerunnable(entry)

LEMMA SafeByAttempt ==
  /\ QueuedWorkIsSafe <=>
       \A a \in Attempts : row[a] = "QUEUED" => Unsent(a) \/ Streamed(a)
  /\ RunningWorkIsSafe <=> \A a \in Attempts : row[a] = "RUNNING" => Rerun(a)
BY DEF QueuedWorkIsSafe, RunningWorkIsSafe, Unsent, Streamed, Rerun

\* What a step works with.
SafeStep ==
  /\ PipelineInvariant /\ PipelineInvariant'
  /\ [StoreNext]_storeVars /\ StreamGrows
  /\ ProcessedMeansDecided /\ DecidedSteps /\ HoldingsArePending

\* A command that was just added to the stream has been given to nobody.
LEMMA NewEntryIsSafe ==
  ASSUME PipelineInvariant, PipelineInvariant', NEW a,
         NEW c \in EvaluationCommand, enqueue(c), c.attempt = a
  PROVE  Streamed(a)'
<1> DEFINE entry == Len(stream) + 1
<1>1. /\ stream \in Seq(EvaluationCommand) /\ delivered \in 0 .. Len(stream)
      /\ held' \in [Workers -> 0 .. delivered']
  BY DEF PipelineInvariant, TypeOK, QueueTypeOK
<1>2. stream' = Append(stream, c) /\ delivered' = delivered
  BY DEF enqueue
<1>3. /\ entry \in 1 .. Len(stream') /\ stream'[entry] = c
      /\ entry > delivered'
  BY <1>1, <1>2
<1>4. \A w \in Workers : held'[w] # entry
  BY <1>1, <1>2
<1> HIDE DEF entry
<1>5. QED
  BY <1>3, <1>4 DEF Streamed, Deliverable, Safe

\* A command in the outbox waits there until it is in the stream.
LEMMA UnsentStays ==
  ASSUME SafeStep, NEW a, Unsent(a), NEW w \in Workers, Work(w) \/ Trouble(w)
  PROVE  Unsent(a)' \/ Streamed(a)'
<1>1. PICK i \in Unpublished :
        outbox[i].attempt = a /\ \A v \in Workers : i \notin copied[v]
  BY DEF Unsent
<1>2. StoreTypeOK /\ TypeOK /\ [StoreNext]_storeVars
  BY DEF SafeStep, PipelineInvariant, TypeOK
<1>3. /\ i \in DOMAIN outbox /\ i \notin published
      /\ i \in DOMAIN outbox' /\ outbox'[i] = outbox[i]
  BY <1>1, <1>2, OutboxGrows DEF Unpublished
<1>4. /\ published' \subseteq published \cup copied[w]
      /\ \A j \in copied'[w] : j \in copied[w] \/ enqueue(outbox[j])
  BY WorkDispatches DEF SafeStep
<1>5. CASE i \in copied'[w]
  <2>1. enqueue(outbox[i])
    BY <1>1, <1>4, <1>5
  <2>2. outbox[i] \in EvaluationCommand
    BY <1>2, <1>3 DEF StoreTypeOK
  <2>3. QED
    BY <1>1, <2>1, <2>2, NewEntryIsSafe DEF SafeStep
<1>6. CASE i \notin copied'[w]
  <2>1. \A v \in Workers : i \notin copied'[v]
    BY <1>1, <1>2, <1>6, OthersUndisturbed
  <2>2. i \in DOMAIN outbox' \ published'
    BY <1>1, <1>3, <1>4
  <2>3. QED
    BY <1>1, <1>3, <2>1, <2>2 DEF Unsent, Unpublished
<1>7. QED
  BY <1>5, <1>6

\* Nobody takes an entry of an undecided attempt off the pending list unless
\* process has found a reason to give it up.
LEMMA DeliverableStays ==
  ASSUME SafeStep, NEW a \in Attempts, ~ Decided(a),
         NEW entry \in 1 .. Len(stream), Deliverable(a, entry),
         NEW w \in Workers, Work(w) \/ Trouble(w),
         held[w] = entry => pc[w] \notin {"drop", "settle"}
  PROVE  /\ Deliverable(a, entry)' /\ entry \in 1 .. Len(stream')
         /\ entry \in pending => entry \in pending'
<1>1. /\ stream \in Seq(EvaluationCommand) /\ delivered \in Nat
      /\ stream' \in Seq(EvaluationCommand) /\ delivered' \in Nat
  BY DEF SafeStep, PipelineInvariant, TypeOK, QueueTypeOK
<1>2. entry \in DOMAIN stream' /\ stream'[entry] = stream[entry]
  BY <1>1 DEF SafeStep, StreamGrows
<1>3. /\ entry \in pending => entry \in pending'
      /\ entry > delivered => entry > delivered' \/ entry \in pending'
  <2>1. MovesPending(w)
    BY WorkMoves DEF Moves, SafeStep
  <2>2. CASE pending' = pending /\ delivered' = delivered
    BY <2>2
  <2>3. CASE /\ delivered' = delivered + 1
             /\ pending' = pending \cup {delivered + 1}
    BY <1>1, <2>3
  <2>4. CASE /\ pc[w] \in {"drop", "ack", "settle"}
             /\ pending' = pending \ {held[w]} /\ delivered' = delivered
    <3>1. held[w] # entry
      <4> SUFFICES ASSUME held[w] = entry PROVE FALSE
        OBVIOUS
      <4>1. pc[w] = "ack"
        BY <2>4
      <4>2. Decided(stream[held[w]].attempt)
        BY <4>1 DEF SafeStep, DecidedSteps, Command
      <4>3. QED
        BY <4>2 DEF Deliverable
    <3>2. QED
      BY <2>4, <3>1
  <2>5. QED
    BY <2>1, <2>2, <2>3, <2>4 DEF MovesPending
<1>4. QED
  BY <1>1, <1>2, <1>3 DEF Deliverable

\* An entry is given up for an undecided attempt only when the claim is
\* refused or another request is in the stream.
LEMMA ReleaseOfUndecided ==
  ASSUME SafeStep, NEW w \in Workers, Work(w) \/ Trouble(w),
         pc'[w] \in {"drop", "settle"}, ~ Decided(Command(w).attempt)
  PROVE  /\ pc[w] \in ProcessSteps /\ held'[w] = held[w]
         /\ \/ pc[w] = "claim" /\ ~ Eligible(Command(w), reclaimed[w])
            \/ pc[w] = "retry" /\ enqueue(retry(Command(w)))
<1>1. ReachesRelease(w)
  BY WorkMoves DEF Moves, SafeStep
<1>2. Command(w) \notin processed
  BY DEF SafeStep, ProcessedMeansDecided
<1>3. pc[w] # "deadLetter"
  BY DEF SafeStep, DecidedSteps
<1>4. QED
  BY <1>1, <1>2, <1>3 DEF ReachesRelease

LEMMA StreamedStays ==
  ASSUME SafeStep, NEW a \in Attempts, row[a] = "QUEUED", Streamed(a),
         NEW w \in Workers, Work(w) \/ Trouble(w)
  PROVE  Streamed(a)'
<1>1. PICK entry \in 1 .. Len(stream) : Deliverable(a, entry) /\ Safe(entry)
  BY DEF Streamed
<1>2. ~ Decided(a) /\ TypeOK
  BY DEF Decided, TERMINAL_STATUSES, SafeStep, PipelineInvariant
<1>3. Deliverable(a, entry)' /\ entry \in 1 .. Len(stream')
  BY <1>1, <1>2, DeliverableStays DEF Safe
<1>4. \A v \in Workers \ {w} : held'[v] = entry => pc'[v] \notin {"drop", "settle"}
  BY <1>1, <1>2, OthersUndisturbed DEF Safe
<1>5. CASE held'[w] = entry => pc'[w] \notin {"drop", "settle"}
  BY <1>3, <1>4, <1>5 DEF Streamed, Safe
<1>6. CASE held'[w] = entry /\ pc'[w] \in {"drop", "settle"}
  <2>1. held'[w] = held[w]
    <3>1. ReachesRelease(w)
      BY WorkMoves DEF Moves, SafeStep
    <3>2. QED
      BY <1>6, <3>1 DEF ReachesRelease
  <2>2. Command(w).attempt = a
    BY <1>1, <1>6, <2>1 DEF Deliverable, Command
  <2>3. Eligible(Command(w), reclaimed[w])
    BY <2>2 DEF Eligible
  <2>4. pc[w] \in ProcessSteps /\ enqueue(retry(Command(w))) /\ pc[w] = "retry"
    BY <1>2, <1>6, <2>2, <2>3, ReleaseOfUndecided
  <2>5. /\ Command(w) \in EvaluationCommand /\ ~ Dead(Command(w))
    BY <2>4, HeldCommand DEF SafeStep, PipelineInvariant, WorkIsKnown, IsReady
  <2>6. retry(Command(w)) \in EvaluationCommand /\ retry(Command(w)).attempt = a
    BY <2>2, <2>5 DEF Dead, retry, EvaluationCommand
  <2>7. QED
    BY <2>4, <2>6, NewEntryIsSafe DEF SafeStep
<1>7. QED
  BY <1>5, <1>6

\* The entry with which a worker claims or resets is pending, and its own.
LEMMA HandIsPending ==
  ASSUME SafeStep, NEW w \in Workers, pc[w] \in ProcessSteps,
         ~ Decided(Command(w).attempt)
  PROVE  /\ held[w] \in pending /\ held[w] \in 1 .. Len(stream)
         /\ \A v \in Workers \ {w} : held[v] # held[w]
<1>1. held[w] \in DOMAIN stream /\ held[w] # NoEntry /\ stream \in Seq(EvaluationCommand)
  BY HeldCommand DEF SafeStep, PipelineInvariant, TypeOK, QueueTypeOK
<1>2. held[w] \in pending
  BY <1>1 DEF SafeStep, HoldingsArePending
<1>3. \A v \in Workers \ {w} : held[v] # held[w]
  BY <1>1 DEF SafeStep, HoldingsArePending, ExclusiveHolding, Holding
<1>4. QED
  BY <1>1, <1>2, <1>3

LEMMA ResetIsStreamed ==
  ASSUME SafeStep, NEW w \in Workers, CommitReset(w),
         row[Command(w).attempt] = "RUNNING"
  PROVE  Streamed(Command(w).attempt)'
<1> DEFINE entry == held[w]
<1>1. /\ pc[w] = "fail" /\ pc'[w] = "retry" /\ held' = held
      /\ pending' = pending /\ delivered' = delivered /\ stream' = stream
  BY ContinueMoves DEF CommitReset, Continue, queueVars, SafeStep, PipelineInvariant
<1>2. ~ Decided(Command(w).attempt) /\ pc[w] \in ProcessSteps
  BY <1>1 DEF Decided, TERMINAL_STATUSES, ProcessSteps
<1>3. /\ entry \in pending /\ entry \in 1 .. Len(stream)
      /\ \A v \in Workers \ {w} : held[v] # entry
  BY <1>2, HandIsPending
<1>4. Deliverable(Command(w).attempt, entry)' /\ entry \in 1 .. Len(stream')
  BY <1>1, <1>3 DEF Deliverable, Command
<1>5. \A v \in Workers : held'[v] = entry => pc'[v] \notin {"drop", "settle"}
  BY <1>1, <1>3
<1>6. entry' = entry
  BY <1>1
<1> HIDE DEF entry
<1>7. QED
  BY <1>4, <1>5, <1>6 DEF Streamed, Safe

LEMMA ClaimIsRerun ==
  ASSUME SafeStep, NEW w \in Workers, ClaimAttempt(w),
         row[Command(w).attempt] \in {"QUEUED", "RUNNING"}
  PROVE  Rerun(Command(w).attempt)'
<1> DEFINE entry == held[w]
<1>1. /\ pc[w] = "claim" /\ pc'[w] = "evaluate" /\ held' = held
      /\ pending' = pending /\ stream' = stream
  BY ContinueMoves DEF ClaimAttempt, Continue, queueVars, SafeStep, PipelineInvariant
<1>2. ~ Decided(Command(w).attempt) /\ pc[w] \in ProcessSteps
  BY <1>1 DEF Decided, TERMINAL_STATUSES, ProcessSteps
<1>3. entry \in pending /\ \A v \in Workers \ {w} : held[v] # entry
  BY <1>2, HandIsPending
<1>4. entry \in pending' /\ stream'[entry].attempt = Command(w)'.attempt
  BY <1>1, <1>3 DEF Command
<1>5. \A v \in Workers :
        held'[v] = entry =>
          /\ pc'[v] \notin {"drop", "retry", "settle"}
          /\ pc'[v] \in {"check", "claim"} => reclaimed'[v]
  BY <1>1, <1>3
<1> HIDE DEF entry
<1>6. QED
  BY <1>4, <1>5 DEF Rerun, Rerunnable


\* What a worker does after the claim keeps its entry pending until the
\* attempt is decided or queued again; a reclaimed entry may be claimed again.
LEMMA RerunStays ==
  ASSUME SafeStep, NEW a \in Attempts, row[a] = "RUNNING", row'[a] = "RUNNING",
         Rerun(a), NEW w \in Workers, Work(w) \/ Trouble(w)
  PROVE  Rerun(a)'
<1>1. PICK entry \in pending : stream[entry].attempt = a /\ Rerunnable(entry)
  BY DEF Rerun
<1>2. /\ ~ Decided(a) /\ TypeOK /\ Moves(w)
      /\ entry \in 1 .. Len(stream) /\ delivered + 1 \notin pending
  <2>1. /\ stream \in Seq(EvaluationCommand) /\ delivered \in 0 .. Len(stream)
        /\ pending \subseteq 1 .. delivered
    BY DEF SafeStep, PipelineInvariant, TypeOK, QueueTypeOK
  <2>2. entry \in 1 .. Len(stream) /\ delivered + 1 \notin pending
    BY <2>1
  <2>3. ~ Decided(a) /\ TypeOK /\ Moves(w)
    BY WorkMoves DEF Decided, TERMINAL_STATUSES, SafeStep, PipelineInvariant
  <2>4. QED
    BY <2>2, <2>3
<1>3. entry \in pending' /\ stream'[entry].attempt = a
  <2>1. Deliverable(a, entry) /\ (held[w] = entry => pc[w] \notin {"drop", "settle"})
    BY <1>1 DEF Deliverable, Rerunnable
  <2>2. Deliverable(a, entry)' /\ (entry \in pending => entry \in pending')
    BY <1>2, <2>1, DeliverableStays
  <2>3. QED
    BY <2>2 DEF Deliverable
<1>4. ASSUME NEW v \in Workers, held'[v] = entry
      PROVE  /\ pc'[v] \notin {"drop", "retry", "settle"}
             /\ pc'[v] \in {"check", "claim"} => reclaimed'[v]
  <2>1. CASE v # w
    <3>1. pc'[v] = pc[v] /\ held'[v] = held[v] /\ reclaimed'[v] = reclaimed[v]
      BY <1>2, <2>1, OthersUndisturbed, OthersReclaimed
    <3>2. QED
      BY <1>1, <1>4, <3>1 DEF Rerunnable
  <2>2. CASE v = w
    <3>1. held[w] = entry =>
            /\ Command(w).attempt = a
            /\ pc[w] \notin {"drop", "retry", "settle"}
            /\ pc[w] \in {"check", "claim"} => reclaimed[w]
      BY <1>1 DEF Command, Rerunnable
    <3>2. pc'[w] \notin {"drop", "settle"}
      <4> SUFFICES ASSUME pc'[w] \in {"drop", "settle"} PROVE FALSE
        OBVIOUS
      <4>1. held'[w] = held[w]
        BY <1>2 DEF Moves, ReachesRelease
      <4>2. Command(w).attempt = a /\ held[w] = entry
        BY <1>4, <2>2, <3>1, <4>1
      <4>3. pc[w] = "claim" /\ ~ Eligible(Command(w), reclaimed[w])
        BY <1>2, <3>1, <4>2, ReleaseOfUndecided
      <4>4. QED
        BY <3>1, <4>2, <4>3 DEF Eligible
    <3>3. pc'[w] # "retry"
      <4> SUFFICES ASSUME pc'[w] = "retry" PROVE FALSE
        OBVIOUS
      <4>1. held'[w] = held[w] /\ ResetForRetry(Command(w))
        BY <1>2 DEF Moves, ReachesClaim
      <4>2. Command(w).attempt = a /\ row \in [Attempts -> RowPhases]
        BY <1>2, <1>4, <2>2, <3>1, <4>1 DEF TypeOK, StoreTypeOK
      <4>3. row'[a] = "QUEUED"
        BY <4>1, <4>2 DEF ResetForRetry
      <4>4. QED
        BY <4>3
    <3>4. pc'[w] = "check" => reclaimed'[w]
      BY <1>2, <1>4, <2>2 DEF Moves, ReachesClaim
    <3>5. pc'[w] = "claim" => reclaimed'[w]
      BY <1>2, <1>4, <2>2, <3>1 DEF Moves, ReachesClaim
    <3>6. QED
      BY <2>2, <3>2, <3>3, <3>4, <3>5
  <2>3. QED
    BY <2>1, <2>2
<1>5. QED
  BY <1>3, <1>4 DEF Rerun, Rerunnable

-----------------------------------------------------------------------------
(* No lost work.                                                            *)

\* A new attempt waits in the outbox.
LEMMA OpenIsUnsent ==
  ASSUME PipelineInvariant, NEW a \in Attempts, Open(a)
  PROVE  Unsent(a)'
<1> DEFINE first == [attempt |-> a, retryIndex |-> 0]
           i == Len(outbox) + 1
<1>1. /\ outbox \in Seq(EvaluationCommand) /\ published \subseteq DOMAIN outbox
      /\ \A v \in Workers : copied[v] \subseteq DOMAIN outbox
  BY DEF PipelineInvariant, TypeOK, StoreTypeOK
<1>2. outbox' = Append(outbox, first) /\ published' = published /\ copied' = copied
  BY DEF Open, OpenAttempt, workerVars
<1>3. first.attempt = a
  OBVIOUS
<1> HIDE DEF first
<1>4. /\ i \in DOMAIN outbox' /\ outbox'[i] = first
      /\ i \notin DOMAIN outbox
  BY <1>1, <1>2
<1> HIDE DEF i
<1>5. i \in DOMAIN outbox' \ published' /\ \A v \in Workers : i \notin copied'[v]
  BY <1>1, <1>2, <1>4
<1>6. outbox'[i].attempt = a
  BY <1>3, <1>4
<1>7. QED
  BY <1>5, <1>6 DEF Unsent, Unpublished

\* A step of the environment leaves everything that was safe as it was.
LEMMA OthersStaySafe ==
  ASSUME SafeStep, NEW a, Unsent(a) \/ Streamed(a) \/ Rerun(a),
         UNCHANGED <<published, stream, delivered, pending, workerVars>>
  PROVE  /\ Unsent(a) => Unsent(a)'
         /\ Streamed(a) => Streamed(a)'
         /\ Rerun(a) => Rerun(a)'
<1>1. /\ copied' = copied /\ held' = held /\ pc' = pc /\ reclaimed' = reclaimed
      /\ published' = published /\ stream' = stream /\ delivered' = delivered
      /\ pending' = pending
  BY DEF workerVars
<1>2. Unsent(a) => Unsent(a)'
  <2> SUFFICES ASSUME Unsent(a) PROVE Unsent(a)'
    OBVIOUS
  <2>1. PICK i \in Unpublished :
          outbox[i].attempt = a /\ \A v \in Workers : i \notin copied[v]
    BY DEF Unsent
  <2>2. i \in DOMAIN outbox' /\ outbox'[i] = outbox[i] /\ i \notin published
    BY <2>1, OutboxGrows DEF SafeStep, PipelineInvariant, TypeOK, Unpublished
  <2>3. QED
    BY <1>1, <2>1, <2>2 DEF Unsent, Unpublished
<1>3. Streamed(a) => Streamed(a)'
  BY <1>1 DEF Streamed, Deliverable, Safe
<1>4. Rerun(a) => Rerun(a)'
  BY <1>1 DEF Rerun, Rerunnable
<1>5. QED
  BY <1>2, <1>3, <1>4

LEMMA WorkStaysSafe ==
  ASSUME SafeStep, QueuedWorkIsSafe, RunningWorkIsSafe,
         NEW w \in Workers, Work(w) \/ Trouble(w), NEW a \in Attempts
  PROVE  /\ row'[a] = "QUEUED" => Unsent(a)' \/ Streamed(a)'
         /\ row'[a] = "RUNNING" => Rerun(a)'
<1>1. /\ row[a] = "QUEUED" => Unsent(a) \/ Streamed(a)
      /\ row[a] = "RUNNING" => Rerun(a)
  BY SafeByAttempt
<1>2. row'[a] \in {"QUEUED", "RUNNING"} =>
        \/ row'[a] = row[a]
        \/ /\ ClaimAttempt(w) /\ Command(w).attempt = a
           /\ row[a] \in {"QUEUED", "RUNNING"} /\ row'[a] = "RUNNING"
        \/ /\ CommitReset(w) /\ Command(w).attempt = a
           /\ row[a] = "RUNNING" /\ row'[a] = "QUEUED"
  BY WorkChangesRow DEF SafeStep
<1>3. ASSUME pc[w] \in ProcessSteps, held' = held
      PROVE  Command(w)' = Command(w)
  BY <1>3, KeptEntry DEF SafeStep
<1>4. CASE row'[a] = row[a]
  <2>1. row'[a] = "QUEUED" => Unsent(a)' \/ Streamed(a)'
    BY <1>1, <1>4, UnsentStays, StreamedStays
  <2>2. row'[a] = "RUNNING" => Rerun(a)'
    BY <1>1, <1>4, RerunStays
  <2>3. QED
    BY <2>1, <2>2
<1>5. CASE /\ ClaimAttempt(w) /\ Command(w).attempt = a
           /\ row[a] \in {"QUEUED", "RUNNING"} /\ row'[a] = "RUNNING"
  <2>1. Rerun(Command(w).attempt)'
    BY <1>5, ClaimIsRerun
  <2>2. Command(w)' = Command(w)
    BY <1>3, <1>5 DEF ClaimAttempt, Continue, At, ProcessSteps
  <2>3. QED
    BY <1>5, <2>1, <2>2 DEF Rerun
<1>6. CASE /\ CommitReset(w) /\ Command(w).attempt = a
           /\ row[a] = "RUNNING" /\ row'[a] = "QUEUED"
  <2>1. Streamed(Command(w).attempt)'
    BY <1>6, ResetIsStreamed
  <2>2. Command(w)' = Command(w)
    BY <1>3, <1>6 DEF CommitReset, Continue, At, ProcessSteps
  <2>3. QED
    BY <1>6, <2>1, <2>2 DEF Streamed, Deliverable
<1>7. QED
  BY <1>2, <1>4, <1>5, <1>6

LEMMA OpenStaysSafe ==
  ASSUME SafeStep, QueuedWorkIsSafe, RunningWorkIsSafe,
         NEW b \in Attempts, Open(b), NEW a \in Attempts
  PROVE  /\ row'[a] = "QUEUED" => Unsent(a)' \/ Streamed(a)'
         /\ row'[a] = "RUNNING" => Rerun(a)'
<1>1. /\ row[a] = "QUEUED" => Unsent(a) \/ Streamed(a)
      /\ row[a] = "RUNNING" => Rerun(a)
  BY SafeByAttempt
<1>2. UNCHANGED <<published, stream, delivered, pending, workerVars>>
  BY DEF Open, OpenAttempt, queueVars
<1>3. CASE a = b
  <2>1. row'[a] = "QUEUED"
    BY <1>3 DEF Open, OpenAttempt, SafeStep, PipelineInvariant, TypeOK, StoreTypeOK
  <2>2. Unsent(a)'
    BY <1>3, OpenIsUnsent DEF SafeStep
  <2>3. QED
    BY <2>1, <2>2
<1>4. CASE a # b
  <2>1. row'[a] = row[a]
    BY <1>4 DEF Open, OpenAttempt, SafeStep, PipelineInvariant, TypeOK, StoreTypeOK
  <2>2. QED
    BY <1>1, <1>2, <2>1, OthersStaySafe
<1>5. QED
  BY <1>3, <1>4

\* The inductive invariant: SafetyInvariant and what the workers know.
WorkInvariant == PipelineInvariant /\ SafetyInvariant

LEMMA StepWorkInvariant ==
  ASSUME ~ PrematureReclaim, WorkInvariant, [Next]_vars
  PROVE  WorkInvariant'
<1>1. SafeStep /\ QueuedWorkIsSafe /\ RunningWorkIsSafe
  BY StepPipelineInvariant, StepIsStoreStep, StepReferencesGrow
  DEF SafeStep, WorkInvariant, SafetyInvariant
<1>2. ProcessedMeansDecided'
  BY <1>1, StepProcessedMeansDecided DEF SafeStep, PipelineInvariant, TypeOK
<1>3. DecidedSteps' /\ HoldingsArePending'
  BY <1>1, StepDecidedSteps, StepHoldings DEF SafeStep
<1>4. ASSUME NEW a \in Attempts
      PROVE  /\ row'[a] = "QUEUED" => Unsent(a)' \/ Streamed(a)'
             /\ row'[a] = "RUNNING" => Rerun(a)'
  <2>1. ASSUME NEW w \in Workers, Work(w) \/ Trouble(w)
        PROVE  /\ row'[a] = "QUEUED" => Unsent(a)' \/ Streamed(a)'
               /\ row'[a] = "RUNNING" => Rerun(a)'
    BY <1>1, <2>1, WorkStaysSafe
  <2>2. ASSUME NEW b \in Attempts, Open(b)
        PROVE  /\ row'[a] = "QUEUED" => Unsent(a)' \/ Streamed(a)'
               /\ row'[a] = "RUNNING" => Rerun(a)'
    BY <1>1, <2>2, OpenStaysSafe
  <2>3. ASSUME row' = row,
               UNCHANGED <<published, stream, delivered, pending, workerVars>>
        PROVE  /\ row'[a] = "QUEUED" => Unsent(a)' \/ Streamed(a)'
               /\ row'[a] = "RUNNING" => Rerun(a)'
    <3>1. /\ row[a] = "QUEUED" => Unsent(a) \/ Streamed(a)
          /\ row[a] = "RUNNING" => Rerun(a)
      BY <1>1, SafeByAttempt
    <3>2. QED
      BY <1>1, <2>3, <3>1, OthersStaySafe
  <2>4. ASSUME NEW entry \in pending, Expire(entry)
        PROVE  /\ row' = row
               /\ UNCHANGED <<published, stream, delivered, pending, workerVars>>
    BY <2>4 DEF Expire, BecomeStale, storeVars
  <2>5. CASE UNCHANGED vars
    BY <2>3, <2>5 DEF vars, storeVars, queueVars
  <2>6. QED
    BY <2>1, <2>2, <2>3, <2>4, <2>5 DEF Next
<1>5. QueuedWorkIsSafe' /\ RunningWorkIsSafe'
  BY <1>4 DEF QueuedWorkIsSafe, RunningWorkIsSafe, Unsent, Streamed, Rerun
<1>6. QED
  BY <1>1, <1>2, <1>3, <1>5 DEF WorkInvariant, SafetyInvariant, SafeStep

LEMMA InitWorkInvariant == Init => WorkInvariant
<1> SUFFICES ASSUME Init PROVE WorkInvariant
  OBVIOUS
<1>1. PipelineInvariant
  BY InitPipelineInvariant
<1>2. ProcessedMeansDecided /\ DecidedSteps
  BY DEF Init, StoreInit, ProcessedMeansDecided, DecidedSteps
<1>3. HoldingsArePending
  BY DEF Init, QueueInit, HoldingsArePending, ExclusiveHolding, Holding, NoEntry
<1>4. QueuedWorkIsSafe /\ RunningWorkIsSafe
  BY DEF Init, StoreInit, QueuedWorkIsSafe, RunningWorkIsSafe
<1>5. QED
  BY <1>1, <1>2, <1>3, <1>4 DEF WorkInvariant, SafetyInvariant

LEMMA WorkInvariantHolds ==
  ASSUME ~ PrematureReclaim PROVE Spec => []WorkInvariant
<1>1. WorkInvariant /\ [Next]_vars => WorkInvariant'
  BY StepWorkInvariant
<1>2. QED
  BY <1>1, InitWorkInvariant, PTL DEF Spec

\* Where the work of an attempt without a result is: in the outbox or in an
\* entry that will be processed while it is queued, in a pending entry that
\* can be claimed again while it runs; and no worker ever has an entry that
\* another one has (dispatch_outbox, process, reclaim_stale), if an entry goes
\* stale only after its worker has died.
THEOREM PipelineWorkIsSafe ==
  ASSUME ~ PrematureReclaim PROVE Spec => []SafetyInvariant
<1>1. WorkInvariant => SafetyInvariant
  BY DEF WorkInvariant
<1>2. QED
  BY <1>1, WorkInvariantHolds, PTL

LEMMA WorkIsNotLost == WorkInvariant => NoLostWork
<1> SUFFICES ASSUME WorkInvariant, NEW a \in Attempts, Waiting(a)
             PROVE  \/ \E i \in Unpublished : outbox[i].attempt = a
                    \/ \E entry \in 1 .. Len(stream) : Deliverable(a, entry)
  BY DEF NoLostWork
<1>1. pending \subseteq 1 .. Len(stream)
  BY DEF WorkInvariant, PipelineInvariant, TypeOK, QueueTypeOK
<1>2. CASE row[a] = "QUEUED"
  BY <1>2 DEF WorkInvariant, SafetyInvariant, QueuedWorkIsSafe
<1>3. CASE row[a] = "RUNNING"
  BY <1>1, <1>3 DEF WorkInvariant, SafetyInvariant, RunningWorkIsSafe, Deliverable
<1>4. QED
  BY <1>2, <1>3 DEF Waiting

\* An accepted attempt that has no result is never forgotten: the outbox still
\* has its command or the queue an entry that was not acknowledged, whichever
\* worker crashes between which two calls, if an entry goes stale only after
\* its worker has died (README, "Avoid losing accepted submissions").
THEOREM PipelineNoLostWork ==
  ASSUME ~ PrematureReclaim PROVE Spec => []NoLostWork
BY WorkInvariantHolds, WorkIsNotLost, PTL


=============================================================================
