---------------------- MODULE EvaluationPipelineProofs ----------------------
(***************************************************************************)
(* The theorems about EvaluationPipeline, for any number of workers,       *)
(* faults and attempts, and whether or not entries go stale too early: it  *)
(* is type correct and it implements AttemptStore, and so it keeps every   *)
(* promise proved of the store.                                            *)
(***************************************************************************)
EXTENDS EvaluationPipelineProperties, ServiceProofs

USE AccountOfAssumption, ChallengeOfAssumption, VerdictsAssumption,
    MaxAttemptsAssumption, BatchSizeAssumption, MaxFaultsAssumption,
    PrematureReclaimAssumption

PipelineInvariant == TypeOK /\ WorkIsKnown

\* The least element of a set of positions is one of them.
LEMMA FirstIsMember ==
  ASSUME NEW T \in SUBSET Nat, T # {}
  PROVE  First(T) \in T
<1>1. \E x \in T : \A y \in T : x <= y
  BY LeastNumber
<1>2. QED
  BY <1>1 DEF First, Min

-----------------------------------------------------------------------------
(* The log only grows.                                                      *)

\* An append forgets no fact.
LEMMA AppendEventKeepsFacts ==
  ASSUME NEW h \in History, NEW t, NEW d, NEW v, Draft(t, d, v),
         NEW u, NEW n, Recorded(h, u, n)
  PROVE  Recorded(AppendEvent(h, t, d, v), u, n)
<1> DEFINE e == NextEvent(h, t, d, v)
           s == Append(h.events, e)
<1>1. /\ e \in LifecycleEvent
      /\ h.events \in Seq(LifecycleEvent)
  BY NextEventType DEF History
<1> HIDE DEF e
<1>2. \A i \in DOMAIN h.events : i \in DOMAIN s /\ s[i] = h.events[i]
  BY <1>1
<1> HIDE DEF s
<1>3. QED
  BY <1>2 DEF AppendEvent, Recorded, e, s

\* After an append the fact is there.
LEMMA AppendEventRecords ==
  ASSUME NEW h \in History, NEW t, NEW d, NEW v, Draft(t, d, v)
  PROVE  Recorded(AppendEvent(h, t, d, v), t, d)
<1> DEFINE e == NextEvent(h, t, d, v)
           s == Append(h.events, e)
<1>1. /\ e \in LifecycleEvent
      /\ h.events \in Seq(LifecycleEvent)
      /\ e.type = t /\ e.delivery = d
  BY NextEventType DEF History, NextEvent
<1> HIDE DEF e
<1>2. Len(h.events) + 1 \in DOMAIN s /\ s[Len(h.events) + 1] = e
  BY <1>1
<1> HIDE DEF s
<1>3. QED
  BY <1>1, <1>2 DEF AppendEvent, Recorded, e, s

\* No transaction of the store forgets a fact.
LEMMA StepKeepsFacts ==
  ASSUME StoreTypeOK, [StoreNext]_storeVars, NEW a \in Attempts,
         NEW u, NEW n, Recorded(history[a], u, n)
  PROVE  Recorded(history'[a], u, n)
<1>1. ASSUME NEW h \in History, NEW k, Appended(h, k), Recorded(h, u, n)
      PROVE  Recorded(k, u, n)
  BY <1>1, AppendEventKeepsFacts DEF Appended
<1>2. history[a] \in History
  BY DEF StoreTypeOK
<1>3. QED
  BY <1>1, <1>2, StepAppends

\* Commands stay requested and claimed.
LEMMA StepKeepsCommands ==
  ASSUME StoreTypeOK, [StoreNext]_storeVars, NEW c \in EvaluationCommand
  PROVE  /\ Requested(c) => Requested(c)'
         /\ Claimed(c) => Claimed(c)'
BY StepKeepsFacts, CommandType DEF Requested, Claimed

-----------------------------------------------------------------------------
(* What the workers do to the store.                                        *)

\* A worker with an entry in hand has a command that was requested.
LEMMA HeldCommand ==
  ASSUME PipelineInvariant, NEW w \in Workers, pc[w] \in ProcessSteps
  PROVE  /\ held[w] \in DOMAIN stream
         /\ Command(w) \in EvaluationCommand
         /\ Requested(Command(w))
<1>1. /\ held[w] \in 0 .. delivered /\ held[w] # NoEntry
      /\ delivered \in 0 .. Len(stream)
      /\ stream \in Seq(EvaluationCommand)
  BY DEF PipelineInvariant, TypeOK, QueueTypeOK
<1>2. held[w] \in DOMAIN stream
  BY <1>1 DEF NoEntry
<1>3. Command(w) \in EvaluationCommand
  BY <1>1, <1>2 DEF Command
<1>4. QED
  BY <1>2, <1>3 DEF PipelineInvariant, WorkIsKnown, CommandsAreRequested, Command

\* Each call of a worker is a transaction of the store, or none.
LEMMA WorkIsStoreStep ==
  ASSUME PipelineInvariant, NEW w \in Workers, Work(w) \/ Trouble(w)
  PROVE  [StoreNext]_storeVars
<1> DEFINE c == Command(w)
<1>0. IsReady(w)
  BY DEF PipelineInvariant, WorkIsKnown
<1>1. CASE CommitDispatch(w)
  <2>1. Marked(w) \in SUBSET (DOMAIN outbox)
    BY DEF PipelineInvariant, TypeOK, Marked
  <2>2. QED
    BY <1>1, <2>1 DEF CommitDispatch, StoreNext
<1>2. CASE ClaimAttempt(w)
  <2>1. pc[w] = "claim" /\ Claim(c, reclaimed[w]) /\ reclaimed[w] \in BOOLEAN
    BY <1>2 DEF ClaimAttempt, Continue, At, PipelineInvariant, TypeOK
  <2>2. c \in EvaluationCommand /\ Requested(c)
    BY <2>1, HeldCommand DEF ProcessSteps
  <2>3. Transaction(c)
    BY <2>1, <2>2 DEF Transaction
  <2>4. QED
    BY <2>2, <2>3 DEF StoreNext
<1>3. CASE CommitSuccess(w) \/ CommitFails(w)
  <2>1. pc[w] = "commit"
    BY <1>3 DEF CommitSuccess, CommitFails, Continue, At
  <2>2. StoreSuccess(c, suiteStatus[w]) \/ UNCHANGED storeVars
    BY <1>3 DEF CommitSuccess, CommitFails
  <2>3. /\ c \in EvaluationCommand
        /\ Claimed(c) /\ suiteStatus[w] \in Verdicts
    BY <1>0, <2>1, HeldCommand DEF ProcessSteps, IsReady, ClaimedSteps
  <2>4. CASE StoreSuccess(c, suiteStatus[w])
    BY <2>3, <2>4 DEF StoreNext, Transaction
  <2>5. QED
    BY <2>2, <2>4
<1>4. CASE CommitTerminal(w)
  <2>1. pc[w] = "terminal" /\ StoreTerminalFailure(c)
    BY <1>4 DEF CommitTerminal, Continue, At
  <2>2. c \in EvaluationCommand /\ Claimed(c) /\ Dead(c)
    BY <1>0, <2>1, HeldCommand DEF ProcessSteps, IsReady, ClaimedSteps
  <2>3. QED
    BY <2>1, <2>2 DEF StoreNext, Transaction
<1>5. CASE CommitReset(w)
  <2>1. pc[w] = "fail" /\ ~ Dead(c) /\ ResetForRetry(c)
    BY <1>5 DEF CommitReset, Continue, At
  <2>2. c \in EvaluationCommand /\ Claimed(c)
    BY <1>0, <2>1, HeldCommand DEF ProcessSteps, IsReady, ClaimedSteps
  <2>3. QED
    BY <2>1, <2>2 DEF StoreNext, Transaction
<1>6. CASE UNCHANGED storeVars
  BY <1>6
<1>7. QED
  BY <1>1, <1>2, <1>3, <1>4, <1>5, <1>6
  DEF Work, Trouble, BeginDispatch, CopyCommand, ReclaimStale, ProcessReclaimed,
      ReserveNew, ReserveNothing, CheckProcessed, ClaimRefused, AckDuplicate,
      Evaluate, EvaluateFails, CheckStored, AckSuccess, CheckTerminal,
      DeadLetter, EnqueueRetry, AckFailure, CopyFails, AckFails, Crash

\* Every step of the pipeline is a step of the store or leaves it alone.
LEMMA StepIsStoreStep ==
  PipelineInvariant /\ [Next]_vars => [StoreNext]_storeVars
<1> SUFFICES ASSUME PipelineInvariant, [Next]_vars PROVE [StoreNext]_storeVars
  OBVIOUS
<1>1. ASSUME NEW a \in Attempts, Open(a) PROVE [StoreNext]_storeVars
  BY <1>1 DEF Open, StoreNext
<1>2. ASSUME NEW w \in Workers, Work(w) \/ Trouble(w)
      PROVE  [StoreNext]_storeVars
  BY <1>2, WorkIsStoreStep
<1>3. ASSUME NEW entry \in pending, Expire(entry) PROVE [StoreNext]_storeVars
  BY <1>3 DEF Expire
<1>4. CASE UNCHANGED vars
  BY <1>4 DEF vars
<1>5. QED
  BY <1>1, <1>2, <1>3, <1>4 DEF Next

-----------------------------------------------------------------------------
(* What they do to the queue.                                               *)

QueueStep ==
  \/ \E c \in EvaluationCommand : Requested(c) /\ enqueue(c)
  \/ \E c \in EvaluationCommand : dead_letter(c)
  \/ \E entry \in Nat : reserve(entry) \/ ack(entry) \/ BecomeStale(entry)
  \/ reclaim_stale
  \/ UNCHANGED queueVars

\* Entries are only added, at the end, and deliveries only move forward.
StreamGrows ==
  /\ \A e \in DOMAIN stream : e \in DOMAIN stream' /\ stream'[e] = stream[e]
  /\ delivered <= delivered'

LEMMA QueueStepTypeOK ==
  ASSUME QueueTypeOK(EvaluationCommand), QueueStep
  PROVE  QueueTypeOK(EvaluationCommand)' /\ StreamGrows
<1> USE DEF QueueTypeOK, StreamGrows
<1>1. ASSUME NEW c \in EvaluationCommand, enqueue(c)
      PROVE  QueueTypeOK(EvaluationCommand)' /\ StreamGrows
  BY <1>1 DEF enqueue
<1>2. ASSUME NEW c \in EvaluationCommand, dead_letter(c)
      PROVE  QueueTypeOK(EvaluationCommand)' /\ StreamGrows
  BY <1>2 DEF dead_letter
<1>3. ASSUME NEW entry \in Nat, reserve(entry)
      PROVE  QueueTypeOK(EvaluationCommand)' /\ StreamGrows
  BY <1>3 DEF reserve
<1>4. ASSUME NEW entry \in Nat, ack(entry)
      PROVE  QueueTypeOK(EvaluationCommand)' /\ StreamGrows
  BY <1>4 DEF ack
<1>5. ASSUME NEW entry \in Nat, BecomeStale(entry)
      PROVE  QueueTypeOK(EvaluationCommand)' /\ StreamGrows
  BY <1>5 DEF BecomeStale
<1>6. CASE reclaim_stale
  BY <1>6 DEF reclaim_stale
<1>7. CASE UNCHANGED queueVars
  BY <1>7 DEF queueVars
<1>8. QED
  BY <1>1, <1>2, <1>3, <1>4, <1>5, <1>6, <1>7 DEF QueueStep

\* A queue step keeps every entry requested.
LEMMA QueueStepRequested ==
  ASSUME PipelineInvariant, [StoreNext]_storeVars, QueueStep,
         NEW e \in DOMAIN stream'
  PROVE  Requested(stream[e])'
<1>1. /\ StoreTypeOK /\ stream \in Seq(EvaluationCommand)
      /\ \A i \in DOMAIN stream : Requested(stream[i])
  BY DEF PipelineInvariant, TypeOK, QueueTypeOK, WorkIsKnown,
         CommandsAreRequested
<1>2. ASSUME NEW c \in EvaluationCommand, Requested(c), enqueue(c)
      PROVE  stream'[e] \in EvaluationCommand /\ Requested(stream'[e])
  BY <1>1, <1>2 DEF enqueue
<1>3. ASSUME UNCHANGED stream
      PROVE  stream'[e] \in EvaluationCommand /\ Requested(stream'[e])
  BY <1>1, <1>3
<1>4. stream'[e] \in EvaluationCommand /\ Requested(stream'[e])
  BY <1>1, <1>2, <1>3 DEF QueueStep, dead_letter, reserve, ack, BecomeStale,
                          reclaim_stale, queueVars
<1>5. \A c \in EvaluationCommand : Requested(c) => Requested(c)'
  BY <1>1, StepKeepsCommands
<1>6. QED
  BY <1>4, <1>5 DEF Requested

\* The position that the dispatcher copies is one of the outbox.
LEMMA CopiedPosition ==
  ASSUME PipelineInvariant, NEW w \in Workers, pc[w] = "copy"
  PROVE  /\ First(Copyable(w)) \in Copyable(w)
         /\ outbox[First(Copyable(w))] \in EvaluationCommand
         /\ Requested(outbox[First(Copyable(w))])
<1>1. /\ outbox \in Seq(EvaluationCommand)
      /\ batch[w] \subseteq DOMAIN outbox
      /\ Copyable(w) # {}
      /\ \A i \in DOMAIN outbox : Requested(outbox[i])
  BY DEF PipelineInvariant, TypeOK, StoreTypeOK, WorkIsKnown, IsReady,
         CommandsAreRequested
<1>2. Copyable(w) \subseteq DOMAIN outbox
  BY <1>1 DEF Copyable
<1>3. DOMAIN outbox \subseteq Nat
  BY <1>1
<1>4. First(Copyable(w)) \in Copyable(w)
  BY <1>1, <1>2, <1>3, FirstIsMember
<1>5. QED
  BY <1>1, <1>2, <1>4

\* The queue comes to the same answer about the budget as process did.
LEMMA BudgetsAgree ==
  ASSUME PipelineInvariant, NEW w \in Workers
  PROVE  /\ DeadLetter(w) => Continue(w, "deadLetter", "settle")
         /\ EnqueueRetry(w) => Continue(w, "retry", "settle")
<1>1. Exhausted(Command(w)) <=> Dead(Command(w))
  BY DEF Exhausted, Dead
<1>2. /\ pc[w] = "deadLetter" => Dead(Command(w))
      /\ pc[w] = "retry" => ~ Dead(Command(w))
  BY DEF PipelineInvariant, WorkIsKnown, IsReady
<1>3. QED
  BY <1>1, <1>2 DEF DeadLetter, EnqueueRetry, Requeues

\* Each call of a worker is a step of the queue.
LEMMA WorkIsQueueStep ==
  ASSUME PipelineInvariant, NEW w \in Workers, Work(w) \/ Trouble(w)
  PROVE  QueueStep
<1>1. held[w] \in Nat
  BY DEF PipelineInvariant, TypeOK, QueueTypeOK
<1>2. CASE CopyCommand(w) \/ CopyFails(w)
  <2>1. pc[w] = "copy"
    BY <1>2 DEF CopyCommand, CopyFails, Continue, At
  <2>2. enqueue(outbox[First(Copyable(w))]) \/ UNCHANGED queueVars
    BY <1>2 DEF CopyCommand, CopyFails
  <2>3. QED
    BY <2>1, <2>2, CopiedPosition DEF QueueStep
<1>3. CASE EnqueueRetry(w)
  <2>1. pc[w] = "retry" /\ enqueue(retry(Command(w)))
    BY <1>3, BudgetsAgree DEF EnqueueRetry, Continue, At
  <2>2. Command(w) \in EvaluationCommand
    BY <2>1, HeldCommand DEF ProcessSteps
  <2>3. Requested(retry(Command(w))) /\ retry(Command(w)) \in EvaluationCommand
    BY <2>1, <2>2, CommandType DEF PipelineInvariant, WorkIsKnown, IsReady
  <2>4. QED
    BY <2>1, <2>3 DEF QueueStep
<1>4. CASE DeadLetter(w)
  <2>1. pc[w] = "deadLetter" /\ dead_letter(Command(w))
    BY <1>4, BudgetsAgree DEF DeadLetter, Continue, At
  <2>2. Command(w) \in EvaluationCommand
    BY <2>1, HeldCommand DEF ProcessSteps
  <2>3. QED
    BY <2>1, <2>2 DEF QueueStep
<1>5. CASE ReserveNew(w)
  <2>1. PICK entry \in 1 .. Len(stream) : reserve(entry)
    BY <1>5 DEF ReserveNew
  <2>2. entry \in Nat
    OBVIOUS
  <2>3. QED
    BY <2>1, <2>2 DEF QueueStep
<1>6. CASE AckDuplicate(w) \/ AckSuccess(w) \/ AckFails(w) \/ AckFailure(w)
  BY <1>1, <1>6 DEF AckDuplicate, AckSuccess, AckFails, AckFailure, QueueStep
<1>7. CASE ReclaimStale(w)
  BY <1>7 DEF ReclaimStale, QueueStep
<1>8. CASE UNCHANGED queueVars
  BY <1>8 DEF QueueStep
<1>9. QED
  BY <1>2, <1>3, <1>4, <1>5, <1>6, <1>7, <1>8
  DEF Work, Trouble, BeginDispatch, CommitDispatch, ProcessReclaimed,
      ReserveNothing, CheckProcessed, ClaimAttempt, ClaimRefused, Evaluate,
      EvaluateFails, CheckStored, CommitSuccess, CheckTerminal, CommitTerminal,
      CommitReset, CommitFails, Crash

\* Every step of the pipeline is a step of the queue.
LEMMA StepIsQueueStep ==
  PipelineInvariant /\ [Next]_vars => QueueStep
<1> SUFFICES ASSUME PipelineInvariant, [Next]_vars PROVE QueueStep
  OBVIOUS
<1>1. ASSUME NEW a \in Attempts, Open(a) PROVE QueueStep
  BY <1>1 DEF Open, QueueStep
<1>2. ASSUME NEW w \in Workers, Work(w) \/ Trouble(w) PROVE QueueStep
  BY <1>2, WorkIsQueueStep
<1>3. ASSUME NEW entry \in pending, Expire(entry) PROVE QueueStep
  <2>1. entry \in Nat
    BY DEF PipelineInvariant, TypeOK, QueueTypeOK
  <2>2. QED
    BY <1>3, <2>1 DEF Expire, QueueStep
<1>4. CASE UNCHANGED vars
  BY <1>4 DEF vars, QueueStep
<1>5. QED
  BY <1>1, <1>2, <1>3, <1>4 DEF Next

-----------------------------------------------------------------------------
(* The memories of the workers.                                             *)

MemoryTypeOK ==
  /\ pc \in [Workers -> Steps]
  /\ held \in [Workers -> 0 .. delivered]
  /\ reclaimed \in [Workers -> BOOLEAN]
  /\ todo \in [Workers -> SUBSET (1 .. delivered)]
  /\ batch \in [Workers -> SUBSET (DOMAIN outbox)]
  /\ copied \in [Workers -> SUBSET (DOMAIN outbox)]
  /\ suiteStatus \in [Workers -> Verdicts \cup {NoVerdict}]
  /\ \A w \in Workers : held[w] = NoEntry <=> pc[w] \notin ProcessSteps

\* What the memories refer to only grows.
ReferencesGrow ==
  /\ delivered \in Nat /\ delivered' \in Nat /\ delivered <= delivered'
  /\ DOMAIN outbox \subseteq DOMAIN outbox'

LEMMA ContinueMemory ==
  ASSUME MemoryTypeOK, ReferencesGrow, NEW w \in Workers,
         NEW from, NEW to \in Steps, Continue(w, from, to),
         from \in ProcessSteps <=> to \in ProcessSteps
  PROVE  MemoryTypeOK'
<1> USE DEF MemoryTypeOK, ReferencesGrow, Continue, At, Goto
<1>1. /\ pc' \in [Workers -> Steps]
      /\ held' \in [Workers -> 0 .. delivered']
      /\ reclaimed' \in [Workers -> BOOLEAN]
      /\ suiteStatus' \in [Workers -> Verdicts \cup {NoVerdict}]
  OBVIOUS
<1>2. todo' \in [Workers -> SUBSET (1 .. delivered')]
  OBVIOUS
<1>3. /\ batch' \in [Workers -> SUBSET (DOMAIN outbox')]
      /\ copied' \in [Workers -> SUBSET (DOMAIN outbox')]
  OBVIOUS
<1>4. \A v \in Workers : held'[v] = NoEntry <=> pc'[v] \notin ProcessSteps
  OBVIOUS
<1>5. QED
  BY <1>1, <1>2, <1>3, <1>4

LEMMA ReturnMemory ==
  ASSUME MemoryTypeOK, ReferencesGrow, NEW w \in Workers,
         NEW from, Return(w, from)
  PROVE  MemoryTypeOK'
<1> USE DEF MemoryTypeOK, ReferencesGrow, Return, At, Goto, Steps, DispatchSteps
<1>1. /\ pc' \in [Workers -> Steps]
      /\ reclaimed' \in [Workers -> BOOLEAN]
      /\ suiteStatus' \in [Workers -> Verdicts \cup {NoVerdict}]
  OBVIOUS
<1>2. held' \in [Workers -> 0 .. delivered']
  BY DEF NoEntry
<1>3. todo' \in [Workers -> SUBSET (1 .. delivered')]
  OBVIOUS
<1>4. /\ batch' \in [Workers -> SUBSET (DOMAIN outbox')]
      /\ copied' \in [Workers -> SUBSET (DOMAIN outbox')]
  OBVIOUS
<1>5. \A v \in Workers : held'[v] = NoEntry <=> pc'[v] \notin ProcessSteps
  BY DEF ProcessSteps
<1>6. QED
  BY <1>1, <1>2, <1>3, <1>4, <1>5

LEMMA BeginMemory ==
  ASSUME MemoryTypeOK, ReferencesGrow, NEW w \in Workers,
         NEW entry \in 1 .. delivered', NEW r \in BOOLEAN,
         NEW rest \in SUBSET todo[w], Begin(w, entry, r),
         todo' = [todo EXCEPT ![w] = rest]
  PROVE  MemoryTypeOK'
<1> USE DEF MemoryTypeOK, ReferencesGrow, Begin, Goto, Steps, ProcessSteps
<1>1. /\ pc' \in [Workers -> Steps]
      /\ reclaimed' \in [Workers -> BOOLEAN]
      /\ suiteStatus' \in [Workers -> Verdicts \cup {NoVerdict}]
  OBVIOUS
<1>2. held' \in [Workers -> 0 .. delivered']
  OBVIOUS
<1>3. todo' \in [Workers -> SUBSET (1 .. delivered')]
  OBVIOUS
<1>4. /\ batch' \in [Workers -> SUBSET (DOMAIN outbox')]
      /\ copied' \in [Workers -> SUBSET (DOMAIN outbox')]
  OBVIOUS
<1>5. \A v \in Workers : held'[v] = NoEntry <=> pc'[v] \notin ProcessSteps
  BY DEF NoEntry
<1>6. QED
  BY <1>1, <1>2, <1>3, <1>4, <1>5

\* What a step of the loop leaves of a worker that has no entry in hand.
LEMMA LoopMemory ==
  ASSUME MemoryTypeOK, ReferencesGrow, NEW w \in Workers,
         NEW to \in Steps \ ProcessSteps, Goto(w, to),
         pc[w] \notin ProcessSteps, UNCHANGED <<held, reclaimed, suiteStatus>>,
         NEW T \in SUBSET (1 .. delivered'), todo' = [todo EXCEPT ![w] = T],
         NEW B \in SUBSET (DOMAIN outbox'), batch' = [batch EXCEPT ![w] = B],
         NEW C \in SUBSET (DOMAIN outbox'), copied' = [copied EXCEPT ![w] = C]
  PROVE  MemoryTypeOK'
<1> USE DEF MemoryTypeOK, ReferencesGrow, Goto
<1>1. /\ pc' \in [Workers -> Steps]
      /\ reclaimed' \in [Workers -> BOOLEAN]
      /\ suiteStatus' \in [Workers -> Verdicts \cup {NoVerdict}]
      /\ held' \in [Workers -> 0 .. delivered']
  OBVIOUS
<1>2. todo' \in [Workers -> SUBSET (1 .. delivered')]
  OBVIOUS
<1>3. /\ batch' \in [Workers -> SUBSET (DOMAIN outbox')]
      /\ copied' \in [Workers -> SUBSET (DOMAIN outbox')]
  OBVIOUS
<1>4. \A v \in Workers : held'[v] = NoEntry <=> pc'[v] \notin ProcessSteps
  OBVIOUS
<1>5. QED
  BY <1>1, <1>2, <1>3, <1>4

\* The parts of the memory that a step does not touch.
LEMMA SameMemory ==
  ASSUME MemoryTypeOK, NEW w \in Workers
  PROVE  /\ todo = [todo EXCEPT ![w] = todo[w]]
         /\ batch = [batch EXCEPT ![w] = batch[w]]
         /\ copied = [copied EXCEPT ![w] = copied[w]]
BY DEF MemoryTypeOK

LEMMA WorkMemory ==
  ASSUME PipelineInvariant, MemoryTypeOK, ReferencesGrow,
         NEW w \in Workers, Work(w) \/ Trouble(w)
  PROVE  MemoryTypeOK'
<1>0. /\ todo[w] \in SUBSET (1 .. delivered)
      /\ batch[w] \in SUBSET (DOMAIN outbox)
      /\ copied[w] \in SUBSET (DOMAIN outbox)
      /\ 1 .. delivered \subseteq 1 .. delivered'
      /\ DOMAIN outbox \subseteq DOMAIN outbox'
  BY DEF MemoryTypeOK, ReferencesGrow
<1>1. CASE BeginDispatch(w)
  <2>1. NextBatch(w) \in SUBSET (DOMAIN outbox')
    BY <1>0 DEF NextBatch, Available, Unpublished
  <2>2. QED
    BY <1>0, <1>1, <2>1, SameMemory, LoopMemory
    DEF BeginDispatch, At, Goto, Steps, DispatchSteps, ProcessSteps
<1>2. CASE CopyCommand(w)
  <2>1. copied[w] \cup {First(Copyable(w))} \in SUBSET (DOMAIN outbox')
    <3>1. First(Copyable(w)) \in Copyable(w)
      BY <1>2, CopiedPosition DEF CopyCommand, At
    <3>2. QED
      BY <1>0, <3>1 DEF Copyable
  <2>2. QED
    BY <1>0, <1>2, <2>1, SameMemory, LoopMemory
    DEF CopyCommand, At, Goto, Steps, DispatchSteps, ProcessSteps, MemoryTypeOK
<1>3. CASE CommitDispatch(w)
  <2>1. {} \in SUBSET (DOMAIN outbox')
    OBVIOUS
  <2>2. /\ Goto(w, "reclaim") /\ pc[w] \notin ProcessSteps
        /\ todo' = [todo EXCEPT ![w] = todo[w]]
        /\ batch' = [batch EXCEPT ![w] = {}]
        /\ copied' = [copied EXCEPT ![w] = {}]
        /\ UNCHANGED <<held, reclaimed, suiteStatus>>
    BY <1>3, SameMemory DEF CommitDispatch, At, ProcessSteps
  <2>3. "reclaim" \in Steps \ ProcessSteps /\ todo[w] \in SUBSET (1 .. delivered')
    BY <1>0 DEF Steps, ProcessSteps
  <2>4. QED
    BY <2>1, <2>2, <2>3, LoopMemory
<1>4. CASE ReclaimStale(w)
  <2>1. stale \in SUBSET (1 .. delivered')
    BY <1>0 DEF PipelineInvariant, TypeOK, QueueTypeOK
  <2>2. QED
    BY <1>0, <1>4, <2>1, SameMemory, LoopMemory
    DEF ReclaimStale, At, Goto, Steps, DispatchSteps, ProcessSteps
<1>5. CASE ProcessReclaimed(w)
  <2> DEFINE entry == First(todo[w])
  <2>1. entry \in todo[w]
    <3>1. todo[w] \in SUBSET Nat /\ todo[w] # {}
      BY <1>0, <1>5 DEF ProcessReclaimed
    <3>2. QED
      BY <3>1, FirstIsMember
  <2>2. entry \in 1 .. delivered' /\ todo[w] \ {entry} \in SUBSET todo[w]
    BY <1>0, <2>1
  <2>3. Begin(w, entry, TRUE) /\ todo' = [todo EXCEPT ![w] = todo[w] \ {entry}]
    BY <1>5 DEF ProcessReclaimed, MemoryTypeOK
  <2> HIDE DEF entry
  <2>4. QED
    BY <2>2, <2>3, BeginMemory
<1>6. CASE ReserveNew(w)
  <2>1. PICK entry \in 1 .. Len(stream) : reserve(entry) /\ Begin(w, entry, FALSE)
    BY <1>6 DEF ReserveNew
  <2>2. entry \in 1 .. delivered'
    BY <2>1 DEF reserve, ReferencesGrow
  <2>3. todo' = [todo EXCEPT ![w] = todo[w]]
    BY <1>6, SameMemory DEF ReserveNew
  <2>4. QED
    BY <2>1, <2>2, <2>3, BeginMemory
<1>7. CASE \/ AckDuplicate(w) \/ AckSuccess(w) \/ AckFailure(w)
  BY <1>7, ReturnMemory DEF AckDuplicate, AckSuccess, AckFailure
<1>8. CASE Evaluate(w)
  <2>1. PICK v \in Verdicts : suiteStatus' = [suiteStatus EXCEPT ![w] = v]
    BY <1>8 DEF Evaluate
  <2> USE DEF MemoryTypeOK, ReferencesGrow, Evaluate, At, Goto
  <2>2. /\ pc' \in [Workers -> Steps]
        /\ reclaimed' \in [Workers -> BOOLEAN]
        /\ held' \in [Workers -> 0 .. delivered']
    BY <1>8 DEF Steps, ProcessSteps
  <2>3. suiteStatus' \in [Workers -> Verdicts \cup {NoVerdict}]
    BY <2>1
  <2>4. /\ todo' \in [Workers -> SUBSET (1 .. delivered')]
        /\ batch' \in [Workers -> SUBSET (DOMAIN outbox')]
        /\ copied' \in [Workers -> SUBSET (DOMAIN outbox')]
    BY <1>0, <1>8
  <2>5. \A u \in Workers : held'[u] = NoEntry <=> pc'[u] \notin ProcessSteps
    BY <1>8 DEF ProcessSteps
  <2>6. QED
    BY <2>2, <2>3, <2>4, <2>5
<1>9. CASE Crash(w)
  <2> USE DEF MemoryTypeOK, ReferencesGrow, Crash, Goto
  <2>1. /\ pc' \in [Workers -> Steps]
        /\ reclaimed' \in [Workers -> BOOLEAN]
        /\ suiteStatus' \in [Workers -> Verdicts \cup {NoVerdict}]
    BY <1>9 DEF Steps, DispatchSteps
  <2>2. /\ held' \in [Workers -> 0 .. delivered']
        /\ todo' \in [Workers -> SUBSET (1 .. delivered')]
        /\ batch' \in [Workers -> SUBSET (DOMAIN outbox')]
        /\ copied' \in [Workers -> SUBSET (DOMAIN outbox')]
    BY <1>0, <1>9 DEF NoEntry
  <2>3. \A v \in Workers : held'[v] = NoEntry <=> pc'[v] \notin ProcessSteps
    BY <1>9 DEF ProcessSteps, NoEntry
  <2>4. QED
    BY <2>1, <2>2, <2>3
<1>10. CASE ReserveNothing(w) \/ CopyFails(w)
  BY <1>10, ContinueMemory
  DEF ReserveNothing, CopyFails, Steps, DispatchSteps, ProcessSteps
<1>11. CASE \/ CheckProcessed(w) \/ ClaimAttempt(w) \/ ClaimRefused(w)
            \/ EvaluateFails(w) \/ CheckStored(w) \/ CommitSuccess(w)
            \/ CheckTerminal(w) \/ CommitTerminal(w) \/ DeadLetter(w)
            \/ CommitReset(w) \/ EnqueueRetry(w)
            \/ CommitFails(w) \/ AckFails(w)
  <2>1. \E from, to \in ProcessSteps : Continue(w, from, to)
    BY <1>11
    DEF CheckProcessed, ClaimAttempt, ClaimRefused, EvaluateFails, CheckStored,
        CommitSuccess, CheckTerminal, CommitTerminal, DeadLetter, CommitReset,
        EnqueueRetry, Requeues, CommitFails, AckFails, ProcessSteps
  <2>2. ProcessSteps \subseteq Steps
    BY DEF Steps
  <2>3. QED
    BY <2>1, <2>2, ContinueMemory
<1>12. QED
  BY <1>1, <1>2, <1>3, <1>4, <1>5, <1>6, <1>7, <1>8, <1>9, <1>10, <1>11
  DEF Work, Trouble

-----------------------------------------------------------------------------
(* The pipeline is type correct.                                            *)

\* Only the opening of an attempt writes to the outbox.
LEMMA StepOutbox ==
  ASSUME StoreTypeOK, [StoreNext]_storeVars
  PROVE  /\ DOMAIN outbox \subseteq DOMAIN outbox'
         /\ \A i \in DOMAIN outbox' :
              \/ i \in DOMAIN outbox /\ outbox'[i] = outbox[i]
              \/ \E a \in Attempts :
                   OpenAttempt(a) /\ outbox'[i] = [attempt |-> a, retryIndex |-> 0]
<1>1. CASE outbox' = outbox
  BY <1>1
<1>2. ASSUME NEW a \in Attempts, OpenAttempt(a)
      PROVE  /\ DOMAIN outbox \subseteq DOMAIN outbox'
             /\ \A i \in DOMAIN outbox' :
                  \/ i \in DOMAIN outbox /\ outbox'[i] = outbox[i]
                  \/ outbox'[i] = [attempt |-> a, retryIndex |-> 0]
  <2> DEFINE first == [attempt |-> a, retryIndex |-> 0]
  <2>1. outbox \in Seq(EvaluationCommand) /\ outbox' = Append(outbox, first)
    BY <1>2 DEF StoreTypeOK, OpenAttempt
  <2>2. first \in EvaluationCommand
    BY DEF EvaluationCommand
  <2> HIDE DEF first
  <2>3. QED
    BY <2>1, <2>2 DEF first
<1>3. QED
  BY <1>1, <1>2
  DEF StoreNext, storeVars, Transaction, Claim, StoreSuccess,
      StoreTerminalFailure, ResetForRetry, MarkPublished

LEMMA StepReferencesGrow ==
  ASSUME PipelineInvariant, [Next]_vars
  PROVE  /\ StoreTypeOK' /\ QueueTypeOK(EvaluationCommand)'
         /\ StreamGrows /\ ReferencesGrow
<1>1. [StoreNext]_storeVars /\ QueueStep
  BY StepIsStoreStep, StepIsQueueStep
<1>2. StoreTypeOK /\ QueueTypeOK(EvaluationCommand)
  BY DEF PipelineInvariant, TypeOK
<1>3. StoreTypeOK'
  BY <1>1, <1>2, StepTypeOK
<1>4. QueueTypeOK(EvaluationCommand)' /\ StreamGrows
  BY <1>1, <1>2, QueueStepTypeOK
<1>5. delivered \in Nat /\ delivered' \in Nat
  BY <1>2, <1>4 DEF QueueTypeOK
<1>6. DOMAIN outbox \subseteq DOMAIN outbox'
  BY <1>1, <1>2, StepOutbox
<1>7. QED
  BY <1>3, <1>4, <1>5, <1>6 DEF StreamGrows, ReferencesGrow

LEMMA PipelineStepTypeOK ==
  ASSUME PipelineInvariant, [Next]_vars
  PROVE  TypeOK'
<1>1. /\ StoreTypeOK' /\ QueueTypeOK(EvaluationCommand)'
      /\ ReferencesGrow /\ MemoryTypeOK
  BY StepReferencesGrow DEF PipelineInvariant, TypeOK, MemoryTypeOK
<1>2. ASSUME UNCHANGED workerVars PROVE MemoryTypeOK'
  <2> USE <1>1 DEF MemoryTypeOK, ReferencesGrow
  <2>1. /\ pc' \in [Workers -> Steps]
        /\ held' \in [Workers -> 0 .. delivered']
        /\ reclaimed' \in [Workers -> BOOLEAN]
        /\ suiteStatus' \in [Workers -> Verdicts \cup {NoVerdict}]
    BY <1>2 DEF workerVars
  <2>2. todo' \in [Workers -> SUBSET (1 .. delivered')]
    BY <1>2 DEF workerVars
  <2>3. /\ batch' \in [Workers -> SUBSET (DOMAIN outbox')]
        /\ copied' \in [Workers -> SUBSET (DOMAIN outbox')]
    BY <1>2 DEF workerVars
  <2>4. \A v \in Workers : held'[v] = NoEntry <=> pc'[v] \notin ProcessSteps
    BY <1>2 DEF workerVars
  <2>5. QED
    BY <2>1, <2>2, <2>3, <2>4
<1>3. ASSUME NEW w \in Workers, Work(w) \/ Trouble(w) PROVE MemoryTypeOK'
  BY <1>1, <1>3, WorkMemory
<1>4. MemoryTypeOK'
  BY <1>2, <1>3 DEF Next, Open, Expire, vars, workerVars
<1>5. faults' \in 0 .. MaxFaults
  <2>1. faults \in 0 .. MaxFaults
    BY DEF PipelineInvariant, TypeOK
  <2>2. UNCHANGED faults \/ Fault
    BY DEF Next, vars, NoFault, Open, Expire, Work, Trouble, BeginDispatch,
      CopyCommand, CommitDispatch, ReclaimStale, ProcessReclaimed, ReserveNew,
      ReserveNothing, CheckProcessed, ClaimAttempt, ClaimRefused,
      AckDuplicate, Evaluate, EvaluateFails, CheckStored, CommitSuccess,
      AckSuccess, CheckTerminal, CommitTerminal, DeadLetter, CommitReset,
      EnqueueRetry, AckFailure, CopyFails, CommitFails, AckFails, Crash
  <2>3. QED
    BY <2>1, <2>2 DEF Fault
<1>6. QED
  BY <1>1, <1>4, <1>5 DEF TypeOK, MemoryTypeOK

-----------------------------------------------------------------------------
(* Redis and the memories are never ahead of the log.                       *)

LEMMA StepCommandsAreRequested ==
  ASSUME PipelineInvariant, [Next]_vars
  PROVE  CommandsAreRequested'
<1>1. /\ [StoreNext]_storeVars /\ QueueStep
      /\ StoreTypeOK /\ outbox \in Seq(EvaluationCommand)
      /\ \A i \in DOMAIN outbox : Requested(outbox[i])
  BY StepIsStoreStep, StepIsQueueStep
  DEF PipelineInvariant, TypeOK, WorkIsKnown, CommandsAreRequested, StoreTypeOK
<1>2. ASSUME NEW i \in DOMAIN outbox' PROVE Requested(outbox[i])'
  <2>1. \A c \in EvaluationCommand : Requested(c) => Requested(c)'
    BY <1>1, StepKeepsCommands
  <2>2. ASSUME i \in DOMAIN outbox, outbox'[i] = outbox[i]
        PROVE  Requested(outbox[i])'
    <3>1. outbox'[i] \in EvaluationCommand /\ Requested(outbox'[i])
      BY <1>1, <2>2
    <3>2. QED
      BY <2>1, <3>1 DEF Requested
  <2>3. ASSUME NEW a \in Attempts, OpenAttempt(a),
               outbox'[i] = [attempt |-> a, retryIndex |-> 0]
        PROVE  Requested(outbox[i])'
    <3> DEFINE opened == AppendEvent(history[a], ATTEMPT_OPENED, 0, NoVerdict)
    <3>1. opened \in History
      BY <1>1, PlainTypes, DraftWithoutVerdict, AppendEventType DEF StoreTypeOK
    <3>2. history'[a] = AppendEvent(opened, EXECUTION_REQUESTED, 0, NoVerdict)
      BY <1>1, <2>3 DEF OpenAttempt, StoreTypeOK
    <3> HIDE DEF opened
    <3>3. Recorded(history'[a], EXECUTION_REQUESTED, 0)
      BY <3>1, <3>2, PlainTypes, DraftWithoutVerdict, AppendEventRecords
    <3>4. QED
      BY <2>3, <3>3 DEF Requested
  <2>4. QED
    BY <1>1, <1>2, <2>2, <2>3, StepOutbox
<1>3. ASSUME NEW e \in DOMAIN stream' PROVE Requested(stream[e])'
  BY <1>1, QueueStepRequested
<1>4. QED
  BY <1>2, <1>3 DEF CommandsAreRequested

\* What a worker that keeps its entry knows of it stays so.
LEMMA KeptEntry ==
  ASSUME PipelineInvariant, [StoreNext]_storeVars, StreamGrows,
         NEW w \in Workers, pc[w] \in ProcessSteps, held'[w] = held[w]
  PROVE  /\ Command(w)' = Command(w)
         /\ Claimed(Command(w)) => Claimed(Command(w))'
         /\ Requested(retry(Command(w))) /\ ~ Dead(Command(w))
              => Requested(retry(Command(w)))'
<1>1. held[w] \in DOMAIN stream /\ Command(w) \in EvaluationCommand
  BY HeldCommand
<1>2. Command(w)' = Command(w)
  BY <1>1 DEF Command, StreamGrows
<1>3. StoreTypeOK
  BY DEF PipelineInvariant, TypeOK
<1>4. \A c \in EvaluationCommand :
        /\ Requested(c) => Requested(c)'
        /\ Claimed(c) => Claimed(c)'
  BY <1>3, StepKeepsCommands
<1>5. ~ Dead(Command(w)) => retry(Command(w)) \in EvaluationCommand
  BY <1>1 DEF Dead, retry, EvaluationCommand
<1>6. QED
  BY <1>1, <1>2, <1>4, <1>5 DEF Claimed, Requested, retry

LEMMA UndisturbedIsReady ==
  ASSUME PipelineInvariant, [StoreNext]_storeVars, StreamGrows,
         NEW v \in Workers, pc'[v] = pc[v], held'[v] = held[v],
         batch'[v] = batch[v], copied'[v] = copied[v],
         suiteStatus'[v] = suiteStatus[v]
  PROVE  IsReady(v)'
<1>1. IsReady(v)
  BY DEF PipelineInvariant, WorkIsKnown
<1>2. CASE pc[v] \in ProcessSteps
  BY <1>1, <1>2, KeptEntry DEF IsReady, Copyable, ClaimedSteps, Dead
<1>3. CASE pc[v] \notin ProcessSteps
  BY <1>1, <1>3 DEF IsReady, Copyable, ClaimedSteps, ProcessSteps
<1>4. QED
  BY <1>2, <1>3

\* A worker that goes on with its entry knows what it knew, and what its call
\* has added to the log.
LEMMA ContinueIsReady ==
  ASSUME PipelineInvariant, [StoreNext]_storeVars, StreamGrows,
         NEW w \in Workers, NEW from \in ProcessSteps, NEW to \in ProcessSteps,
         Continue(w, from, to),
         to \in ClaimedSteps => Claimed(Command(w)) \/ Claimed(Command(w))',
         to \in {"store", "commit"} => suiteStatus[w] \in Verdicts,
         to \in {"terminal", "deadLetter"} => Dead(Command(w)),
         to = "retry" => ~ Dead(Command(w)) /\ Requested(retry(Command(w)))'
  PROVE  IsReady(w)'
<1>1. /\ pc[w] = from /\ pc'[w] = to /\ held'[w] = held[w]
      /\ copied'[w] = copied[w] /\ suiteStatus'[w] = suiteStatus[w]
  BY DEF Continue, At, Goto, PipelineInvariant, TypeOK
<1>2. /\ Command(w)' = Command(w)
      /\ Claimed(Command(w)) => Claimed(Command(w))'
  BY <1>1, KeptEntry
<1>3. copied[w] = {}
  BY <1>1 DEF PipelineInvariant, WorkIsKnown, IsReady, ProcessSteps
<1>4. to # "copy"
  BY DEF ProcessSteps
<1>5. to \in {"terminal", "deadLetter"} => Dead(Command(w))'
  BY <1>2 DEF Dead
<1>6. to = "retry" => ~ Dead(Command(w))'
  BY <1>2 DEF Dead
<1>7. QED
  BY <1>1, <1>2, <1>3, <1>4, <1>5, <1>6 DEF IsReady

\* A worker without an entry has nothing to know.
LEMMA IdleIsReady ==
  ASSUME NEW w \in Workers,
         pc'[w] \in {"dispatch", "reclaim", "next", "check"}, copied'[w] = {}
  PROVE  IsReady(w)'
BY DEF IsReady, ClaimedSteps

\* The claim and the reset put the facts into the log that justify what the
\* worker does next.
LEMMA ClaimRecords ==
  ASSUME StoreTypeOK, NEW c \in EvaluationCommand, NEW r, Claim(c, r)
  PROVE  Claimed(c)'
<1>1. c.attempt \in Attempts /\ c.retryIndex \in Nat
  BY CommandType
<1>2. /\ history[c.attempt] \in History
      /\ history'[c.attempt] = AppendEvent(history[c.attempt],
                                 EXECUTION_CLAIMED, c.retryIndex, NoVerdict)
  BY <1>1 DEF StoreTypeOK, Claim
<1>3. Recorded(history'[c.attempt], EXECUTION_CLAIMED, c.retryIndex)
  BY <1>1, <1>2, PlainTypes, DraftWithoutVerdict, AppendEventRecords
<1>4. QED
  BY <1>3 DEF Claimed

LEMMA ResetRequests ==
  ASSUME StoreTypeOK, NEW c \in EvaluationCommand, ResetForRetry(c)
  PROVE  Requested(retry(c))'
<1> DEFINE failed == AppendEvent(history[c.attempt], EXECUTION_RETRYABLE_FAILURE,
                                 c.retryIndex, NoVerdict)
           n == retry(c).retryIndex
<1>1. /\ c.attempt \in Attempts /\ c.retryIndex \in Nat
      /\ retry(c).attempt = c.attempt /\ n \in Nat
  BY CommandType
<1>2. failed \in History
  BY <1>1, PlainTypes, DraftWithoutVerdict, AppendEventType DEF StoreTypeOK
<1>3. history'[c.attempt] = AppendEvent(failed, EXECUTION_REQUESTED, n, NoVerdict)
  BY <1>1 DEF ResetForRetry, StoreTypeOK
<1> HIDE DEF failed, n
<1>4. Recorded(history'[c.attempt], EXECUTION_REQUESTED, n)
  BY <1>1, <1>2, <1>3, PlainTypes, DraftWithoutVerdict, AppendEventRecords
<1>5. QED
  BY <1>1, <1>4 DEF Requested, n

LEMMA WorkIsReady ==
  ASSUME PipelineInvariant, [StoreNext]_storeVars, StreamGrows,
         NEW w \in Workers, Work(w) \/ Trouble(w)
  PROVE  IsReady(w)'
<1> DEFINE c == Command(w)
<1>1. /\ IsReady(w) /\ MemoryTypeOK /\ StoreTypeOK
      /\ pc[w] \in ProcessSteps => c \in EvaluationCommand
  BY HeldCommand
  DEF PipelineInvariant, WorkIsKnown, TypeOK, MemoryTypeOK
<1>2. CASE BeginDispatch(w)
  <2>1. /\ pc'[w] = IF NextBatch(w) = {} THEN "reclaim" ELSE "copy"
        /\ copied'[w] = {} /\ batch'[w] = NextBatch(w)
    BY <1>1, <1>2 DEF BeginDispatch, At, Goto, MemoryTypeOK, IsReady
  <2>2. QED
    BY <2>1 DEF IsReady, Copyable, ClaimedSteps
<1>3. CASE CopyCommand(w)
  <2> DEFINE position == First(Copyable(w))
  <2>1. position \in Copyable(w)
    BY <1>3, CopiedPosition DEF CopyCommand, At
  <2>2. /\ pc'[w] = IF Copyable(w) = {position} THEN "publish" ELSE "copy"
        /\ copied'[w] = copied[w] \cup {position} /\ batch'[w] = batch[w]
    BY <1>1, <1>3 DEF CopyCommand, Goto, MemoryTypeOK
  <2> HIDE DEF position
  <2>3. pc'[w] = "copy" => Copyable(w)' # {}
    BY <2>1, <2>2 DEF Copyable
  <2>4. pc'[w] \in {"publish", "copy"}
    BY <2>2
  <2>5. QED
    BY <2>3, <2>4 DEF IsReady, ClaimedSteps
<1>4. CASE CopyFails(w)
  <2>1. pc'[w] = "publish"
    BY <1>1, <1>4 DEF CopyFails, Continue, Goto, MemoryTypeOK
  <2>2. QED
    BY <2>1 DEF IsReady, ClaimedSteps
<1>5. CASE \/ CommitDispatch(w) \/ ReclaimStale(w) \/ ProcessReclaimed(w)
           \/ ReserveNew(w) \/ ReserveNothing(w) \/ Crash(w)
           \/ AckDuplicate(w) \/ AckSuccess(w) \/ AckFailure(w)
  <2>1. pc'[w] \in {"dispatch", "reclaim", "next", "check"}
    BY <1>1, <1>5
    DEF CommitDispatch, ReclaimStale, ProcessReclaimed, ReserveNew,
        ReserveNothing, Crash, AckDuplicate, AckSuccess, AckFailure,
        Begin, Return, Continue, Goto, MemoryTypeOK
  <2>2. copied'[w] = {}
    BY <1>1, <1>5
    DEF CommitDispatch, ReclaimStale, ProcessReclaimed, ReserveNew,
        ReserveNothing, Crash, AckDuplicate, AckSuccess, AckFailure,
        Begin, Return, Continue, At, MemoryTypeOK, IsReady
  <2>3. QED
    BY <2>1, <2>2, IdleIsReady
<1>6. CASE CheckProcessed(w) \/ ClaimRefused(w)
  <2>1. PICK from \in {"check", "claim"}, to \in {"claim", "drop"} :
          Continue(w, from, to)
    BY <1>6 DEF CheckProcessed, ClaimRefused
  <2>2. to \notin ClaimedSteps \cup {"store", "commit", "terminal", "retry"}
    BY DEF ClaimedSteps
  <2>3. from \in ProcessSteps /\ to \in ProcessSteps
    BY DEF ProcessSteps
  <2>4. QED
    BY <2>1, <2>2, <2>3, ContinueIsReady
<1>7. CASE ClaimAttempt(w)
  <2>1. Continue(w, "claim", "evaluate") /\ Claim(c, reclaimed[w])
    BY <1>7 DEF ClaimAttempt
  <2>2. "claim" \in ProcessSteps /\ "evaluate" \in ProcessSteps
    BY DEF ProcessSteps
  <2>3. c \in EvaluationCommand
    BY <1>1, <2>1, <2>2 DEF Continue, At
  <2>4. \A d \in EvaluationCommand : Claim(d, reclaimed[w]) => Claimed(d)'
    BY <1>1, ClaimRecords
  <2>5. Command(w)' = Command(w)
    BY <2>1, <2>2, KeptEntry DEF Continue, At
  <2>6. Claimed(Command(w))'
    BY <2>1, <2>3, <2>4, <2>5 DEF Claimed
  <2>7. QED
    BY <2>1, <2>2, <2>6, ContinueIsReady
<1>8. CASE Evaluate(w)
  <2>1. PICK v \in Verdicts : suiteStatus' = [suiteStatus EXCEPT ![w] = v]
    BY <1>8 DEF Evaluate
  <2>2. /\ pc[w] = "evaluate" /\ pc'[w] = "store" /\ held'[w] = held[w]
        /\ copied'[w] = copied[w] /\ suiteStatus'[w] \in Verdicts
    BY <1>1, <1>8, <2>1 DEF Evaluate, At, Goto, MemoryTypeOK
  <2>3. Claimed(Command(w))'
    BY <1>1, <2>2, KeptEntry DEF IsReady, ClaimedSteps, ProcessSteps
  <2>4. copied[w] = {}
    BY <1>1, <2>2 DEF IsReady
  <2>5. QED
    BY <2>2, <2>3, <2>4 DEF IsReady
<1>9. CASE CommitReset(w)
  <2>1. Continue(w, "fail", "retry") /\ ~ Dead(c) /\ ResetForRetry(c)
    BY <1>9 DEF CommitReset
  <2>2. /\ "fail" \in ProcessSteps /\ "retry" \in ProcessSteps
        /\ "fail" \in ClaimedSteps
    BY DEF ProcessSteps, ClaimedSteps
  <2>3. c \in EvaluationCommand /\ Claimed(c)
    BY <1>1, <2>1, <2>2 DEF Continue, At, IsReady
  <2>4. \A d \in EvaluationCommand : ResetForRetry(d) => Requested(retry(d))'
    BY <1>1, ResetRequests
  <2>5. Command(w)' = Command(w)
    BY <2>1, <2>2, KeptEntry DEF Continue, At
  <2>6. Requested(retry(Command(w)))'
    BY <2>1, <2>3, <2>4, <2>5 DEF Requested, retry
  <2>7. QED
    BY <2>1, <2>2, <2>3, <2>6, ContinueIsReady
<1>10. CASE CheckTerminal(w)
  <2>1. PICK to \in {"deadLetter", "terminal"} :
          Continue(w, "fail", to) /\ Dead(c)
    BY <1>10 DEF CheckTerminal
  <2>2. /\ "fail" \in ProcessSteps /\ to \in ProcessSteps
        /\ "fail" \in ClaimedSteps
    BY DEF ProcessSteps, ClaimedSteps
  <2>3. Claimed(c)
    BY <1>1, <2>1, <2>2 DEF Continue, At, IsReady
  <2>4. QED
    BY <2>1, <2>2, <2>3, ContinueIsReady
<1>11. CASE CheckStored(w)
  <2>1. PICK to \in {"ack", "commit"} : Continue(w, "store", to)
    BY <1>11 DEF CheckStored
  <2>2. /\ "store" \in ProcessSteps /\ to \in ProcessSteps
        /\ "store" \in ClaimedSteps
    BY DEF ProcessSteps, ClaimedSteps
  <2>3. Claimed(c) /\ suiteStatus[w] \in Verdicts
    BY <1>1, <2>1, <2>2 DEF Continue, At, IsReady
  <2>4. QED
    BY <2>1, <2>2, <2>3, ContinueIsReady
<1>12. CASE \/ EvaluateFails(w) \/ CommitSuccess(w)
            \/ DeadLetter(w) \/ EnqueueRetry(w) \/ CommitFails(w) \/ AckFails(w)
  <2>1. PICK from \in ClaimedSteps, to \in {"fail", "ack", "settle"} :
          Continue(w, from, to)
    BY <1>12, BudgetsAgree
    DEF EvaluateFails, CommitSuccess, CommitFails, AckFails, ClaimedSteps
  <2>2. from \in ProcessSteps /\ to \in ProcessSteps
    BY DEF ProcessSteps, ClaimedSteps
  <2>3. Claimed(c)
    BY <1>1, <2>1 DEF Continue, At, IsReady
  <2>4. QED
    BY <2>1, <2>2, <2>3, ContinueIsReady
<1>13. CASE CommitTerminal(w)
  <2>1. Continue(w, "terminal", "deadLetter") /\ pc[w] = "terminal"
    BY <1>13 DEF CommitTerminal, Continue, At
  <2>2. Claimed(c) /\ Dead(c)
    BY <1>1, <2>1 DEF IsReady, ClaimedSteps
  <2>3. QED
    BY <2>1, <2>2, ContinueIsReady DEF ProcessSteps
<1>14. QED
  BY <1>2, <1>3, <1>4, <1>5, <1>6, <1>7, <1>8, <1>9, <1>10, <1>11, <1>12,
     <1>13
  DEF Work, Trouble

\* A worker writes to no memory but its own.
LEMMA OthersUndisturbed ==
  ASSUME TypeOK, NEW w \in Workers, NEW v \in Workers \ {w},
         Work(w) \/ Trouble(w)
  PROVE  /\ pc'[v] = pc[v] /\ held'[v] = held[v]
         /\ batch'[v] = batch[v] /\ copied'[v] = copied[v]
         /\ suiteStatus'[v] = suiteStatus[v]
<1> USE DEF TypeOK, Goto, Continue, Begin, Return
<1>1. CASE \/ BeginDispatch(w) \/ CopyCommand(w) \/ CommitDispatch(w)
           \/ ReclaimStale(w) \/ ProcessReclaimed(w) \/ ReserveNew(w)
           \/ ReserveNothing(w) \/ CopyFails(w) \/ Crash(w)
  BY <1>1 DEF BeginDispatch, CopyCommand, CommitDispatch, ReclaimStale,
              ProcessReclaimed, ReserveNew, ReserveNothing, CopyFails, Crash
<1>2. CASE \/ CheckProcessed(w) \/ ClaimAttempt(w) \/ ClaimRefused(w)
           \/ AckDuplicate(w) \/ Evaluate(w) \/ EvaluateFails(w)
           \/ CheckStored(w) \/ CommitSuccess(w) \/ AckSuccess(w)
  BY <1>2 DEF CheckProcessed, ClaimAttempt, ClaimRefused, AckDuplicate,
              Evaluate, EvaluateFails, CheckStored, CommitSuccess, AckSuccess
<1>3. CASE \/ CheckTerminal(w) \/ CommitTerminal(w) \/ DeadLetter(w)
           \/ CommitReset(w) \/ EnqueueRetry(w) \/ AckFailure(w)
           \/ CommitFails(w) \/ AckFails(w)
  BY <1>3 DEF CheckTerminal, CommitTerminal, DeadLetter, CommitReset,
              EnqueueRetry, Requeues, AckFailure, CommitFails, AckFails
<1>4. QED
  BY <1>1, <1>2, <1>3 DEF Work, Trouble

LEMMA StepIsReady ==
  ASSUME PipelineInvariant, [Next]_vars, NEW v \in Workers
  PROVE  IsReady(v)'
<1>1. /\ [StoreNext]_storeVars /\ StreamGrows /\ TypeOK
  BY StepIsStoreStep, StepReferencesGrow DEF PipelineInvariant
<1>2. ASSUME NEW w \in Workers, Work(w) \/ Trouble(w) PROVE IsReady(v)'
  <2>1. CASE w = v
    BY <1>1, <1>2, <2>1, WorkIsReady
  <2>2. CASE w # v
    BY <1>1, <1>2, <2>2, OthersUndisturbed, UndisturbedIsReady
  <2>3. QED
    BY <2>1, <2>2
<1>3. ASSUME UNCHANGED workerVars PROVE IsReady(v)'
  BY <1>1, <1>3, UndisturbedIsReady DEF workerVars
<1>4. QED
  BY <1>2, <1>3 DEF Next, Open, Expire, vars

\* The invariant holds at the start and every step keeps it.
LEMMA InitPipelineInvariant == Init => PipelineInvariant
<1> SUFFICES ASSUME Init PROVE PipelineInvariant
  OBVIOUS
<1>1. StoreTypeOK
  BY InitTypeOK DEF Init
<1>2. QueueTypeOK(EvaluationCommand)
  BY DEF Init, QueueInit, QueueTypeOK
<1>3. TypeOK
  BY <1>1, <1>2 DEF Init, QueueInit, TypeOK, Steps, DispatchSteps,
                    ProcessSteps, NoEntry
<1>4. CommandsAreRequested
  BY DEF Init, StoreInit, QueueInit, CommandsAreRequested
<1>5. \A w \in Workers : IsReady(w)
  BY DEF Init, IsReady, ClaimedSteps
<1>6. QED
  BY <1>3, <1>4, <1>5 DEF PipelineInvariant, WorkIsKnown

LEMMA StepPipelineInvariant ==
  PipelineInvariant /\ [Next]_vars => PipelineInvariant'
<1> SUFFICES ASSUME PipelineInvariant, [Next]_vars PROVE PipelineInvariant'
  OBVIOUS
<1>1. TypeOK'
  BY PipelineStepTypeOK
<1>2. CommandsAreRequested'
  BY StepCommandsAreRequested
<1>3. \A w \in Workers : IsReady(w)'
  BY StepIsReady
<1>4. QED
  BY <1>1, <1>2, <1>3 DEF PipelineInvariant, WorkIsKnown

LEMMA PipelineInvariantHolds == Spec => []PipelineInvariant
BY InitPipelineInvariant, StepPipelineInvariant, PTL DEF Spec

-----------------------------------------------------------------------------
(* The theorems.                                                            *)

\* Every variable of the store, the queue and the workers keeps its type,
\* whatever crashes, fails or goes stale.
THEOREM PipelineTypeCorrect == Spec => []TypeOK
BY PipelineInvariantHolds, PTL DEF PipelineInvariant

\* No command is in the outbox, the stream or a worker's hands before the
\* fact that justifies it is committed, in whatever order deliveries come.
THEOREM PipelineWorkIsKnown == Spec => []WorkIsKnown
BY PipelineInvariantHolds, PTL DEF PipelineInvariant

\* The workers make only the transactions that the store allows, whatever is
\* redelivered, reclaimed too early or repeated after a failed call.
THEOREM PipelineImplementsStore == Spec => ImplementsStore
<1>1. Init => StoreInit
  BY DEF Init
<1>2. QED
  BY <1>1, StepIsStoreStep, PipelineInvariantHolds, PTL
  DEF Spec, ImplementsStore, StoreSpec

\* What its users see of it is the judging service: each submission gets one
\* result and each first solution one credit, from any number of workers.
THEOREM PipelineImplementsService == Spec => ImplementsService
BY PipelineImplementsStore, StoreImplementsService, PTL DEF ImplementsStore

\* The result of an attempt is the first that the log records, however many
\* workers finish with it.
THEOREM PipelineFirstResultStands == Spec => []FirstResultStands
BY PipelineImplementsStore, StoreFirstResultStands, PTL DEF ImplementsStore

\* The projection that the API shows is the one a rebuild would write, with
\* any number of workers at the log.
THEOREM PipelineProjectionIsReplay == Spec => []ProjectionIsReplay
BY PipelineImplementsStore, StoreProjectionIsReplay, PTL DEF ImplementsStore

=============================================================================
