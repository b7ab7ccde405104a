------------------------- MODULE EvaluationPipeline -------------------------
(***************************************************************************)
(* The evaluation workers (worker/main.py, worker/service.py) between the  *)
(* attempt store and the execution queue.                                  *)
(*                                                                         *)
(* A worker runs the loop of run_worker: it copies the outbox to the       *)
(* queue, takes over stale entries and processes them, then reserves one   *)
(* new entry and processes it.  It may stop between any two calls to       *)
(* PostgreSQL or Redis and start again with nothing in memory, and a call  *)
(* may fail whether or not it took effect.                                 *)
(***************************************************************************)
EXTENDS AttemptStore, ExecutionQueue

CONSTANTS
  Workers,
  BatchSize,         \* the limit of next_batch (100 in the code)
  MaxFaults,         \* bound: how many crashes and failed calls a run may have
  PrematureReclaim   \* may an entry go stale while a live worker has it?

ASSUME BatchSizeAssumption == BatchSize \in Nat \ {0}
ASSUME MaxFaultsAssumption == MaxFaults \in Nat
ASSUME PrematureReclaimAssumption == PrematureReclaim \in BOOLEAN

VARIABLES
  pc,         \* the call each worker makes next
  held,       \* the entry it is processing, or NoEntry
  reclaimed,  \* the argument of process: did the entry come from a reclaim?
  todo,       \* reclaimed entries it has not begun to process
  batch,      \* outbox positions locked by its open dispatch transaction
  copied,     \* those of them whose command it has added to the stream
  suiteStatus,    \* the suite status it is about to store
  faults      \* crashes and failed calls so far

workerVars == <<pc, held, reclaimed, todo, batch, copied, suiteStatus>>
vars == <<storeVars, queueVars, workerVars, faults>>

NoEntry == 0

DispatchSteps == {"dispatch", "copy", "publish"}
ProcessSteps ==
  {"check", "claim", "drop", "evaluate", "store", "commit", "ack",
   "fail", "terminal", "deadLetter", "retry", "settle"}
Steps == DispatchSteps \cup {"reclaim", "next"} \cup ProcessSteps

TypeOK ==
  /\ StoreTypeOK
  /\ QueueTypeOK(EvaluationCommand)
  /\ pc \in [Workers -> Steps]
  /\ held \in [Workers -> 0 .. delivered]
  /\ reclaimed \in [Workers -> BOOLEAN]
  /\ todo \in [Workers -> SUBSET (1 .. delivered)]
  /\ batch \in [Workers -> SUBSET (DOMAIN outbox)]
  /\ copied \in [Workers -> SUBSET (DOMAIN outbox)]
  /\ suiteStatus \in [Workers -> Verdicts \cup {NoVerdict}]
  /\ faults \in 0 .. MaxFaults
  /\ \A w \in Workers : held[w] = NoEntry <=> pc[w] \notin ProcessSteps

Init ==
  /\ StoreInit
  /\ QueueInit
  /\ pc = [w \in Workers |-> "dispatch"]
  /\ held = [w \in Workers |-> NoEntry]
  /\ reclaimed = [w \in Workers |-> FALSE]
  /\ todo = [w \in Workers |-> {}]
  /\ batch = [w \in Workers |-> {}]
  /\ copied = [w \in Workers |-> {}]
  /\ suiteStatus = [w \in Workers |-> NoVerdict]
  /\ faults = 0

-----------------------------------------------------------------------------

Command(w) == stream[held[w]]

\* What a live worker has in memory of the pending entries.
Holding(w) == todo[w] \cup ({held[w]} \ {NoEntry})

At(w, step) == pc[w] = step
Goto(w, step) == pc' = [pc EXCEPT ![w] = step]

\* The worker moves on in process, with the entry it has.
Continue(w, from, to) ==
  /\ At(w, from)
  /\ Goto(w, to)
  /\ UNCHANGED <<held, reclaimed, todo, batch, copied, suiteStatus>>

\* process begins with an entry.
Begin(w, entry, isReclaimed) ==
  /\ Goto(w, "check")
  /\ held' = [held EXCEPT ![w] = entry]
  /\ reclaimed' = [reclaimed EXCEPT ![w] = isReclaimed]
  /\ UNCHANGED <<batch, copied, suiteStatus>>

\* process returns: to the rest of the reclaimed entries, or to the loop.
Return(w, from) ==
  /\ At(w, from)
  /\ Goto(w, IF reclaimed[w] THEN "next" ELSE "dispatch")
  /\ held' = [held EXCEPT ![w] = NoEntry]
  /\ reclaimed' = [reclaimed EXCEPT ![w] = FALSE]
  /\ suiteStatus' = [suiteStatus EXCEPT ![w] = NoVerdict]
  /\ UNCHANGED <<todo, batch, copied>>

NoFault == UNCHANGED faults
Fault == faults < MaxFaults /\ faults' = faults + 1

-----------------------------------------------------------------------------
(* dispatch_outbox.                                                         *)

Unpublished == DOMAIN outbox \ published

\* FOR UPDATE SKIP LOCKED: rows of another open dispatch are passed over.
Available(w) == Unpublished \ UNION {batch[v] : v \in Workers \ {w}}

\* The first BatchSize of them in id order.
NextBatch(w) ==
  {i \in Available(w) : Cardinality({j \in Available(w) : j < i}) < BatchSize}

BeginDispatch(w) ==
  /\ At(w, "dispatch")
  /\ Goto(w, IF NextBatch(w) = {} THEN "reclaim" ELSE "copy")
  /\ batch' = [batch EXCEPT ![w] = NextBatch(w)]
  /\ UNCHANGED <<storeVars, queueVars, held, reclaimed, todo, copied, suiteStatus>>
  /\ NoFault

Copyable(w) == batch[w] \ copied[w]

CopyCommand(w) ==
  LET position == First(Copyable(w))
  IN  /\ At(w, "copy")
      /\ enqueue(outbox[position])
      /\ copied' = [copied EXCEPT ![w] = @ \cup {position}]
      /\ Goto(w, IF Copyable(w) = {position} THEN "publish" ELSE "copy")
      /\ UNCHANGED <<storeVars, held, reclaimed, todo, batch, suiteStatus>>
      /\ NoFault

\* enqueue raises, with or without the entry in the stream: the row is not
\* marked and the loop over the batch ends.
CopyFails(w) ==
  /\ Continue(w, "copy", "publish")
  /\ \/ enqueue(outbox[First(Copyable(w))])
     \/ UNCHANGED queueVars
  /\ UNCHANGED storeVars
  /\ Fault

\* Mutant: the whole batch is marked, however far the copying came.
MarkedBatch(w) == batch[w]

\* The rows on which mark_published was called.
Marked(w) == copied[w]

CommitDispatch(w) ==
  /\ At(w, "publish")
  /\ MarkPublished(Marked(w))
  /\ Goto(w, "reclaim")
  /\ batch' = [batch EXCEPT ![w] = {}]
  /\ copied' = [copied EXCEPT ![w] = {}]
  /\ UNCHANGED <<queueVars, held, reclaimed, todo, suiteStatus>>
  /\ NoFault

-----------------------------------------------------------------------------
(* The sources of entries in run_worker.                                    *)

ReclaimStale(w) ==
  /\ At(w, "reclaim")
  /\ reclaim_stale
  /\ todo' = [todo EXCEPT ![w] = stale]
  /\ Goto(w, "next")
  /\ UNCHANGED <<storeVars, held, reclaimed, batch, copied, suiteStatus>>
  /\ NoFault

ProcessReclaimed(w) ==
  LET entry == First(todo[w])
  IN  /\ At(w, "next")
      /\ todo[w] # {}
      /\ Begin(w, entry, TRUE)
      /\ todo' = [todo EXCEPT ![w] = @ \ {entry}]
      /\ UNCHANGED <<storeVars, queueVars>>
      /\ NoFault

ReserveNew(w) ==
  /\ At(w, "next")
  /\ todo[w] = {}
  /\ \E entry \in 1 .. Len(stream) : reserve(entry) /\ Begin(w, entry, FALSE)
  /\ UNCHANGED <<storeVars, todo>>
  /\ NoFault

ReserveNothing(w) ==
  /\ todo[w] = {}
  /\ NothingToReserve
  /\ Continue(w, "next", "dispatch")
  /\ UNCHANGED <<storeVars, queueVars>>
  /\ NoFault

-----------------------------------------------------------------------------
(* process: the two looks at the store, and the evaluation.                 *)

CheckProcessed(w) ==
  /\ At(w, "check")
  /\ Continue(w, "check", IF Command(w) \in processed THEN "drop" ELSE "claim")
  /\ UNCHANGED <<storeVars, queueVars>>
  /\ NoFault

ClaimAttempt(w) ==
  /\ Continue(w, "claim", "evaluate")
  /\ Claim(Command(w), reclaimed[w])
  /\ UNCHANGED queueVars
  /\ NoFault

\* Mutant: the execution goes ahead without the claim.
ExecuteUnclaimed(w) ==
  /\ Continue(w, "claim", "evaluate")
  /\ ~ Eligible(Command(w), reclaimed[w])
  /\ UNCHANGED <<storeVars, queueVars>>
  /\ NoFault

\* _claim finds no row to take: a decided attempt, or an obsolete duplicate.
ClaimRefused(w) ==
  /\ Continue(w, "claim", "drop")
  /\ ~ Eligible(Command(w), reclaimed[w])
  /\ UNCHANGED <<storeVars, queueVars>>
  /\ NoFault

AckDuplicate(w) ==
  /\ Return(w, "drop")
  /\ ack(held[w])
  /\ UNCHANGED storeVars
  /\ NoFault

\* The suite has an answer.
Evaluate(w) ==
  /\ At(w, "evaluate")
  /\ \E v \in Verdicts : suiteStatus' = [suiteStatus EXCEPT ![w] = v]
  /\ Goto(w, "store")
  /\ UNCHANGED <<storeVars, queueVars, held, reclaimed, todo, batch, copied>>
  /\ NoFault

\* _bundle_for, materialized_artifact, the engine or the report raises.  The
\* retry budget bounds these failures, so they are not counted.
EvaluateFails(w) ==
  /\ Continue(w, "evaluate", "fail")
  /\ UNCHANGED <<storeVars, queueVars>>
  /\ NoFault

-----------------------------------------------------------------------------
(* process: the success path.  Its exceptions lead to the failure path.     *)

\* _store_success looks at processed_commands before it takes any lock.
CheckStored(w) ==
  /\ At(w, "store")
  /\ Continue(w, "store", IF Command(w) \in processed THEN "ack" ELSE "commit")
  /\ UNCHANGED <<storeVars, queueVars>>
  /\ NoFault

CommitSuccess(w) ==
  /\ Continue(w, "commit", "ack")
  /\ StoreSuccess(Command(w), suiteStatus[w])
  /\ UNCHANGED queueVars
  /\ NoFault

\* The transaction raises, before or after PostgreSQL made it durable.
CommitFails(w) ==
  /\ Continue(w, "commit", "fail")
  /\ \/ StoreSuccess(Command(w), suiteStatus[w])
     \/ UNCHANGED storeVars
  /\ UNCHANGED queueVars
  /\ Fault

\* The result is announced after the ACK; a failed announcement is ignored.
AckSuccess(w) ==
  /\ Return(w, "ack")
  /\ ack(held[w])
  /\ UNCHANGED storeVars
  /\ NoFault

\* queue.ack raises inside the try block, with or without its effect.
AckFails(w) ==
  /\ Continue(w, "ack", "fail")
  /\ \/ ack(held[w])
     \/ UNCHANGED queueVars
  /\ UNCHANGED storeVars
  /\ Fault

-----------------------------------------------------------------------------
(* process: the failure path.                                               *)

\* _store_terminal_failure looks at processed_commands first.
CheckTerminal(w) ==
  /\ At(w, "fail")
  /\ Dead(Command(w))
  /\ Continue(w, "fail",
              IF Command(w) \in processed THEN "deadLetter" ELSE "terminal")
  /\ UNCHANGED <<storeVars, queueVars>>
  /\ NoFault

CommitTerminal(w) ==
  /\ Continue(w, "terminal", "deadLetter")
  /\ StoreTerminalFailure(Command(w))
  /\ UNCHANGED queueVars
  /\ NoFault

\* retry_or_dead_letter is called, after either way of storing the failure.
Requeues(w) == pc[w] \in {"retry", "deadLetter"} /\ Continue(w, pc[w], "settle")

\* Mutant: one execution too many.
ExhaustedTooLate(command) == command.retryIndex >= MaxAttempts

\* The queue has a budget of its own, and does not ask what process has stored.
Exhausted(command) == command.retryIndex + 1 >= MaxAttempts

DeadLetter(w) ==
  /\ Requeues(w)
  /\ Exhausted(Command(w))
  /\ dead_letter(Command(w))
  /\ UNCHANGED storeVars
  /\ NoFault

CommitReset(w) ==
  /\ Continue(w, "fail", "retry")
  /\ ~ Dead(Command(w))
  /\ ResetForRetry(Command(w))
  /\ UNCHANGED queueVars
  /\ NoFault

EnqueueRetry(w) ==
  /\ Requeues(w)
  /\ ~ Exhausted(Command(w))
  /\ enqueue(retry(Command(w)))
  /\ UNCHANGED storeVars
  /\ NoFault

AckFailure(w) ==
  /\ Return(w, "settle")
  /\ ack(held[w])
  /\ UNCHANGED storeVars
  /\ NoFault

-----------------------------------------------------------------------------
(* The environment.                                                         *)

Open(a) ==
  /\ OpenAttempt(a)
  /\ UNCHANGED <<queueVars, workerVars>>
  /\ NoFault

\* The process dies, or an exception escapes process or the loop; it starts
\* again with an empty memory and its transactions rolled back.  A call that
\* took effect before its reply was lost is a step followed by a crash.
Crash(w) ==
  /\ Fault
  /\ pc[w] # "dispatch"
  /\ Goto(w, "dispatch")
  /\ held' = [held EXCEPT ![w] = NoEntry]
  /\ reclaimed' = [reclaimed EXCEPT ![w] = FALSE]
  /\ todo' = [todo EXCEPT ![w] = {}]
  /\ batch' = [batch EXCEPT ![w] = {}]
  /\ copied' = [copied EXCEPT ![w] = {}]
  /\ suiteStatus' = [suiteStatus EXCEPT ![w] = NoVerdict]
  /\ UNCHANGED <<storeVars, queueVars>>

\* The visibility timeout runs from the last delivery of an entry and is not
\* renewed, so it can pass while a slow worker is still busy with the entry:
\* PrematureReclaim says whether the run includes that.
Expire(entry) ==
  /\ PrematureReclaim \/ \A w \in Workers : entry \notin Holding(w)
  /\ BecomeStale(entry)
  /\ UNCHANGED <<storeVars, workerVars>>
  /\ NoFault

-----------------------------------------------------------------------------

\* One call of a worker that is alive and gets an answer.
Work(w) ==
  \/ BeginDispatch(w) \/ CopyCommand(w) \/ CommitDispatch(w)
  \/ ReclaimStale(w) \/ ProcessReclaimed(w)
  \/ ReserveNew(w) \/ ReserveNothing(w)
  \/ CheckProcessed(w) \/ ClaimAttempt(w) \/ ClaimRefused(w) \/ AckDuplicate(w)
  \/ Evaluate(w) \/ EvaluateFails(w)
  \/ CheckStored(w) \/ CommitSuccess(w) \/ AckSuccess(w)
  \/ CheckTerminal(w) \/ CommitTerminal(w) \/ DeadLetter(w)
  \/ CommitReset(w) \/ EnqueueRetry(w) \/ AckFailure(w)

Trouble(w) == CopyFails(w) \/ CommitFails(w) \/ AckFails(w) \/ Crash(w)

Next ==
  \/ \E a \in Attempts : Open(a)
  \/ \E w \in Workers : Work(w) \/ Trouble(w)
  \/ \E entry \in pending : Expire(entry)

Spec == Init /\ [][Next]_vars

\* A worker that is up keeps calling, and time passes.
Fairness ==
  /\ \A w \in Workers : WF_vars(Work(w))
  /\ WF_vars(\E entry \in pending : Expire(entry))

FairSpec == Spec /\ Fairness

=============================================================================
