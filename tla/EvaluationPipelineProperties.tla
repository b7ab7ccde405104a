-------------------- MODULE EvaluationPipelineProperties --------------------
(***************************************************************************)
(* What holds of the workers, the queue and the store together.            *)
(***************************************************************************)
EXTENDS EvaluationPipeline, AttemptStoreProperties

Waiting(a) == row[a] \in {"QUEUED", "RUNNING"}

\* An entry of the attempt that some worker can still be given.
Deliverable(a, entry) ==
  /\ stream[entry].attempt = a
  /\ entry > delivered \/ entry \in pending

\* An accepted attempt that has no result is never forgotten: the outbox
\* still has its command, or the queue has an entry for it that was not
\* acknowledged (README, "Avoid losing accepted submissions").  It needs the
\* order of every pair of steps in the dispatcher, in process and in
\* retry_or_dead_letter to be the right one, whatever crashes in between.
NoLostWork ==
  \A a \in Attempts :
    Waiting(a) =>
      \/ \E i \in Unpublished : outbox[i].attempt = a
      \/ \E entry \in 1 .. Len(stream) : Deliverable(a, entry)

\* A command reaches the dead-work stream only when its attempt has a result:
\* a dead letter never stands for work that might still be done.
DeadLettersAreDecided == \A command \in dead : Decided(command.attempt)

\* A duplicate that is taken over from a dead worker never disturbs one that
\* is alive: no two workers are busy with the same entry of the stream, even
\* if they may be with two entries of the same attempt.
ExclusiveHolding ==
  \A v, w \in Workers : v # w => Holding(v) \cap Holding(w) = {}

\* The workers use the store as it is meant to be used: they claim only what
\* was requested, report only what was claimed, reset only within the retry
\* budget and give up only beyond it, whatever is redelivered.
ImplementsStore == StoreSpec

-----------------------------------------------------------------------------
(* Why ImplementsStore holds: what the outbox, the stream and the memories *)
(* of the workers say of the log.                                          *)

\* The steps of process that follow the claim.
ClaimedSteps ==
  {"evaluate", "store", "commit", "ack", "fail", "terminal", "deadLetter",
   "retry", "settle"}

\* Every command that was staged or enqueued has its request in the log.
CommandsAreRequested ==
  /\ \A i \in DOMAIN outbox : Requested(outbox[i])
  /\ \A entry \in DOMAIN stream : Requested(stream[entry])

\* What a worker needs of the log and of its memory for its next call.
IsReady(w) ==
  /\ pc[w] \notin {"copy", "publish"} => copied[w] = {}
  /\ pc[w] = "copy" => Copyable(w) # {}
  /\ pc[w] \in ClaimedSteps => Claimed(Command(w))
  /\ pc[w] \in {"store", "commit"} => suiteStatus[w] \in Verdicts
  /\ pc[w] \in {"terminal", "deadLetter"} => Dead(Command(w))
  /\ pc[w] = "retry" => ~ Dead(Command(w)) /\ Requested(retry(Command(w)))

\* Redis and the memories are never ahead of PostgreSQL: no command is in the
\* outbox, the stream or a worker's hands before the fact that justifies it is
\* in the log, in the order in which process and retry_or_dead_letter work.
WorkIsKnown == CommandsAreRequested /\ \A w \in Workers : IsReady(w)

-----------------------------------------------------------------------------
(* Why NoLostWork holds when an entry goes stale only after its worker has *)
(* died: the strengthening that is inductive.                              *)

\* Entries in memory are pending and in one memory only.  An entry that was
\* acknowledged before process returned belongs to a decided attempt.
HoldingsArePending ==
  /\ ExclusiveHolding
  /\ \A w \in Workers :
       /\ todo[w] \subseteq pending
       /\ held[w] \notin todo[w]
       /\ held[w] # NoEntry =>
            held[w] \in pending \/ Decided(Command(w).attempt)
       /\ Holding(w) \cap stale = {}

\* The steps that are reached only once the attempt has a result.
DecidedSteps ==
  \A w \in Workers :
    pc[w] \in {"ack", "deadLetter"} => Decided(Command(w).attempt)

\* The entry will not be acknowledged unless the attempt is first requested
\* again: nobody has it in hand, or its holder still has to decide.
Safe(entry) ==
  \A w \in Workers : held[w] = entry => pc[w] \notin {"drop", "settle"}

\* The holder of the entry, if any, has claimed the attempt with it or is
\* sure to be able to.
Rerunnable(entry) ==
  \A w \in Workers :
    held[w] = entry =>
      /\ pc[w] \notin {"drop", "retry", "settle"}
      /\ pc[w] \in {"check", "claim"} => reclaimed[w]

\* A queued attempt has a command that the dispatcher has not copied yet, or
\* an entry that will be processed.
QueuedWorkIsSafe ==
  \A a \in Attempts :
    row[a] = "QUEUED" =>
      \/ \E i \in Unpublished :
           outbox[i].attempt = a /\ \A w \in Workers : i \notin copied[w]
      \/ \E entry \in 1 .. Len(stream) : Deliverable(a, entry) /\ Safe(entry)

\* A running attempt has a pending entry whose holder executes it, or which
\* will be reclaimed: an entry that is delivered afresh would be dropped.
RunningWorkIsSafe ==
  \A a \in Attempts :
    row[a] = "RUNNING" =>
      \E entry \in pending : stream[entry].attempt = a /\ Rerunnable(entry)

SafetyInvariant ==
  /\ ProcessedMeansDecided
  /\ HoldingsArePending
  /\ DecidedSteps
  /\ QueuedWorkIsSafe
  /\ RunningWorkIsSafe

-----------------------------------------------------------------------------

\* Every attempt that was accepted gets a result, if workers that are up keep
\* calling and crashes and failed calls come to an end.
EveryAttemptIsDecided ==
  \A a \in Attempts : row[a] # "ABSENT" ~> Decided(a)

\* And it is the service that the users see, liveness included.
ImplementsFairService == Service!FairServiceSpec

\* No delivery circulates for ever: in the end every command of the outbox is
\* published and the group has nothing pending or unread, whatever retries,
\* duplicates and reclaims the failures caused.
EverythingSettles ==
  <>[](/\ Unpublished = {}
       /\ pending = {}
       /\ delivered = Len(stream))

-----------------------------------------------------------------------------
(* What the documentation says and the code does not keep.                  *)

ShownPhase(a) == history[a].projection.phase

\* README's state diagram has no way out of a terminal state, and its failure
\* table calls redelivery after a commit harmless.  The phase that the API
\* shows is the one of the projection.
ShownResultsAreFinal ==
  [][\A a \in Attempts :
       ShownPhase(a) \in TERMINAL_STATUSES => ShownPhase(a)' = ShownPhase(a)]_vars

\* README, failure table: what a crashed worker had claimed can be reclaimed.
\* So an attempt that waits for its result is in the outbox or the queue, or
\* at least in the hands of a worker that is alive.
NoStrandedAttempt ==
  \A a \in Attempts :
    Waiting(a) =>
      \/ \E i \in Unpublished : outbox[i].attempt = a
      \/ \E entry \in 1 .. Len(stream) : Deliverable(a, entry)
      \/ \E w \in Workers : \E entry \in Holding(w) : stream[entry].attempt = a

\* README, idempotent terminal-result persistence: two deliveries that both
\* finish leave one result, whether it is read from the row or the log.
OneResult ==
  \A a \in Attempts :
    Decided(a) /\ ShownPhase(a) \in TERMINAL_STATUSES => ShownPhase(a) = row[a]

=============================================================================
