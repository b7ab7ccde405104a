------------------------- MODULE AttemptStoreProofs -------------------------
(***************************************************************************)
(* The theorems about AttemptStore, for every set of attempts and every    *)
(* retry budget.                                                           *)
(***************************************************************************)
EXTENDS AttemptStoreProperties, FiniteSetTheorems, WellFoundedInduction, TLAPS

USE AccountOfAssumption, ChallengeOfAssumption, VerdictsAssumption,
    MaxAttemptsAssumption

-----------------------------------------------------------------------------
(* The reducer and the append.                                              *)

\* The verdict of a finishing event is a terminal status.
LEMMA VerdictIsTerminal ==
  ASSUME NEW e \in LifecycleEvent
  PROVE  VerdictOf(e) \in TERMINAL_STATUSES
BY DEF VerdictOf, LifecycleEvent, TERMINAL_STATUSES

\* The effect of an event on a projection is a projection.
LEMMA ProjectedType ==
  ASSUME NEW p \in AttemptProjection, NEW e \in LifecycleEvent
  PROVE  Projected(p, e) \in AttemptProjection
<1> USE DEF AttemptProjection, LifecycleEvent, Phases, EventTypes,
            FinishingTypes, ATTEMPT_OPENED, EXECUTION_REQUESTED,
            EXECUTION_CLAIMED, EXECUTION_RETRYABLE_FAILURE,
            EXECUTION_COMPLETED, EXECUTION_TERMINAL_FAILURE
<1>1. VerdictOf(e) \in TERMINAL_STATUSES
  BY VerdictIsTerminal
<1>2. CASE e.type = ATTEMPT_OPENED
  BY <1>2 DEF Projected
<1>3. CASE e.type = EXECUTION_REQUESTED
  BY <1>3 DEF Projected
<1>4. CASE e.type = EXECUTION_CLAIMED
  BY <1>4 DEF Projected
<1>5. CASE e.type = EXECUTION_RETRYABLE_FAILURE
  <2>1. Projected(p, e) =
          [p EXCEPT !.phase = "QUEUED", !.verdict = NoVerdict,
                    !.retryIndex = e.delivery + 1]
    BY <1>5 DEF Projected
  <2>2. e.delivery + 1 \in Nat
    OBVIOUS
  <2>3. QED
    BY <2>1, <2>2
<1>6. CASE e.type \in FinishingTypes
  <2>1. Projected(p, e) =
          [p EXCEPT !.phase = VerdictOf(e), !.verdict = VerdictOf(e),
                    !.finished = TRUE]
    BY <1>6 DEF Projected
  <2>2. QED
    BY <1>1, <2>1
<1>7. QED
  BY <1>2, <1>3, <1>4, <1>5, <1>6

\* The reducer maps a projection and an event to a projection.
LEMMA EvolveType ==
  ASSUME NEW p \in AttemptProjection, NEW e \in LifecycleEvent
  PROVE  evolve(p, e) \in AttemptProjection
BY ProjectedType DEF evolve, AttemptProjection, LifecycleEvent

\* An event that an append may make.
Draft(type, delivery, verdict) ==
  /\ type \in EventTypes
  /\ delivery \in Nat
  /\ verdict \in TERMINAL_STATUSES \cup {NoVerdict}
  /\ type = EXECUTION_COMPLETED <=> verdict # NoVerdict

\* The new event of a history is an event.
LEMMA NextEventType ==
  ASSUME NEW h \in History, NEW t, NEW d, NEW v, Draft(t, d, v)
  PROVE  NextEvent(h, t, d, v) \in LifecycleEvent
<1>1. Len(h.events) + 1 \in Nat
  BY DEF History
<1>2. QED
  BY <1>1 DEF NextEvent, LifecycleEvent, Draft

\* An append maps a history to a history.
LEMMA AppendEventType ==
  ASSUME NEW h \in History, NEW t, NEW d, NEW v, Draft(t, d, v)
  PROVE  AppendEvent(h, t, d, v) \in History
<1> DEFINE e == NextEvent(h, t, d, v)
<1>1. e \in LifecycleEvent
  BY NextEventType
<1>2. /\ h.events \in Seq(LifecycleEvent)
      /\ h.projection \in AttemptProjection
  BY DEF History
<1>3. Append(h.events, e) \in Seq(LifecycleEvent)
  BY <1>1, <1>2
<1>4. evolve(h.projection, e) \in AttemptProjection
  BY <1>1, <1>2, EvolveType
<1> HIDE DEF e
<1>5. [events |-> Append(h.events, e), projection |-> evolve(h.projection, e)]
        \in History
  BY <1>3, <1>4 DEF History
<1>6. QED
  BY <1>5 DEF AppendEvent, e

\* The drafts of the transactions: every fact but a completion has no verdict.
LEMMA DraftWithoutVerdict ==
  ASSUME NEW t \in EventTypes \ {EXECUTION_COMPLETED}, NEW d \in Nat
  PROVE  Draft(t, d, NoVerdict)
BY DEF Draft

LEMMA DraftWithVerdict ==
  ASSUME NEW d \in Nat, NEW v \in TERMINAL_STATUSES
  PROVE  Draft(EXECUTION_COMPLETED, d, v)
BY DEF Draft, EventTypes, TERMINAL_STATUSES, NoVerdict

\* The five facts without a verdict are of different types, none a completion.
LEMMA PlainTypes ==
  {ATTEMPT_OPENED, EXECUTION_REQUESTED, EXECUTION_CLAIMED,
   EXECUTION_RETRYABLE_FAILURE, EXECUTION_TERMINAL_FAILURE}
    \subseteq EventTypes \ {EXECUTION_COMPLETED}
BY DEF EventTypes, ATTEMPT_OPENED, EXECUTION_REQUESTED, EXECUTION_CLAIMED,
       EXECUTION_RETRYABLE_FAILURE, EXECUTION_TERMINAL_FAILURE,
       EXECUTION_COMPLETED

\* Commands and what retry makes of them.
LEMMA CommandType ==
  ASSUME NEW c \in EvaluationCommand
  PROVE  /\ c.attempt \in Attempts
         /\ c.retryIndex \in Nat
         /\ retry(c).attempt = c.attempt
         /\ retry(c).retryIndex = c.retryIndex + 1
         /\ retry(c).retryIndex \in Nat
         /\ ~ Dead(c) => retry(c) \in EvaluationCommand
BY DEF EvaluationCommand, retry, Dead

-----------------------------------------------------------------------------
(* Type correctness.                                                        *)

LEMMA InitTypeOK == StoreInit => StoreTypeOK
<1> SUFFICES ASSUME StoreInit PROVE StoreTypeOK
  OBVIOUS
<1>1. NewHistory \in History
  BY DEF NewHistory, NewProjection, History, AttemptProjection, Phases
<1>2. QED
  BY <1>1 DEF StoreInit, StoreTypeOK, RowPhases

LEMMA OpenAttemptTypeOK ==
  ASSUME StoreTypeOK, NEW a \in Attempts, OpenAttempt(a)
  PROVE  StoreTypeOK'
<1> DEFINE opened == AppendEvent(history[a], ATTEMPT_OPENED, 0, NoVerdict)
<1>1. opened \in History
  BY PlainTypes, DraftWithoutVerdict, AppendEventType DEF StoreTypeOK
<1> HIDE DEF opened
<1>2. AppendEvent(opened, EXECUTION_REQUESTED, 0, NoVerdict) \in History
  BY <1>1, PlainTypes, DraftWithoutVerdict, AppendEventType
<1>3. history' \in [Attempts -> History]
  BY <1>2 DEF OpenAttempt, StoreTypeOK, opened
<1>4. outbox' \in Seq(EvaluationCommand) /\ published' \subseteq DOMAIN outbox'
  BY DEF OpenAttempt, StoreTypeOK, EvaluationCommand
<1>5. row' \in [Attempts -> RowPhases]
  BY DEF OpenAttempt, StoreTypeOK, RowPhases, Phases
<1>6. QED
  BY <1>3, <1>4, <1>5 DEF OpenAttempt, StoreTypeOK

LEMMA MarkPublishedTypeOK ==
  ASSUME StoreTypeOK, NEW P \in SUBSET (DOMAIN outbox), MarkPublished(P)
  PROVE  StoreTypeOK'
BY DEF MarkPublished, StoreTypeOK

LEMMA ClaimTypeOK ==
  ASSUME StoreTypeOK, NEW c \in EvaluationCommand, NEW r \in BOOLEAN,
         Claim(c, r)
  PROVE  StoreTypeOK'
<1>1. c.attempt \in Attempts /\ c.retryIndex \in Nat
  BY CommandType
<1>2. AppendEvent(history[c.attempt], EXECUTION_CLAIMED, c.retryIndex, NoVerdict)
        \in History
  BY <1>1, PlainTypes, DraftWithoutVerdict, AppendEventType DEF StoreTypeOK
<1>3. history' \in [Attempts -> History]
  BY <1>1, <1>2 DEF Claim, StoreTypeOK
<1>4. row' \in [Attempts -> RowPhases]
  BY <1>1 DEF Claim, StoreTypeOK, RowPhases, Phases
<1>5. QED
  BY <1>3, <1>4 DEF Claim, StoreTypeOK

\* persist_result keeps the type of the row.
LEMMA PersistResultType ==
  ASSUME row \in [Attempts -> RowPhases], NEW a \in Attempts,
         NEW p \in TERMINAL_STATUSES, PersistResult(a, p)
  PROVE  row' \in [Attempts -> RowPhases]
BY DEF PersistResult, RowPhases, Phases

\* Recording a completion keeps the types of the two tallies.
LEMMA RecordCompletionType ==
  ASSUME completed \subseteq Accounts \X Challenges,
         acceptedCount \in [Challenges -> Nat],
         NEW a \in Attempts, NEW v, RecordCompletion(a, v)
  PROVE  /\ completed' \subseteq Accounts \X Challenges
         /\ acceptedCount' \in [Challenges -> Nat]
<1>1. ChallengeOf[a] \in Challenges /\ Solved(a) \in Accounts \X Challenges
  BY DEF Solved
<1>2. CASE Credited(a, v)
  <2>1. completed' = completed \cup {Solved(a)}
    BY <1>2 DEF RecordCompletion
  <2>2. acceptedCount' = [acceptedCount EXCEPT ![ChallengeOf[a]] = @ + 1]
    BY <1>2 DEF RecordCompletion
  <2>3. acceptedCount[ChallengeOf[a]] + 1 \in Nat
    BY <1>1
  <2>4. QED
    BY <1>1, <2>1, <2>2, <2>3
<1>3. CASE ~ Credited(a, v)
  BY <1>3 DEF RecordCompletion
<1>4. QED
  BY <1>2, <1>3

LEMMA StoreSuccessTypeOK ==
  ASSUME StoreTypeOK, NEW c \in EvaluationCommand, NEW v \in Verdicts,
         StoreSuccess(c, v)
  PROVE  StoreTypeOK'
<1>1. c.attempt \in Attempts /\ c.retryIndex \in Nat
  BY CommandType
<1>2. AppendEvent(history[c.attempt], EXECUTION_COMPLETED, c.retryIndex, v)
        \in History
  BY <1>1, DraftWithVerdict, AppendEventType DEF StoreTypeOK
<1>3. history' \in [Attempts -> History]
  BY <1>1, <1>2 DEF StoreSuccess, StoreTypeOK
<1>4. row' \in [Attempts -> RowPhases]
  BY <1>1, PersistResultType DEF StoreSuccess, StoreTypeOK
<1>5. /\ completed' \subseteq Accounts \X Challenges
      /\ acceptedCount' \in [Challenges -> Nat]
  BY <1>1, RecordCompletionType DEF StoreSuccess, StoreTypeOK
<1>6. QED
  BY <1>3, <1>4, <1>5 DEF StoreSuccess, StoreTypeOK

LEMMA StoreTerminalFailureTypeOK ==
  ASSUME StoreTypeOK, NEW c \in EvaluationCommand, StoreTerminalFailure(c)
  PROVE  StoreTypeOK'
<1>1. c.attempt \in Attempts /\ c.retryIndex \in Nat
  BY CommandType
<1>2. AppendEvent(history[c.attempt], EXECUTION_TERMINAL_FAILURE,
                  c.retryIndex, NoVerdict) \in History
  BY <1>1, PlainTypes, DraftWithoutVerdict, AppendEventType DEF StoreTypeOK
<1>3. history' \in [Attempts -> History]
  BY <1>1, <1>2 DEF StoreTerminalFailure, StoreTypeOK
<1>4. row' \in [Attempts -> RowPhases]
  BY <1>1, PersistResultType
  DEF StoreTerminalFailure, StoreTypeOK, TERMINAL_STATUSES
<1>5. QED
  BY <1>3, <1>4 DEF StoreTerminalFailure, StoreTypeOK

LEMMA ResetForRetryTypeOK ==
  ASSUME StoreTypeOK, NEW c \in EvaluationCommand, ResetForRetry(c)
  PROVE  StoreTypeOK'
<1> DEFINE a      == c.attempt
           failed == AppendEvent(history[a], EXECUTION_RETRYABLE_FAILURE,
                                 c.retryIndex, NoVerdict)
           n      == retry(c).retryIndex
<1>1. a \in Attempts /\ c.retryIndex \in Nat /\ n \in Nat
  BY CommandType
<1>2. failed \in History
  BY <1>1, PlainTypes, DraftWithoutVerdict, AppendEventType DEF StoreTypeOK
<1>3. history' = [history EXCEPT ![a] =
                    AppendEvent(failed, EXECUTION_REQUESTED, n, NoVerdict)]
  BY DEF ResetForRetry
<1>4. row' \in [Attempts -> RowPhases]
  BY <1>1 DEF ResetForRetry, StoreTypeOK, RowPhases, Phases
<1> HIDE DEF a, failed, n
<1>5. AppendEvent(failed, EXECUTION_REQUESTED, n, NoVerdict) \in History
  BY <1>1, <1>2, PlainTypes, DraftWithoutVerdict, AppendEventType
<1>6. history' \in [Attempts -> History]
  BY <1>1, <1>3, <1>5 DEF StoreTypeOK
<1>7. QED
  BY <1>4, <1>6 DEF ResetForRetry, StoreTypeOK

\* Every transaction keeps the types.
LEMMA StepTypeOK == StoreTypeOK /\ [StoreNext]_storeVars => StoreTypeOK'
<1> SUFFICES ASSUME StoreTypeOK, [StoreNext]_storeVars PROVE StoreTypeOK'
  OBVIOUS
<1>1. ASSUME NEW a \in Attempts, OpenAttempt(a) PROVE StoreTypeOK'
  BY <1>1, OpenAttemptTypeOK
<1>2. ASSUME NEW P \in SUBSET (DOMAIN outbox), MarkPublished(P)
      PROVE  StoreTypeOK'
  BY <1>2, MarkPublishedTypeOK
<1>3. ASSUME NEW c \in EvaluationCommand, Transaction(c) PROVE StoreTypeOK'
  BY <1>3, ClaimTypeOK, StoreSuccessTypeOK, StoreTerminalFailureTypeOK,
     ResetForRetryTypeOK DEF Transaction
<1>4. CASE UNCHANGED storeVars
  BY <1>4 DEF storeVars, StoreTypeOK
<1>5. QED
  BY <1>1, <1>2, <1>3, <1>4 DEF StoreNext

\* In every state the rows, the logs and the projections are well formed.
THEOREM StoreTypeCorrect == StoreSpec => []StoreTypeOK
<1>1. QED
  BY InitTypeOK, StepTypeOK, PTL DEF StoreSpec

-----------------------------------------------------------------------------
(* Results.                                                                 *)

\* A row that has a result keeps it in every transaction.
LEMMA StepKeepsResults ==
  ASSUME StoreTypeOK, [StoreNext]_storeVars,
         NEW a \in Attempts, Decided(a)
  PROVE  row'[a] = row[a]
<1> USE DEF Decided, StoreTypeOK
<1>1. ASSUME NEW b \in Attempts, OpenAttempt(b) PROVE row'[a] = row[a]
  BY <1>1 DEF OpenAttempt, TERMINAL_STATUSES
<1>2. ASSUME NEW P \in SUBSET (DOMAIN outbox), MarkPublished(P)
      PROVE  row'[a] = row[a]
  BY <1>2 DEF MarkPublished
<1>3. ASSUME NEW c \in EvaluationCommand, Transaction(c) PROVE row'[a] = row[a]
  <2>1. ASSUME NEW r \in BOOLEAN, Claim(c, r) PROVE row'[a] = row[a]
    BY <2>1, CommandType DEF Claim, Eligible, TERMINAL_STATUSES
  <2>2. ASSUME NEW v \in Verdicts, StoreSuccess(c, v) PROVE row'[a] = row[a]
    BY <2>2, CommandType DEF StoreSuccess, PersistResult
  <2>3. CASE StoreTerminalFailure(c)
    BY <2>3, CommandType DEF StoreTerminalFailure, PersistResult
  <2>4. CASE ResetForRetry(c)
    BY <2>4, CommandType DEF ResetForRetry, TERMINAL_STATUSES
  <2>5. QED
    BY <1>3, <2>1, <2>2, <2>3, <2>4 DEF Transaction
<1>4. CASE UNCHANGED storeVars
  BY <1>4 DEF storeVars
<1>5. QED
  BY <1>1, <1>2, <1>3, <1>4 DEF StoreNext

\* No transaction changes the result of an attempt that has one.
THEOREM StoreResultsAreFinal == StoreSpec => ResultsAreFinal
<1>1. StoreTypeOK /\ [StoreNext]_storeVars =>
        [\A a \in Attempts : Decided(a) => row'[a] = row[a]]_storeVars
  BY StepKeepsResults
<1>2. QED
  BY <1>1, StoreTypeCorrect, PTL DEF StoreSpec, ResultsAreFinal

\* Persisting a result decides the attempt.
LEMMA PersistResultDecides ==
  ASSUME row \in [Attempts -> RowPhases], NEW a \in Attempts,
         NEW p \in TERMINAL_STATUSES, PersistResult(a, p)
  PROVE  row'[a] \in TERMINAL_STATUSES
BY DEF PersistResult

LEMMA StepProcessedMeansDecided ==
  StoreTypeOK /\ ProcessedMeansDecided /\ [StoreNext]_storeVars
    => ProcessedMeansDecided'
<1> SUFFICES ASSUME StoreTypeOK, ProcessedMeansDecided, [StoreNext]_storeVars,
                    NEW d \in processed'
             PROVE  Decided(d.attempt)'
  BY DEF ProcessedMeansDecided
<1>1. CASE d \in processed
  <2>1. d.attempt \in Attempts /\ Decided(d.attempt)
    BY <1>1, CommandType DEF StoreTypeOK, ProcessedMeansDecided
  <2>2. QED
    BY <2>1, StepKeepsResults DEF Decided
<1>2. CASE d \notin processed
  <2>1. PICK c \in EvaluationCommand :
          \/ \E v \in Verdicts : StoreSuccess(c, v)
          \/ StoreTerminalFailure(c)
    BY <1>2 DEF StoreNext, Transaction, OpenAttempt, MarkPublished, Claim,
                ResetForRetry, storeVars
  <2>2. d = c /\ c.attempt \in Attempts
    BY <1>2, <2>1, CommandType DEF StoreSuccess, StoreTerminalFailure
  <2>3. PICK p \in TERMINAL_STATUSES : PersistResult(c.attempt, p)
    BY <2>1 DEF StoreSuccess, StoreTerminalFailure, TERMINAL_STATUSES
  <2>4. QED
    BY <2>2, <2>3, PersistResultDecides DEF Decided, StoreTypeOK
<1>3. QED
  BY <1>1, <1>2

\* A command is processed only if its attempt has a result.
THEOREM StoreProcessedMeansDecided == StoreSpec => []ProcessedMeansDecided
<1>1. StoreInit => ProcessedMeansDecided
  BY DEF StoreInit, ProcessedMeansDecided
<1>2. QED
  BY <1>1, StepProcessedMeansDecided, StoreTypeCorrect, PTL DEF StoreSpec

-----------------------------------------------------------------------------
(* The first result of the log is the result of the row.                    *)

\* The phase may move, but not to or from a result.
KeepsResult(p, q) ==
  /\ p \in TERMINAL_STATUSES => q = p
  /\ p \notin TERMINAL_STATUSES => q \notin TERMINAL_STATUSES

LEMMA SameLogStands ==
  ASSUME NEW s, NEW p, NEW q, ResultStands(p, s), KeepsResult(p, q)
  PROVE  ResultStands(q, s)
BY DEF ResultStands, KeepsResult, IsFirstResult

\* A fact that is no result leaves the first result where it is.
LEMMA LongerLogStands ==
  ASSUME NEW s \in Seq(LifecycleEvent), NEW e \in LifecycleEvent,
         e.type \notin FinishingTypes,
         NEW p, NEW q, ResultStands(p, s), KeepsResult(p, q)
  PROVE  ResultStands(q, Append(s, e))
<1> DEFINE t == Append(s, e)
<1>1. /\ DOMAIN t = 1 .. Len(s) + 1
      /\ DOMAIN s = 1 .. Len(s)
      /\ Len(s) \in Nat
      /\ \A i \in DOMAIN s : t[i] = s[i]
      /\ t[Len(s) + 1] = e
  OBVIOUS
<1> HIDE DEF t
<1>2. ResultStands(q, s)
  BY SameLogStands
<1>3. \A i \in DOMAIN s : IsFirstResult(t, i) <=> IsFirstResult(s, i)
  BY <1>1 DEF IsFirstResult
<1>4. \A i \in DOMAIN t : t[i].type \in FinishingTypes => i \in DOMAIN s
  BY <1>1
<1>5. q \in TERMINAL_STATUSES => \E i \in DOMAIN t : IsFirstResult(t, i)
  BY <1>1, <1>2, <1>3 DEF ResultStands
<1>6. ASSUME NEW i \in DOMAIN t
      PROVE  /\ t[i].type \in FinishingTypes => q \in TERMINAL_STATUSES
             /\ IsFirstResult(t, i) => q = VerdictOf(t[i])
  <2>1. CASE i \in DOMAIN s
    BY <1>1, <1>2, <1>3, <2>1 DEF ResultStands
  <2>2. CASE i \notin DOMAIN s
    BY <1>4, <2>2 DEF IsFirstResult
  <2>3. QED
    BY <2>1, <2>2
<1>7. ResultStands(q, t)
  BY <1>5, <1>6 DEF ResultStands
<1>8. QED
  BY <1>7 DEF t

\* A result is the first one exactly if the row has none.
LEMMA LongerLogWithResultStands ==
  ASSUME NEW s \in Seq(LifecycleEvent), NEW e \in LifecycleEvent,
         e.type \in FinishingTypes, NEW p, ResultStands(p, s)
  PROVE  ResultStands(IF p \in TERMINAL_STATUSES THEN p ELSE VerdictOf(e),
                      Append(s, e))
<1> DEFINE t == Append(s, e)
           q == IF p \in TERMINAL_STATUSES THEN p ELSE VerdictOf(e)
<1>1. /\ DOMAIN t = 1 .. Len(s) + 1
      /\ DOMAIN s = 1 .. Len(s)
      /\ Len(s) \in Nat
      /\ \A i \in DOMAIN s : t[i] = s[i]
      /\ t[Len(s) + 1] = e
  OBVIOUS
<1>2. q \in TERMINAL_STATUSES
  BY VerdictIsTerminal
<1> HIDE DEF t
<1>3. ASSUME NEW i \in DOMAIN s
      PROVE  IsFirstResult(t, i) <=> IsFirstResult(s, i)
  <2>1. t[i] = s[i] /\ i \in 1 .. Len(s)
    BY <1>1
  <2>2. \A j \in 1 .. i - 1 : t[j] = s[j]
    BY <1>1, <2>1
  <2>3. QED
    BY <2>1, <2>2 DEF IsFirstResult
<1>4. CASE p \in TERMINAL_STATUSES
  <2>1. PICK k \in DOMAIN s : IsFirstResult(s, k)
    BY <1>4 DEF ResultStands
  <2>2. k \in DOMAIN t /\ IsFirstResult(t, k)
    BY <1>1, <1>3, <2>1
  <2>3. ~ IsFirstResult(t, Len(s) + 1)
    BY <1>1, <2>1 DEF IsFirstResult
  <2>4. \A i \in DOMAIN t : IsFirstResult(t, i) => q = VerdictOf(t[i])
    BY <1>1, <1>3, <1>4, <2>3 DEF ResultStands
  <2>5. QED
    BY <1>2, <2>2, <2>4 DEF ResultStands, t
<1>5. CASE p \notin TERMINAL_STATUSES
  <2>1. \A i \in DOMAIN s : s[i].type \notin FinishingTypes
    BY <1>5 DEF ResultStands
  <2>2. IsFirstResult(t, Len(s) + 1)
    BY <1>1, <2>1 DEF IsFirstResult
  <2>3. \A i \in DOMAIN t : IsFirstResult(t, i) => q = VerdictOf(t[i])
    BY <1>1, <1>5, <2>1 DEF IsFirstResult
  <2>4. Len(s) + 1 \in DOMAIN t
    BY <1>1
  <2>5. QED
    BY <1>2, <2>2, <2>3, <2>4 DEF ResultStands, t
<1>6. QED
  BY <1>4, <1>5

\* The same three facts for an append, which may find the event recorded.
LEMMA AppendEventStands ==
  ASSUME NEW h \in History, NEW t, NEW d, NEW v, Draft(t, d, v),
         t \notin FinishingTypes,
         NEW p, NEW q, ResultStands(p, h.events), KeepsResult(p, q)
  PROVE  ResultStands(q, AppendEvent(h, t, d, v).events)
<1> DEFINE e == NextEvent(h, t, d, v)
<1>1. e \in LifecycleEvent /\ e.type = t /\ h.events \in Seq(LifecycleEvent)
  BY NextEventType DEF NextEvent, History
<1> HIDE DEF e
<1>2. AppendEvent(h, t, d, v).events \in {h.events, Append(h.events, e)}
  BY DEF AppendEvent, e
<1>3. QED
  BY <1>1, <1>2, SameLogStands, LongerLogStands

LEMMA AppendResultStands ==
  ASSUME NEW h \in History, NEW t, NEW d, NEW v, Draft(t, d, v),
         t \in FinishingTypes, NEW p, NEW r, ResultStands(p, h.events),
         r = IF t = EXECUTION_COMPLETED THEN v ELSE "INTERNAL_ERROR"
  PROVE  ResultStands(IF p \in TERMINAL_STATUSES THEN p ELSE r,
                      AppendEvent(h, t, d, v).events)
<1> DEFINE e == NextEvent(h, t, d, v)
<1>1. /\ e \in LifecycleEvent /\ e.type = t
      /\ h.events \in Seq(LifecycleEvent)
      /\ VerdictOf(e) = r
  BY NextEventType DEF NextEvent, History, VerdictOf
<1> HIDE DEF e
<1>2. CASE Recorded(h, t, d)
  <2>1. p \in TERMINAL_STATUSES
    BY <1>2 DEF Recorded, ResultStands
  <2>2. QED
    BY <1>2, <2>1 DEF AppendEvent
<1>3. CASE ~ Recorded(h, t, d)
  <2>1. AppendEvent(h, t, d, v).events = Append(h.events, e)
    BY <1>3 DEF AppendEvent, e
  <2>2. QED
    BY <1>1, <2>1, LongerLogWithResultStands
<1>4. QED
  BY <1>2, <1>3

LEMMA StepFirstResultStands ==
  StoreTypeOK /\ FirstResultStands /\ [StoreNext]_storeVars
    => FirstResultStands'
<1> SUFFICES ASSUME StoreTypeOK, FirstResultStands, [StoreNext]_storeVars,
                    NEW a \in Attempts
             PROVE  ResultStands(row'[a], history'[a].events)
  BY DEF FirstResultStands, Events
<1>0. /\ row[a] \in RowPhases /\ history[a] \in History
      /\ ResultStands(row[a], history[a].events)
  BY DEF StoreTypeOK, FirstResultStands, Events
<1>1. ASSUME NEW b \in Attempts, OpenAttempt(b)
      PROVE  ResultStands(row'[a], history'[a].events)
  <2>1. CASE a = b
    <3> DEFINE opened == AppendEvent(history[a], ATTEMPT_OPENED, 0, NoVerdict)
    <3>1. opened \in History
      BY <1>0, PlainTypes, DraftWithoutVerdict, AppendEventType
    <3>2. KeepsResult(row[a], row[a]) /\ KeepsResult(row[a], row'[a])
      BY <1>0, <1>1, <2>1
      DEF KeepsResult, OpenAttempt, StoreTypeOK, TERMINAL_STATUSES
    <3>3. ATTEMPT_OPENED \notin FinishingTypes
          /\ EXECUTION_REQUESTED \notin FinishingTypes
      BY DEF FinishingTypes, ATTEMPT_OPENED, EXECUTION_REQUESTED,
             EXECUTION_COMPLETED, EXECUTION_TERMINAL_FAILURE
    <3>4. ResultStands(row[a], opened.events)
      BY <1>0, <3>2, <3>3, PlainTypes, DraftWithoutVerdict, AppendEventStands
    <3>5. history'[a] =
            AppendEvent(opened, EXECUTION_REQUESTED, 0, NoVerdict)
      BY <1>1, <2>1 DEF OpenAttempt, StoreTypeOK
    <3> HIDE DEF opened
    <3>6. QED
      BY <3>1, <3>2, <3>3, <3>4, <3>5, PlainTypes, DraftWithoutVerdict,
         AppendEventStands
  <2>2. CASE a # b
    BY <1>0, <1>1, <2>2 DEF OpenAttempt, StoreTypeOK
  <2>3. QED
    BY <2>1, <2>2
<1>2. ASSUME NEW P \in SUBSET (DOMAIN outbox), MarkPublished(P)
      PROVE  ResultStands(row'[a], history'[a].events)
  BY <1>0, <1>2 DEF MarkPublished
<1>3. ASSUME NEW c \in EvaluationCommand, Transaction(c)
      PROVE  ResultStands(row'[a], history'[a].events)
  <2>1. CASE a # c.attempt
    <3>1. row'[a] = row[a] /\ history'[a] = history[a]
      BY <1>3, <2>1
      DEF Transaction, Claim, StoreSuccess, StoreTerminalFailure,
          ResetForRetry, PersistResult, StoreTypeOK
    <3>2. QED
      BY <1>0, <3>1
  <2>2. CASE a = c.attempt
    <3>0. c.retryIndex \in Nat /\ retry(c).retryIndex \in Nat
      BY CommandType
    <3>1. ASSUME NEW r \in BOOLEAN, Claim(c, r)
          PROVE  ResultStands(row'[a], history'[a].events)
      <4>1. history'[a] = AppendEvent(history[a], EXECUTION_CLAIMED,
                                      c.retryIndex, NoVerdict)
        BY <3>1, <2>2 DEF Claim, StoreTypeOK
      <4>2. KeepsResult(row[a], row'[a])
        BY <3>1, <2>2
        DEF Claim, Eligible, StoreTypeOK, KeepsResult, TERMINAL_STATUSES
      <4>3. EXECUTION_CLAIMED \notin FinishingTypes
        BY DEF FinishingTypes, EXECUTION_CLAIMED, EXECUTION_COMPLETED,
               EXECUTION_TERMINAL_FAILURE
      <4>4. QED
        BY <1>0, <3>0, <4>1, <4>2, <4>3, PlainTypes, DraftWithoutVerdict,
           AppendEventStands
    <3>2. ASSUME NEW v \in Verdicts, StoreSuccess(c, v)
          PROVE  ResultStands(row'[a], history'[a].events)
      <4>1. history'[a] = AppendEvent(history[a], EXECUTION_COMPLETED,
                                      c.retryIndex, v)
        BY <3>2, <2>2 DEF StoreSuccess, StoreTypeOK
      <4>2. row'[a] = IF row[a] \in TERMINAL_STATUSES THEN row[a] ELSE v
        BY <3>2, <2>2 DEF StoreSuccess, PersistResult, StoreTypeOK
      <4>3. EXECUTION_COMPLETED \in FinishingTypes
        BY DEF FinishingTypes
      <4>4. Draft(EXECUTION_COMPLETED, c.retryIndex, v)
        BY <3>0, DraftWithVerdict
      <4>5. QED
        BY <1>0, <4>1, <4>2, <4>3, <4>4, AppendResultStands
    <3>3. CASE StoreTerminalFailure(c)
      <4>1. history'[a] = AppendEvent(history[a], EXECUTION_TERMINAL_FAILURE,
                                      c.retryIndex, NoVerdict)
        BY <3>3, <2>2 DEF StoreTerminalFailure, StoreTypeOK
      <4>2. row'[a] = IF row[a] \in TERMINAL_STATUSES
                      THEN row[a] ELSE "INTERNAL_ERROR"
        BY <3>3, <2>2 DEF StoreTerminalFailure, PersistResult, StoreTypeOK
      <4>3. /\ EXECUTION_TERMINAL_FAILURE \in FinishingTypes
            /\ EXECUTION_TERMINAL_FAILURE # EXECUTION_COMPLETED
        BY DEF FinishingTypes, EXECUTION_TERMINAL_FAILURE, EXECUTION_COMPLETED
      <4>4. Draft(EXECUTION_TERMINAL_FAILURE, c.retryIndex, NoVerdict)
        BY <3>0, PlainTypes, DraftWithoutVerdict
      <4>5. QED
        BY <1>0, <4>1, <4>2, <4>3, <4>4, AppendResultStands
    <3>4. CASE ResetForRetry(c)
      <4> DEFINE failed == AppendEvent(history[a], EXECUTION_RETRYABLE_FAILURE,
                                       c.retryIndex, NoVerdict)
                 n      == retry(c).retryIndex
      <4>1. failed \in History
        BY <1>0, <3>0, PlainTypes, DraftWithoutVerdict, AppendEventType
      <4>2. KeepsResult(row[a], row[a]) /\ KeepsResult(row[a], row'[a])
        BY <3>4, <2>2
        DEF ResetForRetry, StoreTypeOK, KeepsResult, TERMINAL_STATUSES
      <4>3. /\ EXECUTION_RETRYABLE_FAILURE \notin FinishingTypes
            /\ EXECUTION_REQUESTED \notin FinishingTypes
        BY DEF FinishingTypes, EXECUTION_REQUESTED, EXECUTION_COMPLETED,
               EXECUTION_RETRYABLE_FAILURE, EXECUTION_TERMINAL_FAILURE
      <4>4. ResultStands(row[a], failed.events)
        BY <1>0, <3>0, <4>2, <4>3, PlainTypes, DraftWithoutVerdict,
           AppendEventStands
      <4>5. history'[a] = AppendEvent(failed, EXECUTION_REQUESTED, n, NoVerdict)
        BY <3>4, <2>2 DEF ResetForRetry, StoreTypeOK
      <4> HIDE DEF failed, n
      <4>6. Draft(EXECUTION_REQUESTED, n, NoVerdict)
        BY <3>0, PlainTypes, DraftWithoutVerdict DEF n
      <4>7. QED
        BY <4>1, <4>2, <4>3, <4>4, <4>5, <4>6, AppendEventStands
    <3>5. QED
      BY <1>3, <3>1, <3>2, <3>3, <3>4 DEF Transaction
  <2>3. QED
    BY <2>1, <2>2
<1>4. CASE UNCHANGED storeVars
  BY <1>0, <1>4 DEF storeVars
<1>5. QED
  BY <1>1, <1>2, <1>3, <1>4 DEF StoreNext

\* However many executions report, the row has the result that the log
\* recorded first.
THEOREM StoreFirstResultStands == StoreSpec => []FirstResultStands
<1>1. StoreInit => FirstResultStands
  BY DEF StoreInit, FirstResultStands, ResultStands, Events, NewHistory,
         TERMINAL_STATUSES
<1>2. QED
  BY <1>1, StepFirstResultStands, StoreTypeCorrect, PTL DEF StoreSpec

-----------------------------------------------------------------------------
(* The projection is current.                                               *)

\* What the reducer does to the phase and the sequence number.
LEMMA EvolveNewEvent ==
  ASSUME NEW p \in AttemptProjection, NEW e \in LifecycleEvent,
         e.sequence > p.lastSequence
  PROVE  /\ evolve(p, e).phase = PhaseAfter(e)
         /\ evolve(p, e).lastSequence = e.sequence
<1> USE DEF AttemptProjection, LifecycleEvent, EventTypes,
            FinishingTypes, ATTEMPT_OPENED, EXECUTION_REQUESTED,
            EXECUTION_CLAIMED, EXECUTION_RETRYABLE_FAILURE,
            EXECUTION_COMPLETED, EXECUTION_TERMINAL_FAILURE
<1>1. ~ (e.sequence <= p.lastSequence)
  OBVIOUS
<1>2. evolve(p, e) = [Projected(p, e) EXCEPT !.lastSequence = e.sequence]
  BY <1>1 DEF evolve
<1>3. Projected(p, e).phase = PhaseAfter(e)
  <2>1. CASE e.type = ATTEMPT_OPENED
    BY <2>1 DEF Projected, PhaseAfter
  <2>2. CASE e.type = EXECUTION_REQUESTED
    BY <2>2 DEF Projected, PhaseAfter
  <2>3. CASE e.type = EXECUTION_CLAIMED
    BY <2>3 DEF Projected, PhaseAfter
  <2>4. CASE e.type = EXECUTION_RETRYABLE_FAILURE
    BY <2>4 DEF Projected, PhaseAfter
  <2>5. CASE e.type \in FinishingTypes
    <3>1. Projected(p, e) =
            [p EXCEPT !.phase = VerdictOf(e), !.verdict = VerdictOf(e),
                      !.finished = TRUE]
      BY <2>5 DEF Projected
    <3>2. PhaseAfter(e) = VerdictOf(e)
      BY <2>5 DEF PhaseAfter
    <3>3. QED
      BY <3>1, <3>2
  <2>6. QED
    BY <2>1, <2>2, <2>3, <2>4, <2>5
<1>4. Projected(p, e) \in AttemptProjection
  BY ProjectedType
<1>5. QED
  BY <1>2, <1>3, <1>4

\* An append keeps the log numbered and the projection up with it.
LEMMA AppendEventCurrent ==
  ASSUME NEW h \in History, NEW t, NEW d, NEW v, Draft(t, d, v), IsCurrent(h)
  PROVE  IsCurrent(AppendEvent(h, t, d, v))
<1> DEFINE e == NextEvent(h, t, d, v)
           s == Append(h.events, e)
           p == evolve(h.projection, e)
<1>1. /\ e \in LifecycleEvent /\ e.sequence = Len(h.events) + 1
      /\ h.events \in Seq(LifecycleEvent)
      /\ h.projection \in AttemptProjection
      /\ h.projection.lastSequence = Len(h.events)
  BY NextEventType DEF NextEvent, History, IsCurrent
<1>2. Len(h.events) \in Nat
  BY <1>1
<1> HIDE DEF e
<1>3. p.phase = PhaseAfter(e) /\ p.lastSequence = Len(h.events) + 1
  BY <1>1, <1>2, EvolveNewEvent
<1>4. /\ DOMAIN s = 1 .. Len(h.events) + 1
      /\ Len(s) = Len(h.events) + 1
      /\ \A i \in DOMAIN h.events : s[i] = h.events[i]
      /\ s[Len(h.events) + 1] = e
      /\ DOMAIN h.events = 1 .. Len(h.events)
  BY <1>1
<1> HIDE DEF s, p
<1>5. \A i \in DOMAIN s : s[i].sequence = i
  BY <1>1, <1>2, <1>4 DEF IsCurrent
<1>6. Last(s) = e
  BY <1>4 DEF Last
<1>7. IsCurrent([events |-> s, projection |-> p])
  BY <1>3, <1>4, <1>5, <1>6 DEF IsCurrent
<1>8. QED
  BY <1>7 DEF AppendEvent, e, s, p

\* What a step does to the history of an attempt: nothing, or one append, or
\* two of them.
Appended(h, k) ==
  \E t, d, v : Draft(t, d, v) /\ k = AppendEvent(h, t, d, v)

LEMMA StepAppends ==
  ASSUME StoreTypeOK, [StoreNext]_storeVars, NEW a \in Attempts
  PROVE  \/ history'[a] = history[a]
         \/ Appended(history[a], history'[a])
         \/ \E h \in History : Appended(history[a], h) /\ Appended(h, history'[a])
<1>1. ASSUME NEW b \in Attempts, OpenAttempt(b), history'[a] # history[a]
      PROVE  \E h \in History :
               Appended(history[a], h) /\ Appended(h, history'[a])
  <2> DEFINE h == AppendEvent(history[a], ATTEMPT_OPENED, 0, NoVerdict)
  <2>1. a = b
    BY <1>1 DEF OpenAttempt, StoreTypeOK
  <2>2. history'[a] = AppendEvent(h, EXECUTION_REQUESTED, 0, NoVerdict)
    BY <1>1, <2>1 DEF OpenAttempt, StoreTypeOK
  <2>3. Draft(ATTEMPT_OPENED, 0, NoVerdict)
        /\ Draft(EXECUTION_REQUESTED, 0, NoVerdict)
    BY PlainTypes, DraftWithoutVerdict
  <2>4. h \in History
    BY <2>3, AppendEventType DEF StoreTypeOK
  <2>5. Appended(history[a], h)
    BY <2>3 DEF Appended
  <2> HIDE DEF h
  <2>6. Appended(h, history'[a])
    BY <2>2, <2>3 DEF Appended
  <2>7. QED
    BY <2>4, <2>5, <2>6
<1>2. ASSUME NEW c \in EvaluationCommand, Transaction(c),
             history'[a] # history[a]
      PROVE  \/ Appended(history[a], history'[a])
             \/ \E h \in History :
                  Appended(history[a], h) /\ Appended(h, history'[a])
  <2>0. a = c.attempt
    BY <1>2 DEF Transaction, Claim, StoreSuccess, StoreTerminalFailure,
                ResetForRetry, StoreTypeOK
  <2>1. c.retryIndex \in Nat /\ retry(c).retryIndex \in Nat
    BY CommandType
  <2>2. ASSUME NEW r \in BOOLEAN, Claim(c, r)
        PROVE  Appended(history[a], history'[a])
    <3>1. history'[a] = AppendEvent(history[a], EXECUTION_CLAIMED,
                                    c.retryIndex, NoVerdict)
      BY <2>0, <2>2 DEF Claim, StoreTypeOK
    <3>2. QED
      BY <2>1, <3>1, PlainTypes, DraftWithoutVerdict DEF Appended
  <2>3. ASSUME NEW v \in Verdicts, StoreSuccess(c, v)
        PROVE  Appended(history[a], history'[a])
    <3>1. history'[a] = AppendEvent(history[a], EXECUTION_COMPLETED,
                                    c.retryIndex, v)
      BY <2>0, <2>3 DEF StoreSuccess, StoreTypeOK
    <3>2. QED
      BY <2>1, <3>1, DraftWithVerdict DEF Appended
  <2>4. CASE StoreTerminalFailure(c)
    <3>1. history'[a] = AppendEvent(history[a], EXECUTION_TERMINAL_FAILURE,
                                    c.retryIndex, NoVerdict)
      BY <2>0, <2>4 DEF StoreTerminalFailure, StoreTypeOK
    <3>2. QED
      BY <2>1, <3>1, PlainTypes, DraftWithoutVerdict DEF Appended
  <2>5. ASSUME ResetForRetry(c)
        PROVE  \E h \in History :
                 Appended(history[a], h) /\ Appended(h, history'[a])
    <3> DEFINE h == AppendEvent(history[a], EXECUTION_RETRYABLE_FAILURE,
                                c.retryIndex, NoVerdict)
               n == retry(c).retryIndex
    <3>1. history'[a] = AppendEvent(h, EXECUTION_REQUESTED, n, NoVerdict)
      BY <2>0, <2>5 DEF ResetForRetry, StoreTypeOK
    <3>2. /\ Draft(EXECUTION_RETRYABLE_FAILURE, c.retryIndex, NoVerdict)
          /\ Draft(EXECUTION_REQUESTED, n, NoVerdict)
      BY <2>1, PlainTypes, DraftWithoutVerdict
    <3>3. h \in History
      BY <3>2, AppendEventType DEF StoreTypeOK
    <3>4. Appended(history[a], h)
      BY <3>2 DEF Appended
    <3> HIDE DEF h, n
    <3>5. Appended(h, history'[a])
      BY <3>1, <3>2 DEF Appended
    <3>6. QED
      BY <3>3, <3>4, <3>5
  <2>6. QED
    BY <1>2, <2>2, <2>3, <2>4, <2>5 DEF Transaction
<1>3. QED
  BY <1>1, <1>2 DEF StoreNext, MarkPublished, storeVars

LEMMA StepProjectionIsCurrent ==
  StoreTypeOK /\ ProjectionIsCurrent /\ [StoreNext]_storeVars
    => ProjectionIsCurrent'
<1> SUFFICES ASSUME StoreTypeOK, ProjectionIsCurrent, [StoreNext]_storeVars,
                    NEW a \in Attempts
             PROVE  IsCurrent(history'[a])
  BY DEF ProjectionIsCurrent
<1>1. IsCurrent(history[a]) /\ history[a] \in History
  BY DEF ProjectionIsCurrent, StoreTypeOK
<1>2. ASSUME NEW h \in History, IsCurrent(h), NEW k, Appended(h, k)
      PROVE  IsCurrent(k)
  BY <1>2, AppendEventCurrent DEF Appended
<1>3. QED
  BY <1>1, <1>2, StepAppends

\* The log has no gap and the projection shows the newest fact of it.
THEOREM StoreProjectionIsCurrent == StoreSpec => []ProjectionIsCurrent
<1>1. StoreInit => ProjectionIsCurrent
  BY DEF StoreInit, ProjectionIsCurrent, IsCurrent, NewHistory, NewProjection
<1>2. QED
  BY <1>1, StepProjectionIsCurrent, StoreTypeCorrect, PTL DEF StoreSpec

-----------------------------------------------------------------------------
(* The projection is the replay of the log.  A replay is a recursive        *)
(* function on the sets of positions of the log; that it exists, and that   *)
(* it does not depend on the later events, goes by induction on the length, *)
(* put as a statement about sets of numbers.                                *)

\* A set of numbers that is not empty has a least one.
LEMMA LeastNumber ==
  ASSUME NEW T \in SUBSET Nat, T # {}
  PROVE  \E x \in T : \A y \in T : x <= y
<1> DEFINE R == {p \in Nat \X Nat : p[1] < p[2]}
<1>1. IsWellFoundedOn(R, Nat)
  BY NatLessThanWellFounded DEF OpToRel
<1>2. ASSUME NEW x \in T, NEW y \in T, y < x PROVE <<y, x>> \in R
  <2>1. <<y, x>> \in Nat \X Nat
    OBVIOUS
  <2>2. <<y, x>>[1] = y /\ <<y, x>>[2] = x
    OBVIOUS
  <2>3. QED
    BY <1>2, <2>1, <2>2
<1> HIDE DEF R
<1>3. PICK x \in T : \A y \in T : ~ (<<y, x>> \in R)
  BY <1>1, WFMin
<1>4. ASSUME NEW y \in T PROVE x <= y
  <2>1. ~ (y < x)
    BY <1>2, <1>3
  <2>2. x \in Nat /\ y \in Nat
    OBVIOUS
  <2>3. QED
    BY <2>1, <2>2
<1>5. QED
  BY <1>4

LEMMA SetInduction ==
  ASSUME NEW T \in SUBSET Nat, 0 \in T, \A n \in T : n + 1 \in T
  PROVE  T = Nat
<1> SUFFICES ASSUME T # Nat PROVE FALSE
  OBVIOUS
<1> DEFINE U == Nat \ T
<1>1. U \in SUBSET Nat /\ U # {}
  OBVIOUS
<1> HIDE DEF U
<1>2. PICK x \in U : \A y \in U : x <= y
  BY <1>1, LeastNumber
<1> USE DEF U
<1>3. x \in Nat /\ x # 0 /\ x - 1 \in Nat /\ ~ (x <= x - 1)
  OBVIOUS
<1>4. x - 1 \in T
  BY <1>2, <1>3
<1>5. (x - 1) + 1 \in T
  BY <1>4
<1>6. QED
  BY <1>3, <1>5

\* What Replay computes on every set of positions below n.
IsReplay(g, s, n) ==
  g = [S \in SUBSET (1 .. n) |->
         IF S = {} THEN NewProjection
         ELSE evolve(g[S \ {Max(S)}], s[Max(S)])]

LEMMA ReplayIsFold ==
  ASSUME NEW s, NEW n, DOMAIN s = 1 .. n
  PROVE  Replay(s) = (CHOOSE g : IsReplay(g, s, n))[1 .. n]
BY DEF Replay, FoldLeft, MapThenFoldSet, IsReplay

\* A set of positions up to n + 1 has n + 1 as its greatest, or not at all.
LEMMA GreatestPosition ==
  ASSUME NEW n \in Nat, NEW S \in SUBSET (1 .. n + 1)
  PROVE  /\ n + 1 \in S => Max(S) = n + 1 /\ S \ {n + 1} \in SUBSET (1 .. n)
         /\ n + 1 \notin S => S \in SUBSET (1 .. n)
<1>1. /\ S \ {n + 1} \in SUBSET (1 .. n)
      /\ \A x \in S : x \in Nat /\ n + 1 >= x
  OBVIOUS
<1>2. ASSUME n + 1 \in S PROVE Max(S) = n + 1
  <2>1. \E x \in S : \A y \in S : x >= y
    BY <1>1, <1>2
  <2>2. Max(S) \in S /\ Max(S) >= n + 1
    BY <1>2, <2>1 DEF Max
  <2>3. Max(S) \in Nat /\ n + 1 >= Max(S)
    BY <1>1, <2>2
  <2>4. QED
    BY <2>2, <2>3
<1>3. QED
  BY <1>1, <1>2

LEMMA GreatestOfAll ==
  ASSUME NEW n \in Nat, NEW k, k = n + 1 PROVE Max(1 .. k) = k
<1>1. \A S \in SUBSET (1 .. n + 1) : n + 1 \in S => Max(S) = n + 1
  BY GreatestPosition
<1>2. \A S \in SUBSET (1 .. k) : k \in S => Max(S) = k
  BY <1>1, Zenon
<1>3. 1 .. k \in SUBSET (1 .. k) /\ k \in 1 .. k
  OBVIOUS
<1>4. QED
  BY <1>2, <1>3

\* Two replays agree on the positions at which the logs do.
SamePrefix(s, t, m) == \A i \in 1 .. m : s[i] = t[i]

LEMMA ReplaysAgree ==
  ASSUME NEW m \in Nat, NEW n \in Nat, m <= n,
         NEW s, NEW t, SamePrefix(s, t, m),
         NEW g, IsReplay(g, s, m), NEW h, IsReplay(h, t, n)
  PROVE  \A S \in SUBSET (1 .. m) : g[S] = h[S]
<1> DEFINE T == {k \in Nat : k <= m => \A S \in SUBSET (1 .. k) : g[S] = h[S]}
<1>1. g[{}] = NewProjection /\ h[{}] = NewProjection
  BY DEF IsReplay
<1>2. 0 \in T
  <2>1. SUBSET (1 .. 0) = {{}}
    OBVIOUS
  <2>2. QED
    BY <1>1, <2>1
<1>3. ASSUME NEW k \in T PROVE k + 1 \in T
  <2> SUFFICES ASSUME k + 1 <= m, NEW S \in SUBSET (1 .. k + 1)
               PROVE  g[S] = h[S]
    OBVIOUS
  <2>1. k \in Nat /\ k <= m /\ \A Q \in SUBSET (1 .. k) : g[Q] = h[Q]
    OBVIOUS
  <2>2. CASE k + 1 \notin S
    BY <2>1, <2>2, GreatestPosition
  <2>3. CASE k + 1 \in S
    <3>1. Max(S) = k + 1 /\ S \ {k + 1} \in SUBSET (1 .. k) /\ S # {}
      BY <2>1, <2>3, GreatestPosition
    <3>2. S \in SUBSET (1 .. m) /\ S \in SUBSET (1 .. n) /\ k + 1 \in 1 .. m
      BY <2>1
    <3>3. /\ g[S] = evolve(g[S \ {k + 1}], s[k + 1])
          /\ h[S] = evolve(h[S \ {k + 1}], t[k + 1])
      BY <3>1, <3>2 DEF IsReplay
    <3>4. QED
      BY <2>1, <3>1, <3>2, <3>3 DEF SamePrefix
  <2>4. QED
    BY <2>2, <2>3
<1>4. m \in T
  <2>1. T \in SUBSET Nat
    OBVIOUS
  <2> HIDE DEF T
  <2>2. QED
    BY <1>2, <1>3, <2>1, SetInduction
<1>5. QED
  BY <1>4

\* Every log has a replay.
LEMMA ReplayExists ==
  ASSUME NEW s, NEW n \in Nat
  PROVE  \E g : IsReplay(g, s, n)
<1> DEFINE T == {k \in Nat : \E g : IsReplay(g, s, k)}
<1>1. 0 \in T
  <2> DEFINE g == [S \in SUBSET (1 .. 0) |-> NewProjection]
  <2>1. SUBSET (1 .. 0) = {{}}
    OBVIOUS
  <2>2. IsReplay(g, s, 0)
    BY <2>1 DEF IsReplay
  <2>3. QED
    BY <2>2
<1>2. ASSUME NEW k \in T PROVE k + 1 \in T
  <2>1. k \in Nat /\ \E g : IsReplay(g, s, k)
    OBVIOUS
  <2>2. PICK g : IsReplay(g, s, k)
    BY <2>1
  <2> DEFINE h == [S \in SUBSET (1 .. k + 1) |->
                     IF k + 1 \in S
                     THEN evolve(g[S \ {k + 1}], s[k + 1]) ELSE g[S]]
  <2>3. ASSUME NEW S \in SUBSET (1 .. k)
        PROVE  S \in SUBSET (1 .. k + 1) /\ h[S] = g[S]
    <3>1. k + 1 \notin S /\ S \in SUBSET (1 .. k + 1)
      BY <2>1
    <3>2. QED
      BY <3>1
  <2>4. ASSUME NEW S \in SUBSET (1 .. k + 1)
        PROVE  h[S] = IF S = {} THEN NewProjection
                      ELSE evolve(h[S \ {Max(S)}], s[Max(S)])
    <3>1. CASE k + 1 \in S
      <4>1. Max(S) = k + 1 /\ S \ {k + 1} \in SUBSET (1 .. k) /\ S # {}
        BY <2>1, <3>1, GreatestPosition
      <4>2. h[S \ {k + 1}] = g[S \ {k + 1}]
        BY <2>3, <4>1
      <4>3. h[S] = evolve(g[S \ {k + 1}], s[k + 1])
        BY <3>1
      <4> HIDE DEF h
      <4>4. QED
        BY <4>1, <4>2, <4>3
    <3>2. CASE k + 1 \notin S
      <4>1. S \in SUBSET (1 .. k) /\ S \ {Max(S)} \in SUBSET (1 .. k)
        BY <2>1, <3>2, GreatestPosition
      <4>2. h[S] = g[S] /\ h[S \ {Max(S)}] = g[S \ {Max(S)}]
        BY <2>3, <4>1
      <4>3. g[S] = IF S = {} THEN NewProjection
                   ELSE evolve(g[S \ {Max(S)}], s[Max(S)])
        BY <2>2, <4>1 DEF IsReplay
      <4> HIDE DEF h
      <4>4. QED
        BY <4>2, <4>3
    <3>3. QED
      BY <3>1, <3>2
  <2>5. IsReplay(h, s, k + 1)
    <3>1. h = [S \in SUBSET (1 .. k + 1) |-> h[S]]
      OBVIOUS
    <3> HIDE DEF h
    <3>2. QED
      BY <2>4, <3>1 DEF IsReplay
  <2> HIDE DEF h
  <2>6. QED
    BY <2>1, <2>5
<1>3. QED
  <2>1. T \in SUBSET Nat
    OBVIOUS
  <2> HIDE DEF T
  <2>2. n \in T
    BY <1>1, <1>2, <2>1, SetInduction
  <2>3. QED
    BY <2>2 DEF T

LEMMA ChosenReplay ==
  ASSUME NEW s, NEW n \in Nat
  PROVE  IsReplay(CHOOSE g : IsReplay(g, s, n), s, n)
<1>1. \E g : IsReplay(g, s, n)
  BY ReplayExists
<1>2. QED
  BY <1>1

\* A replay goes on from the replay of the log without its last event.
LEMMA ReplayAppend ==
  ASSUME NEW s \in Seq(LifecycleEvent), NEW e \in LifecycleEvent
  PROVE  Replay(Append(s, e)) = evolve(Replay(s), e)
<1> DEFINE t == Append(s, e)
           n == Len(s)
           k == n + 1
           g == CHOOSE f : IsReplay(f, s, n)
           h == CHOOSE f : IsReplay(f, t, k)
<1>1. /\ n \in Nat /\ DOMAIN s = 1 .. n /\ DOMAIN t = 1 .. k /\ k = n + 1
      /\ t[k] = e /\ \A i \in 1 .. n : s[i] = t[i]
  OBVIOUS
<1> HIDE DEF t, n, k
<1>2. IsReplay(g, s, n) /\ IsReplay(h, t, k)
  <2>1. n \in Nat /\ k \in Nat
    BY <1>1
  <2>2. QED
    BY <2>1, ChosenReplay
<1>3. Replay(s) = g[1 .. n] /\ Replay(t) = h[1 .. k]
  BY <1>1, ReplayIsFold
<1> HIDE DEF g, h
<1>4. g[1 .. n] = h[1 .. n]
  <2>1. n \in Nat /\ k \in Nat /\ n <= k
    BY <1>1
  <2>2. SamePrefix(s, t, n)
    BY <1>1 DEF SamePrefix
  <2>3. \A S \in SUBSET (1 .. n) : g[S] = h[S]
    BY <1>2, <2>1, <2>2, ReplaysAgree
  <2>4. QED
    BY <2>3
<1>5. h[1 .. k] = evolve(h[1 .. n], e)
  <2>1. /\ Max(1 .. k) = k
        /\ (1 .. k) \ {k} = 1 .. n /\ 1 .. k # {}
    <3>1. n \in Nat /\ k = n + 1
      BY <1>1
    <3>2. Max(1 .. k) = k
      BY <3>1, GreatestOfAll
    <3>3. (1 .. k) \ {k} = 1 .. n
      BY <3>1
    <3>4. k \in 1 .. k
      BY <3>1
    <3>5. 1 .. k # {}
      BY <3>4
    <3>6. QED
      BY <3>2, <3>3, <3>5
  <2>2. h[1 .. k] = IF 1 .. k = {} THEN NewProjection
                  ELSE evolve(h[(1 .. k) \ {Max(1 .. k)}], t[Max(1 .. k)])
    <3>1. 1 .. k \in SUBSET (1 .. k)
      OBVIOUS
    <3>2. QED
      BY <1>2, <3>1 DEF IsReplay
  <2>3. QED
    BY <1>1, <2>1, <2>2
<1>6. QED
  BY <1>3, <1>4, <1>5 DEF t

LEMMA ReplayOfNothing == Replay(<<>>) = NewProjection
<1> DEFINE g == CHOOSE f : IsReplay(f, <<>>, 0)
<1>1. DOMAIN <<>> = 1 .. 0 /\ 1 .. 0 = {} /\ {} \in SUBSET (1 .. 0)
  OBVIOUS
<1>2. IsReplay(g, <<>>, 0)
  BY ChosenReplay
<1>3. Replay(<<>>) = g[1 .. 0]
  BY <1>1, ReplayIsFold
<1> HIDE DEF g
<1>4. QED
  BY <1>1, <1>2, <1>3 DEF IsReplay

IsReplayed(h) == h.projection = Replay(h.events)

\* An append keeps the projection equal to the replay: a dedupe key that is
\* known changes neither, a new event is reduced into both.
LEMMA AppendEventReplayed ==
  ASSUME NEW h \in History, NEW t, NEW d, NEW v, Draft(t, d, v), IsReplayed(h)
  PROVE  IsReplayed(AppendEvent(h, t, d, v))
<1> DEFINE e == NextEvent(h, t, d, v)
<1>1. e \in LifecycleEvent /\ h.events \in Seq(LifecycleEvent)
  BY NextEventType DEF History
<1> HIDE DEF e
<1>2. Replay(Append(h.events, e)) = evolve(h.projection, e)
  BY <1>1, ReplayAppend DEF IsReplayed
<1>3. QED
  BY <1>2 DEF AppendEvent, IsReplayed, e

LEMMA StepProjectionIsReplay ==
  StoreTypeOK /\ ProjectionIsReplay /\ [StoreNext]_storeVars
    => ProjectionIsReplay'
<1> SUFFICES ASSUME StoreTypeOK, ProjectionIsReplay, [StoreNext]_storeVars,
                    NEW a \in Attempts
             PROVE  IsReplayed(history'[a])
  BY DEF ProjectionIsReplay, IsReplayed, Events
<1>1. IsReplayed(history[a]) /\ history[a] \in History
  BY DEF ProjectionIsReplay, IsReplayed, Events, StoreTypeOK
<1>2. ASSUME NEW h \in History, IsReplayed(h), NEW k, Appended(h, k)
      PROVE  IsReplayed(k)
  BY <1>2, AppendEventReplayed DEF Appended
<1>3. QED
  BY <1>1, <1>2, StepAppends

\* The projection that append keeps, event by event, is the one that a replay
\* of the whole log from nothing gives (rebuild_projection), however long the
\* log is and whatever was appended twice.
THEOREM StoreProjectionIsReplay == StoreSpec => []ProjectionIsReplay
<1>1. StoreInit => ProjectionIsReplay
  BY ReplayOfNothing DEF StoreInit, ProjectionIsReplay, Events, NewHistory
<1>2. QED
  BY <1>1, StepProjectionIsReplay, StoreTypeCorrect, PTL DEF StoreSpec

=============================================================================
