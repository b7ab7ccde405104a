---------------------------- MODULE ServiceProofs ----------------------------
(***************************************************************************)
(* What the store promises its users, for every set of attempts, accounts  *)
(* and challenges: the credits agree with the results, and the store       *)
(* implements JudgingService.                                              *)
(***************************************************************************)
EXTENDS AttemptStoreProofs

USE AccountOfAssumption, ChallengeOfAssumption, VerdictsAssumption,
    MaxAttemptsAssumption

-----------------------------------------------------------------------------
(* Credits.                                                                 *)

\* The cardinalities are those of finite sets.
CreditInvariant == IsFiniteSet(completed) /\ CreditsMatchResults

\* A transaction that credits nobody and accepts nothing keeps the tallies.
LEMMA SameAcceptedKeepsCredits ==
  ASSUME CreditInvariant, UNCHANGED <<completed, acceptedCount>>,
         \A a \in Attempts : row'[a] = "ACCEPTED" <=> row[a] = "ACCEPTED"
  PROVE  CreditInvariant'
<1>1. AcceptedAttempts' = AcceptedAttempts
  BY DEF AcceptedAttempts
<1>2. QED
  BY <1>1 DEF CreditInvariant, CreditsMatchResults, SolutionsOf, Solved

\* A success is credited exactly when it makes the first accepted attempt.
LEMMA StoreSuccessKeepsCredits ==
  ASSUME StoreTypeOK, CreditInvariant, NEW c \in EvaluationCommand,
         NEW v \in Verdicts, StoreSuccess(c, v)
  PROVE  CreditInvariant'
<1> DEFINE a == c.attempt
           x == Solved(a)
<1>1. /\ a \in Attempts /\ ChallengeOf[a] \in Challenges
      /\ x[2] = ChallengeOf[a]
      /\ v \in TERMINAL_STATUSES
  BY CommandType DEF Solved
<1>2. row' = [row EXCEPT ![a] = IF @ \in TERMINAL_STATUSES THEN @ ELSE v]
  BY DEF StoreSuccess, PersistResult
<1>3. /\ row \in [Attempts -> RowPhases]
      /\ acceptedCount \in [Challenges -> Nat]
  BY DEF StoreTypeOK
<1>4. /\ IsFiniteSet(completed)
      /\ completed = {Solved(b) : b \in AcceptedAttempts}
      /\ \A k \in Challenges : acceptedCount[k] = Cardinality(SolutionsOf(k))
  BY DEF CreditInvariant, CreditsMatchResults
<1>5. RecordCompletion(a, v)
  BY DEF StoreSuccess
<1>6. CASE Credited(a, v)
  <2>1. /\ row[a] \notin TERMINAL_STATUSES /\ v = "ACCEPTED"
        /\ x \notin completed
    BY <1>6 DEF Credited, Decided
  <2>2. /\ completed' = completed \cup {x}
        /\ acceptedCount' = [acceptedCount EXCEPT ![ChallengeOf[a]] = @ + 1]
    BY <1>5, <1>6 DEF RecordCompletion
  <2>3. AcceptedAttempts' = AcceptedAttempts \cup {a}
    BY <1>1, <1>2, <1>3, <2>1 DEF AcceptedAttempts
  <2> HIDE DEF a
  <2>4. completed' = {Solved(b) : b \in AcceptedAttempts'}
    BY <1>4, <2>2, <2>3
  <2>5. IsFiniteSet(completed')
    BY <1>4, <2>2, FS_AddElement
  <2> HIDE DEF x
  <2>6. ASSUME NEW k \in Challenges
        PROVE  acceptedCount'[k] = Cardinality({y \in completed' : y[2] = k})
    <3> DEFINE S == {y \in completed : y[2] = k}
               T == {y \in completed' : y[2] = k}
    <3>1. IsFiniteSet(S)
      BY <1>4, FS_Subset
    <3>2. acceptedCount[k] = Cardinality(S)
      BY <1>4 DEF SolutionsOf
    <3>3. CASE k = ChallengeOf[a]
      <4>1. T = S \cup {x} /\ x \notin S
        BY <1>1, <2>1, <2>2, <3>3
      <4>2. acceptedCount'[k] = acceptedCount[k] + 1
        BY <1>1, <1>3, <2>2, <3>3
      <4> HIDE DEF S, T
      <4>3. Cardinality(S \cup {x}) = Cardinality(S) + 1
        BY <3>1, <4>1, FS_AddElement
      <4>4. QED
        BY <3>2, <4>1, <4>2, <4>3 DEF T
    <3>4. CASE k # ChallengeOf[a]
      <4>1. T = S
        BY <1>1, <2>2, <3>4
      <4>2. acceptedCount'[k] = acceptedCount[k]
        BY <1>1, <1>3, <2>2, <3>4
      <4>3. QED
        BY <3>2, <4>1, <4>2
    <3>5. QED
      BY <3>3, <3>4
  <2>7. QED
    BY <2>4, <2>5, <2>6 DEF CreditInvariant, CreditsMatchResults, SolutionsOf,
                            Solved
<1>7. CASE ~ Credited(a, v)
  <2>1. UNCHANGED <<completed, acceptedCount>>
    BY <1>5, <1>7 DEF RecordCompletion
  <2>2. CASE row[a] \in TERMINAL_STATUSES \/ v # "ACCEPTED"
    <3>1. \A b \in Attempts : row'[b] = "ACCEPTED" <=> row[b] = "ACCEPTED"
      BY <1>1, <1>2, <1>3, <2>2 DEF TERMINAL_STATUSES
    <3>2. QED
      BY <2>1, <3>1, SameAcceptedKeepsCredits
  <2>3. CASE /\ row[a] \notin TERMINAL_STATUSES
             /\ v = "ACCEPTED" /\ x \in completed
    <3>1. AcceptedAttempts' = AcceptedAttempts \cup {a}
      BY <1>1, <1>2, <1>3, <2>3 DEF AcceptedAttempts
    <3> HIDE DEF a
    <3>2. completed' = {Solved(b) : b \in AcceptedAttempts'}
      BY <1>4, <2>1, <2>3, <3>1
    <3>3. QED
      BY <1>4, <2>1, <3>2 DEF CreditInvariant, CreditsMatchResults,
                              SolutionsOf, Solved
  <2>4. QED
    BY <1>7, <2>2, <2>3 DEF Credited, Decided
<1>8. QED
  BY <1>6, <1>7

LEMMA StepKeepsCredits ==
  StoreTypeOK /\ CreditInvariant /\ [StoreNext]_storeVars => CreditInvariant'
<1> SUFFICES ASSUME StoreTypeOK, CreditInvariant, [StoreNext]_storeVars
             PROVE  CreditInvariant'
  OBVIOUS
<1>1. ASSUME NEW a \in Attempts, OpenAttempt(a) PROVE CreditInvariant'
  BY <1>1, SameAcceptedKeepsCredits DEF OpenAttempt, StoreTypeOK
<1>2. ASSUME NEW P \in SUBSET (DOMAIN outbox), MarkPublished(P)
      PROVE  CreditInvariant'
  BY <1>2, SameAcceptedKeepsCredits DEF MarkPublished
<1>3. ASSUME NEW c \in EvaluationCommand, Transaction(c)
      PROVE  CreditInvariant'
  <2>1. ASSUME NEW r \in BOOLEAN, Claim(c, r) PROVE CreditInvariant'
    BY <2>1, CommandType, SameAcceptedKeepsCredits
    DEF Claim, Eligible, StoreTypeOK
  <2>2. CASE StoreTerminalFailure(c)
    BY <2>2, CommandType, SameAcceptedKeepsCredits
    DEF StoreTerminalFailure, PersistResult, StoreTypeOK, TERMINAL_STATUSES
  <2>3. CASE ResetForRetry(c)
    BY <2>3, CommandType, SameAcceptedKeepsCredits
    DEF ResetForRetry, StoreTypeOK
  <2>4. QED
    BY <1>3, <2>1, <2>2, <2>3, StoreSuccessKeepsCredits DEF Transaction
<1>4. CASE UNCHANGED storeVars
  BY <1>4, SameAcceptedKeepsCredits DEF storeVars
<1>5. QED
  BY <1>1, <1>2, <1>3, <1>4 DEF StoreNext

\* After every transaction the completed challenges are those with an
\* accepted attempt, and each challenge counts every such account once.
THEOREM StoreCreditsMatchResults == StoreSpec => []CreditsMatchResults
<1>1. StoreInit => CreditInvariant
  <2> SUFFICES ASSUME StoreInit PROVE CreditInvariant
    OBVIOUS
  <2>1. completed = {} /\ AcceptedAttempts = {}
    BY DEF StoreInit, AcceptedAttempts
  <2>2. \A c \in Challenges : SolutionsOf(c) = {} /\ acceptedCount[c] = 0
    BY <2>1 DEF SolutionsOf, StoreInit
  <2>3. QED
    BY <2>1, <2>2, FS_EmptySet DEF CreditInvariant, CreditsMatchResults
<1>2. CreditInvariant => CreditsMatchResults
  BY DEF CreditInvariant
<1>3. QED
  BY <1>1, <1>2, StepKeepsCredits, StoreTypeCorrect, PTL DEF StoreSpec

-----------------------------------------------------------------------------
(* The service.                                                             *)

\* An attempt with a fact in its log has been opened.
KnownIsOpen == \A a \in Attempts : Events(a) # <<>> => row[a] # "ABSENT"

\* A command that is requested or claimed belongs to an open attempt.
LEMMA CommandIsOpen ==
  ASSUME StoreTypeOK, KnownIsOpen, NEW c \in EvaluationCommand,
         Requested(c) \/ Claimed(c)
  PROVE  row[c.attempt] # "ABSENT"
<1>1. c.attempt \in Attempts
  BY CommandType
<1>2. PICK i \in DOMAIN history[c.attempt].events : TRUE
  BY DEF Requested, Claimed, Recorded
<1>3. Events(c.attempt) # <<>>
  BY <1>2 DEF Events
<1>4. QED
  BY <1>1, <1>3 DEF KnownIsOpen

LEMMA StepKnownIsOpen ==
  StoreTypeOK /\ KnownIsOpen /\ [StoreNext]_storeVars => KnownIsOpen'
<1> SUFFICES ASSUME StoreTypeOK, KnownIsOpen, [StoreNext]_storeVars,
                    NEW a \in Attempts, Events(a)' # <<>>
             PROVE  row'[a] # "ABSENT"
  BY DEF KnownIsOpen
<1>0. Events(a) # <<>> => row[a] # "ABSENT"
  BY DEF KnownIsOpen
<1>1. ASSUME NEW b \in Attempts, OpenAttempt(b) PROVE row'[a] # "ABSENT"
  BY <1>0, <1>1 DEF OpenAttempt, StoreTypeOK, Events
<1>2. ASSUME NEW P \in SUBSET (DOMAIN outbox), MarkPublished(P)
      PROVE  row'[a] # "ABSENT"
  BY <1>0, <1>2 DEF MarkPublished, Events
<1>3. ASSUME NEW c \in EvaluationCommand, Transaction(c)
      PROVE  row'[a] # "ABSENT"
  <2>1. c.attempt \in Attempts /\ row[c.attempt] # "ABSENT"
    BY <1>3, CommandIsOpen, CommandType DEF Transaction
  <2>2. a # c.attempt => history'[a] = history[a]
    BY <1>3, <2>1 DEF Transaction, Claim, StoreSuccess, StoreTerminalFailure,
                      ResetForRetry, StoreTypeOK
  <2>3. row[a] # "ABSENT"
    BY <1>0, <2>1, <2>2 DEF Events
  <2>4. ASSUME NEW r \in BOOLEAN, Claim(c, r) PROVE row'[a] # "ABSENT"
    BY <2>1, <2>3, <2>4 DEF Claim, StoreTypeOK
  <2>5. ASSUME NEW p \in TERMINAL_STATUSES, PersistResult(c.attempt, p)
        PROVE  row'[a] # "ABSENT"
    BY <2>1, <2>3, <2>5 DEF PersistResult, StoreTypeOK, TERMINAL_STATUSES
  <2>6. CASE ResetForRetry(c)
    BY <2>1, <2>3, <2>6 DEF ResetForRetry, StoreTypeOK
  <2>7. "INTERNAL_ERROR" \in TERMINAL_STATUSES
    BY DEF TERMINAL_STATUSES
  <2>8. QED
    BY <1>3, <2>4, <2>5, <2>6, <2>7
    DEF Transaction, StoreSuccess, StoreTerminalFailure
<1>4. CASE UNCHANGED storeVars
  BY <1>0, <1>4 DEF storeVars, Events
<1>5. QED
  BY <1>1, <1>2, <1>3, <1>4 DEF StoreNext

\* A row that is open and has no result is queued or running.
LEMMA OpenRowPhases ==
  ASSUME StoreTypeOK, NEW a \in Attempts, row[a] # "ABSENT", ~ Decided(a)
  PROVE  row[a] \in {"QUEUED", "RUNNING"}
BY DEF StoreTypeOK, RowPhases, Phases, Decided

\* A success is the service's answer, or comes too late to be seen.
LEMMA StoreSuccessIsFinish ==
  ASSUME StoreTypeOK, NEW c \in EvaluationCommand, NEW v \in Verdicts,
         StoreSuccess(c, v), row[c.attempt] # "ABSENT"
  PROVE  IF Decided(c.attempt) THEN UNCHANGED Service!serviceVars
         ELSE Service!Finish(c.attempt, v)
<1> DEFINE a == c.attempt
<1>1. a \in Attempts
  BY CommandType
<1>2. /\ row' = [row EXCEPT ![a] = IF @ \in TERMINAL_STATUSES THEN @ ELSE v]
      /\ RecordCompletion(a, v)
      /\ row \in [Attempts -> RowPhases]
  BY DEF StoreSuccess, PersistResult, StoreTypeOK
<1>3. CASE Decided(a)
  <2>1. UNCHANGED <<completed, acceptedCount>>
    BY <1>2, <1>3 DEF RecordCompletion, Credited
  <2>2. row' = row
    BY <1>1, <1>2, <1>3 DEF Decided
  <2>3. QED
    BY <1>3, <2>1, <2>2 DEF Service!serviceVars
<1>4. CASE ~ Decided(a)
  <2>1. row[a] \in {"QUEUED", "RUNNING"}
    BY <1>1, <1>4, OpenRowPhases
  <2>2. row' = [row EXCEPT ![a] = v]
    BY <1>1, <1>2, <1>4 DEF Decided
  <2>3. Credited(a, v) <=> v = "ACCEPTED" /\ Solved(a) \notin completed
    BY <1>4 DEF Credited
  <2>4. QED
    BY <1>2, <1>4, <2>1, <2>2, <2>3 DEF Service!Finish, RecordCompletion, Solved
<1>5. QED
  BY <1>3, <1>4

\* So is a terminal failure.
LEMMA StoreTerminalFailureIsFinish ==
  ASSUME StoreTypeOK, NEW c \in EvaluationCommand, StoreTerminalFailure(c),
         row[c.attempt] # "ABSENT"
  PROVE  IF Decided(c.attempt) THEN UNCHANGED Service!serviceVars
         ELSE Service!Finish(c.attempt, "INTERNAL_ERROR")
<1> DEFINE a == c.attempt
<1>1. a \in Attempts
  BY CommandType
<1>2. /\ row' = [row EXCEPT ![a] = IF @ \in TERMINAL_STATUSES
                                   THEN @ ELSE "INTERNAL_ERROR"]
      /\ UNCHANGED <<completed, acceptedCount>>
      /\ row \in [Attempts -> RowPhases]
  BY DEF StoreTerminalFailure, PersistResult, StoreTypeOK
<1>3. CASE Decided(a)
  BY <1>1, <1>2, <1>3 DEF Service!serviceVars, Decided
<1>4. CASE ~ Decided(a)
  <2>1. row[a] \in {"QUEUED", "RUNNING"}
    BY <1>1, <1>4, OpenRowPhases
  <2>2. row' = [row EXCEPT ![a] = "INTERNAL_ERROR"]
    BY <1>1, <1>2, <1>4 DEF Decided
  <2>3. QED
    BY <1>2, <1>4, <2>1, <2>2 DEF Service!Finish
<1>5. QED
  BY <1>3, <1>4

\* Every transaction is a step of the service or invisible to its users.
LEMMA StepImplementsService ==
  StoreTypeOK /\ KnownIsOpen /\ [StoreNext]_storeVars
    => [Service!ServiceNext]_Service!serviceVars
<1> SUFFICES ASSUME StoreTypeOK, KnownIsOpen, [StoreNext]_storeVars
             PROVE  Service!ServiceNext \/ UNCHANGED Service!serviceVars
  OBVIOUS
<1>1. ASSUME NEW a \in Attempts, OpenAttempt(a) PROVE Service!ServiceNext
  <2>1. Service!Open(a)
    BY <1>1 DEF OpenAttempt, Service!Open
  <2>2. QED
    BY <2>1 DEF Service!ServiceNext
<1>2. ASSUME NEW P \in SUBSET (DOMAIN outbox), MarkPublished(P)
      PROVE  UNCHANGED Service!serviceVars
  BY <1>2 DEF MarkPublished, Service!serviceVars
<1>3. ASSUME NEW c \in EvaluationCommand, Transaction(c)
      PROVE  Service!ServiceNext \/ UNCHANGED Service!serviceVars
  <2> DEFINE a == c.attempt
  <2>1. a \in Attempts /\ row[a] # "ABSENT"
    BY <1>3, CommandIsOpen, CommandType DEF Transaction
  <2>2. ASSUME NEW r \in BOOLEAN, Claim(c, r)
        PROVE  Service!Start(a) \/ UNCHANGED Service!serviceVars
    BY <2>1, <2>2 DEF Claim, Eligible, StoreTypeOK, Service!Start,
                      Service!serviceVars
  <2>3. CASE ResetForRetry(c)
    <3>1. Service!Requeue(a) \/ UNCHANGED Service!serviceVars
      BY <2>1, <2>3 DEF ResetForRetry, StoreTypeOK, Service!Requeue,
                        Service!serviceVars
    <3>2. QED
      BY <2>1, <3>1 DEF Service!ServiceNext
  <2>4. CASE StoreTerminalFailure(c)
    <3>1. \/ Service!Finish(a, "INTERNAL_ERROR")
          \/ UNCHANGED Service!serviceVars
      BY <2>1, <2>4, StoreTerminalFailureIsFinish
    <3>2. "INTERNAL_ERROR" \in Service!Results
      BY DEF Service!Results
    <3>3. QED
      BY <2>1, <3>1, <3>2 DEF Service!ServiceNext
  <2>5. ASSUME NEW v \in Verdicts, StoreSuccess(c, v)
        PROVE  Service!ServiceNext \/ UNCHANGED Service!serviceVars
    <3>1. Service!Finish(a, v) \/ UNCHANGED Service!serviceVars
      BY <2>1, <2>5, StoreSuccessIsFinish
    <3>2. v \in Service!Results
      BY DEF Service!Results
    <3>3. QED
      BY <2>1, <3>1, <3>2 DEF Service!ServiceNext
  <2>6. QED
    BY <1>3, <2>1, <2>2, <2>3, <2>4, <2>5 DEF Transaction, Service!ServiceNext
<1>4. CASE UNCHANGED storeVars
  BY <1>4 DEF storeVars, Service!serviceVars
<1>5. QED
  BY <1>1, <1>2, <1>3, <1>4 DEF StoreNext

\* The rows, the completed challenges and the counts of the store behave as
\* the service promises: one result for each attempt, credited once, at the
\* moment it is given.
THEOREM StoreImplementsService == StoreSpec => ImplementsService
<1>1. StoreInit => Service!ServiceInit
  BY DEF StoreInit, Service!ServiceInit
<1>2. StoreInit => KnownIsOpen
  BY DEF StoreInit, KnownIsOpen, Events, NewHistory
<1>3. QED
  BY <1>1, <1>2, StepKnownIsOpen, StepImplementsService, StoreTypeCorrect, PTL
  DEF StoreSpec, ImplementsService, Service!ServiceSpec

-----------------------------------------------------------------------------
(* What is shown.                                                           *)

\* An append leaves the projection alone or in the phase after its event.
LEMMA AppendShows ==
  ASSUME NEW h \in History, NEW t, NEW d, NEW v, Draft(t, d, v), IsCurrent(h)
  PROVE  LET after == AppendEvent(h, t, d, v).projection.phase
         IN  IF Recorded(h, t, d) THEN after = h.projection.phase
             ELSE after = PhaseAfter(NextEvent(h, t, d, v))
<1> DEFINE e == NextEvent(h, t, d, v)
<1>1. e \in LifecycleEvent /\ e.sequence = Len(h.events) + 1
  BY NextEventType DEF NextEvent
<1>2. /\ h.projection \in AttemptProjection
      /\ h.projection.lastSequence = Len(h.events)
      /\ Len(h.events) \in Nat
  BY DEF History, IsCurrent
<1>3. evolve(h.projection, e).phase = PhaseAfter(e)
  BY <1>1, <1>2, EvolveNewEvent
<1>4. CASE Recorded(h, t, d)
  BY <1>4 DEF AppendEvent
<1>5. CASE ~ Recorded(h, t, d)
  <2>1. AppendEvent(h, t, d, v).projection = evolve(h.projection, e)
    BY <1>5 DEF AppendEvent
  <2>2. QED
    BY <1>3, <1>5, <2>1
<1>6. QED
  BY <1>4, <1>5

\* The phases after the facts.
LEMMA PhasesAfter ==
  ASSUME NEW h, NEW d, NEW v
  PROVE  /\ PhaseAfter(NextEvent(h, ATTEMPT_OPENED, d, v)) = "QUEUED"
         /\ PhaseAfter(NextEvent(h, EXECUTION_REQUESTED, d, v)) = "QUEUED"
         /\ PhaseAfter(NextEvent(h, EXECUTION_RETRYABLE_FAILURE, d, v)) = "QUEUED"
         /\ PhaseAfter(NextEvent(h, EXECUTION_CLAIMED, d, v)) = "RUNNING"
         /\ PhaseAfter(NextEvent(h, EXECUTION_COMPLETED, d, v)) = v
         /\ PhaseAfter(NextEvent(h, EXECUTION_TERMINAL_FAILURE, d, v))
              = "INTERNAL_ERROR"
BY DEF PhaseAfter, NextEvent, VerdictOf, FinishingTypes, ATTEMPT_OPENED,
       EXECUTION_REQUESTED, EXECUTION_CLAIMED, EXECUTION_RETRYABLE_FAILURE,
       EXECUTION_COMPLETED, EXECUTION_TERMINAL_FAILURE

\* The log of an attempt without a result has no finishing event, and the
\* projection does not show one.
LEMMA UndecidedShowsNoResult ==
  ASSUME StoreTypeOK, FirstResultStands, ProjectionIsCurrent,
         NEW a \in Attempts, ~ Decided(a)
  PROVE  /\ \A t \in FinishingTypes : \A d : ~ Recorded(history[a], t, d)
         /\ Events(a) # <<>> => history[a].projection.phase \in {"QUEUED", "RUNNING"}
<1>1. \A i \in DOMAIN history[a].events :
        history[a].events[i].type \notin FinishingTypes
  BY DEF FirstResultStands, ResultStands, Events, Decided
<1>2. ASSUME Events(a) # <<>>
      PROVE  history[a].projection.phase \in {"QUEUED", "RUNNING"}
  <2> DEFINE s == history[a].events
  <2>1. s \in Seq(LifecycleEvent) /\ s # <<>>
    BY <1>2 DEF StoreTypeOK, History, Events
  <2>2. Len(s) \in DOMAIN s /\ Last(s) = s[Len(s)]
    BY <2>1 DEF Last
  <2>3. history[a].projection.phase = PhaseAfter(Last(s))
    BY <2>1 DEF ProjectionIsCurrent, IsCurrent
  <2>4. QED
    BY <1>1, <2>2, <2>3 DEF PhaseAfter
<1>3. QED
  BY <1>1, <1>2 DEF Recorded

LEMMA OpenAttemptIsShown ==
  ASSUME StoreTypeOK, ProjectionIsCurrent, KnownIsOpen, NEW a \in Attempts,
         OpenAttempt(a)
  PROVE  Shown!OpenShown(a)
<1> DEFINE opened == AppendEvent(history[a], ATTEMPT_OPENED, 0, NoVerdict)
           asked  == AppendEvent(opened, EXECUTION_REQUESTED, 0, NoVerdict)
<1>1. /\ history[a] \in History /\ IsCurrent(history[a])
      /\ Draft(ATTEMPT_OPENED, 0, NoVerdict)
      /\ Draft(EXECUTION_REQUESTED, 0, NoVerdict)
  BY PlainTypes, DraftWithoutVerdict DEF StoreTypeOK, ProjectionIsCurrent
<1>2. history' = [history EXCEPT ![a] = asked] /\ Shown!Open(a)
  BY DEF OpenAttempt, Shown!Open
<1>3. history[a].events = <<>>
  BY DEF KnownIsOpen, Events, OpenAttempt
<1>4. ~ Recorded(history[a], ATTEMPT_OPENED, 0)
  BY <1>3 DEF Recorded
<1>5. opened.projection.phase = "QUEUED"
  BY <1>1, <1>4, AppendShows, PhasesAfter
<1>6. opened \in History /\ IsCurrent(opened)
  BY <1>1, AppendEventType, AppendEventCurrent
<1> HIDE DEF opened
<1>7. asked.projection.phase = "QUEUED"
  BY <1>1, <1>5, <1>6, AppendShows, PhasesAfter
<1> HIDE DEF asked
<1>8. Shown!Shows(a, "QUEUED")
  BY <1>2, <1>7 DEF Shown!Shows, StoreTypeOK
<1>9. QED
  BY <1>2, <1>8 DEF Shown!OpenShown

LEMMA ClaimIsShown ==
  ASSUME StoreTypeOK, FirstResultStands, ProjectionIsCurrent,
         NEW c \in EvaluationCommand, NEW r \in BOOLEAN, Claim(c, r),
         Events(c.attempt) # <<>>
  PROVE  Shown!MoveShown(c.attempt)
<1> DEFINE a == c.attempt
           h == AppendEvent(history[a], EXECUTION_CLAIMED, c.retryIndex, NoVerdict)
<1>1. a \in Attempts /\ c.retryIndex \in Nat
  BY CommandType
<1>2. /\ row[a] \in {"QUEUED", "RUNNING"} /\ ~ Decided(a)
      /\ row' = [row EXCEPT ![a] = "RUNNING"]
      /\ history' = [history EXCEPT ![a] = h]
      /\ UNCHANGED <<completed, acceptedCount>>
  BY DEF Claim, Eligible, Decided, TERMINAL_STATUSES
<1>3. \/ Shown!Start(a)
      \/ row[a] \in Shown!Unfinished /\ UNCHANGED Shown!serviceVars
  BY <1>1, <1>2 DEF StoreTypeOK, Shown!Start, Shown!serviceVars, Shown!Unfinished
<1>4. /\ history[a] \in History /\ IsCurrent(history[a])
      /\ Draft(EXECUTION_CLAIMED, c.retryIndex, NoVerdict)
  BY <1>1, PlainTypes, DraftWithoutVerdict DEF StoreTypeOK, ProjectionIsCurrent
<1>5. history[a].projection.phase \in {"QUEUED", "RUNNING"}
  BY <1>1, <1>2, UndecidedShowsNoResult
<1>6. h.projection.phase \in {"QUEUED", "RUNNING"}
  BY <1>4, <1>5, AppendShows, PhasesAfter
<1> HIDE DEF h
<1>7. \E p \in Shown!Unfinished : Shown!Shows(a, p)
  BY <1>1, <1>2, <1>6 DEF Shown!Unfinished, Shown!Shows, StoreTypeOK
<1>8. QED
  BY <1>3, <1>7 DEF Shown!MoveShown

LEMMA ResetIsShown ==
  ASSUME StoreTypeOK, FirstResultStands, ProjectionIsCurrent,
         NEW c \in EvaluationCommand, ResetForRetry(c),
         Events(c.attempt) # <<>>, row[c.attempt] # "ABSENT"
  PROVE  Shown!JudgeShown(c.attempt) \/ UNCHANGED Shown!shownVars
<1> DEFINE a      == c.attempt
           n      == retry(c).retryIndex
           failed == AppendEvent(history[a], EXECUTION_RETRYABLE_FAILURE,
                                 c.retryIndex, NoVerdict)
           asked  == AppendEvent(failed, EXECUTION_REQUESTED, n, NoVerdict)
           before == history[a].projection.phase
<1>1. a \in Attempts /\ c.retryIndex \in Nat /\ n \in Nat
  BY CommandType
<1>2. /\ history' = [history EXCEPT ![a] = asked]
      /\ row' = [row EXCEPT ![a] = IF @ = "RUNNING" THEN "QUEUED" ELSE @]
      /\ UNCHANGED <<completed, acceptedCount>>
  BY DEF ResetForRetry
<1>3. /\ history[a] \in History /\ IsCurrent(history[a])
      /\ Draft(EXECUTION_RETRYABLE_FAILURE, c.retryIndex, NoVerdict)
      /\ Draft(EXECUTION_REQUESTED, n, NoVerdict)
  BY <1>1, PlainTypes, DraftWithoutVerdict DEF StoreTypeOK, ProjectionIsCurrent
<1>4. failed.projection.phase \in {before, "QUEUED"}
  BY <1>3, AppendShows, PhasesAfter
<1>5. failed \in History /\ IsCurrent(failed)
  BY <1>3, AppendEventType, AppendEventCurrent
<1> HIDE DEF failed
<1>6. asked.projection.phase \in {before, "QUEUED"}
  BY <1>3, <1>4, <1>5, AppendShows, PhasesAfter
<1> HIDE DEF asked
<1>7. Shown!Shows(a, asked.projection.phase)
  BY <1>1, <1>2 DEF Shown!Shows, StoreTypeOK
<1>8. CASE ~ Decided(a)
  <2>1. row[a] \in {"QUEUED", "RUNNING"}
    BY <1>1, <1>8, OpenRowPhases
  <2>2. \/ Shown!Requeue(a)
        \/ row[a] \in Shown!Unfinished /\ UNCHANGED Shown!serviceVars
    BY <1>1, <1>2, <2>1 DEF StoreTypeOK, Shown!Requeue, Shown!serviceVars,
                            Shown!Unfinished
  <2>3. asked.projection.phase \in Shown!Unfinished
    BY <1>1, <1>6, <1>8, UndecidedShowsNoResult DEF Shown!Unfinished
  <2>4. Shown!MoveShown(a)
    BY <1>7, <2>2, <2>3 DEF Shown!MoveShown, Shown!Shows
  <2>5. QED
    BY <2>4 DEF Shown!JudgeShown
<1>9. CASE Decided(a)
  <2>1. UNCHANGED Shown!serviceVars
    BY <1>1, <1>2, <1>9 DEF Decided, TERMINAL_STATUSES, StoreTypeOK,
                            Shown!serviceVars
  <2>2. row[a] \in Shown!TERMINAL_STATUSES
    BY <1>9 DEF Decided, TERMINAL_STATUSES, Shown!TERMINAL_STATUSES
  <2>3. CASE asked.projection.phase = "QUEUED"
    BY <1>7, <2>1, <2>2, <2>3 DEF Shown!ReportLate, Shown!JudgeShown, Shown!Shows
  <2>4. CASE asked.projection.phase = before
    BY <1>1, <1>7, <2>1, <2>4 DEF Shown!Shows, Shown!shownVars
  <2>5. QED
    BY <1>6, <2>3, <2>4
<1>10. QED
  BY <1>8, <1>9

\* A result is shown with the transaction that gives it.  What an attempt that
\* has one is told later is shown unless it was known, and changes no row.
LEMMA ResultIsShown ==
  ASSUME StoreTypeOK, FirstResultStands, ProjectionIsCurrent,
         NEW a \in Attempts, NEW type \in FinishingTypes, NEW d \in Nat,
         NEW drafted, NEW v \in Shown!Results,
         Draft(type, d, drafted),
         \A x : PhaseAfter(NextEvent(x, type, d, drafted)) = v,
         history' = [history EXCEPT ![a] = AppendEvent(@, type, d, drafted)],
         IF Decided(a) THEN UNCHANGED Service!serviceVars
         ELSE Service!Finish(a, v)
  PROVE  Shown!JudgeShown(a) \/ UNCHANGED Shown!shownVars
<1> DEFINE h == AppendEvent(history[a], type, d, drafted)
<1>1. history[a] \in History /\ IsCurrent(history[a])
  BY DEF StoreTypeOK, ProjectionIsCurrent
<1>2. history' = [history EXCEPT ![a] = h]
  OBVIOUS
<1>3. IF Recorded(history[a], type, d)
      THEN h.projection.phase = history[a].projection.phase
      ELSE h.projection.phase = v
  BY <1>1, AppendShows
<1> HIDE DEF h
<1>4. Shown!Shows(a, h.projection.phase)
  BY <1>2 DEF Shown!Shows, StoreTypeOK
<1>5. CASE ~ Decided(a)
  <2>1. h.projection.phase = v
    BY <1>3, <1>5, UndecidedShowsNoResult
  <2>2. Shown!Finish(a, v)
    BY <1>5 DEF Service!Finish, Shown!Finish
  <2>3. QED
    BY <1>4, <2>1, <2>2 DEF Shown!FinishShown, Shown!JudgeShown, Shown!Shows
<1>6. CASE Decided(a)
  <2>1. UNCHANGED Shown!serviceVars /\ row[a] \in Shown!TERMINAL_STATUSES
    BY <1>6 DEF Service!serviceVars, Shown!serviceVars, Decided,
                TERMINAL_STATUSES, Shown!TERMINAL_STATUSES
  <2>2. CASE h.projection.phase = v
    BY <1>4, <2>1, <2>2 DEF Shown!ReportLate, Shown!JudgeShown, Shown!Shows
  <2>3. CASE h.projection.phase = history[a].projection.phase
    BY <1>4, <2>1, <2>3 DEF Shown!Shows, Shown!shownVars
  <2>4. QED
    BY <1>3, <2>2, <2>3
<1>7. QED
  BY <1>5, <1>6

\* Every transaction is a step of the service and of what is shown of it, or
\* invisible in both.
LEMMA StepImplementsShown ==
  StoreTypeOK /\ FirstResultStands /\ ProjectionIsCurrent /\ KnownIsOpen
  /\ [StoreNext]_storeVars => [Shown!ShownNext]_Shown!shownVars
<1> SUFFICES ASSUME StoreTypeOK, FirstResultStands, ProjectionIsCurrent,
                    KnownIsOpen, [StoreNext]_storeVars
             PROVE  Shown!ShownNext \/ UNCHANGED Shown!shownVars
  OBVIOUS
<1>1. ASSUME NEW a \in Attempts, OpenAttempt(a) PROVE Shown!ShownNext
  BY <1>1, OpenAttemptIsShown DEF Shown!ShownNext
<1>2. ASSUME NEW P \in SUBSET (DOMAIN outbox), MarkPublished(P)
      PROVE  UNCHANGED Shown!shownVars
  BY <1>2 DEF MarkPublished, Shown!shownVars, Shown!serviceVars
<1>3. ASSUME NEW c \in EvaluationCommand, Transaction(c)
      PROVE  Shown!ShownNext \/ UNCHANGED Shown!shownVars
  <2> DEFINE a == c.attempt
  <2>1. /\ a \in Attempts /\ row[a] # "ABSENT" /\ Events(a) # <<>>
        /\ c.retryIndex \in Nat
    <3>1. PICK i \in DOMAIN history[a].events : TRUE
      BY <1>3 DEF Transaction, Requested, Claimed, Recorded
    <3>2. Events(a) # <<>>
      BY <3>1 DEF Events
    <3>3. QED
      BY <1>3, <3>2, CommandIsOpen, CommandType DEF Transaction
  <2>2. ASSUME NEW r \in BOOLEAN, Claim(c, r) PROVE Shown!JudgeShown(a)
    BY <2>1, <2>2, ClaimIsShown DEF Shown!JudgeShown
  <2>3. CASE ResetForRetry(c)
    <3>1. Shown!JudgeShown(a) \/ UNCHANGED Shown!shownVars
      BY <2>1, <2>3, ResetIsShown
    <3>2. QED
      BY <2>1, <3>1 DEF Shown!ShownNext
  <2>4. CASE StoreTerminalFailure(c)
    <3>1. /\ Draft(EXECUTION_TERMINAL_FAILURE, c.retryIndex, NoVerdict)
          /\ EXECUTION_TERMINAL_FAILURE \in FinishingTypes
          /\ "INTERNAL_ERROR" \in Shown!Results
      BY <2>1, PlainTypes, DraftWithoutVerdict
      DEF FinishingTypes, Shown!Results
    <3>2. history' = [history EXCEPT ![a] =
            AppendEvent(@, EXECUTION_TERMINAL_FAILURE, c.retryIndex, NoVerdict)]
      BY <2>4 DEF StoreTerminalFailure
    <3>3. IF Decided(a) THEN UNCHANGED Service!serviceVars
          ELSE Service!Finish(a, "INTERNAL_ERROR")
      BY <2>1, <2>4, StoreTerminalFailureIsFinish
    <3>4. \A x : PhaseAfter(NextEvent(x, EXECUTION_TERMINAL_FAILURE, c.retryIndex, NoVerdict))
                    = "INTERNAL_ERROR"
      BY PhasesAfter
    <3>5. Shown!JudgeShown(a) \/ UNCHANGED Shown!shownVars
      BY <2>1, <3>1, <3>2, <3>3, <3>4, ResultIsShown
    <3>6. QED
      BY <2>1, <3>5 DEF Shown!ShownNext
  <2>5. ASSUME NEW v \in Verdicts, StoreSuccess(c, v)
        PROVE  Shown!ShownNext \/ UNCHANGED Shown!shownVars
    <3>1. /\ Draft(EXECUTION_COMPLETED, c.retryIndex, v)
          /\ EXECUTION_COMPLETED \in FinishingTypes
          /\ v \in Shown!Results
      BY <2>1, DraftWithVerdict DEF FinishingTypes, Shown!Results
    <3>2. history' = [history EXCEPT ![a] =
            AppendEvent(@, EXECUTION_COMPLETED, c.retryIndex, v)]
      BY <2>5 DEF StoreSuccess
    <3>3. IF Decided(a) THEN UNCHANGED Service!serviceVars
          ELSE Service!Finish(a, v)
      BY <2>1, <2>5, StoreSuccessIsFinish
    <3>4. \A x : PhaseAfter(NextEvent(x, EXECUTION_COMPLETED, c.retryIndex, v))
                    = v
      BY PhasesAfter
    <3>5. Shown!JudgeShown(a) \/ UNCHANGED Shown!shownVars
      BY <2>1, <3>1, <3>2, <3>3, <3>4, ResultIsShown
    <3>6. QED
      BY <2>1, <3>5 DEF Shown!ShownNext
  <2>6. QED
    <3>1. CASE \E r \in BOOLEAN : Claim(c, r)
      BY <2>1, <2>2, <3>1 DEF Shown!ShownNext
    <3>2. QED
      BY <1>3, <2>3, <2>4, <2>5, <3>1 DEF Transaction
<1>4. CASE UNCHANGED storeVars
  BY <1>4 DEF storeVars, Shown!shownVars, Shown!serviceVars
<1>5. QED
  BY <1>1, <1>2, <1>3, <1>4 DEF StoreNext

\* The rows and the projections together behave as ShownService says: no
\* result is shown before the attempt has one, it is shown from the transaction
\* that gives it, and only a later fact of the attempt shows something else.
THEOREM StoreImplementsShownService == StoreSpec => ImplementsShownService
<1>1. StoreInit => Shown!ShownInit
  BY DEF StoreInit, Shown!ShownInit, Shown!ServiceInit, NewHistory, NewProjection
<1>2. StoreInit => KnownIsOpen
  BY DEF StoreInit, KnownIsOpen, Events, NewHistory
<1>3. QED
  BY <1>1, <1>2, StepKnownIsOpen, StepImplementsShown, StoreTypeCorrect,
     StoreFirstResultStands, StoreProjectionIsCurrent, PTL
  DEF StoreSpec, ImplementsShownService, Shown!ShownSpec

=============================================================================
