---------------------------- MODULE IntakeProofs ----------------------------
(***************************************************************************)
(* The request key does what it is for, whatever is posted, by however     *)
(* many clients, and whatever the console does meanwhile.                  *)
(***************************************************************************)
EXTENDS ConsoleProperties, TLAPS

USE VerdictsAreTerminal

PostedKeys == {NoKey} \cup {input.key : input \in Inputs \cup {ComposerInput}}

IntakeTypeOK ==
  /\ phase \in [Attempts -> Phases \cup {"ABSENT"}]
  /\ request \in [Attempts -> [step : Steps, key : PostedKeys, code : Codes,
                               attempt : Attempts \cup {"none"}]]

\* The attempts whose row is in the table, or in a transaction that is open.
Held(r) == Committed(r) \/ Flushed(r)

\* Why the requests agree: of the requests with one key, one holds the row at
\* a time, and what is answered is the row that is held for good.
IntakeInvariant ==
  /\ IntakeTypeOK
  /\ \A r \in Attempts :
       Committed(r) \/ request[r].code # "none" => request[r].step = "answered"
  /\ \A r \in Attempts : \A s \in Siblings(r) : ~(Held(r) /\ Held(s))
  /\ \A r \in Attempts : Accepted(r) =>
       /\ Committed(request[r].attempt)
       /\ request[r].attempt \in {r} \cup Siblings(r)
  /\ ConflictMeansSiblingOpened

\* Siblings are the other members of a class of requests.
LEMMA SiblingsAreAlike ==
  ASSUME NEW r \in Attempts, NEW s \in Siblings(r)
  PROVE  s \in Attempts /\ r \in Siblings(s) /\ Siblings(s) \subseteq {r} \cup Siblings(r)
BY DEF Siblings

\* The invariant says all that KeyedRequestsAgree does.
LEMMA InvariantImpliesAgreement == IntakeInvariant => KeyedRequestsAgree
<1> SUFFICES ASSUME IntakeInvariant, NEW r \in Attempts,
                    NEW s \in Siblings(r), Accepted(r), Accepted(s)
             PROVE  request[r].attempt = request[s].attempt
  BY DEF IntakeInvariant, KeyedRequestsAgree, Held
<1> DEFINE a == request[r].attempt
           b == request[s].attempt
<1>1. /\ s \in Attempts
      /\ Committed(a) /\ a \in {r} \cup Siblings(r)
      /\ Committed(b) /\ b \in {s} \cup Siblings(s)
  BY SiblingsAreAlike DEF IntakeInvariant
<1>2. b \in {r} \cup Siblings(r)
  BY <1>1, SiblingsAreAlike
<1>3. a = b \/ b \in Siblings(a)
  BY <1>1, <1>2, SiblingsAreAlike DEF Siblings
<1>4. a \in Attempts
  BY <1>1, SiblingsAreAlike
<1>5. QED
  BY <1>1, <1>3, <1>4 DEF IntakeInvariant, Held

LEMMA IntakeInitially == ConsoleInit => IntakeInvariant
BY DEF ConsoleInit, ShownInit, ServiceInit, IntakeInit, IntakeInvariant, IntakeTypeOK,
       Unsent, NoKey, PostedKeys, Steps, Codes, Committed, Flushed, Held,
       Accepted, ConflictMeansSiblingOpened, Siblings

\* Judging changes the phases of what was committed, and of nothing else.
LEMMA JudgingKeepsCommitted ==
  ASSUME IntakeTypeOK, JudgingStep
  PROVE  /\ IntakeTypeOK' /\ request' = request
         /\ \A r \in Attempts : Committed(r)' <=> Committed(r)
<1>1. "ABSENT" \notin Results /\ Results \subseteq Phases
  BY DEF Results, Phases, TERMINAL_STATUSES
<1>2. request' = request
  BY DEF JudgingStep, intakeVars
<1>3. PICK a \in Attempts :
        \/ phase' = phase
        \/ Start(a) \/ Requeue(a) \/ \E v \in Results : Finish(a, v)
  BY DEF JudgingStep, JudgeShown, MoveShown, FinishShown, ReportLate, serviceVars
<1>4. CASE phase' = phase
  BY <1>2, <1>4 DEF IntakeTypeOK, Committed
<1>5. CASE phase' # phase
  <2>1. PICK p \in Phases :
          phase[a] # "ABSENT" /\ p # "ABSENT" /\ phase' = [phase EXCEPT ![a] = p]
    BY <1>1, <1>3, <1>5 DEF Start, Requeue, Finish, Phases
  <2>2. QED
    BY <1>2, <2>1 DEF IntakeTypeOK, Committed
<1>6. QED
  BY <1>4, <1>5

-----------------------------------------------------------------------------
(* Steps that hold, accept and refuse no more than before.                  *)

\* Requests keep their keys once they are held or answered.
AddsNothing ==
  \A r \in Attempts :
    /\ Committed(r)' <=> Committed(r)
    /\ Flushed(r)' => Flushed(r)
    /\ Held(r)' \/ request[r].step = "answered" =>
         request'[r].key = request[r].key
    /\ request[r].step = "answered" => request'[r] = request[r]
    /\ request'[r].code # "none" => request'[r].step = "answered"
    /\ request'[r].code \in {"accepted", "conflict"} => request'[r] = request[r]

LEMMA AddingNothingKeepsInvariant ==
  ASSUME IntakeInvariant, IntakeTypeOK', AddsNothing
  PROVE  IntakeInvariant'
<1> USE DEF AddsNothing
<1>1. \A r \in Attempts : Committed(r)' => request'[r].step = "answered"
  BY DEF IntakeInvariant
<1>2. ASSUME NEW r \in Attempts, NEW s \in Siblings(r)', Held(r)', Held(s)'
      PROVE  FALSE
  <2>1. s \in Siblings(r) /\ Held(r) /\ Held(s)
    BY <1>2 DEF Siblings, Held
  <2>2. QED
    BY <2>1 DEF IntakeInvariant
<1>3. ASSUME NEW r \in Attempts, request'[r] = request[r],
             NEW a \in Siblings(r), Committed(a)
      PROVE  a \in Siblings(r)'
  <2>1. request[a].step = "answered"
    BY <1>3 DEF IntakeInvariant, Siblings
  <2>2. QED
    BY <1>3, <2>1 DEF Siblings
<1>4. ASSUME NEW r \in Attempts, Accepted(r)'
      PROVE  /\ Committed(request[r].attempt)'
             /\ request'[r].attempt \in {r} \cup Siblings(r)'
  <2> DEFINE a == request[r].attempt
  <2>1. request'[r] = request[r] /\ Accepted(r)
    BY <1>4 DEF Accepted
  <2>2. Committed(a) /\ a \in {r} \cup Siblings(r)
    BY <2>1 DEF IntakeInvariant
  <2>3. a \in Attempts
    BY <2>2 DEF Siblings
  <2>4. QED
    BY <1>3, <2>1, <2>2, <2>3
<1>5. ConflictMeansSiblingOpened'
  <2> SUFFICES ASSUME NEW r \in Attempts, request'[r].code = "conflict"
               PROVE  ~Committed(r)' /\ \E s \in Siblings(r)' : Committed(s)'
    BY DEF ConflictMeansSiblingOpened
  <2>1. request'[r] = request[r]
    OBVIOUS
  <2>2. PICK s \in Siblings(r) : ~Committed(r) /\ Committed(s)
    BY <2>1 DEF IntakeInvariant, ConflictMeansSiblingOpened
  <2>3. QED
    BY <1>3, <2>1, <2>2 DEF Siblings
<1>6. \A r \in Attempts :
        request'[r].code # "none" => request'[r].step = "answered"
  OBVIOUS
<1>7. QED
  BY <1>1, <1>2, <1>4, <1>5, <1>6 DEF IntakeInvariant

LEMMA UnchangedAddsNothing ==
  ASSUME IntakeInvariant, request' = request, IntakeTypeOK',
         \A r \in Attempts : Committed(r)' <=> Committed(r)
  PROVE  IntakeInvariant'
BY AddingNothingKeepsInvariant DEF AddsNothing, Flushed, Held, IntakeInvariant

\* A request that is sent has no key before, and holds nothing.
LEMMA SendKeepsInvariant ==
  ASSUME IntakeInvariant, NEW r \in Attempts,
         NEW input \in Inputs \cup {ComposerInput}, Send(r, input)
  PROVE  IntakeInvariant'
<1>1. phase' = phase /\ request[r].step = "unsent"
  BY DEF Send, shownVars, serviceVars
<1>2. PICK new : /\ request' = [request EXCEPT ![r] = new]
                 /\ \/ new = [Unsent EXCEPT !.step = "answered", !.code = Refusal(input)]
                    \/ new = [Unsent EXCEPT !.step = "received", !.key = input.key]
  BY DEF Send
<1>3. Refusal(input) \in {"invalid", "unknown", "none"}
  BY DEF Refusal
<1>4. input.key \in PostedKeys /\ NoKey \in PostedKeys
  BY DEF PostedKeys
<1>5. /\ new \in [step : Steps, key : PostedKeys, code : Codes,
                  attempt : Attempts \cup {"none"}]
      /\ new.step = "answered" \/ (new.step = "received" /\ new.code = "none")
      /\ new.code \notin {"accepted", "conflict"}
  <2>1. CASE new = [Unsent EXCEPT !.step = "answered", !.code = Refusal(input)]
    <3>1. new = [step |-> "answered", key |-> NoKey,
                 code |-> Refusal(input), attempt |-> "none"]
      BY <2>1 DEF Unsent
    <3>2. QED
      BY <1>3, <1>4, <3>1 DEF Steps, Codes, Refused
  <2>2. CASE new = [Unsent EXCEPT !.step = "received", !.key = input.key]
    <3>1. new = [step |-> "received", key |-> input.key, code |-> "none",
                 attempt |-> "none"]
      BY <2>2 DEF Unsent
    <3>2. QED
      BY <1>4, <3>1 DEF Steps, Codes, Refused
  <2>3. QED
    BY <1>2, <2>1, <2>2
<1>6. IntakeTypeOK'
  BY <1>1, <1>2, <1>5 DEF IntakeInvariant, IntakeTypeOK
<1>7. AddsNothing
  BY <1>1, <1>2, <1>5 DEF IntakeInvariant, IntakeTypeOK, AddsNothing, Committed, Flushed, Held
<1>8. QED
  BY <1>6, <1>7, AddingNothingKeepsInvariant

LEMMA AdmitKeepsInvariant ==
  ASSUME IntakeInvariant, NEW r \in Attempts, Admit(r)
  PROVE  IntakeInvariant'
<1>1. /\ phase' = phase /\ request[r].step = "received"
      /\ request' = [request EXCEPT ![r].step = "admitted"]
  BY DEF Admit, Reaches, shownVars, serviceVars
<1>2. IntakeTypeOK'
  BY <1>1 DEF IntakeInvariant, IntakeTypeOK, Steps
<1>3. ~Committed(r)
  BY <1>1 DEF IntakeInvariant
<1>4. AddsNothing
  BY <1>1, <1>3 DEF AddsNothing, Committed, Flushed, Held, IntakeInvariant,
     IntakeTypeOK, ConflictMeansSiblingOpened, Accepted
<1>5. QED
  BY <1>2, <1>4, AddingNothingKeepsInvariant

LEMMA CrashKeepsInvariant ==
  ASSUME IntakeInvariant, CrashApi
  PROVE  IntakeInvariant'
<1> DEFINE inFlight == {r \in Attempts :
             request[r].step \in {"received", "admitted", "flushed"}}
<1>1. /\ phase' = phase
      /\ request' = [r \in Attempts |->
           IF r \in inFlight
           THEN [request[r] EXCEPT !.step = "answered", !.code = "lost"]
           ELSE request[r]]
  BY DEF CrashApi, shownVars, serviceVars
<1> DEFINE S == [step : Steps, key : PostedKeys, code : Codes,
                 attempt : Attempts \cup {"none"}]
           lost(r) == [request[r] EXCEPT !.step = "answered", !.code = "lost"]
<1>2. IntakeTypeOK'
  <2>1. ASSUME NEW r \in Attempts PROVE request[r] \in S /\ lost(r) \in S
    <3>1. request[r] \in S
      BY DEF IntakeInvariant, IntakeTypeOK
    <3>2. "answered" \in Steps /\ "lost" \in Codes
      BY DEF Steps, Codes, Refused
    <3>3. QED
      BY <3>1, <3>2
  <2>2. request' = [r \in Attempts |-> IF r \in inFlight THEN lost(r) ELSE request[r]]
    BY <1>1
  <2> HIDE DEF S, lost, inFlight
  <2>3. request' \in [Attempts -> S]
    BY <2>1, <2>2
  <2>4. QED
    BY <1>1, <2>3 DEF IntakeInvariant, IntakeTypeOK, S
<1>3. ASSUME NEW r \in Attempts
      PROVE  /\ request'[r].key = request[r].key
             /\ \/ r \notin inFlight /\ request'[r] = request[r]
                \/ /\ request'[r].step = "answered" /\ request'[r].code = "lost"
                   /\ request[r].step # "answered"
  <2>1. request[r] \in S
    BY DEF IntakeInvariant, IntakeTypeOK
  <2>2. request'[r] = IF r \in inFlight THEN lost(r) ELSE request[r]
    BY <1>1
  <2>3. CASE r \in inFlight
    <3>1. request'[r] = lost(r) /\ request[r].step # "answered"
      BY <2>2, <2>3
    <3>2. QED
      BY <2>1, <3>1
  <2>4. CASE r \notin inFlight
    BY <2>2, <2>4
  <2>5. QED
    BY <2>3, <2>4
<1>4. AddsNothing
  BY <1>1, <1>3 DEF AddsNothing, Committed, Flushed, Held, IntakeInvariant
<1>5. QED
  BY <1>2, <1>4, AddingNothingKeepsInvariant

-----------------------------------------------------------------------------
(* Steps that answer, flush or commit.                                      *)

\* Only the step of the request changes or its answer, so its siblings stay.
LEMMA AnsweringKeepsSiblings ==
  ASSUME IntakeTypeOK, NEW r \in Attempts,
         \E step, code, attempt :
           request' = [request EXCEPT ![r].step = step, ![r].code = code,
                                      ![r].attempt = attempt]
  PROVE  \A s \in Attempts : Siblings(s)' = Siblings(s)
<1>1. \A s \in Attempts : request'[s].key = request[s].key
  BY DEF IntakeTypeOK
<1>2. QED
  BY <1>1 DEF Siblings

LEMMA AnswersAreRequests ==
  ASSUME IntakeTypeOK, NEW r \in Attempts, NEW step \in Steps,
         NEW code \in Codes, NEW attempt \in Attempts \cup {"none"},
         request' = [request EXCEPT ![r].step = step, ![r].code = code,
                                    ![r].attempt = attempt]
  PROVE  request' \in [Attempts -> [step : Steps, key : PostedKeys, code : Codes,
                                    attempt : Attempts \cup {"none"}]]
<1> DEFINE S == [step : Steps, key : PostedKeys, code : Codes,
                 attempt : Attempts \cup {"none"}]
<1>1. request \in [Attempts -> S]
  BY DEF IntakeTypeOK
<1>2. \A q \in Attempts \ {r} : request'[q] = request[q]
  BY <1>1
<1>3. request'[r] = [request[r] EXCEPT !.step = step, !.code = code,
                                       !.attempt = attempt]
  BY <1>1
<1>4. request'[r] \in S
  <2>1. ASSUME NEW p \in S
        PROVE  [p EXCEPT !.step = step, !.code = code, !.attempt = attempt] \in S
    OBVIOUS
  <2>2. request[r] \in S
    BY <1>1
  <2>3. QED
    BY <1>3, <2>1, <2>2
<1>5. request' = [q \in Attempts |-> request'[q]]
  BY <1>1
<1>6. QED
  BY <1>1, <1>2, <1>4, <1>5

LEMMA AnswerExistingKeepsInvariant ==
  ASSUME IntakeInvariant, NEW r \in Attempts, AnswerExisting(r)
  PROVE  IntakeInvariant'
<1> USE DEF IntakeInvariant
<1>1. PICK s \in Siblings(r) : Committed(s) /\ request' = Answer(r, "accepted", s)
  BY DEF AnswerExisting
<1>2. phase' = phase /\ s \in Attempts /\ request[r].step = "received"
  BY DEF AnswerExisting, shownVars, serviceVars, Siblings
<1>3. /\ request' = [request EXCEPT ![r].step = "answered",
                       ![r].code = "accepted", ![r].attempt = s]
      /\ IntakeTypeOK'
  BY <1>1, <1>2 DEF Answer, IntakeTypeOK, Steps, Codes
<1>4. \A q \in Attempts : /\ Siblings(q)' = Siblings(q)
                          /\ Committed(q)' <=> Committed(q)
                          /\ Flushed(q)' => Flushed(q)
                          /\ q # r => request'[q] = request[q]
  BY <1>2, <1>3, AnsweringKeepsSiblings DEF Committed, Flushed, IntakeTypeOK
<1>5. /\ request'[r].step = "answered" /\ request'[r].code = "accepted"
      /\ request'[r].attempt = s
  BY <1>3 DEF IntakeTypeOK
<1>6. ConflictMeansSiblingOpened'
  BY <1>4, <1>5 DEF ConflictMeansSiblingOpened, Siblings
<1>7. \A q \in Attempts : \A p \in Siblings(q)' : ~(Held(q)' /\ Held(p)')
  BY <1>4 DEF Held, Siblings
<1>8. ASSUME NEW q \in Attempts, Accepted(q)'
      PROVE  /\ Committed(request[q].attempt)'
             /\ request'[q].attempt \in {q} \cup Siblings(q)'
  <2>1. CASE q = r
    BY <1>1, <1>2, <1>4, <1>5, <2>1
  <2>2. CASE q # r
    BY <1>4, <1>8, <2>2 DEF Accepted, Siblings
  <2>3. QED
    BY <2>1, <2>2
<1>9. \A q \in Attempts : Committed(q)' \/ request'[q].code # "none" =>
                            request'[q].step = "answered"
  BY <1>4, <1>5
<1>10. QED
  BY <1>3, <1>6, <1>7, <1>8, <1>9

LEMMA InsertKeepsInvariant ==
  ASSUME IntakeInvariant, NEW r \in Attempts, Insert(r)
  PROVE  IntakeInvariant'
<1> USE DEF IntakeInvariant
<1>1. /\ phase' = phase /\ request[r].step = "admitted"
      /\ \A s \in Siblings(r) : ~Flushed(s)
  BY DEF Insert, shownVars, serviceVars
<1>2. ~Committed(r) /\ request[r].code = "none"
  BY <1>1
<1>3. PICK step, code, attempt :
        /\ request' = [request EXCEPT ![r].step = step, ![r].code = code,
                                      ![r].attempt = attempt]
        /\ attempt \in Attempts \cup {"none"}
        /\ \/ step = "answered" /\ code = "conflict" /\ \E s \in Siblings(r) : Committed(s)
           \/ step = "flushed" /\ code = "none" /\ \A s \in Siblings(r) : ~Committed(s)
  <2>1. CASE \E s \in Siblings(r) : Committed(s)
    BY <2>1 DEF Insert, Answer
  <2>2. CASE \A s \in Siblings(r) : ~Committed(s)
    <3>1. request' = [request EXCEPT ![r].step = "flushed"]
      BY <2>2 DEF Insert, Reaches
    <3>2. request' = [request EXCEPT ![r].step = "flushed",
             ![r].code = request[r].code, ![r].attempt = request[r].attempt]
      BY <3>1 DEF IntakeTypeOK
    <3>3. request[r].attempt \in Attempts \cup {"none"}
      BY DEF IntakeTypeOK
    <3>4. QED
      BY <1>2, <2>2, <3>2, <3>3
  <2>3. QED
    BY <2>1, <2>2
<1>4. IntakeTypeOK'
  <2>1. step \in Steps /\ code \in Codes
    BY <1>3 DEF Steps, Codes, Refused
  <2>2. QED
    BY <1>1, <1>3, <2>1, AnswersAreRequests DEF IntakeTypeOK
<1>5. \A q \in Attempts : /\ Siblings(q)' = Siblings(q)
                          /\ Committed(q)' <=> Committed(q)
                          /\ q # r => request'[q] = request[q]
  BY <1>1, <1>3, AnsweringKeepsSiblings DEF Committed, IntakeTypeOK
<1>6. request'[r].step = step /\ request'[r].code = code
  BY <1>3 DEF IntakeTypeOK
<1>7. \A q \in Attempts : q # r => (Flushed(q)' <=> Flushed(q))
  BY <1>5 DEF Flushed
<1>8. ConflictMeansSiblingOpened'
  <2> SUFFICES ASSUME NEW q \in Attempts, request'[q].code = "conflict"
               PROVE  ~Committed(q)' /\ \E s \in Siblings(q)' : Committed(s)'
    BY DEF ConflictMeansSiblingOpened
  <2>1. \A p : p \in Siblings(q) => p \in Attempts
    BY DEF Siblings
  <2>2. ~Committed(q) /\ \E s \in Siblings(q) : Committed(s)
    <3>1. CASE q = r
      BY <1>2, <1>3, <1>6, <3>1
    <3>2. CASE q # r
      BY <1>5, <3>2 DEF ConflictMeansSiblingOpened
    <3>3. QED
      BY <3>1, <3>2
  <2>3. QED
    BY <1>5, <2>1, <2>2
<1>9. Held(r)' => \A s \in Siblings(r) : ~Held(s)
  BY <1>1, <1>2, <1>3, <1>5, <1>6 DEF Held, Flushed
<1>10. \A q \in Attempts : \A p \in Siblings(q)' : ~(Held(q)' /\ Held(p)')
  BY <1>5, <1>7, <1>9, SiblingsAreAlike DEF Held, Siblings
<1>11. \A q \in Attempts : Committed(q)' \/ request'[q].code # "none" =>
                            request'[q].step = "answered"
  <2> SUFFICES ASSUME NEW q \in Attempts
               PROVE  Committed(q)' \/ request'[q].code # "none" =>
                        request'[q].step = "answered"
    OBVIOUS
  <2>1. CASE q = r
    BY <1>2, <1>3, <1>5, <1>6, <2>1
  <2>2. CASE q # r
    BY <1>5, <2>2
  <2>3. QED
    BY <2>1, <2>2
<1>12. ASSUME NEW q \in Attempts, Accepted(q)'
       PROVE  /\ Committed(request[q].attempt)'
              /\ request'[q].attempt \in {q} \cup Siblings(q)'
  <2>1. q # r
    BY <1>3, <1>6, <1>12 DEF Accepted
  <2>2. request'[q] = request[q] /\ Accepted(q)
    BY <1>5, <1>12, <2>1 DEF Accepted
  <2>3. request[q].attempt \in Attempts
    BY <2>2 DEF Siblings
  <2>4. QED
    BY <1>5, <2>2, <2>3
<1>13. QED
  BY <1>4, <1>8, <1>10, <1>11, <1>12

LEMMA CommitKeepsInvariant ==
  ASSUME IntakeInvariant, NEW r \in Attempts, Commit(r)
  PROVE  IntakeInvariant'
<1> USE DEF IntakeInvariant
<1>1. /\ Flushed(r)
      /\ phase' = [phase EXCEPT ![r] = "QUEUED"]
      /\ request' = [request EXCEPT ![r].step = "answered",
                       ![r].code = "accepted", ![r].attempt = r]
  BY DEF Commit, OpenShown, Open, Answer
<1>2. IntakeTypeOK'
  <2>1. phase' \in [Attempts -> Phases \cup {"ABSENT"}]
    BY <1>1 DEF IntakeTypeOK, Phases
  <2>2. "answered" \in Steps /\ "accepted" \in Codes
    BY DEF Steps, Codes
  <2>3. QED
    BY <1>1, <2>1, <2>2, AnswersAreRequests DEF IntakeTypeOK
<1>3. \A q \in Attempts : /\ Siblings(q)' = Siblings(q)
                          /\ q # r => /\ Committed(q)' <=> Committed(q)
                                      /\ Flushed(q)' <=> Flushed(q)
                                      /\ request'[q] = request[q]
  BY <1>1, AnsweringKeepsSiblings DEF Committed, Flushed, IntakeTypeOK
<1>4. /\ Committed(r)' /\ request'[r].step = "answered"
      /\ request'[r].code = "accepted" /\ request'[r].attempt = r
  BY <1>1 DEF Committed, IntakeTypeOK
<1>5. \A q \in Attempts : Committed(q) => Committed(q)'
  BY <1>3, <1>4
<1>6. ASSUME NEW q \in Attempts, NEW p \in Siblings(q)'
      PROVE  ~(Held(q)' /\ Held(p)')
  <2>1. p \in Siblings(q) /\ p \in Attempts
    BY <1>3 DEF Siblings
  <2>2. ~(Held(q) /\ Held(p))
    BY <2>1
  <2>3. \A x \in Attempts : Held(x)' => Held(x)
    BY <1>1, <1>3 DEF Held
  <2>4. QED
    BY <2>1, <2>2, <2>3
<1>7. ConflictMeansSiblingOpened'
  BY <1>3, <1>4, <1>5 DEF ConflictMeansSiblingOpened, Siblings
<1>8. ASSUME NEW q \in Attempts, Accepted(q)'
      PROVE  /\ Committed(request[q].attempt)'
             /\ request'[q].attempt \in {q} \cup Siblings(q)'
  BY <1>3, <1>4, <1>5, <1>8 DEF Accepted, Siblings
<1>9. \A q \in Attempts : Committed(q)' \/ request'[q].code # "none" =>
                            request'[q].step = "answered"
  BY <1>3, <1>4
<1>10. QED
  BY <1>2, <1>6, <1>7, <1>8, <1>9

-----------------------------------------------------------------------------

LEMMA IntakeInductive ==
  IntakeInvariant /\ [ConsoleNext]_vars => IntakeInvariant'
<1> SUFFICES ASSUME IntakeInvariant, [ConsoleNext]_vars PROVE IntakeInvariant'
  OBVIOUS
<1>1. ASSUME UNCHANGED apiVars PROVE IntakeInvariant'
  BY <1>1, UnchangedAddsNothing DEF apiVars, shownVars, serviceVars, intakeVars, IntakeInvariant,
     IntakeTypeOK, Committed
<1>2. ASSUME JudgingStep PROVE IntakeInvariant'
  BY <1>2, JudgingKeepsCommitted, UnchangedAddsNothing DEF IntakeInvariant
<1>3. ASSUME IntakeStep PROVE IntakeInvariant'
  BY <1>3, CrashKeepsInvariant, AnswerExistingKeepsInvariant,
     AdmitKeepsInvariant, InsertKeepsInvariant, CommitKeepsInvariant
     DEF IntakeStep
<1>4. ASSUME ServerStep PROVE IntakeInvariant'
  BY <1>2, <1>3, <1>4, SendKeepsInvariant DEF ServerStep
<1>5. ASSUME ConsoleStep PROVE IntakeInvariant'
  BY <1>1, <1>5 DEF ConsoleStep
<1>6. ASSUME ComposerStep PROVE IntakeInvariant'
  BY <1>1, <1>6, SendKeepsInvariant DEF ComposerStep, Submit, ReceiveAnswer, GiveUp
<1>7. CASE UNCHANGED vars
  BY <1>1, <1>7 DEF vars
<1>8. QED
  BY <1>4, <1>5, <1>6, <1>7 DEF ConsoleNext

THEOREM IntakeInvariantHolds == ConsoleSpec => []IntakeInvariant
BY IntakeInitially, IntakeInductive, PTL DEF ConsoleSpec

\* Requests with one key open one attempt and are answered with it, for every
\* number of requests, inputs and crashes.
THEOREM RequestKeyIsHonoured == ConsoleSpec => []KeyedRequestsAgree
BY IntakeInvariantHolds, InvariantImpliesAgreement, PTL

\* A request is refused for its key only beside the attempt it asked for.
THEOREM ConflictIsHarmless == ConsoleSpec => []ConflictMeansSiblingOpened
<1>1. IntakeInvariant => ConflictMeansSiblingOpened
  BY DEF IntakeInvariant
<1>2. QED
  BY <1>1, IntakeInvariantHolds, PTL

=============================================================================
