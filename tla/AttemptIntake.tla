---------------------------- MODULE AttemptIntake ----------------------------
(***************************************************************************)
(* POST /attempts: AttemptService.create and the transaction around it.    *)
(* What becomes of an attempt after the commit is ShownService, whose      *)
(* Attempts are the requests here: an attempt is named by the request that *)
(* inserted it.  The rows of the transaction other than the attempt's are  *)
(* the subject of AttemptStore (StageInitial).                             *)
(***************************************************************************)
EXTENDS ShownService, FiniteSets

CONSTANTS
  Inputs,      \* what a client may post: source, challenge, runtime, headers
  DevAccount,  \* the account of settings.dev_handle, made by the lifespan
  MaxCrashes   \* how often the API is restarted with requests in flight

ASSUME VerdictsAreTerminal == Verdicts \subseteq TERMINAL_STATUSES
ASSUME MaxCrashesAssumption == MaxCrashes \in Nat

VARIABLES
  request,  \* the server's side of each request
  stamped,  \* the requests that were given a created_at, in that order
  crashes

intakeVars == <<request, stamped, crashes>>

NoKey   == "none"
Refused == {"invalid", "unknown", "conflict", "lost"}

Unsent == [step |-> "unsent", key |-> NoKey, code |-> "none", attempt |-> "none"]

IntakeInit ==
  /\ request = [r \in Attempts |-> Unsent]
  /\ stamped = <<>>
  /\ crashes = 0

\* The account named by its key, else by its handle, else the development one.
ResolveAccount(input) ==
  CASE input.actorKey \in Accounts -> input.actorKey
    [] input.actorKey \notin Accounts /\ input.handle \in Accounts -> input.handle
    [] OTHER -> DevAccount

\* The refusals of create, in its order.
Refusal(input) ==
  CASE input.source = "blank"          -> "invalid"
    [] input.challenge = "unknown"     -> "unknown"
    [] input.runtime = "disabled"      -> "invalid"
    [] input.key = "too long"          -> "invalid"
    [] OTHER                           -> "none"

\* Committed, or in a transaction whose insert was flushed.
Committed(r) == phase[r] # "ABSENT"
Flushed(r)   == request[r].step = "flushed"

\* The other requests with the account and the request key of this one.
Siblings(r) ==
  {s \in Attempts \ {r} :
     /\ request[r].key # NoKey
     /\ request[s].key = request[r].key
     /\ AccountOf[s] = AccountOf[r]}

Answer(r, code, attempt) ==
  [request EXCEPT ![r].step = "answered", ![r].code = code,
                  ![r].attempt = attempt]

Reaches(r, step) == request' = [request EXCEPT ![r].step = step]

Send(r, input) ==
  /\ request[r].step = "unsent"
  /\ ResolveAccount(input) = AccountOf[r]
  /\ request' = [request EXCEPT
       ![r] = IF Refusal(input) # "none"
              THEN [Unsent EXCEPT !.step = "answered", !.code = Refusal(input)]
              ELSE [Unsent EXCEPT !.step = "received", !.key = input.key]]
  /\ UNCHANGED <<stamped, crashes, shownVars>>

\* get_by_request_key finds what is committed: the answer is that attempt.
AnswerExisting(r) ==
  /\ request[r].step = "received"
  /\ \E s \in Siblings(r) :
       /\ Committed(s)
       /\ request' = Answer(r, "accepted", s)
  /\ UNCHANGED <<stamped, crashes, shownVars>>

\* It finds nothing: the new attempt takes its created_at.
Admit(r) ==
  /\ request[r].step = "received"
  /\ \A s \in Siblings(r) : ~Committed(s)
  /\ Reaches(r, "admitted")
  /\ stamped' = Append(stamped, r)
  /\ UNCHANGED <<crashes, shownVars>>

\* Mutant: no unique constraint on the account and the request key.
InsertUnconstrained(r) ==
  /\ request[r].step = "admitted"
  /\ Reaches(r, "flushed")
  /\ UNCHANGED <<stamped, crashes, shownVars>>

\* Mutant: the insert does not wait for a transaction that has the key.
InsertImpatient(r) ==
  /\ request[r].step = "admitted"
  /\ IF \E s \in Siblings(r) : Committed(s) \/ Flushed(s)
     THEN request' = Answer(r, "conflict", "none")
     ELSE Reaches(r, "flushed")
  /\ UNCHANGED <<stamped, crashes, shownVars>>

\* The flush of AttemptRepository.add under uq_attempt_actor_request: it waits
\* for a transaction that has inserted the same key, and fails once one has
\* committed.  The IntegrityError is not a TransactionConflict, which only
\* commit raises, so the handler of create never sees it.
Insert(r) ==
  /\ request[r].step = "admitted"
  /\ \A s \in Siblings(r) : ~Flushed(s)
  /\ IF \E s \in Siblings(r) : Committed(s)
     THEN request' = Answer(r, "conflict", "none")
     ELSE Reaches(r, "flushed")
  /\ UNCHANGED <<stamped, crashes, shownVars>>

Commit(r) ==
  /\ Flushed(r)
  /\ OpenShown(r)
  /\ request' = Answer(r, "accepted", r)
  /\ UNCHANGED <<stamped, crashes>>

\* The API dies: what is not committed is rolled back, and its clients get a
\* connection error.
CrashApi ==
  LET inFlight == {r \in Attempts :
                     request[r].step \in {"received", "admitted", "flushed"}}
  IN  /\ crashes < MaxCrashes
      /\ inFlight # {}
      /\ crashes' = crashes + 1
      /\ request' = [r \in Attempts |->
           IF r \in inFlight
           THEN [request[r] EXCEPT !.step = "answered", !.code = "lost"]
           ELSE request[r]]
      /\ UNCHANGED <<stamped, shownVars>>

IntakeStep ==
  \/ CrashApi
  \/ \E r \in Attempts : AnswerExisting(r) \/ Admit(r) \/ Insert(r) \/ Commit(r)

\* The judging of what was committed.
JudgingStep ==
  /\ \E a \in Attempts : JudgeShown(a)
  /\ UNCHANGED intakeVars

=============================================================================
