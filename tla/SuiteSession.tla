---------------------------- MODULE SuiteSession ----------------------------
(***************************************************************************)
(* SuiteSession.execute, as the worker calls it through evaluate_bundle:   *)
(* prepare the program, run the cases in the sandbox one after another     *)
(* until one is not accepted, and sum them up (core/session.py,            *)
(* core/engine.py, outer/compile.py).                                      *)
(***************************************************************************)
EXTENDS ProcessSandbox

VARIABLES
  cases,     \* each execution's case_results
  outcome    \* what each execution gave the worker: NoOutcome, Raised or a
             \* SuiteResult

sessionVars == <<cases, outcome>>
engineVars  == <<sandboxVars, sessionVars>>

NoOutcome == Unrun("none", 0)
Raised    == Unrun("raised", 0)   \* an exception: the worker's retry path

Interpreted == {"Python", "Bash"}
Compiled    == {"C++"}
\* Java, Rust, Go and SQL are supported languages without a preparer.

\* compile_source: a script is copied, C++ goes to g++, and anything else is
\* refused as if the compiler had rejected it.
Prepared(submission) ==
  \/ submission.language \in Interpreted
  \/ submission.language \in Compiled /\ submission.compiles

EngineInit ==
  /\ SandboxInit
  /\ cases = [e \in Executions |-> << >>]
  /\ outcome = [e \in Executions |-> NoOutcome]

Total == Len(program.tests)

Over(e, result) ==
  /\ call' = [call EXCEPT ![e].step = "over"]
  /\ outcome' = [outcome EXCEPT ![e] = result]

\* The suite is discovered and the program prepared.  g++ that is missing or
\* times out is a compilation error too; a source that cannot be copied and a
\* bundle that cannot be loaded raise.
Start(e) ==
  /\ call[e].step = "idle"
  /\ Cardinality({x \in Executions : call[x].step # "idle"}) < program.deliveries
  /\ \/ /\ Total = 0
        /\ Over(e, Unrun("INTERNAL_ERROR", 0))
        /\ Sound
     \/ /\ Total > 0 /\ Prepared(program)
        /\ call' = [call EXCEPT ![e].step = "called"]
        /\ Sound
        /\ UNCHANGED outcome
     \/ /\ Total > 0 /\ ~Prepared(program)
        /\ Over(e, Unrun("COMPILATION_ERROR", Total))
        /\ Sound
     \/ /\ Total > 0 /\ program.language \in Compiled
        /\ Over(e, Unrun("COMPILATION_ERROR", Total))
        /\ Fault
     \/ Over(e, Raised) /\ Fault
  /\ UNCHANGED <<program, isolation, leader, children, leaves, timer,
                 oomKilled, ran, unconfined, expiry, cases>>

\* A pipe in place of the output ends without a token, if it ends.
Written(t) == IF "out" \in Does(t).pipes THEN "wrong" ELSE Does(t).output

\* Reading a pipe that no one writes never returns, and no deadline is armed.
CannotRead(c, verdict) ==
  c \in ran /\ Previewed(verdict) \cap Does(c[2]).pipes # {}

\* What a case that came back from the sandbox may be given.  A checker script
\* that fails rejects the output; any other failure is caught and recorded.
MayGive(e, sound) ==
  LET c == call[e]
      output == Written(c.test)
  IN  IF c.step = "raised" THEN {"INTERNAL_ERROR"}
      ELSE IF sound THEN {CaseVerdict(c.seen, program.checker, output, TRUE)}
      ELSE IF from_process(c.seen) # "OK" THEN {}
      ELSE {CaseVerdict(c.seen, program.checker, output, program.checker # "custom"),
            "INTERNAL_ERROR"}

\* The rest of _execute_case and the loop of execute.
Judge(e) ==
  LET c == call[e]
  IN  /\ c.step \in {"returned", "raised"}
      /\ \E sound \in BOOLEAN : \E verdict \in MayGive(e, sound) :
           LET done == Append(cases[e], [status |-> verdict,
                                          enforced |-> c.seen.enforced])
               stops == verdict # "ACCEPTED" \/ c.test = Total
           IN  /\ ~CannotRead(Now(e), verdict)
               /\ IF sound THEN Sound ELSE Fault
               /\ cases' = [cases EXCEPT ![e] = done]
               /\ call' = [call EXCEPT ![e] =
                             IF stops THEN [NoCall EXCEPT !.step = "judged", !.test = c.test]
                             ELSE [NoCall EXCEPT !.step = "called", !.test = c.test + 1]]
      /\ UNCHANGED <<program, isolation, leader, children, leaves, timer,
                      oomKilled, ran, unconfined, expiry, outcome>>

\* _summarize, and the removal of the temporary work directory: a process
\* still writing there can make the removal raise, and the result is lost.
Report(e) ==
  /\ call[e].step = "judged"
  /\ \/ Over(e, Summary(cases[e], Total))
     \/ /\ \E child \in children : child.of[1] = e
        /\ Over(e, Raised)
  /\ UNCHANGED <<program, isolation, leader, children, leaves, timer,
                 oomKilled, ran, unconfined, expiry, faults, cases>>

-----------------------------------------------------------------------------

CallStep(e) ==
  \/ Allocate(e) \/ Launch(e) \/ Attach(e) \/ Observe(e) \/ Release(e)

HostStep ==
  \/ \E e \in Executions :
       CallStep(e) \/ ObserveFails(e) \/ Work(e) \/ Exit(e) \/ JailFails(e) \/ Crash(e)
  \/ \E c \in Cases : DeadlineSets(c) \/ DeadlineKills(c)

EngineNext ==
  \/ HostStep /\ UNCHANGED sessionVars
  \/ \E e \in Executions : Start(e) \/ Judge(e) \/ Report(e)

EngineSpec == EngineInit /\ [][EngineNext]_engineVars

\* A live worker goes on with what it does where the host does not fail, its
\* timers run out, and the kernel delivers their signals.  Nothing is asked of
\* the program.
EngineFairness ==
  /\ \A e \in Executions :
       WF_engineVars(/\ \/ CallStep(e) /\ UNCHANGED sessionVars
                        \/ Start(e) \/ Judge(e) \/ Report(e)
                     /\ Sound)
  /\ \A c \in Cases :
       /\ WF_engineVars(DeadlineSets(c) /\ UNCHANGED sessionVars)
       /\ WF_engineVars(DeadlineKills(c) /\ UNCHANGED sessionVars)

FairEngineSpec == EngineSpec /\ EngineFairness

=============================================================================
