--------------------------- MODULE VerdictPolicy ---------------------------
(***************************************************************************)
(* How the execution engine turns what it saw of a process into a verdict, *)
(* and the verdicts of the cases into the result of the suite              *)
(* (core/verdicts.py, core/checking.py, core/session.py, and the worker's  *)
(* evaluation_report.py).                                                  *)
(*                                                                         *)
(* CPU time and memory are small numbers in the units of the limits.       *)
(* Messages, previews and the maxima of the report are left out.           *)
(***************************************************************************)
EXTENDS Naturals, Sequences, FiniteSets

CONSTANTS
  TimeLimit,     \* ExecutionLimits.time_limit_ms, the CPU budget of a case
  MemoryLimit    \* ExecutionLimits.memory_limit_mb

ASSUME LimitsAssumption == TimeLimit \in Nat /\ MemoryLimit \in Nat

CaseVerdicts ==
  {"ACCEPTED", "WRONG_ANSWER", "TIME_LIMIT", "MEMORY_LIMIT",
   "RUNTIME_ERROR", "INTERNAL_ERROR"}

SuiteVerdicts == CaseVerdicts \cup {"COMPILATION_ERROR"}

\* How a process ends: exit code 0, another exit code, or a signal.
Endings == {"zero", "nonzero", "signal"}

SandboxResult ==
  [ending : Endings, cpu : Nat, mem : Nat,
   byWall : BOOLEAN, byOom : BOOLEAN, enforced : BOOLEAN]

\* Mutant: the enforced budgets are forgotten.
from_exit(seen) ==
  IF seen.byOom THEN "MEMORY_LIMIT"
  ELSE IF seen.byWall THEN "TIME_LIMIT"
  ELSE IF seen.ending # "zero" THEN "RUNTIME_ERROR"
  ELSE "OK"

\* VerdictPolicy.from_process: the first rule that applies.
from_process(seen) ==
  IF seen.byOom THEN "MEMORY_LIMIT"
  ELSE IF seen.byWall THEN "TIME_LIMIT"
  ELSE IF seen.enforced /\ seen.cpu > TimeLimit THEN "TIME_LIMIT"
  ELSE IF seen.enforced /\ seen.mem > MemoryLimit THEN "MEMORY_LIMIT"
  ELSE IF seen.ending # "zero" THEN "RUNTIME_ERROR"
  ELSE "OK"

\* checker_for(spec).check: the token checker compares the outputs and raises
\* where there is none (SuiteSession, MayGive).  The custom checker runs a script
\* with a timeout of its own, and a script that is missing, times out, fails or
\* prints no number rejects the output, as does a checker of an unknown kind.
Accepts(kind, output, scriptWorks) ==
  CASE kind = "token"  -> output = "right"
    [] kind = "custom" -> scriptWorks /\ output = "right"
    [] OTHER           -> FALSE

\* Mutant: the policy's OK is recorded as the status of the case.
UncheckedVerdict(seen, kind, output, scriptWorks) == from_process(seen)

\* SuiteSession._execute_case, after the sandbox has returned.
CaseVerdict(seen, kind, output, scriptWorks) ==
  IF from_process(seen) # "OK" THEN from_process(seen)
  ELSE IF kind = "token" /\ output = "gone" THEN "INTERNAL_ERROR"
  ELSE IF Accepts(kind, output, scriptWorks) THEN "ACCEPTED"
  ELSE "WRONG_ANSWER"

\* The previews: what the process wrote is read to the end where it failed.
Previewed(verdict) ==
  CASE verdict \in {"WRONG_ANSWER", "RUNTIME_ERROR"} -> {"out", "err"}
    [] verdict \in {"TIME_LIMIT", "MEMORY_LIMIT"}    -> {"err"}
    [] OTHER                                         -> {}

Failures(cases) == {i \in DOMAIN cases : cases[i].status # "ACCEPTED"}

FirstFailure(cases) ==
  CHOOSE i \in Failures(cases) : \A j \in Failures(cases) : i <= j

\* SuiteSession._summarize and build_evaluation_report: the first case that
\* is not accepted gives the suite its status and the report its failure.
Summary(cases, total) ==
  [status |-> IF Failures(cases) = {} THEN "ACCEPTED"
              ELSE cases[FirstFailure(cases)].status,
   passed |-> Cardinality(DOMAIN cases \ Failures(cases)),
   total  |-> total,
   failure |-> IF Failures(cases) = {} THEN 0 ELSE FirstFailure(cases)]

\* A suite that ends before its first case: nothing to run, or no program.
Unrun(status, total) ==
  [status |-> status, passed |-> 0, total |-> total, failure |-> 0]

=============================================================================
