-------------------------- MODULE SuiteProperties --------------------------
(***************************************************************************)
(* What the verdicts of the engine may be relied on for, and what an       *)
(* execution leaves on its host.                                           *)
(***************************************************************************)
EXTENDS SuiteSession

Steps == {"idle", "called", "allocated", "launched", "waiting",
          "observed", "failed", "returned", "raised", "judged", "over", "crashed"}

SuiteResult ==
  [status : SuiteVerdicts, passed : 0..MaxTests, total : 0..MaxTests,
   failure : 0..MaxTests]

\* The steps, processes, leaves, timers and results are what the code holds.
SuiteTypeOK ==
  /\ \A e \in Executions :
       /\ call[e].step \in Steps
       /\ call[e].test \in Tests
       /\ call[e].leased \in BOOLEAN
       /\ call[e].seen \in SandboxResult
       /\ leader[e].state \in {"none", "new", "running", "ended"}
       /\ leader[e].ending \in Endings
       /\ outcome[e] \in SuiteResult \cup {NoOutcome, Raised}
       /\ Len(cases[e]) <= MaxTests
       /\ \A i \in DOMAIN cases[e] : cases[e][i].status \in CaseVerdicts
  /\ \A child \in children : child.of \in Cases /\ child.inLeaf \in BOOLEAN
  /\ leaves \subseteq Tests
  /\ \A c \in Cases : timer[c] \in {"off", "armed", "expiring", "expired", "late"}
  /\ oomKilled \cup ran \cup unconfined \subseteq Cases
  /\ \A c \in Cases : expiry[c] \in {"never", "running", "ended"}
  /\ faults \in 0..MaxFaults

Judged == {c \in Cases : c[2] \in DOMAIN cases[c[1]]}
StatusOf(c) == cases[c[1]][c[2]].status
Enforced(c) == cases[c[1]][c[2]].enforced

\* A suite is ACCEPTED only when there was something to run and the program
\* did it: it ended by itself on every case with the right output, and within
\* the budget wherever the budget was enforced.  The CPU time is what wait4
\* counts, that of the program and of the children it waited for, and not even
\* that is sure to be seen through bwrap; the memory is what it took once it was
\* in the leaf.
AcceptedIsEarned ==
  \A e \in Executions :
    outcome[e].status = "ACCEPTED" =>
      /\ Total > 0
      /\ outcome[e].passed = Total
      /\ \A t \in 1..Total :
           /\ Does(t).ends = "zero"
           /\ Written(t) = "right"
           /\ Enforced(<<e, t>>) =>
                /\ Does(t).cpu <= TimeLimit \/ isolation = "bwrap"
                /\ Does(t).mem <= MemoryLimit \/ <<e, t>> \in unconfined

\* A program is blamed only for what it did.  Whoever kills it, the verdict is
\* not a runtime error unless it failed, the kernel killed it for its memory, or
\* bwrap failed in its place.  It is over its time only if it took more than an
\* enforced budget or its deadline went off before the observer had reaped it,
\* and over its memory only where that was enforced.  A program that is right is
\* never told that its answer is wrong, unless the checker's own script failed
\* or the bundle names no checker there is; and what is told as a failure of the
\* engine is one, or an output file that the program removed.
BlameIsDeserved ==
  /\ \A c \in Judged :
       /\ StatusOf(c) = "WRONG_ANSWER" =>
            \/ Written(c[2]) # "right"
            \/ program.checker = "custom" /\ faults > 0
            \/ program.checker \notin {"token", "custom"}
       /\ StatusOf(c) = "RUNTIME_ERROR" =>
            \/ Does(c[2]).ends \in {"nonzero", "signal"}
            \/ c \in oomKilled
            \/ isolation = "bwrap" /\ faults > 0
       /\ StatusOf(c) = "TIME_LIMIT" =>
            \/ Enforced(c) /\ Does(c[2]).cpu > TimeLimit
            \/ expiry[c] # "never"
       /\ StatusOf(c) = "MEMORY_LIMIT" =>
            Enforced(c) /\ Does(c[2]).mem > MemoryLimit
       /\ StatusOf(c) = "INTERNAL_ERROR" =>
            \/ faults > 0
            \/ program.checker = "token" /\ Written(c[2]) = "gone"
  /\ \A e \in Executions :
       outcome[e].status = "COMPILATION_ERROR" =>
         ~Prepared(program) \/ faults > 0

Holds(e, t) ==
  /\ call[e].leased /\ call[e].test = t
  /\ call[e].step \in {"allocated", "launched", "waiting", "observed", "failed"}

\* Executions of one run key share the names of their leaves and yet never a
\* leaf, so that none kills or measures the processes of another; and a leaf
\* outlives its holder only on a host that failed.
LeafHasOneHolder ==
  /\ \A e1, e2 \in Executions : \A t \in Tests :
       Holds(e1, t) /\ Holds(e2, t) => e1 = e2
  /\ \A t \in leaves : faults > 0 \/ \E e \in Executions : Holds(e, t)

\* What a case forked does not survive it, unless the program ran before it was
\* in the leaf, if it ever was, or the leaf could not be emptied.  Under bwrap
\* nothing survives at all.
CasesLeaveNothing ==
  \A child \in children :
    child.of \in Judged =>
      /\ isolation = "none"
      /\ child.of \in unconfined \/ child.of[2] \in leaves

\* The result of a suite is lost, and its command judged again, only on a host
\* that failed or where a program ran outside the leaf: nothing else is left to
\* disturb the removal of the work directory.
ResultLostForAReason ==
  \A e \in Executions :
    outcome[e] = Raised =>
      faults > 0 \/ \E t \in Tests : <<e, t>> \in unconfined

\* Every execution that starts ends, whether the program ends or not, if it
\* leaves its files files: its worker dies, or has a result or an exception to
\* go on with.
EveryExecutionEnds ==
  \A e \in Executions :
    /\ call[e].step = "called"
    /\ \A t \in 1..Total : Does(t).pipes = {}
    ~> call[e].step \in {"over", "crashed"}

-----------------------------------------------------------------------------
(* What docs/LIMITS.md says of the verdicts.                                *)

\* A process the kernel kills for memory is given MEMORY_LIMIT.
OomIsMemoryLimit ==
  \A c \in Judged \cap oomKilled : StatusOf(c) = "MEMORY_LIMIT"

=============================================================================
