---------------------------- MODULE AttemptViews ----------------------------
(***************************************************************************)
(* What the public API shows of attempts (http/presenters.py) and how a    *)
(* listing is cut into pages (AttemptRepository.page): pure operators.     *)
(***************************************************************************)
EXTENDS Integers, Sequences

PublicPhase ==
  [QUEUED |-> "waiting", RUNNING |-> "executing", ACCEPTED |-> "passed",
   WRONG_ANSWER |-> "wrong_output", TIME_LIMIT |-> "time_exceeded",
   MEMORY_LIMIT |-> "memory_exceeded", RUNTIME_ERROR |-> "runtime_failed",
   COMPILATION_ERROR |-> "build_failed", INTERNAL_ERROR |-> "platform_failed",
   WRONG_EXTENSION |-> "artifact_rejected"]

public_phase(internal) == PublicPhase[internal]

\* A filter of a listing.  A name the table does not have is passed on as it
\* is, in upper case, and selects nothing unless it is an internal phase.
internal_phase(public) ==
  IF \E p \in DOMAIN PublicPhase : PublicPhase[p] = public
  THEN CHOOSE p \in DOMAIN PublicPhase : PublicPhase[p] = public
  ELSE public

\* The console's own list of the phases after which it stops polling.
FINISHED ==
  {"passed", "wrong_output", "time_exceeded", "memory_exceeded",
   "runtime_failed", "build_failed", "platform_failed", "artifact_rejected"}

-----------------------------------------------------------------------------
(* Pages.                                                                   *)

Least(m, n) == IF m <= n THEN m ELSE n
Most(m, n)  == IF m >= n THEN m ELSE n

PageLength(size) == Least(Most(size, 1), 100)

\* math.ceil of a quotient; an empty listing has one page.
PageCount(total, size) ==
  Most(1, (total + PageLength(size) - 1) \div PageLength(size))

\* The page that is given for the one that was asked for.
CurrentPage(index, total, size) ==
  Least(Most(index, 1), PageCount(total, size))

Offset(index, total, size) ==
  (CurrentPage(index, total, size) - 1) * PageLength(size)

\* The rows of a query that are in a set, in their order: SelectSeq as a
\* function the proofs can reason about.
Where(rows, wanted) ==
  LET found[n \in 0..Len(rows)] ==
        IF n = 0 THEN <<>>
        ELSE IF rows[n] \in wanted THEN Append(found[n - 1], rows[n])
        ELSE found[n - 1]
  IN  found[Len(rows)]

PageOf(rows, index, size) ==
  LET first == Offset(index, Len(rows), size)
  IN  SubSeq(rows, first + 1, Least(first + PageLength(size), Len(rows)))

=============================================================================
