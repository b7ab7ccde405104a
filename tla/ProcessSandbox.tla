--------------------------- MODULE ProcessSandbox ---------------------------
(***************************************************************************)
(* One host that runs contestants' processes: ProcessSandbox.execute with  *)
(* its cgroup leaf, its launcher, its wall deadline and its observer, the  *)
(* process that runs, and the children it leaves (core/sandbox.py and      *)
(* platform/linux).                                                        *)
(*                                                                         *)
(* Several executions of one run key may be under way: the queue delivers  *)
(* at least once, and a worker that died leaves its host as it was.  They  *)
(* share the names of the cgroup leaves, <run_key>.<test>, and nothing     *)
(* else.  A process group is named by its leader, so a late kill reaches   *)
(* only what is left of that group: reuse of process ids is left out.      *)
(***************************************************************************)
EXTENDS VerdictPolicy

CONSTANTS
  Executions,    \* the deliveries of the run key that reach this host
  Submissions,   \* what evaluate_bundle may be called with: [language,
                 \* compiles, checker, use_cgroup, tests, deliveries]: tests
                 \* says what the program does on each case, use_cgroup is that of
                 \* the worker's settings, deliveries how often it is called
  Isolations,    \* the values of JUDGE_SANDBOX to consider
  MaxTests,      \* bound: cases of a suite
  MaxFaults      \* bound: failures of the host in a behaviour

\* What a program does with a case: the CPU time it takes with the children it
\* waits for, that of the children it does not (away), the memory, how it ends
\* if nothing stops it, what it leaves as its output ("gone": it removes the
\* file), which of the files of its work directory it replaces by a pipe that
\* no one writes, and whether children outlive it.
Behaviour == [cpu : Nat, away : Nat, mem : Nat,
              ends : Endings \cup {"never"},
              output : {"right", "wrong", "gone"},
              pipes : SUBSET {"out", "err", "next"}, forks : BOOLEAN]

ASSUME SubmissionsAssumption ==
  \A s \in Submissions : s.tests \in Seq(Behaviour) /\ Len(s.tests) <= MaxTests

ASSUME BoundsAssumption == MaxTests \in Nat \ {0} /\ MaxFaults \in Nat

\* resolve_isolation_mode raises for any other value.
ASSUME IsolationsAssumption == Isolations \subseteq {"none", "bwrap"}

VARIABLES
  program,    \* the submission under judgement
  isolation,  \* resolve_isolation_mode: "none" or "bwrap"
  call,       \* each execution's call of ProcessSandbox.execute
  leader,     \* the process each execution launched last
  children,   \* live processes the leaders forked
  leaves,     \* the tests whose cgroup leaf exists
  timer,      \* each case's DeadlineGuard: "off", "armed", "expiring" from the
              \* moment _fired is set, "expired" after the kill, and "late"
              \* when the call has gone on while it was expiring
  oomKilled,  \* cases in which the kernel killed for memory.max
  ran,        \* cases whose program ran at all
  unconfined, \* cases whose program ran before it was in the leaf
  expiry,     \* how the deadline of each case found its process: "never" if
              \* it did not go off, "running", or "ended" and not yet reaped
  faults      \* failures of the host so far

sandboxVars == <<program, isolation, call, leader, children, leaves, timer,
                 oomKilled, ran, unconfined, expiry, faults>>

Tests == 1..MaxTests
Cases == Executions \X Tests

Does(t) == program.tests[t]
Now(e)  == <<e, call[e].test>>
Alive(e) == leader[e].state \in {"new", "running"}

NotSeen == [ending |-> "zero", cpu |-> 0, mem |-> 0,
            byWall |-> FALSE, byOom |-> FALSE, enforced |-> FALSE]
NoCall   == [step |-> "idle", test |-> 1, leased |-> FALSE, seen |-> NotSeen]
NoLeader == [state |-> "none", ending |-> "zero", cpu |-> 0, mem |-> 0,
             inLeaf |-> FALSE, charged |-> FALSE]

\* The host fails once more.
Fault == faults < MaxFaults /\ faults' = faults + 1
Sound == UNCHANGED faults

SandboxInit ==
  /\ program \in Submissions
  /\ isolation \in Isolations
  /\ call = [e \in Executions |-> NoCall]
  /\ leader = [e \in Executions |-> NoLeader]
  /\ children = {}
  /\ leaves = {}
  /\ timer = [c \in Cases |-> "off"]
  /\ oomKilled = {}
  /\ ran = {}
  /\ unconfined = {}
  /\ expiry = [c \in Cases |-> "never"]
  /\ faults = 0

-----------------------------------------------------------------------------
(* Processes and the kernel.                                               *)

ChildrenOf(c) == {child \in children : child.of = c}

\* --unshare-pid: the namespace dies with its first process.
Orphans(c) == IF isolation = "bwrap" THEN {} ELSE ChildrenOf(c)

Dead(process, ending) == [process EXCEPT !.state = "ended", !.ending = ending]

\* Under bwrap the process that is launched and waited for is bwrap itself,
\* which exits with a code of its own where a signal ends the program.
Passed(ending) ==
  IF isolation = "bwrap" /\ ending = "signal" THEN "nonzero" ELSE ending

\* The program computes, takes its memory and forks.  What it takes in the
\* leaf is held to memory.max: over it, the kernel kills the process.
Work(e) ==
  LET p == Does(call[e].test)
      killed == leader[e].inLeaf /\ p.mem > MemoryLimit
      worked == [leader[e] EXCEPT !.state = "running", !.cpu = p.cpu,
                                  !.mem = IF killed THEN MemoryLimit ELSE p.mem,
                                  !.charged = leader[e].inLeaf]
  IN  /\ leader[e].state = "new"
      /\ leader' = [leader EXCEPT ![e] =
                      IF killed THEN Dead(worked, Passed("signal")) ELSE worked]
      /\ oomKilled' = IF killed THEN oomKilled \cup {Now(e)} ELSE oomKilled
      /\ ran' = ran \cup {Now(e)}
      /\ unconfined' = IF leader[e].inLeaf THEN unconfined
                       ELSE unconfined \cup {Now(e)}
      /\ children' = IF p.forks /\ ~killed
                     THEN children \cup {[of |-> Now(e), inLeaf |-> leader[e].inLeaf]}
                     ELSE children
      /\ UNCHANGED <<program, isolation, call, leaves, timer, expiry, faults>>

Exit(e) ==
  LET p == Does(call[e].test)
  IN  /\ leader[e].state = "running"
      /\ p.ends # "never"
      /\ leader' = [leader EXCEPT ![e] = Dead(@, Passed(p.ends))]
      /\ children' = (children \ ChildrenOf(Now(e))) \cup Orphans(Now(e))
      /\ UNCHANGED <<program, isolation, call, leaves, timer,
                     oomKilled, ran, unconfined, expiry, faults>>

\* bwrap has started and cannot go on: no namespace, a mount that fails, a
\* program that cannot be executed.  It exits with 1 and the program never runs.
JailFails(e) ==
  /\ isolation = "bwrap"
  /\ leader[e].state = "new"
  /\ leader' = [leader EXCEPT ![e] = Dead(@, "nonzero")]
  /\ Fault
  /\ UNCHANGED <<program, isolation, call, children, leaves, timer,
                 oomKilled, ran, unconfined, expiry>>

-----------------------------------------------------------------------------
(* DeadlineGuard: a thread of its own, which cancel cannot stop once       *)
(* _expire has begun.                                                      *)

DeadlineSets(c) ==
  /\ timer[c] = "armed"
  /\ timer' = [timer EXCEPT ![c] = "expiring"]
  /\ expiry' = [expiry EXCEPT ![c] = IF Alive(c[1]) THEN "running" ELSE "ended"]
  /\ UNCHANGED <<program, isolation, call, leader, children, leaves,
                 oomKilled, ran, unconfined, faults>>

AfterKill(state) == IF state = "late" THEN "off" ELSE "expired"

\* Mutant: killpg reaches nothing.
DeadlineMisses(c) ==
  /\ timer[c] \in {"expiring", "late"}
  /\ timer' = [timer EXCEPT ![c] = AfterKill(@)]
  /\ UNCHANGED <<program, isolation, call, leader, children, leaves,
                 oomKilled, ran, unconfined, expiry, faults>>

\* os.killpg(pgid, SIGKILL)
DeadlineKills(c) ==
  LET e == c[1]
      running == call[e].test = c[2] /\ Alive(e)
  IN  /\ timer[c] \in {"expiring", "late"}
      /\ timer' = [timer EXCEPT ![c] = AfterKill(@)]
      /\ leader' = IF running THEN [leader EXCEPT ![e] = Dead(@, "signal")]
                   ELSE leader
      /\ children' = children \ ChildrenOf(c)
      /\ UNCHANGED <<program, isolation, call, leaves, oomKilled,
                     ran, unconfined, expiry, faults>>

-----------------------------------------------------------------------------
(* ProcessSandbox.execute, one call after another for each execution.      *)

\* Mutant: leaf.mkdir(exist_ok=True).
AllocateShared(e) ==
  /\ call[e].step = "called"
  /\ leaves' = leaves \cup {call[e].test}
  /\ call' = [call EXCEPT ![e].step = "allocated", ![e].leased = TRUE]
  /\ UNCHANGED <<program, isolation, leader, children, timer,
                 oomKilled, ran, unconfined, expiry, faults>>

\* _allocate_cgroup, if it is called at all: a leaf of the same name, or any
\* failure of the host, leaves the case without a lease.
Allocate(e) ==
  LET t == call[e].test
  IN  /\ call[e].step = "called"
      /\ \/ /\ program.use_cgroup /\ t \notin leaves
            /\ leaves' = leaves \cup {t}
            /\ call' = [call EXCEPT ![e].step = "allocated", ![e].leased = TRUE]
            /\ Sound
         \/ /\ IF program.use_cgroup /\ t \notin leaves THEN Fault ELSE Sound
            /\ call' = [call EXCEPT ![e].step = "allocated", ![e].leased = FALSE]
            /\ UNCHANGED leaves
      /\ UNCHANGED <<program, isolation, leader, children, timer,
                     oomKilled, ran, unconfined, expiry>>

\* The program of the case before has put a pipe where the output of this case
\* goes: opening it to write waits for a reader.
CannotOpen(c) ==
  c[2] > 1 /\ <<c[1], c[2] - 1>> \in ran /\ "next" \in Does(c[2] - 1).pipes

\* ProcessLauncher.launch: no bwrap, no descriptor, no process.
Launch(e) ==
  /\ call[e].step = "allocated"
  /\ ~CannotOpen(Now(e))
  /\ \/ /\ leader' = [leader EXCEPT ![e] = [NoLeader EXCEPT !.state = "new"]]
        /\ call' = [call EXCEPT ![e].step = "launched"]
        /\ Sound
     \/ /\ call' = [call EXCEPT ![e].step = "failed"]
        /\ Fault
        /\ UNCHANGED leader
  /\ UNCHANGED <<program, isolation, children, leaves, timer,
                 oomKilled, ran, unconfined, expiry>>

\* attach and arm.  The process has been running since it was launched: what
\* it took and forked stays where it was, and one that has ended may be gone.
Attach(e) ==
  LET joins(enforced) ==
        /\ call' = [call EXCEPT ![e].step = "waiting",
                                ![e].seen = [NotSeen EXCEPT !.enforced = enforced]]
        /\ leader' = [leader EXCEPT ![e].inLeaf = enforced /\ Alive(e)]
  IN  /\ call[e].step = "launched"
      /\ \/ call[e].leased /\ joins(TRUE) /\ Sound
         \/ /\ joins(FALSE)
            /\ IF call[e].leased /\ Alive(e) THEN Fault ELSE Sound
      /\ timer' = [timer EXCEPT ![Now(e)] = "armed"]
      /\ UNCHANGED <<program, isolation, children, leaves, oomKilled,
                     ran, unconfined, expiry>>

Fired(c) == timer[c] \in {"expiring", "expired"}
AfterCancel(state) == IF state = "expiring" THEN "late" ELSE "off"

\* Mutant: deadline.fired is passed by value, as it was when it was armed.
ObserveEarly(e) ==
  /\ call[e].step = "waiting"
  /\ leader[e].state = "ended"
  /\ call' = [call EXCEPT ![e].step = "observed",
                          ![e].seen.ending = leader[e].ending]
  /\ leader' = [leader EXCEPT ![e] = NoLeader]
  /\ timer' = [timer EXCEPT ![Now(e)] = AfterCancel(@)]
  /\ UNCHANGED <<program, isolation, children, leaves, oomKilled, ran,
                 unconfined, expiry, faults>>

\* The rusage that wait4 gives counts the process and the children it waited
\* for.  bwrap may leave without waiting for what it started.
Counted(x) == IF isolation = "bwrap" THEN {0, x} ELSE {x}

\* LinuxProcessObserver.observe: os.wait4, the peak of the leaf (ru_maxrss
\* where there is no leaf or memory.peak cannot be read), and only then
\* wall_expired(); and cancel, which a timer that is expiring outlives.
Observe(e) ==
  LET saw(peaks) ==
        \E cpu \in Counted(leader[e].cpu) : \E mem \in peaks :
          call' = [call EXCEPT ![e].step = "observed",
                     ![e].seen = [@ EXCEPT !.ending = leader[e].ending,
                                           !.cpu = cpu, !.mem = mem,
                                           !.byWall = Fired(Now(e))]]
  IN  /\ call[e].step = "waiting"
      /\ leader[e].state = "ended"
      /\ leader' = [leader EXCEPT ![e] = NoLeader]
      /\ timer' = [timer EXCEPT ![Now(e)] = AfterCancel(@)]
      /\ \/ /\ call[e].seen.enforced
            /\ saw({IF leader[e].charged THEN leader[e].mem ELSE 0})
            /\ Sound
         \/ /\ saw(Counted(leader[e].mem))
            /\ IF call[e].seen.enforced THEN Fault ELSE Sound
      /\ UNCHANGED <<program, isolation, children, leaves, oomKilled, ran,
                     unconfined, expiry>>

\* arm or observe raises: what is left of the group is killed, and the error
\* goes to the caller once the deadline is cancelled and the leaf released.
ObserveFails(e) ==
  /\ call[e].step \in {"launched", "waiting"}
  /\ Fault
  /\ call' = [call EXCEPT ![e].step = "failed"]
  /\ leader' = [leader EXCEPT ![e] = NoLeader]
  /\ children' = IF Alive(e) THEN children \ ChildrenOf(Now(e)) ELSE children
  /\ timer' = [timer EXCEPT ![Now(e)] = AfterCancel(@)]
  /\ UNCHANGED <<program, isolation, leaves, oomKilled, ran, unconfined,
                 expiry>>

Members(c) == {child \in ChildrenOf(c) : child.inLeaf}

\* Mutant: the leaf is removed without cgroup.kill.
ReleaseWithoutKill(e) ==
  /\ call[e].step \in {"observed", "failed"}
  /\ call' = [call EXCEPT ![e].step = IF @ = "failed" THEN "raised" ELSE "returned"]
  /\ leaves' = leaves \ {call[e].test}
  /\ UNCHANGED <<program, isolation, leader, children, timer,
                 oomKilled, ran, unconfined, expiry, faults>>

\* LinuxCgroupV2.release: kill the members and remove the leaf.  Members that
\* do not die in time keep the leaf, and the error is swallowed.
Release(e) ==
  /\ call[e].step \in {"observed", "failed"}
  /\ call' = [call EXCEPT ![e].step = IF @ = "failed" THEN "raised" ELSE "returned"]
  /\ \/ /\ ~call[e].leased
        /\ Sound
        /\ UNCHANGED <<children, leaves>>
     \/ /\ call[e].leased
        /\ children' = children \ Members(Now(e))
        /\ leaves' = leaves \ {call[e].test}
        /\ Sound
     \/ /\ call[e].leased
        /\ \E left \in SUBSET Members(Now(e)) :
             children' = (children \ Members(Now(e))) \cup left
        /\ Fault
        /\ UNCHANGED leaves
  /\ UNCHANGED <<program, isolation, leader, timer, oomKilled, ran,
                 unconfined, expiry>>

\* The worker dies in the middle of a suite.  Its threads go with it; its
\* processes stay, unless bwrap was told to die with its parent.
Crash(e) ==
  /\ call[e].step \notin {"idle", "over", "crashed"}
  /\ Fault
  /\ call' = [call EXCEPT ![e].step = "crashed"]
  /\ timer' = [c \in Cases |-> IF c[1] = e THEN "off" ELSE timer[c]]
  /\ IF isolation = "bwrap"
     THEN /\ leader' = [leader EXCEPT ![e] = NoLeader]
          /\ children' = {child \in children : child.of[1] # e}
     ELSE UNCHANGED <<leader, children>>
  /\ UNCHANGED <<program, isolation, leaves, oomKilled, ran, unconfined,
                 expiry>>

=============================================================================
